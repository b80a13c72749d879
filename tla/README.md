# TLA+ models of TRAK-OS

TRAK-OS is a 32-bit kernel with one thread: `kernel_main` initialises the
drivers and never leaves the shell, which reads keys, runs a command and reads
keys again. The only concurrency is with interrupts (the timer's IRQ0 and the
keyboard's IRQ1), and the build switch `SAFE_MODE` in `kernel.c` decides whether
they are ever enabled. This directory models the parts that keep state, checks
them with TLC and proves the main results with TLAPS.

Line numbers below are those of `src/` in the repository.

## Inventory

| part | state | operations | talks to | what makes it correct |
|---|---|---|---|---|
| heap, `mm/memory.c` | block headers inside the heap (size, is_free, next, prev), `total_allocated`, `memory_initialized` | memory_init, kmalloc, kfree, krealloc, statistics | called by fs_init and memtest | blocks tile the heap, do not overlap, are coalesced; nothing leaks; a client has the bytes it asked for |
| file system, `lib/filesystem.c` | 32 entries, 32 slots of 1024 bytes, counters, 8 handles | fs_init, create, delete, open, close, read, write, seek, list, info, exists, size | kmalloc, timer_get_ticks, the screen | access stays in the slot of its file, names are unique, counters count |
| shell file commands, `shell.c` 316-461 | none of their own | create, delete, cat, edit, ls, fsinfo | file system, keyboard (edit) | the user sees a store of named texts; no handle leaks |
| timer, `drivers/timer/timer.c` | `timer_ticks` | timer_init, timer_handler (IRQ0), timer_wait, timer_sleep | CPU interrupt flag, `hlt` | a sleep returns, neither early nor late |
| keyboard, `drivers/keyboard/keyboard.c` | shift_pressed, ctrl_pressed, last_key, key_available | keyboard_handler (IRQ1), keyboard_getchar (polling) | 8042 controller | the shell receives what was typed |
| shell line editor, `shell.c` 27-165, 551-594 | command_buffer, buffer_index | type, backspace, tab completion, enter, parse, dispatch | keyboard, screen | what is executed is what is on the screen |
| screen, `drivers/screen/screen.c` | cursor, colour, 80x25 cells | putchar, print, scroll, clear | VGA memory | cursor stays on the screen, lines scroll in order |
| boot and interrupt table, `kernel.c`, `idt.c`, `arch/x86` | interrupt flag, IDT, PIC masks | init calls in order, sti | all drivers | nothing is used before it is initialised |

What is hard to test here: sequences of allocations that lead through every
branch of the merges; handles that outlive their file; tables, slots and counters
at their limit; interrupts between two instructions of a polling loop; the wrap
of 32-bit numbers; what has to happen eventually (a sleep that returns). The
hazards are listed one by one, at their lines, in `PROJECT.json`.

## Modules

| module | models | remarks |
|---|---|---|
| `Heap` | `memory.c`, memtest | functions as operators from heap to heap, actions are whole calls |
| `MCHeap` | - | instance |
| `HeapProofs` | - | theorems about `Heap` |
| `FoldProofs` | - | lemmas: induction, recursive functions, and what folds over sets and sequences compute |
| `FileSystem` | `filesystem.c` | same style; actions are calls by any client |
| `MCFileSystem` | - | instance |
| `FileSystemProofs` | - | theorems about `FileSystem` |
| `FileStore` | - | abstract: what the file commands promise |
| `ShellFiles` | file commands of `shell.c` | composes `FileSystem`'s operators; refines `FileStore` |
| `MCShellFiles` | - | instance |
| `ShellFilesProofs` | - | theorems about `ShellFiles` |
| `Timer` | `timer.c`, `timer_entry.s`, interrupt flag | |
| `TimerProofs` | - | theorems about `Timer` and `Uptime` |
| `KeyChannel` | - | abstract: a channel of characters |
| `Keyboard` | `keyboard.c` against the 8042 | refines `KeyChannel` |
| `KeyboardProofs` | - | theorems about `Keyboard` |
| `KeyMap` | process_scancode with its full tables | against the keys of `keyboard.h` |
| `Screen` | `screen.c` | functions as operators from screen to screen |
| `Paper` | - | abstract: the teletype that a caller of the screen expects |
| `ScreenHistory` | - | `Screen` with the lines that scrolled off; refines `Paper` |
| `Shell` | line editor, completion, parsing and dispatch of `shell.c` | composes `Screen`'s operators |
| `MCShell` | - | instances |
| `ScreenProofs` | - | theorems about `Screen`, `ScreenHistory` and `Shell` |
| `Kernel` | `boot.s`, `kernel_main`, `idt.c`, both entry codes | composes `Heap` with CPU, PIC, keyboard and clock |
| `MCKernel` | - | instance |
| `KernelProofs` | - | theorems about `Kernel`, from the lemmas of `HeapProofs` |
| `Uptime` | time and uptime of `shell.c` with print_number | extends `Timer` |

Operators whose name begins with `Bug_` are deliberate mistakes. No action uses
them; each is a plausible slip in the definition after it, and substituting it
there must break the property it is listed with in `PROJECT.json`.

### Heap

`heap.mem` maps the address of each header to its contents and `heap.list` is the
set of those that are linked; headers that a merge has unlinked stay in `mem`
until a client's data may overwrite them (`Hand`), because a second `kfree` still
reads them. `FirstFit` picks the lowest block that fits, which is what the walk
of kmalloc (`Walk`) finds because it meets the blocks in address order
(`WalkMeetsList`, and the theorem `WalkFindsFirstFit`). `owned` (pointer to requested size) and `freed` (pointers given back
whose header is intact) describe the clients: they free what they own, once or,
while the header is intact, again. Freeing a pointer whose header has been
overwritten is undefined in the code and not modelled. The data bytes are not
modelled, and so neither is the memcpy in krealloc. No client asks for a size within
3 of 2^32 (`HeapAssumption`), where rounding up would wrap to a block of 0 bytes;
the code has no such caller.

### FileSystem, ShellFiles, FileStore

Each function of `filesystem.c` is an operator on the record `fs`, which holds the
table, the data area and the handles. `FileSystem` lets a client call them in any
order and through any handle it was ever given. `ShellFiles` makes each shell
command one action that calls the operators in the order of the code; nothing
else touches the file system meanwhile. `shown` is what the command told the user,
without colours and wording. Its refinement of `FileStore` maps the table to a
function from names to type and text, and `used_size` to a counter `used` that the
abstract store keeps as the code does: deleting a file gives nothing back, and fsinfo
prints it through an int, without a digit from 2^31 up (`Printed`). It holds under `FilesFit`: names fit their
field, and the texts that are typed or written by default fit a slot and the buffer
of cat. In the code such texts do: edit and cat have buffers of 512 bytes with the
final 0, and a slot has 1024.

Names are of two kinds. Short names fit their 16-byte field. A name of 16 to 35
characters overwrites the type and permissions fields, which are then set and so
change the name: it is stored as `GARBLED`, equal to no name a user can type. Names
of 36 characters and more write into the next entry and are not modelled.
Sizes and positions are 32-bit numbers, modulo WORD, in the clamp of fs_write_file
too. `Writable` assumes that no client writes so much that position and size add up
to 2^32, where the clamp would not cut: the largest write of the code is edit's 511
bytes, and there is no buffer of nearly 4 GB to write from.
Permissions, `created_time` and the constants of the information screen are left
out: nothing reads the first two.

### Timer

The loop of `timer_wait` is three steps (test, `hlt`, woken), with interrupts
between any two. `elapsed` counts the ticks since the sleep began; `lag` says
that a tick has come since the CPU last took a step. A tick is 10 ms and a step
some nanoseconds, so two ticks do not come between two steps of the CPU (unless
it is halted); without this the code would promise nothing about lateness.

### Keyboard

The user presses and releases keys; scancodes queue in the keyboard (its buffer
holds 16, and the user waits while it is full) and pass one at a time through the 8042's output buffer. `typed` is
what the user meant: the character with the modifiers held at that moment. The
polling loop of keyboard_getchar is cut at each access to a port or to the
statics it shares with the handler; the handler is one step, since an interrupt
gate clears IF. `SAFE_MODE` is a variable that is chosen at the start, so that one
run covers both builds; it is the `reliable` of `KeyChannel`, whose unreliable
channel promises nothing about what arrives. `key_available` and `last_key` are not volatile, so C would allow
the compiler to read them once before the loop; gcc with the flags of `build.ps1`
(-O2) reloads `key_available` in every round, and this is what is modelled.
The tables are abstracted to letters (which shift and Ctrl change) and silent keys;
`KeyMap` has them in full.

### Screen, Paper, ScreenHistory

`scr` holds the cells, the driver's cursor, the current attribute and the two
cursor registers of the hardware. `screen_putchar` is split as the code is: what
the character does (`Place`), the wrap, the scroll and the cursor update. A
character is a glyph, newline, return, tab, or one that has no case in the code
(`Silent`: `'\b'`, and bytes from 0x80 up, since char is signed).

A screen forgets the line that it scrolls off, so that the screen alone does not
determine the paper. `ScreenHistory` keeps these lines in `gone`, which no action
reads, and shows that `gone` followed by the screen is the strip of `Paper`, on
which wrap and scroll do not exist. The line that goes is the top line after the
character is written: on a screen of one line it is the line written to.

### Shell

`line` is the part of command_buffer before buffer_index. Each key is one action,
with all it prints. A command prints some sequence of coloured texts (`Outputs`);
what it does to files, heap and clock is in `ShellFiles`, `Heap`, `Timer` and
`Uptime`. `ran` records the last line entered and the words it was split into.
`erased`, which no action reads, says that an erase key has been used since the line
was last printed whole: backspace and delete print `"\b \b"`, and the screen has no
case for `'\b'`, so from there on the screen shows the line and some spaces. The
table of commands and the words dispatched are constants of the model. A word
that does not fit its 64-byte buffer writes on the stack of shell_execute_command.
That is the action `Overrun`, after which the machine may do anything and the model
does nothing more: every property but `WordsFit` is about what happens before it.

### Kernel

`step` counts the calls of kernel_main; a key can be pressed and the PIT can tick
at any moment, from before the first call on. The PIC has its mask, requests and
services; initialising it (idt.c:41) clears its requests, and the keyboard's is
raised only when the controller fills, as on the 8259 with edge triggering. Each
handler is three steps (call, EOI, iret). `Interrupted` says that the CPU takes a
pending interrupt before the next step of the kernel. `ticked` says that a tick
has come since the kernel last took a step: a tick is 10 ms, and handlers that
took all of it would leave nothing to the kernel. The shell is at the keyboard, at
memtest or `asleep` in timer_wait, where each `hlt` lasts until a tick has been
served. In SAFE_MODE no interrupt is ever served and the machine has halted for good
(`Halted`), though the PIT ticks on. How long a sleep lasts is the business of
`Timer`; here it ends after some tick. The heap is that of module
`Heap`, on which fs_init and memtest allocate.

### KeyMap, Uptime

`KeyMap` has both tables entry for entry, so that its run is a comparison with
the key names of `keyboard.h` and the labels of a US keyboard. `Uptime` adds to
`Timer` what the commands time and uptime print. Each reads the counter once, so
that ticks during the printing do not matter: `UptimeIsTrue` holds the output
against the counter at every value that `Timer` reaches.

## Runs

| run | result | shows |
|---|---|---|
| heap | passes | on every sequence of calls the inductive invariant `IInv` (which implies `TypeOK`, `BlocksDisjoint`, `FullyCoalesced` and `FreedIsFree`) and the properties of the walk, the statistics, double frees, memtest, and that a call leaves the blocks of all other clients alone |
| filesystem | passes | access in slot, unique names, counted files and sizes, isolated writes, with stale handles |
| shell_files | passes | the file commands implement `FileStore`; no handle leaks |
| timer | passes | sleeps are exact to one tick, across the wrap, and return; time and uptime show the counter |
| timer_safe | **SleepReturns violated** | `sleep` never returns in SAFE_MODE |
| keyboard | passes | in SAFE_MODE the driver implements `KeyChannel`, liveness included; with interrupts, no key comes out more than twice and every call of keyboard_getchar that has a letter on its way returns |
| keyboard_race | **ReceivedInOrder violated** | with interrupts, keys are lost, doubled or swapped |
| keymap | passes | every key of the main block types its label with and without shift and Ctrl; silent keys are silent |
| screen | passes | the cursor stays on the screen and the hardware's with it; the screen implements `Paper` |
| shell | passes | until an erase key is used, prompt and line are on the screen in front of the cursor; completion only adds; a command gets the words of its line if they fit |
| shell_words | **WordsFit violated** | a word longer than the buffer it is copied to |
| kernel | passes | boot order, gates, EOIs and the file system's block; requests are served, and keys read unless a sleep in SAFE_MODE has halted the machine |

The three violations are disagreements of the code with its own comments, messages
or README; `PROJECT.json` quotes them under `findings`.

### Other disagreements

Met while modelling. The models follow the code here, and no run is about them:

- kmalloc rounds a size within 3 of 2^32 up to 0 (`memory.c:34`), so that any free
  block passes for one that is "large enough" (`memory.c:38`). No caller asks for so
  much, and `HeapAssumption` says so.
- fs_delete_file subtracts the size after clearing the entry (`filesystem.c:211`):
  `used_size` never decreases, and fsinfo shows the bytes of deleted files as used
  (`filesystem.c:158`). `FileStore` and `UsedSizeFollows` state what it does count.
- A name of 16 to 35 characters is stored garbled (`filesystem.c:186`); the shell
  reports the file as created (`shell.c:363`), and no command finds it.
- One flag serves both shift keys (`keyboard.c:62`): releasing one while the other
  is held ends the shift, in spite of the "shift support" of README.md:10. The run
  keyboard has one shift key in use.
- The number pad's row of the table (`keyboard.c:13`) is off by one: minus (0x4A) and
  plus (0x4E) type nothing, End (0x4F) types a plus, and the DEL that the row's
  comment puts at 0x53 is at 0x54.
- Erase keys (`shell.c:573`, and in edit `shell.c:434`) print `"\b \b"` to a screen
  that has no case for `'\b'`.
- Completion (`shell.c:94`) offers `copy` and help lists it (`shell.c:192`), but
  no branch of shell_execute_command handles it.
- In SAFE_MODE the counter stays 0, so that uptime reports 0 whatever the time
  (`shell.c:181`), although the boot message says "All features available"
  (`kernel.c:107`).

### Bounds, and why they are enough

- heap: the real header (16), slack (32) and alignment, in a heap of 160 bytes.
  Requests of 0, 1 and 38 bytes take both outcomes of the split test, and the heap
  holds up to six blocks, so that a freed block has neighbours on both sides, free
  or not in all combinations. WORD is 512, above the heap's end as 2^32 is.
- filesystem: two slots of two bytes and two handles, three short names (one more
  than slots) and a long one; buffers of 0, 1 and 3 bytes, the last longer than a
  slot. WORD is 6, the least for which no write of 3 bytes wraps in the clamp, so that
  `used_size` wraps soon, as it would after 2^32 bytes.
- shell_files: three slots, four names, one handle; texts shorter and longer than
  those a reused slot held. WORD is 6, so that `used_size` reaches the half of it,
  from where fsinfo prints no digits, and wraps.
  CAT_MAX and EDIT_MAX are equal, as both 512-byte
  buffers are; the shell has no way to write a file that is longer.
- timer: WORD is 64, sleeps of 0 to 3 ticks from every value of the counter. The
  units are small (2 ticks, 3 seconds, 3 minutes, 2 hours) and the base is 3, so
  that each unit appears, at 0 too, and numbers have up to four digits.
- keyboard: at most 4 scancodes, of two letters, a silent key and the modifiers;
  the races need two or three.
- screen: 3 by 2 cells, with a tab stop that lies beyond the line, one line scrolled
  off, and BYTE = 3, so that a position needs both cursor registers. The shell's
  run has the same driver with WIDTH 4, where, as with 80, no tab stop does.
- shell: a screen of 4 by 3 cells and a buffer of 5, so that lines wrap, a listing
  scrolls and the line reaches its limit; three words of two letters, two of which
  begin alike; words of more than 3 characters do not fit; 8 keys, enough to fill the line, to complete, to list and to
  enter two commands.
- kernel: one key and one tick outstanding, both modes, every mask and request
  that the BIOS may leave. The heap has room for the file system and memtest.
- keymap: not bounded: all scancodes, all modifier states.

### Fairness

- Timer: the CPU takes its next step (weak fairness of each step of the loop) and
  the PIT, which timer_init leaves in rate generator mode, keeps raising IRQ0. A
  sleep need not be started, and no key need be pressed.
- Keyboard: the CPU keeps running the polling loop, which contains no halt; the
  controller passes on a waiting scancode; a pending interrupt is delivered when
  interrupts are on. Nobody has to type.
- Kernel: kernel_main goes on and a handler, once entered or pending, runs (weak
  fairness), and the PIT ticks. keyboard_getchar has strong fairness: interrupts and
  commands disable it again and again, but the shell comes back to the keyboard from
  each of them but a sleep. A sleep ends (strong fairness of the `hlt` after which it
  is over) if ticks are served, as `SleepReturns` shows of `Timer`; in SAFE_MODE that
  step is never enabled, and `KeyIsRead` leaves out just this case.
  With `Bug_WaitsForInterrupt`, a driver that relied on the interrupt, a key
  pressed before the PIC was initialised would never be read.
- Heap, file system, screen and shell commands are sequential and have safety properties
  only.

## Proofs

Every theorem is for all values of the constants that satisfy the assumptions named
in the module it is about: a heap, a table, a screen, a buffer of any size. The
bounds of the runs (`MAX_CODES`, `MAX_KEYS`, `MAX_GONE`) are any number there.

### Heap

`HeapAssumption` asks for a positive header, a heap that holds more than one and
ends below WORD, and requests that are not within 3 of WORD.

- `Invariance`: `Spec => []IInv`;
- `TypeCorrect`, `HeapStructure`, `NoLeak`, `FreedStaysFree`, `NoFragmentation`:
  the invariants `TypeOK`, `ListTilesHeap`, `BlocksDisjoint`, `FullyCoalesced`,
  `InUseIsOwned`, `FreedIsFree`, `EmptyIsWhole`;
- `EnoughBytes`: `LargeEnough`;
- `DoubleFree`: the action property `DoubleFreeHarmless`; `OwnersKeep`:
  `OwnersKeepBlocks`, for which splits, merges and the hand-out are shown to leave the
  sizes of all blocks in use but the caller's (`SizesStay`);
- `StatsRight`: `StatsAddUp`; `MemtestLeavesNothing`: `MemtestNeutral`;
- `WalkEnds`: `WalkMeetsList`; `WalkFindsFirstFit`: in any sound heap the first block
  of the walk that fits is the one `FirstFit` chooses;
- `RefusalMeansFull`: kmalloc returns NULL only if every stretch of the heap that
  could hold a header and the request overlaps a block in use;
- `PointersStayAligned`: every pointer handed out is a multiple of 4, if the start of
  the heap and the header size are (`AlignedHeap`: 0x400000 and 16 in the code).

The properties are not inductive one by one. The merges are right only in a heap
that is tiled, and a second kfree is harmless only because a header is unlinked
only when it is free, so `IInv` adds `StaleFree` (unlinked headers are free) and
says of the clients that they own exactly the blocks in use. Inside a call the
heap is only `Sound`: `Split` makes a free block beside a block not yet handed
out, and kfree marks a block free before it merges, so `Coalesced` fails in
between. The lemmas follow the code: `SplitSound` and `HandSound` give
`KMallocGood`, `MarkFreeSound` and `AbsorbSound` (used for both merges) give
`KFreeGood`, and these give the step of each action. `EmptyIsWhole` needs an
argument on the whole list: the first block is free, so its successor, if there
is one, is not, so it is in use, so it is owned.

The statistics need a second invariant, `Counted`: `total_allocated` is the sum of
the sizes in use. As the blocks tile the heap, the sizes and the headers of all
blocks add up to its size (`TilesBelow`, `TilesSum`), so that the free memory that is
printed is what the free blocks hold, and no difference goes below 0. For memtest,
two heaps in order with the same blocks in use have the same list (`SameLinked`),
because what is not in use is coalesced; and memtest gives back what it was given.

That the walk ends is shown by counting: after i steps it is at the block that has i
blocks below it (`WalkCounts`), so that it reaches each of them, goes up, and is at
the end after as many steps as there are blocks. `RefusalMeansFull` is where coalescing
pays: the block that holds the first byte of a free stretch is free, the block after it
is not, so the whole stretch lies in that one block, which kmalloc would have taken
(`BlockAround`, `NoRoom`). For the alignment, the invariant is about addresses only
(`Aligned`): in a tiled heap a block's size is the distance to the next header, and the
one address a call invents, that of the header made by `Split`, is a sum of multiples
of 4.

### File system and file commands

`FsInvariant` is the invariant `Ok`: open handles point into the table with a
position in the slot, file i has slot i, no two files have one name, `used_files` is
the number of entries in use. `FsTypes`, `FsAccess`, `FsNames` and `FsCounts` read
`TypeOK`, `AccessInSlot`, `UniqueNames` and `UsedFilesCounted` off it. A handle that
outlives its file stays within the slot it was opened for, which is why `Ok` speaks
of all open handles and not of those whose file exists. `FsIsolation`
(`WritesIsolated`) and `FsUsedSize` (`UsedSizeFollows`) are action properties: the
first needs that slots do not overlap, the second a sum over the table in which one
entry changes. Under `Writable` the clamp computed in 32 bits is the one computed
without a word size (`ClampIs`); all that follows about positions rests on this.

`ShellClosesHandles` is `NoHandleLeak`. `ShellIsFileStore` proves the refinement of
`FileStore` under `FilesFit`, command by command. Its invariant adds to `Ok` that no
handle is open between two commands, that no name is garbled and that no file is
longer than cat shows. `used` of the store is followed through delete, create and
write (`DeleteUsed`, `WriteUsed`, `StoreUsed`): the clamp cuts nothing, so that each
file adds its text to it.

### Timer

`TimerProofs` proves `Inv`, `TypeOK` and `SleepsAsLongAsAsked` for every WORD and
every sleep shorter than WORD - 1 ticks. `Inv` says that the counter is the start
plus `elapsed`, wrapped at most once, so that the subtraction modulo WORD in the
loop's test is `elapsed`; and it bounds `elapsed` at each place of the loop.

`UptimeReadsBack` is `UptimeIsTrue` for every WORD, rate, unit and base, by two
arguments. The digits that print_number makes have the value of the number and no zero
in front (`DigitsRead`), by induction on the number, which a division by the base makes
smaller; and they are no more than BUFFER, because WORD is at most BASE^BUFFER
(`BufferAssumption`; 2^32 and 10^16 in the code). The units that are printed, with 0
for one that is left out, add up to the seconds (`SplitUnits`), whichever units are
left out (`TimeShows`, `UptimeShows`).

### Keyboard

`KeyboardTypes` is `TypeOK`; a character that waits or is about to be returned must
be one for it to be inductive. `KeyboardIsChannel` is the safety part of `KeyChannel`:
in SAFE_MODE the characters arrive in order, each once, with the modifiers held when
they were pressed. What a scancode on its way will mean depends on all those before
it, so the invariant says that there is a trace: for each of them the modifiers and
the characters that the driver will have by then, ending in what the user did.
`OneOfEach` (one shift key, one Ctrl key in use) is needed, since one flag serves
both shift keys. `KeyboardAtMostTwice` (`AtMostTwice`) is about both builds and needs
no such condition; its trace counts how often a key is still to come, and the
invariant how often the statics and the locals of the loop still owe it.

### Screen and line editor

`ScreenTypes` and `ScreenCursor` are `TypeOK` and `CursorShown`; both need the
arithmetic of the tab stops and of the two bytes of a position. `ScreenIsPaper` is
the refinement of `Paper`; its invariant says that the lines scrolled off are whole,
so that a column of the paper is a column of the screen.

`ShellInvariant` says that between two keys the colour is white, the line fits its
buffer and, unless something was erased, prompt and line are the cells in front of
the cursor. From it follow `ShellTypes` (`ShellTypeOK`), `ShellLine`
(`LineOnScreen`), `ShellCompletes` (`CompletionKeepsTyped`) and `ShellWords`
(`WordsOfTheLine`, for words that fit their buffers). `ShellAssumption` asks that prompt and line fit the screen
without its last line (8 + 255 cells of 80 * 24): a line that reaches the last cell
scrolls the screen at once. Of what commands print nothing is assumed but that it is
made of characters and colours.

### Kernel

`KernelInvariant` is in two parts. `CpuInv` ties the stack, the interrupt flag, the
PIC and the gates together: at most one handler runs, with interrupts off, and its
line is in service until its EOI; interrupts come on only at the end of the boot,
when both gates are set. `MemInv` says that the heap satisfies `IInv` of module
`Heap`, with the file system as a client, so that the lemmas of `HeapProofs` apply to
fs_init and memtest. `KernelTypes`, `KernelNeverFaults`, `KernelNoNesting`,
`KernelServicesEnd` and `KernelFsBlock` are the five invariants of the run.
`KernelAssumption` asks that the file system fits the heap.

### Folds and induction

Sums over tables and printed strings are folds of the community modules, which
define them by a recursive function that is chosen to satisfy its equation.
`FoldProofs` shows once that such a function exists (`FoldExists`, `SeqFold`), from
which its equation may be used. `RecursionExists` does the same for functions on the
naturals that call themselves on a smaller argument: `Walk`, the loop of print_number,
the powers of the base. Induction is by the least element of the set of
counterexamples (`LeastNat`, `Induct`), as the provers cannot instantiate the
library's induction rules.

### Only model-checked

- All liveness: `SleepReturns`, `CallReturns`, `KeyIsRead`, `RequestsServed` and
  the liveness part of `ReceivesWhatIsTyped`. The prover has no rules for fairness.
- `TypesItsLabel`: its run is not bounded, so that a proof would add nothing.

## Not modelled

- The wording of what the commands print. help, about, version, colors, ps,
  sysinfo, calc and echo print constants; echo prints a fixed text, whatever its
  argument. The block characters of the boot logo are bytes from 0x80 up and print nothing.
- What follows once memory is written outside its buffer: a word of 64 characters
  or more, a file name of 36 or more, a kfree of an overwritten header.
- The prefix 0xE0 and the shifts that keyboards fake with it: the driver takes the
  prefix for the release of a key that does not exist and the second byte for a
  plain one.
- The GDT, which GRUB leaves and whose selectors 0x08 and 0x10 idt.c and the entry
  codes rely on; the slave PIC, masked throughout; spurious interrupts; the PIT's
  divisor, a constant for the one call of timer_init.
- kernel_panic, keyboard_key_pressed and memcmp, which have no caller; port I/O and
  types, one line each; the build scripts.

## Plan

1. done: heap, file system, file commands, timer and keyboard, with the proofs above.
2. done: screen, line editor, keyboard tables, boot and interrupts, uptime.
3. done: the theorems about the file system, the file commands, the keyboard, the
   screen, the line editor and the boot, and those on the statistics of the heap.
4. done: `WalkMeetsList` and `UptimeIsTrue`, with the induction of `FoldProofs`;
   refusals and alignment of the heap.
