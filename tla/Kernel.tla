------------------------------- MODULE Kernel --------------------------------
(***************************************************************************)
(* The start of the kernel and its interrupts: boot.s and kernel_main      *)
(* (src/src/kernel/kernel.c) with the initialisation of each part in turn, *)
(* the interrupt table and the PIC (idt.c), and the entry code of the two  *)
(* handlers (src/src/arch/x86), which runs between any two instructions    *)
(* once interrupts are enabled.                                            *)
(*                                                                         *)
(* Keys are pressed and the PIT ticks from the moment the machine is on.   *)
(* The PIC is an 8259: irr are the requests, isr those in service, imr the *)
(* masked ones, and initialising it forgets the requests.                  *)
(***************************************************************************)
EXTENDS Integers, Sequences, FiniteSets, FiniteSetsExt

CONSTANTS
  SafeModes,            \* settings of kernel.c's build switch SAFE_MODE to consider
  FS_SIZE,              \* sizeof(filesystem_t)
  HEAP_START, HEAP_SIZE, HEADER, SLACK, WORD, TestSizes   \* see Heap

(* The file system, 34 KB, fits the heap of 4 MB; the rest is as in Heap. *)
ASSUME KernelAssumption ==
  /\ SafeModes \subseteq BOOLEAN
  /\ FS_SIZE \in Nat \ {0} /\ FS_SIZE + 3 <= HEAP_SIZE - HEADER
  /\ HEAP_START \in Nat \ {0} /\ HEADER \in Nat \ {0}
  /\ HEAP_SIZE \in Nat /\ HEAP_SIZE > HEADER
  /\ SLACK \in Nat /\ WORD \in Nat /\ HEAP_START + HEAP_SIZE < WORD
  /\ TestSizes \in (1 .. WORD - 1) \X (1 .. WORD - 1)

Irqs == {0, 1}                      \* IRQ0 the timer, IRQ1 the keyboard
BiosVectors == 8
NoGate == [handler |-> -1, clearsIF |-> FALSE]

VARIABLES
  SAFE_MODE,    \* the build: if TRUE, no sti
  step,         \* number of steps of kernel_main done
  interrupts,   \* the CPU's interrupt flag
  idt,          \* vector -> gate
  pic,          \* PIC1: its first vector, imr, irr and isr
  frames,       \* handlers running, innermost last
  fault,        \* the CPU met a vector without a gate, and reset
  full,         \* a scancode waits in the keyboard controller
  asleep,       \* the shell is in timer_wait
  ticked,       \* a tick has come since kernel_main last took a step
  heap, owned, freed,   \* see Heap
  fs            \* pointer to the file system, or NULL

cpu     == <<interrupts, frames, fault>>
memory  == <<heap, owned, freed, fs>>
vars    == <<SAFE_MODE, step, cpu, idt, pic, full, asleep, ticked, memory>>

(* The kernel's only client that keeps its block is the file system. *)
H == INSTANCE Heap WITH Sizes <- {FS_SIZE}

Vectors == {BiosVectors + q : q \in Irqs} \cup {32 + q : q \in Irqs}

(* What boot.s starts kernel_main with: interrupts off, and PIC and        *)
(* keyboard as the BIOS and GRUB left them                                 *)
Init ==
  /\ SAFE_MODE \in SafeModes
  /\ step = 0 /\ interrupts = FALSE /\ frames = <<>> /\ fault = FALSE
  /\ idt = [v \in Vectors |-> NoGate]
  /\ pic \in [base : {BiosVectors}, imr : SUBSET Irqs, irr : SUBSET Irqs, isr : {{}}]
  /\ full \in BOOLEAN /\ asleep = FALSE /\ ticked = FALSE
  /\ heap = H!Uninitialized /\ owned = [p \in {} |-> 0] /\ freed = {} /\ fs = H!NULL
-----------------------------------------------------------------------------
(* Operators named Bug_... are deliberate mistakes, each a plausible slip  *)
(* in the definition it precedes; no action uses them.                     *)

Bug_FsFirst == <<"idt", "timer", "fs", "memory", "keyboard", "sti">>

(* kernel_main, without the screen and the messages in between *)
Steps == <<"idt", "timer", "memory", "fs", "keyboard", "sti">>

Booted == step = Len(Steps)

(* Requests that the PIC passes on, and the one it passes on first *)
Pending == {q \in pic.irr \ pic.imr : \A r \in pic.isr : q < r}

(* The CPU takes an interrupt before the next instruction. *)
Interrupted == frames # <<>> \/ (interrupts /\ Pending # {})

Boot(name) ==
  /\ ~fault /\ ~Interrupted /\ ~Booted
  /\ Steps[step + 1] = name
  /\ step' = step + 1 /\ ticked' = FALSE
  /\ UNCHANGED <<SAFE_MODE, asleep>>

Bug_TrapGate(handler) == [handler |-> handler, clearsIF |-> FALSE]

(* flags 0x8E: a present 32-bit interrupt gate *)
idt_set_gate(handler) == [handler |-> handler, clearsIF |-> TRUE]

Bug_NoRemap ==
  /\ Boot("idt")
  /\ idt' = [v \in Vectors |-> IF v \in {32, 33} THEN idt_set_gate(v - 32) ELSE NoGate]
  /\ pic' = [pic EXCEPT !.imr = {}]
  /\ UNCHANGED <<cpu, full, memory>>

Bug_OffsetOfPic2 ==
  /\ Boot("idt")
  /\ idt' = [v \in Vectors |-> IF v \in {32, 33} THEN idt_set_gate(v - 32) ELSE NoGate]
  /\ pic' = [base |-> 40, imr |-> {}, irr |-> {}, isr |-> {}]
  /\ UNCHANGED <<cpu, full, memory>>

(* The gates, then the PIC: new vectors, only IRQ0 and IRQ1 enabled *)
idt_init ==
  /\ Boot("idt")
  /\ idt' = [v \in Vectors |-> IF v \in {32, 33} THEN idt_set_gate(v - 32) ELSE NoGate]
  /\ pic' = [base |-> 32, imr |-> {}, irr |-> {}, isr |-> {}]
  /\ UNCHANGED <<cpu, full, memory>>

timer_init ==
  /\ Boot("timer")
  /\ pic' = [pic EXCEPT !.imr = @ \ {0}]
  /\ UNCHANGED <<cpu, idt, full, memory>>

memory_init ==
  /\ Boot("memory")
  /\ heap' = H!InitialHeap
  /\ UNCHANGED <<cpu, idt, pic, full, owned, freed, fs>>

fs_init ==
  /\ Boot("fs")
  /\ H!kmalloc(FS_SIZE)
  /\ fs' = H!KMalloc(heap, FS_SIZE).ptr
  /\ UNCHANGED <<cpu, idt, pic, full>>

keyboard_init ==
  /\ Boot("keyboard")
  /\ pic' = [pic EXCEPT !.imr = @ \ {1}]
  /\ UNCHANGED <<cpu, idt, full, memory>>

sti ==
  /\ Boot("sti")
  /\ interrupts' = ~SAFE_MODE
  /\ UNCHANGED <<idt, pic, frames, fault, full, memory>>
-----------------------------------------------------------------------------
(* The shell, and safe_mode_test before it, at the keyboard, at a command  *)
(* or asleep in one                                                        *)
Shell(sleeping) ==
  /\ Booted /\ ~fault /\ ~Interrupted
  /\ asleep = sleeping
  /\ ticked' = FALSE
  /\ UNCHANGED <<SAFE_MODE, step>>

Bug_WaitsForInterrupt ==
  /\ Shell(FALSE)
  /\ UNCHANGED <<cpu, idt, pic, full, asleep, memory>>

(* keyboard_getchar polls, with interrupts or without. *)
keyboard_getchar ==
  /\ Shell(FALSE)
  /\ full' = FALSE
  /\ UNCHANGED <<cpu, idt, pic, asleep, memory>>

memtest ==
  /\ Shell(FALSE)
  /\ H!memtest
  /\ UNCHANGED <<cpu, idt, pic, full, asleep, fs>>

(* The command sleep, for 200 ticks, up to its first hlt *)
timer_sleep ==
  /\ Shell(FALSE)
  /\ asleep' = TRUE
  /\ UNCHANGED <<cpu, idt, pic, full, memory>>

(* hlt lasts until an interrupt was served: without them, for good.  After *)
(* a tick timer_wait finds that the time is over, or halts again; a key    *)
(* only makes it halt again.                                               *)
hlt(over) ==
  /\ Shell(TRUE)
  /\ interrupts /\ ticked
  /\ asleep' = ~over
  /\ UNCHANGED <<cpu, idt, pic, full, memory>>

Halted == SAFE_MODE /\ asleep

(* The CPU acknowledges a request and goes through its gate; without a     *)
(* gate, and without one for the fault that this is, it resets.            *)
Interrupt ==
  LET q    == Min(Pending)
      gate == idt[pic.base + q]
  IN /\ ~fault /\ interrupts /\ Pending # {}
     /\ pic' = [pic EXCEPT !.irr = @ \ {q}, !.isr = @ \cup {q}]
     /\ IF gate = NoGate
        THEN fault' = TRUE /\ UNCHANGED <<interrupts, frames>>
        ELSE /\ interrupts' = ~gate.clearsIF
             /\ frames' = Append(frames, [irq |-> gate.handler, at |-> "call"])
             /\ UNCHANGED fault
     /\ UNCHANGED <<SAFE_MODE, step, idt, full, asleep, ticked, memory>>

(* A step of the innermost handler that stays in it *)
InHandler(from, to) ==
  /\ ~fault /\ frames # <<>>
  /\ frames[Len(frames)].at = from
  /\ frames' = [frames EXCEPT ![Len(frames)].at = to]
  /\ UNCHANGED <<SAFE_MODE, step, interrupts, idt, fault, asleep, ticked, memory>>

(* call timer_handler, or call keyboard_handler, which empties the         *)
(* controller                                                              *)
CallHandler ==
  /\ InHandler("call", "eoi")
  /\ full' = IF frames[Len(frames)].irq = 1 THEN FALSE ELSE full
  /\ UNCHANGED pic

Bug_NoEoi ==
  /\ InHandler("eoi", "iret")
  /\ UNCHANGED <<pic, full>>

(* mov $0x20, %al; out %al, $0x20: the most urgent one in service is done *)
SendEoi ==
  /\ InHandler("eoi", "iret")
  /\ pic' = [pic EXCEPT !.isr = IF @ = {} THEN @ ELSE @ \ {Min(@)}]
  /\ UNCHANGED full

(* Handlers run only where interrupts were on. *)
Iret ==
  /\ ~fault /\ frames # <<>>
  /\ frames[Len(frames)].at = "iret"
  /\ frames' = SubSeq(frames, 1, Len(frames) - 1)
  /\ interrupts' = TRUE
  /\ UNCHANGED <<SAFE_MODE, step, idt, pic, fault, full, asleep, ticked, memory>>
-----------------------------------------------------------------------------
(* A tick is 10 ms (55 ms before timer_init): the kernel moves on between  *)
(* two of them, unless it has halted for good.                             *)
Tick ==
  /\ ~fault /\ (ticked => Halted)
  /\ ticked' = TRUE
  /\ pic' = [pic EXCEPT !.irr = @ \cup {0}]
  /\ UNCHANGED <<SAFE_MODE, step, cpu, idt, full, asleep, memory>>

(* The controller raises IRQ1 when it fills, and only then. *)
KeyArrives ==
  /\ ~fault /\ ~full
  /\ full' = TRUE
  /\ pic' = [pic EXCEPT !.irr = @ \cup {1}]
  /\ UNCHANGED <<SAFE_MODE, step, cpu, idt, asleep, ticked, memory>>

kernel_main ==
  idt_init \/ timer_init \/ memory_init \/ fs_init \/ keyboard_init \/ sti

Next ==
  \/ idt_init \/ timer_init \/ memory_init \/ fs_init \/ keyboard_init \/ sti
  \/ keyboard_getchar \/ memtest
  \/ timer_sleep \/ \E over \in BOOLEAN : hlt(over)
  \/ Interrupt \/ CallHandler \/ SendEoi \/ Iret
  \/ Tick \/ KeyArrives

(* The CPU runs and the PIT ticks, and between two interrupts the shell    *)
(* runs too, which comes back to the keyboard after every command but one: *)
(* a sleep ends if ticks are served, 200 of them (see SleepReturns in      *)
(* Timer).  Nobody has to press a key.                                     *)
Fairness ==
  /\ WF_vars(kernel_main) /\ WF_vars(Tick)
  /\ SF_vars(keyboard_getchar) /\ SF_vars(hlt(TRUE))
  /\ WF_vars(Interrupt \/ CallHandler \/ SendEoi \/ Iret)

Spec == Init /\ [][Next]_vars /\ Fairness
-----------------------------------------------------------------------------
(* Type invariant of the CPU, the PIC and the boot sequence. *)
TypeOK ==
  /\ SAFE_MODE \in BOOLEAN /\ step \in 0 .. Len(Steps)
  /\ interrupts \in BOOLEAN /\ fault \in BOOLEAN
  /\ idt \in [Vectors -> [handler : Irqs \cup {-1}, clearsIF : BOOLEAN]]
  /\ pic \in [base : {BiosVectors, 32}, imr : SUBSET Irqs, irr : SUBSET Irqs,
              isr : SUBSET Irqs]
  /\ frames \in Seq([irq : Irqs, at : {"call", "eoi", "iret"}])
  /\ full \in BOOLEAN /\ asleep \in BOOLEAN /\ ticked \in BOOLEAN /\ fs \in Nat

(* Whatever is pressed and ticks during the boot, no interrupt comes       *)
(* before its gate is there and the PIC sends it through that gate.        *)
NeverFaults == ~fault

(* One handler at a time: the stack holds one frame of an interrupt, and   *)
(* timer_handler's increment and keyboard_handler's two assignments are    *)
(* not torn by another handler.                                            *)
HandlersDoNotNest == Len(frames) <= 1

(* Every service is ended: outside a handler nothing is in service, so     *)
(* that no request is held back for good.                                  *)
NothingLeftInService == frames = <<>> => pic.isr = {}

(* The file system has its block from fs_init on, whatever is initialised  *)
(* after it and however often memtest runs.                                *)
FsBlockKept ==
  step >= 4 =>
    /\ fs # H!NULL /\ fs - HEADER \in heap.list
    /\ ~heap.mem[fs - HEADER].is_free /\ heap.mem[fs - HEADER].size >= FS_SIZE

(* A key is read, also one pressed before the PIC was initialised, whose   *)
(* request is lost while the controller stays full and raises no other.    *)
(* Only a sleep in the SAFE_MODE build, which never ends (see the run      *)
(* timer_safe), leaves a key unread.                                       *)
KeyIsRead == full ~> (~full \/ Halted)

(* With interrupts on, every request is served, the keyboard's too, which  *)
(* has to wait for the timer's.                                            *)
RequestsServed ==
  \A q \in Irqs : (Booted /\ ~SAFE_MODE /\ q \in pic.irr) ~> q \notin pic.irr
=============================================================================
