---------------------------- MODULE KernelProofs ----------------------------
(***************************************************************************)
(* The boot sequence and the interrupts of module Kernel: no interrupt     *)
(* meets a missing gate, handlers do not nest and leave nothing in         *)
(* service, and the file system keeps its block, for every heap the file   *)
(* system fits in and both builds.                                         *)
(*                                                                         *)
(* The CPU, the PIC and the stack are one inductive invariant, CpuInv.     *)
(* The memory is another, MemInv: what kernel_main and the shell do to the *)
(* heap are steps of module Heap, so that the lemmas of HeapProofs apply.  *)
(***************************************************************************)
EXTENDS Kernel, TLAPS

Frame == [irq : Irqs, at : {"call", "eoi", "iret"}]

Pics == [base : {BiosVectors, 32}, imr : SUBSET Irqs, irr : SUBSET Irqs, isr : SUBSET Irqs]

Gates == [handler : Irqs \cup {-1}, clearsIF : BOOLEAN]

(* The stack, the interrupt flag and what is in service belong together:   *)
(* a handler runs with interrupts off, and its service is open until its   *)
(* EOI.                                                                    *)
StackInv ==
  \/ frames = <<>> /\ pic.isr = {}
  \/ \E f \in Frame :
       /\ frames = <<f>> /\ ~interrupts /\ step = 6
       /\ pic.isr = IF f.at = "iret" THEN {} ELSE {f.irq}

(* Interrupts are on only at the end of the boot, and from the first step  *)
(* on the PIC points at the two gates.                                     *)
CpuInv ==
  /\ SAFE_MODE \in BOOLEAN /\ step \in 0 .. 6 /\ interrupts \in BOOLEAN /\ fault = FALSE
  /\ idt \in [Vectors -> Gates] /\ pic \in Pics /\ full \in BOOLEAN /\ ticked \in BOOLEAN
  /\ asleep \in BOOLEAN
  /\ interrupts => step = 6
  /\ step # 0 => /\ pic.base = 32
                 /\ \A q \in Irqs : idt[32 + q] = [handler |-> q, clearsIF |-> TRUE]
  /\ StackInv
-----------------------------------------------------------------------------
(* The order of kernel_main *)
LEMMA StepOrder ==
  ASSUME step \in 0 .. 6
  PROVE  /\ Len(Steps) = 6
         /\ Boot("idt") => step = 0
         /\ Boot("timer") => step = 1
         /\ Boot("memory") => step = 2
         /\ Boot("fs") => step = 3
         /\ Boot("keyboard") => step = 4
         /\ Boot("sti") => step = 5
         /\ \A name : Boot(name) => step' = step + 1
  BY DEF Steps, Boot, Booted

(* A step of kernel_main finds interrupts off and no handler running. *)
LEMMA BootAlone ==
  ASSUME CpuInv, NEW name, Boot(name)
  PROVE  /\ step \in 0 .. 5 /\ step' = step + 1 /\ step' \in 1 .. 6 /\ ~interrupts
         /\ frames = <<>> /\ pic.isr = {} /\ ticked' = FALSE /\ SAFE_MODE' = SAFE_MODE
         /\ asleep' = asleep
<1>1. step \in 0 .. 6 BY DEF CpuInv
<1>2. step # 6 /\ step' = step + 1 BY DEF Boot, Booted, Steps
<1>3. step \in 0 .. 5 /\ step' \in 1 .. 6 BY <1>1, <1>2
<1>4. interrupts => step = 6 BY DEF CpuInv
<1>5. frames = <<>> BY DEF Boot, Interrupted
<1>6. pic.isr = {} BY <1>2 DEF CpuInv, StackInv
<1>7. (ticked' = FALSE) /\ (SAFE_MODE' = SAFE_MODE) /\ (asleep' = asleep) BY Zenon DEF Boot
<1>. QED BY <1>2, <1>3, <1>4, <1>5, <1>6, <1>7, Zenon

(* A step of kernel_main that leaves the PIC at the two gates, and turns   *)
(* interrupts on at most as the last step, keeps CpuInv.                   *)
LEMMA BootKeeps ==
  ASSUME CpuInv, NEW name, Boot(name), frames' = frames, fault' = fault, full' = full,
         pic' \in Pics, pic'.base = 32, pic'.isr = {}, idt' \in [Vectors -> Gates],
         \A q \in Irqs : idt'[32 + q] = [handler |-> q, clearsIF |-> TRUE],
         interrupts' \in BOOLEAN, interrupts' => step = 5
  PROVE  CpuInv'
<1>1. /\ step \in 0 .. 5 /\ step' = step + 1 /\ step' \in 1 .. 6 /\ frames = <<>>
      /\ ticked' = FALSE /\ SAFE_MODE' = SAFE_MODE /\ asleep' = asleep
  BY BootAlone, Zenon
<1>2. StackInv' BY <1>1 DEF StackInv
<1>3. step' \in 0 .. 6 BY <1>1
<1>4. step = 5 => step' = 6 BY <1>1
<1>5. SAFE_MODE' \in BOOLEAN /\ fault' = FALSE /\ full' \in BOOLEAN BY <1>1, Zenon DEF CpuInv
<1>6. ticked' \in BOOLEAN /\ asleep' \in BOOLEAN BY <1>1 DEF CpuInv
<1>. QED BY <1>2, <1>3, <1>4, <1>5, <1>6 DEF CpuInv

(* The PIC passes on a request that is not masked. *)
LEMMA MinPending ==
  ASSUME CpuInv, Pending # {}
  PROVE  Min(Pending) \in Irqs
<1>1. Pending \subseteq {0, 1} BY DEF CpuInv, Pics, Pending, Irqs
<1>2. \E x \in Pending : \A y \in Pending : x <= y
  <2>1. CASE 0 \in Pending BY <1>1, <2>1
  <2>2. CASE 0 \notin Pending
    <3>1. Pending = {1} BY <1>1, <2>2
    <3>. QED BY <3>1
  <2>. QED BY <2>1, <2>2
<1>3. Min(Pending) \in Pending BY <1>2 DEF Min
<1>. QED BY <1>1, <1>3 DEF Irqs

(* Every step keeps CpuInv. *)
LEMMA CpuInvNext == CpuInv /\ [Next]_vars => CpuInv'
<1>. SUFFICES ASSUME CpuInv, [Next]_vars PROVE CpuInv'
  OBVIOUS
<1>1. /\ SAFE_MODE \in BOOLEAN /\ step \in 0 .. 6 /\ interrupts \in BOOLEAN /\ fault = FALSE
      /\ idt \in [Vectors -> Gates] /\ pic \in Pics /\ full \in BOOLEAN /\ ticked \in BOOLEAN
      /\ asleep \in BOOLEAN
      /\ interrupts => step = 6
      /\ step # 0 => /\ pic.base = 32
                     /\ \A q \in Irqs : idt[32 + q] = [handler |-> q, clearsIF |-> TRUE]
      /\ StackInv
  BY DEF CpuInv
<1>2. CASE idt_init
  <2>1. pic' = [base |-> 32, imr |-> {}, irr |-> {}, isr |-> {}] BY <1>2 DEF idt_init
  <2>2. /\ idt' \in [Vectors -> Gates]
        /\ \A q \in Irqs : idt'[32 + q] = [handler |-> q, clearsIF |-> TRUE]
    BY <1>2 DEF idt_init, idt_set_gate, NoGate, Vectors, Irqs, Gates, BiosVectors
  <2>3. pic' \in Pics /\ pic'.base = 32 /\ pic'.isr = {} BY <2>1 DEF Pics, Irqs
  <2>4. Boot("idt") /\ UNCHANGED <<interrupts, frames, fault, full>> BY <1>2 DEF idt_init, cpu
  <2>5. ~interrupts BY <2>4, BootAlone, Zenon
  <2>. QED BY <1>1, <2>2, <2>3, <2>4, <2>5, BootKeeps
<1>3. CASE timer_init \/ keyboard_init
  <2>1. PICK name : Boot(name) /\ name \in {"timer", "keyboard"}
    BY <1>3 DEF timer_init, keyboard_init
  <2>2. step # 0 BY <1>1, <2>1, StepOrder
  <2>3. UNCHANGED <<interrupts, frames, fault, full, idt>>
    BY <1>3 DEF timer_init, keyboard_init, cpu
  <2>4. \E m \in SUBSET Irqs : pic' = [pic EXCEPT !.imr = m]
    BY <1>1, <1>3 DEF timer_init, keyboard_init, Pics
  <2>5. pic' \in Pics /\ pic'.base = pic.base /\ pic'.isr = pic.isr
    BY <1>1, <2>4 DEF Pics
  <2>6. ~interrupts /\ pic.isr = {} BY <2>1, BootAlone, Zenon
  <2>. QED BY <1>1, <2>1, <2>2, <2>3, <2>5, <2>6, BootKeeps
<1>4. CASE memory_init \/ fs_init
  <2>1. PICK name : Boot(name) /\ name \in {"memory", "fs"}
    BY <1>4 DEF memory_init, fs_init
  <2>2. step # 0 BY <1>1, <2>1, StepOrder
  <2>3. UNCHANGED <<interrupts, frames, fault, full, idt, pic>>
    BY <1>4 DEF memory_init, fs_init, cpu
  <2>4. ~interrupts /\ pic.isr = {} BY <2>1, BootAlone, Zenon
  <2>. QED BY <1>1, <2>1, <2>2, <2>3, <2>4, BootKeeps
<1>5. CASE sti
  <2>1. Boot("sti") /\ step = 5 BY <1>1, <1>5, StepOrder DEF sti
  <2>2. interrupts' \in BOOLEAN /\ UNCHANGED <<frames, fault, full, idt, pic>>
    BY <1>5 DEF sti
  <2>3. pic.isr = {} BY <2>1, BootAlone, Zenon
  <2>. QED BY <1>1, <2>1, <2>2, <2>3, BootKeeps
<1>6. CASE keyboard_getchar \/ memtest \/ timer_sleep \/ \E over \in BOOLEAN : hlt(over)
  <2>1. /\ ticked' = FALSE /\ full' \in BOOLEAN /\ asleep' \in BOOLEAN
        /\ UNCHANGED <<SAFE_MODE, step, interrupts, frames, fault, idt, pic>>
    BY <1>1, <1>6 DEF keyboard_getchar, memtest, timer_sleep, hlt, Shell, cpu
  <2>. QED BY <1>1, <2>1 DEF CpuInv, StackInv
<1>7. CASE Interrupt
  <2>. DEFINE q == Min(Pending)
  <2>1. /\ interrupts /\ Pending # {} /\ step = 6 /\ frames = <<>> /\ pic.isr = {}
        /\ UNCHANGED <<SAFE_MODE, step, idt, full, asleep, ticked>>
        /\ pic' = [pic EXCEPT !.irr = @ \ {q}, !.isr = @ \cup {q}]
    BY <1>1, <1>7 DEF Interrupt, StackInv
  <2>2. q \in Irqs BY <2>1, MinPending
  <2>3. idt[pic.base + q] = [handler |-> q, clearsIF |-> TRUE] BY <1>1, <2>1, <2>2
  <2>4. idt[pic.base + q] # NoGate BY <2>3 DEF NoGate
  <2>5. /\ UNCHANGED fault /\ interrupts' = ~idt[pic.base + q].clearsIF
        /\ frames' = Append(frames, [irq |-> idt[pic.base + q].handler, at |-> "call"])
    BY <1>7, <2>4 DEF Interrupt
  <2>. DEFINE f == [irq |-> q, at |-> "call"]
  <2>6. ~interrupts' /\ frames' = <<f>>
    <3>1. idt[pic.base + q].clearsIF = TRUE /\ idt[pic.base + q].handler = q BY <2>3
    <3>2. frames' = Append(<<>>, f) BY <2>1, <2>5, <3>1
    <3>3. ~interrupts' BY <2>5, <3>1
    <3>. QED BY <3>2, <3>3
  <2>7. pic' \in Pics /\ pic'.base = pic.base /\ pic'.isr = {q}
    BY <1>1, <2>1, <2>2, ZenonT(40) DEF Pics
  <2>8. f \in Frame BY <2>2 DEF Frame
  <2>9. StackInv'
    BY <2>1, <2>6, <2>7, <2>8 DEF StackInv
  <2>. QED BY <1>1, <2>1, <2>5, <2>6, <2>7, <2>9 DEF CpuInv
<1>8. ASSUME NEW from, NEW to \in {"eoi", "iret"}, InHandler(from, to)
      PROVE  \E f \in Frame :
               /\ frames = <<f>> /\ f.at = from /\ ~interrupts /\ step = 6
               /\ pic.isr = IF f.at = "iret" THEN {} ELSE {f.irq}
               /\ frames' = <<[f EXCEPT !.at = to]>> /\ [f EXCEPT !.at = to] \in Frame
               /\ UNCHANGED <<SAFE_MODE, step, interrupts, idt, fault, asleep, ticked>>
  <2>1. PICK f \in Frame :
               /\ frames = <<f>> /\ ~interrupts /\ step = 6
               /\ pic.isr = IF f.at = "iret" THEN {} ELSE {f.irq}
    BY <1>1, <1>8 DEF InHandler, StackInv
  <2>2. Len(frames) = 1 /\ frames[1] = f BY <2>1
  <2>3. f.at = from /\ frames' = [frames EXCEPT ![1].at = to] BY <1>8, <2>2 DEF InHandler
  <2>4. frames' = <<[f EXCEPT !.at = to]>> BY <2>1, <2>3
  <2>5. [f EXCEPT !.at = to] \in Frame BY <1>8 DEF Frame
  <2>. QED BY <1>8, <2>1, <2>3, <2>4, <2>5 DEF InHandler
<1>9. CASE CallHandler
  <2>1. PICK f \in Frame :
               /\ frames = <<f>> /\ f.at = "call" /\ ~interrupts /\ step = 6
               /\ pic.isr = IF f.at = "iret" THEN {} ELSE {f.irq}
               /\ frames' = <<[f EXCEPT !.at = "eoi"]>> /\ [f EXCEPT !.at = "eoi"] \in Frame
               /\ UNCHANGED <<SAFE_MODE, step, interrupts, idt, fault, asleep, ticked>>
    BY <1>8, <1>9 DEF CallHandler
  <2>2. UNCHANGED pic /\ full' \in BOOLEAN BY <1>1, <1>9 DEF CallHandler
  <2>3. [f EXCEPT !.at = "eoi"].irq = f.irq /\ [f EXCEPT !.at = "eoi"].at = "eoi"
    BY DEF Frame
  <2>4. StackInv' BY <2>1, <2>2, <2>3 DEF StackInv
  <2>. QED BY <1>1, <2>1, <2>2, <2>4 DEF CpuInv
<1>10. CASE SendEoi
  <2>1. PICK f \in Frame :
               /\ frames = <<f>> /\ f.at = "eoi" /\ ~interrupts /\ step = 6
               /\ pic.isr = IF f.at = "iret" THEN {} ELSE {f.irq}
               /\ frames' = <<[f EXCEPT !.at = "iret"]>> /\ [f EXCEPT !.at = "iret"] \in Frame
               /\ UNCHANGED <<SAFE_MODE, step, interrupts, idt, fault, asleep, ticked>>
    BY <1>8, <1>10 DEF SendEoi
  <2>2. pic.isr = {f.irq} /\ f.irq \in Nat BY <2>1 DEF Frame, Irqs
  <2>3. Min(pic.isr) = f.irq BY <2>2 DEF Min
  <2>4. pic' = [pic EXCEPT !.isr = {}] BY <1>10, <2>2, <2>3 DEF SendEoi
  <2>5. pic' \in Pics /\ pic'.base = pic.base /\ pic'.isr = {} BY <1>1, <2>4 DEF Pics
  <2>6. full' = full BY <1>10 DEF SendEoi
  <2>7. [f EXCEPT !.at = "iret"].at = "iret" BY DEF Frame
  <2>8. StackInv' BY <2>1, <2>5, <2>7 DEF StackInv
  <2>. QED BY <1>1, <2>1, <2>5, <2>6, <2>8 DEF CpuInv
<1>11. CASE Iret
  <2>1. PICK f \in Frame :
               /\ frames = <<f>> /\ step = 6
               /\ pic.isr = IF f.at = "iret" THEN {} ELSE {f.irq}
    BY <1>1, <1>11 DEF Iret, StackInv
  <2>2. Len(frames) = 1 /\ frames[1] = f BY <2>1
  <2>3. pic.isr = {} /\ frames' = SubSeq(frames, 1, 0) BY <1>11, <2>1, <2>2 DEF Iret
  <2>4. frames' = <<>> BY <2>1, <2>3
  <2>5. interrupts' = TRUE /\ UNCHANGED <<SAFE_MODE, step, idt, pic, fault, full, asleep, ticked>>
    BY <1>11 DEF Iret
  <2>. QED BY <1>1, <2>1, <2>3, <2>4, <2>5 DEF CpuInv, StackInv
<1>12. CASE Tick \/ KeyArrives
  <2>1. /\ UNCHANGED <<SAFE_MODE, step, interrupts, frames, fault, idt, asleep>>
        /\ full' \in BOOLEAN /\ ticked' \in BOOLEAN
    BY <1>1, <1>12 DEF Tick, KeyArrives, cpu
  <2>2. \E r \in SUBSET Irqs : pic' = [pic EXCEPT !.irr = r]
    BY <1>1, <1>12 DEF Tick, KeyArrives, Pics, Irqs
  <2>3. pic' \in Pics /\ pic'.base = pic.base /\ pic'.isr = pic.isr BY <1>1, <2>2 DEF Pics
  <2>. QED BY <1>1, <2>1, <2>3 DEF CpuInv, StackInv
<1>13. CASE UNCHANGED vars BY <1>1, <1>13 DEF vars, cpu, CpuInv, StackInv
<1>. QED BY <1>2, <1>3, <1>4, <1>5, <1>6, <1>7, <1>9, <1>10, <1>11, <1>12, <1>13 DEF Next
-----------------------------------------------------------------------------
(* The heap under the kernel *)

HP == INSTANCE HeapProofs WITH Sizes <- {FS_SIZE}

(* What HeapProofs assumes of the constants *)
LEMMA HeapConstants ==
  /\ HEAP_START \in Nat /\ HEAP_START > 0
  /\ HEADER \in Nat /\ HEADER > 0
  /\ HEAP_SIZE \in Nat /\ HEAP_SIZE > HEADER
  /\ SLACK \in Nat
  /\ WORD \in Nat /\ HP!HEAP_END < WORD
  /\ {FS_SIZE} \subseteq Nat /\ \A s \in {FS_SIZE} : s + 3 < WORD
  /\ TestSizes \in (1 .. WORD - 1) \X (1 .. WORD - 1)
  BY KernelAssumption DEF HP!HEAP_END

(* Kernel and HeapProofs each have their own instance of Heap. *)
LEMMA SameHeaps ==
  /\ H!Uninitialized = HP!Uninitialized /\ H!InitialHeap = HP!InitialHeap
  /\ H!NULL = 0 /\ HP!NULL = 0
  BY DEF H!Uninitialized, HP!Uninitialized, H!InitialHeap, HP!InitialHeap, H!NULL, HP!NULL

(* The same parts of kmalloc *)
LEMMA SameParts ==
  ASSUME NEW h, NEW s, NEW c, NEW n
  PROVE  /\ H!Align(s) = HP!Align(s)
         /\ H!Fits(h, c, s) = HP!Fits(h, c, s)
         /\ H!FirstFit(h, s) = HP!FirstFit(h, s)
         /\ H!ShouldSplit(h, c, s) = HP!ShouldSplit(h, c, s)
         /\ H!Split(h, c, s) = HP!Split(h, c, s)
         /\ H!Hand(h, c) = HP!Hand(h, c)
         /\ H!Absorb(h, c, n) = HP!Absorb(h, c, n)
         /\ H!MarkFree(h, c) = HP!MarkFree(h, c)
<1>1. H!Align(s) = HP!Align(s) BY DEF H!Align, HP!Align
<1>2. H!Fits(h, c, s) = HP!Fits(h, c, s) BY DEF H!Fits, HP!Fits
<1>3. H!FirstFit(h, s) = HP!FirstFit(h, s)
  BY DEF H!FirstFit, HP!FirstFit, H!IsFirstFit, HP!IsFirstFit, H!Fits, HP!Fits
<1>4. H!ShouldSplit(h, c, s) = HP!ShouldSplit(h, c, s) BY DEF H!ShouldSplit, HP!ShouldSplit
<1>5. H!Split(h, c, s) = HP!Split(h, c, s) BY DEF H!Split, HP!Split, H!Update, HP!Update
<1>6. H!Hand(h, c) = HP!Hand(h, c) BY DEF H!Hand, HP!Hand, H!Update, HP!Update
<1>7. H!Absorb(h, c, n) = HP!Absorb(h, c, n) BY DEF H!Absorb, HP!Absorb, H!Update, HP!Update
<1>8. H!MarkFree(h, c) = HP!MarkFree(h, c) BY DEF H!MarkFree, HP!MarkFree, H!Update, HP!Update
<1>. QED BY <1>1, <1>2, <1>3, <1>4, <1>5, <1>6, <1>7, <1>8

(* The same kmalloc *)
LEMMA SameMalloc == ASSUME NEW h, NEW s PROVE H!KMalloc(h, s) = HP!KMalloc(h, s)
<1>. DEFINE g == IF h.memory_initialized THEN h ELSE HP!InitialHeap
            x == HP!Align(s)
            c == HP!FirstFit(g, x)
            k == IF HP!ShouldSplit(g, c, x) THEN HP!Split(g, c, x) ELSE g
            none == s = 0 \/ \A a \in g.list : ~HP!Fits(g, a, x)
            r == IF none THEN [heap |-> g, ptr |-> 0]
                 ELSE [heap |-> HP!Hand(k, c), ptr |-> c + HEADER]
<1>1. HP!KMalloc(h, s) = r BY SameHeaps DEF HP!KMalloc
<1>2. H!Align(s) = x BY SameParts
<1>. HIDE DEF x
<1>3. H!FirstFit(g, x) = c BY SameParts
<1>4. \A a : H!Fits(g, a, x) = HP!Fits(g, a, x) BY SameParts
<1>5. H!ShouldSplit(g, c, x) = HP!ShouldSplit(g, c, x) BY SameParts
<1>6. H!Split(g, c, x) = HP!Split(g, c, x) BY SameParts
<1>7. H!Hand(k, c) = HP!Hand(k, c) BY SameParts
<1>8. g = IF h.memory_initialized THEN h ELSE H!InitialHeap BY SameHeaps
<1>. HIDE DEF g, c
<1>9. H!KMalloc(h, s) = r BY <1>2, <1>3, <1>4, <1>5, <1>6, <1>7, <1>8, SameHeaps DEF H!KMalloc
<1>. QED BY <1>1, <1>9

(* The same kfree *)
LEMMA SameFree == ASSUME NEW h, NEW p PROVE H!KFree(h, p) = HP!KFree(h, p)
<1>1. ASSUME NEW g, NEW b PROVE H!MergeNext(g, b) = HP!MergeNext(g, b)
  BY SameParts, SameHeaps DEF H!MergeNext, HP!MergeNext
<1>2. ASSUME NEW g, NEW b PROVE H!MergePrev(g, b) = HP!MergePrev(g, b)
  BY SameParts, SameHeaps DEF H!MergePrev, HP!MergePrev
<1>. QED BY <1>1, <1>2, SameParts, SameHeaps DEF H!KFree, HP!KFree

(* The same bookkeeping of the clients *)
LEMMA SameClients ==
  ASSUME NEW x, NEW y, NEW z
  PROVE  H!Grant(x, y, z) = HP!Grant(x, y, z) /\ H!Intact(x, y, z) = HP!Intact(x, y, z)
  BY DEF H!Grant, HP!Grant, H!Intact, HP!Intact

(* What the kernel does to the heap are calls of module Heap. *)
LEMMA HeapCalls ==
  /\ H!kmalloc(FS_SIZE) => HP!kmalloc(FS_SIZE)
  /\ H!memtest => HP!memtest
  BY SameMalloc, SameFree, SameClients
     DEF H!kmalloc, HP!kmalloc, H!memtest, HP!memtest, H!NULL, HP!NULL

(* The heap follows the boot, and from fs_init on the file system owns its *)
(* block.                                                                  *)
MemInv ==
  /\ HP!IInv
  /\ step < 3 => heap = HP!Uninitialized
  /\ step = 3 => heap = HP!InitialHeap
  /\ step < 4 => fs = 0
  /\ step >= 4 => fs \in DOMAIN owned /\ owned[fs] = FS_SIZE

(* The file system fits the heap that memory_init builds. *)
LEMMA FsFits ==
  /\ HP!KMalloc(HP!InitialHeap, FS_SIZE).ptr # 0
<1>. DEFINE h == HP!InitialHeap
            s == HP!Align(FS_SIZE)
            a == HEAP_START
<1>1. /\ h.memory_initialized /\ h.list = {a} /\ h.mem[a].is_free
      /\ h.mem[a].size = HEAP_SIZE - HEADER
  BY DEF HP!InitialHeap
<1>2. s \in Nat /\ s <= FS_SIZE + 3
  BY KernelAssumption DEF HP!Align
<1>3. HP!Fits(h, a, s)
  <2>. HIDE DEF h, s
  <2>. QED BY <1>1, <1>2, KernelAssumption DEF HP!Fits
<1>. HIDE DEF h, s
<1>4. HP!IsFirstFit(h, a, s) BY <1>1, <1>3, KernelAssumption DEF HP!IsFirstFit
<1>5. HP!FirstFit(h, s) = a BY <1>1, <1>4 DEF HP!FirstFit
<1>6. HP!KMalloc(h, FS_SIZE).ptr = a + HEADER
  BY <1>1, <1>3, <1>5, KernelAssumption DEF HP!KMalloc, s
<1>. QED BY <1>6, KernelAssumption DEF h

(* Every step keeps MemInv. *)
LEMMA MemInvNext == CpuInv /\ MemInv /\ [Next]_vars => MemInv'
<1>. SUFFICES ASSUME CpuInv, MemInv, [Next]_vars PROVE MemInv'
  OBVIOUS
<1>1. step \in 0 .. 6 BY DEF CpuInv
<1>2. HP!IInv /\ [HP!Next]_HP!vars => HP!IInv'
  BY HP!IInvNext, HeapConstants
<1>3. CASE memory_init
  <2>0. Boot("memory") /\ fs' = fs BY <1>3 DEF memory_init
  <2>1. step = 2 /\ step' = 3 /\ fs' = fs BY <1>1, <2>0, StepOrder
  <2>2. heap = HP!Uninitialized /\ fs = 0 BY <2>1 DEF MemInv
  <2>3. HP!memory_init
    BY <1>3, <2>2, SameHeaps DEF memory_init, HP!memory_init, HP!Uninitialized
  <2>4. HP!IInv' BY <1>2, <2>3 DEF HP!Next, MemInv
  <2>5. heap' = HP!InitialHeap BY <2>3 DEF HP!memory_init
  <2>. QED BY <2>1, <2>2, <2>4, <2>5 DEF MemInv
<1>4. CASE fs_init
  <2>. DEFINE r == HP!KMalloc(heap, FS_SIZE)
  <2>0. Boot("fs") BY <1>4 DEF fs_init
  <2>1. step = 3 /\ step' = 4 BY <1>1, <2>0, StepOrder
  <2>2. heap = HP!InitialHeap BY <2>1 DEF MemInv
  <2>3. HP!kmalloc(FS_SIZE) BY <1>4, HeapCalls DEF fs_init
  <2>4. HP!IInv' BY <1>2, <2>3 DEF HP!Next, MemInv
  <2>5. fs' = r.ptr BY <1>4, SameMalloc DEF fs_init
  <2>6. r.ptr # 0 BY <2>2, FsFits
  <2>7. owned' = HP!Grant(owned, r.ptr, FS_SIZE) BY <2>3, <2>6, SameHeaps DEF HP!kmalloc
  <2>8. fs' \in DOMAIN owned' /\ owned'[fs'] = FS_SIZE BY <2>5, <2>7 DEF HP!Grant
  <2>. QED BY <2>1, <2>4, <2>8 DEF MemInv
<1>5. CASE memtest
  <2>1. step = 6 /\ step' = step /\ fs' = fs
    BY <1>1, <1>5, StepOrder DEF memtest, Shell, Booted
  <2>2. HP!memtest BY <1>5, HeapCalls DEF memtest
  <2>3. HP!IInv' BY <1>2, <2>2 DEF HP!Next, MemInv
  <2>4. owned' = owned BY <2>2 DEF HP!memtest
  <2>. QED BY <2>1, <2>3, <2>4 DEF MemInv
<1>6. CASE /\ UNCHANGED memory
           /\ step' = step \/ (step' = step + 1 /\ step \notin {2, 3})
  <2>1. UNCHANGED <<heap, owned, freed, fs>> BY <1>6 DEF memory
  <2>2. HP!IInv' BY <1>2, <2>1 DEF HP!vars, MemInv
  <2>3. /\ step' < 3 => step < 3
        /\ step' = 3 => step = 3
        /\ step' < 4 => step < 4
        /\ step' >= 4 => step >= 4
    BY <1>1, <1>6
  <2>. QED BY <2>1, <2>2, <2>3 DEF MemInv
<1>7. CASE idt_init \/ timer_init \/ keyboard_init \/ sti
  <2>1. step' = step + 1 /\ step \notin {2, 3}
    <3>1. Boot("idt") \/ Boot("timer") \/ Boot("keyboard") \/ Boot("sti")
      BY <1>7 DEF idt_init, timer_init, keyboard_init, sti
    <3>. QED BY <1>1, <3>1, StepOrder
  <2>2. UNCHANGED memory BY <1>7 DEF idt_init, timer_init, keyboard_init, sti
  <2>. QED BY <1>6, <2>1, <2>2
<1>8. CASE \/ keyboard_getchar \/ timer_sleep \/ \E over \in BOOLEAN : hlt(over)
           \/ Interrupt \/ CallHandler \/ SendEoi \/ Iret
           \/ Tick \/ KeyArrives \/ UNCHANGED vars
  <2>1. step' = step /\ UNCHANGED memory
    BY <1>8 DEF keyboard_getchar, timer_sleep, hlt, Shell, Interrupt, CallHandler, SendEoi, InHandler, Iret,
                Tick, KeyArrives, vars
  <2>. QED BY <1>6, <2>1
<1>. QED BY <1>3, <1>4, <1>5, <1>7, <1>8 DEF Next
-----------------------------------------------------------------------------
(* The kernel keeps both invariants from boot.s on. *)
THEOREM KernelInvariant == Spec => [](CpuInv /\ MemInv)
<1>1. Init => CpuInv
  <2>. SUFFICES ASSUME Init PROVE CpuInv OBVIOUS
  <2>1. idt \in [Vectors -> Gates] BY DEF Init, NoGate, Gates
  <2>2. pic \in Pics /\ pic.isr = {} BY DEF Init, Pics
  <2>3. /\ step = 0 /\ ~interrupts /\ frames = <<>> /\ fault = FALSE
        /\ interrupts \in BOOLEAN /\ full \in BOOLEAN /\ ticked \in BOOLEAN /\ asleep \in BOOLEAN
    BY DEF Init
  <2>4. SAFE_MODE \in BOOLEAN BY KernelAssumption DEF Init
  <2>. QED BY <2>1, <2>2, <2>3, <2>4 DEF CpuInv, StackInv
<1>2. Init => MemInv
  <2>. SUFFICES ASSUME Init PROVE MemInv OBVIOUS
  <2>1. HP!Init BY SameHeaps DEF Init, HP!Init
  <2>2. HP!IInv BY <2>1, HP!IInvInit, HeapConstants
  <2>3. step = 0 /\ heap = HP!Uninitialized /\ fs = 0 BY SameHeaps DEF Init
  <2>. QED BY <2>2, <2>3 DEF MemInv
<1>. QED BY <1>1, <1>2, CpuInvNext, MemInvNext, PTL DEF Spec

(* In both builds, from boot on, the CPU, the PIC, the gates and the stack *)
(* have their types.                                                       *)
THEOREM KernelTypes == Spec => []TypeOK
<1>1. CpuInv /\ MemInv => TypeOK
  <2>. SUFFICES ASSUME CpuInv, MemInv PROVE TypeOK OBVIOUS
  <2>1. frames \in Seq(Frame)
    <3>1. frames = <<>> \/ \E f \in Frame : frames = <<f>> BY DEF CpuInv, StackInv
    <3>2. <<>> \in Seq(Frame) OBVIOUS
    <3>3. \A f \in Frame : <<f>> \in Seq(Frame) OBVIOUS
    <3>. QED BY <3>1, <3>2, <3>3
  <2>2. HP!TypeOK BY HP!IInvImplies, HeapConstants DEF MemInv
  <2>3. fs \in Nat
    BY <2>2 DEF MemInv, CpuInv, HP!TypeOK
  <2>4. step \in 0 .. Len(Steps) BY StepOrder DEF CpuInv
  <2>5. fault \in BOOLEAN BY DEF CpuInv
  <2>. QED BY <2>1, <2>3, <2>4, <2>5 DEF CpuInv, TypeOK, Pics, Gates, Frame
<1>. QED BY <1>1, KernelInvariant, PTL

(* No interrupt, however early its key is pressed or its tick comes,       *)
(* reaches the CPU before idt_init has set its gate and moved the PIC's    *)
(* vectors to it.                                                          *)
THEOREM KernelNeverFaults == Spec => []NeverFaults
<1>1. CpuInv => NeverFaults BY DEF CpuInv, NeverFaults
<1>. QED BY <1>1, KernelInvariant, PTL

(* The interrupt gates keep the two handlers from interrupting each other. *)
THEOREM KernelNoNesting == Spec => []HandlersDoNotNest
<1>1. CpuInv => HandlersDoNotNest
  <2>. SUFFICES ASSUME CpuInv PROVE Len(frames) <= 1 BY DEF HandlersDoNotNest
  <2>1. frames = <<>> \/ \E f : frames = <<f>> BY DEF CpuInv, StackInv
  <2>2. Len(<<>>) <= 1 OBVIOUS
  <2>3. \A f : Len(<<f>>) <= 1 OBVIOUS
  <2>. QED BY <2>1, <2>2, <2>3, Zenon
<1>. QED BY <1>1, KernelInvariant, PTL

(* Each handler ends its own service before it returns, so that no request *)
(* of its line is held back for good.                                      *)
THEOREM KernelServicesEnd == Spec => []NothingLeftInService
<1>1. CpuInv => NothingLeftInService BY DEF CpuInv, StackInv, NothingLeftInService
<1>. QED BY <1>1, KernelInvariant, PTL

(* fs_init finds room for the file system, and nothing that runs after it  *)
(* gives its block to anyone else.                                         *)
THEOREM KernelFsBlock == Spec => []FsBlockKept
<1>1. CpuInv /\ MemInv => FsBlockKept
  <2>. SUFFICES ASSUME CpuInv, MemInv, step >= 4
                PROVE  /\ fs # H!NULL /\ fs - HEADER \in heap.list
                       /\ ~heap.mem[fs - HEADER].is_free
                       /\ heap.mem[fs - HEADER].size >= FS_SIZE
    BY DEF FsBlockKept
  <2>1. fs \in DOMAIN owned /\ owned[fs] = FS_SIZE BY DEF MemInv
  <2>3. HP!TypeOK /\ HP!InUseIsOwned /\ HP!LargeEnough
    BY HP!IInvImplies, HeapConstants DEF MemInv
  <2>4. fs # 0 BY <2>1, <2>3, SameHeaps DEF HP!TypeOK
  <2>5. PICK a \in HP!InUse(heap) : fs = a + HEADER BY <2>1, <2>3 DEF HP!InUseIsOwned
  <2>6. a \in Nat BY <2>3, <2>5 DEF HP!TypeOK, HP!IsHeap, HP!InUse
  <2>7. fs - HEADER = a BY <2>5, <2>6, KernelAssumption
  <2>8. a \in heap.list /\ ~heap.mem[a].is_free BY <2>5 DEF HP!InUse
  <2>9. heap.mem[fs - HEADER].size >= FS_SIZE BY <2>1, <2>3 DEF HP!LargeEnough
  <2>. QED BY <2>4, <2>7, <2>8, <2>9, SameHeaps
<1>. QED BY <1>1, KernelInvariant, PTL
=============================================================================
