-------------------------------- MODULE Heap --------------------------------
(***************************************************************************)
(* The kernel heap of src/src/mm/memory.c: a doubly linked list of block   *)
(* headers that lie inside the heap itself, first-fit allocation with a    *)
(* split, and a kfree that merges with both neighbours.                    *)
(*                                                                         *)
(* An address is a natural number.  The bytes of the heap are abstracted   *)
(* to the headers found in it.  The functions of memory.c that call one    *)
(* another (krealloc calls kmalloc and then kfree) are operators from a    *)
(* heap to a heap, so that each action is one whole call.                  *)
(***************************************************************************)
EXTENDS Integers, FiniteSets, FiniteSetsExt

CONSTANTS
  HEAP_START,   \* address of the first header
  HEAP_SIZE,    \* bytes in the heap, headers included
  HEADER,       \* sizeof(memory_block_t)
  SLACK,        \* bytes a remainder needs, beyond its header, to be split off
  WORD,         \* uint32_t arithmetic is modulo WORD
  Sizes,        \* sizes the clients ask for
  TestSizes     \* the two sizes of the shell's memtest, as a pair

NULL == 0
HEAP_END == HEAP_START + HEAP_SIZE

(* memory.h fixes these numbers (0x400000, 0x400000, 16, 32, 2^32); all    *)
(* that matters is that the heap holds a header and ends below WORD.  No   *)
(* client asks for so much that rounding up wraps: in src/ they ask for    *)
(* 1024, 2048 and sizeof(filesystem_t) bytes.                              *)
ASSUME HeapAssumption ==
  /\ HEAP_START \in Nat /\ HEAP_START > 0
  /\ HEADER \in Nat /\ HEADER > 0
  /\ HEAP_SIZE \in Nat /\ HEAP_SIZE > HEADER
  /\ SLACK \in Nat
  /\ WORD \in Nat /\ HEAP_END < WORD
  /\ Sizes \subseteq Nat /\ \A s \in Sizes : s + 3 < WORD
  /\ TestSizes \in (1 .. WORD - 1) \X (1 .. WORD - 1)

VARIABLES
  heap,    \* the heap: see Uninitialized for its fields
  owned,   \* client pointer -> size its owner asked for
  freed    \* pointers given back whose header bytes are still intact

vars == <<heap, owned, freed>>

-----------------------------------------------------------------------------
(* mem holds every header in the heap, also those that a merge unlinked    *)
(* and nothing has overwritten yet; list is the set of the linked ones.    *)
Uninitialized ==
  [mem |-> [a \in {} |-> NULL], list |-> {},
   total_allocated |-> 0, memory_initialized |-> FALSE]

InitialHeap ==
  [mem |-> [a \in {HEAP_START} |-> [size |-> HEAP_SIZE - HEADER,
              is_free |-> TRUE, next |-> NULL, prev |-> NULL]],
   list |-> {HEAP_START}, total_allocated |-> 0, memory_initialized |-> TRUE]

Update(h, mem, list, total) ==
  [mem |-> mem, list |-> list, total_allocated |-> total,
   memory_initialized |-> h.memory_initialized]

(* Operators named Bug_... are deliberate mistakes, each a plausible slip  *)
(* in the definition it precedes; no action uses them.                     *)

(* (size + 3) & ~3 in 32 bits *)
Align(size) == LET s == (size + 3) % WORD IN s - (s % 4)

Fits(h, a, size) == h.mem[a].is_free /\ h.mem[a].size >= size

(* The walk of kmalloc: heap_start, then next until NULL. *)
Walk(h) ==
  LET w[n \in Nat] == IF n = 0 THEN HEAP_START
                      ELSE IF w[n - 1] = NULL THEN NULL
                      ELSE h.mem[w[n - 1]].next
  IN w

(* The walk from heap_start meets the blocks in address order (invariant   *)
(* WalkMeetsList), so it stops at the lowest block that fits.              *)
IsFirstFit(h, a, size) ==
  /\ Fits(h, a, size)
  /\ \A b \in h.list : Fits(h, b, size) => a <= b

FirstFit(h, size) == CHOOSE a \in h.list : IsFirstFit(h, a, size)

Bug_SplitNoHeader(h, c, size) ==
  LET new == c + HEADER + size
  IN Update(h,
       [a \in DOMAIN h.mem \cup {new} |->
          IF a = new THEN [size |-> h.mem[c].size - size, is_free |-> TRUE,
                           next |-> h.mem[c].next, prev |-> c]
          ELSE IF a = c THEN [h.mem[c] EXCEPT !.size = size, !.next = new]
          ELSE IF a = h.mem[c].next THEN [h.mem[a] EXCEPT !.prev = new]
          ELSE h.mem[a]],
       h.list \cup {new}, h.total_allocated)

(* Cut block c down to size bytes; the rest becomes a free block after it. *)
Split(h, c, size) ==
  LET new   == c + HEADER + size
      after == h.mem[c].next
  IN Update(h,
       [a \in DOMAIN h.mem \cup {new} |->
          IF a = new THEN [size |-> h.mem[c].size - size - HEADER,
                           is_free |-> TRUE, next |-> after, prev |-> c]
          ELSE IF a = c THEN [h.mem[c] EXCEPT !.size = size, !.next = new]
          ELSE IF a = after THEN [h.mem[a] EXCEPT !.prev = new]
          ELSE h.mem[a]],
       h.list \cup {new}, h.total_allocated)

Bug_SplitAlways(h, c, size) == h.mem[c].size > size

ShouldSplit(h, c, size) == h.mem[c].size > size + HEADER + SLACK

(* Block c goes to a client, who may write all of it: an unlinked header   *)
(* that overlaps c, or the header after c, is not a header any more.       *)
Hand(h, c) ==
  LET end     == c + HEADER + h.mem[c].size
      Kept(a) == a \in h.list \/ a + HEADER <= c \/ a >= end + HEADER
  IN Update(h,
       [a \in {b \in DOMAIN h.mem : Kept(b)} |->
          IF a = c THEN [h.mem[c] EXCEPT !.is_free = FALSE] ELSE h.mem[a]],
       h.list, h.total_allocated + h.mem[c].size)

(* kmalloc: the heap after the call and the pointer it returns *)
KMalloc(h0, size) ==
  LET h == IF h0.memory_initialized THEN h0 ELSE InitialHeap
      s == Align(size)
      c == FirstFit(h, s)
  IN IF size = 0 \/ \A a \in h.list : ~Fits(h, a, s)
     THEN [heap |-> h, ptr |-> NULL]
     ELSE [heap |-> Hand(IF ShouldSplit(h, c, s) THEN Split(h, c, s) ELSE h, c),
           ptr  |-> c + HEADER]

(* Block a swallows its successor n, which leaves the list. *)
Absorb(h, a, n) ==
  LET after == h.mem[n].next
  IN Update(h,
       [b \in DOMAIN h.mem |->
          IF b = a THEN [h.mem[a] EXCEPT !.size = @ + h.mem[n].size + HEADER,
                                         !.next = after]
          ELSE IF b = after THEN [h.mem[b] EXCEPT !.prev = a]
          ELSE h.mem[b]],
       h.list \ {n}, h.total_allocated)

Bug_MarkFreeUncounted(h, b) ==
  Update(h, [h.mem EXCEPT ![b].is_free = TRUE], h.list, h.total_allocated)

MarkFree(h, b) ==
  Update(h, [h.mem EXCEPT ![b].is_free = TRUE], h.list,
         h.total_allocated - h.mem[b].size)

Bug_NoMerge(h, b) == h

MergeNext(h, b) ==
  LET n == h.mem[b].next
  IN IF n # NULL /\ h.mem[n].is_free THEN Absorb(h, b, n) ELSE h

MergePrev(h, b) ==
  LET p == h.mem[b].prev
  IN IF p # NULL /\ h.mem[p].is_free THEN Absorb(h, p, b) ELSE h

Bug_KFreeUnguarded(h, ptr) ==
  LET b == ptr - HEADER
  IN IF ptr = NULL \/ ~h.memory_initialized THEN h
     ELSE MergePrev(MergeNext(MarkFree(h, b), b), b)

(* kfree: the heap after the call *)
KFree(h, ptr) ==
  LET b == ptr - HEADER
  IN IF ptr = NULL \/ ~h.memory_initialized \/ h.mem[b].is_free
     THEN h
     ELSE MergePrev(MergeNext(MarkFree(h, b), b), b)

Bug_KReallocFreesFirst(h, ptr, new_size) ==
  IF ptr = NULL THEN KMalloc(h, new_size)
  ELSE IF new_size = 0 THEN [heap |-> KFree(h, ptr), ptr |-> NULL]
  ELSE IF h.mem[ptr - HEADER].size >= new_size THEN [heap |-> h, ptr |-> ptr]
  ELSE KMalloc(KFree(h, ptr), new_size)

(* krealloc: the heap after the call and the pointer it returns *)
KRealloc(h, ptr, new_size) ==
  IF ptr = NULL THEN KMalloc(h, new_size)
  ELSE IF new_size = 0 THEN [heap |-> KFree(h, ptr), ptr |-> NULL]
  ELSE IF h.mem[ptr - HEADER].size >= new_size THEN [heap |-> h, ptr |-> ptr]
  ELSE LET r == KMalloc(h, new_size)
       IN IF r.ptr = NULL THEN r
          ELSE [heap |-> KFree(r.heap, ptr), ptr |-> r.ptr]

memory_get_used(h) == h.total_allocated
memory_get_free(h) == (HEAP_SIZE - h.total_allocated) % WORD

(* The usage that memory_print_stats shows, in parts of scale (100 there) *)
Usage(h, scale) == ((h.total_allocated * scale) % WORD) \div HEAP_SIZE

-----------------------------------------------------------------------------
(* Clients own the pointers they were given and give each back once, or    *)
(* once more while its header is intact (the "Already freed" branch).      *)
Grant(o, ptr, size) ==
  [p \in DOMAIN o \cup {ptr} |-> IF p = ptr THEN size ELSE o[p]]
Revoke(o, ptr) == [p \in DOMAIN o \ {ptr} |-> o[p]]

Intact(ptrs, h, o) ==
  {p \in ptrs : p - HEADER \in DOMAIN h.mem /\ p \notin DOMAIN o}

Init ==
  /\ heap = Uninitialized
  /\ owned = [p \in {} |-> 0]
  /\ freed = {}

(* kernel_main calls it once, before any client runs *)
memory_init ==
  /\ ~heap.memory_initialized
  /\ heap' = InitialHeap
  /\ UNCHANGED <<owned, freed>>

kmalloc(size) ==
  LET r == KMalloc(heap, size)
  IN /\ heap' = r.heap
     /\ owned' = IF r.ptr = NULL THEN owned ELSE Grant(owned, r.ptr, size)
     /\ freed' = Intact(freed, r.heap, owned')

kfree(ptr) ==
  LET h == KFree(heap, ptr)
  IN /\ heap' = h
     /\ owned' = Revoke(owned, ptr)
     /\ freed' = Intact(freed \cup ({ptr} \ {NULL}), h, owned')

krealloc(ptr, size) ==
  LET r == KRealloc(heap, ptr, size)
  IN /\ heap' = r.heap
     /\ owned' = IF r.ptr # NULL
                 THEN Grant(Revoke(owned, ptr), r.ptr, size)
                 ELSE IF size = 0 THEN Revoke(owned, ptr) ELSE owned
     /\ freed' = Intact(freed \cup ({ptr} \ {NULL}), r.heap, owned')

(* The shell's memtest: two allocations, given back in the same order. *)
memtest ==
  LET r1 == KMalloc(heap, TestSizes[1])
      r2 == KMalloc(r1.heap, TestSizes[2])
      h  == KFree(KFree(r2.heap, r1.ptr), r2.ptr)
  IN /\ heap.memory_initialized
     /\ heap' = h
     /\ UNCHANGED owned
     /\ freed' = Intact(freed \cup ({r1.ptr, r2.ptr} \ {NULL}), h, owned)

Next ==
  \/ memory_init
  \/ \E size \in Sizes : kmalloc(size)
  \/ \E ptr \in DOMAIN owned \cup freed \cup {NULL} : kfree(ptr)
  \/ \E ptr \in DOMAIN owned \cup {NULL}, size \in Sizes : krealloc(ptr, size)
  \/ memtest

Spec == Init /\ [][Next]_vars
-----------------------------------------------------------------------------
(* Header contents and pointers have the C types of memory_block_t. *)
Header == [size : Nat, is_free : BOOLEAN, next : Nat, prev : Nat]

IsFunction(f) == f = [x \in DOMAIN f |-> f[x]]

IsHeap(h) ==
  /\ h = [mem |-> h.mem, list |-> h.list, total_allocated |-> h.total_allocated,
          memory_initialized |-> h.memory_initialized]
  /\ IsFunction(h.mem) /\ DOMAIN h.mem \subseteq Nat
  /\ \A a \in DOMAIN h.mem : h.mem[a] \in Header
  /\ h.list \subseteq DOMAIN h.mem
  /\ h.total_allocated \in Int /\ h.memory_initialized \in BOOLEAN

(* Type invariant: every linked header is present in the heap with fields  *)
(* of the C types, and clients hold non-NULL pointers.                     *)
TypeOK ==
  /\ IsHeap(heap)
  /\ IsFunction(owned) /\ DOMAIN owned \subseteq Nat \ {NULL}
  /\ \A p \in DOMAIN owned : owned[p] \in Sizes
  /\ freed \subseteq Nat \ {NULL}

(* The blocks of the list lie end to end from HEAP_START to HEAP_END: the  *)
(* block after a starts where a ends, only the last one has no next, and   *)
(* prev is the inverse of next.  Split and both merges of kfree rewrite    *)
(* four links by hand; one forgotten link breaks this.                     *)
TilesHeap(h) ==
  /\ HEAP_START \in h.list
  /\ NULL \notin h.list
  /\ \A a \in h.list :
       LET end == a + HEADER + h.mem[a].size IN
       /\ HEAP_START <= a /\ end <= HEAP_END
       /\ h.mem[a].next = IF end = HEAP_END THEN NULL ELSE end
       /\ h.mem[a].next # NULL => /\ h.mem[a].next \in h.list
                                  /\ h.mem[h.mem[a].next].prev = a
       /\ h.mem[a].prev = NULL <=> a = HEAP_START
       /\ h.mem[a].prev # NULL => /\ h.mem[a].prev \in h.list
                                  /\ h.mem[h.mem[a].prev].next = a

(* No two blocks share a byte: the data a client was given is not touched  *)
(* by another client or by a header that kmalloc or kfree writes.          *)
Disjoint(h) ==
  \A a, b \in h.list : a < b => a + HEADER + h.mem[a].size <= b

(* kfree leaves no two free neighbours, so that first fit never fails for  *)
(* want of a merge that was skipped.                                       *)
Coalesced(h) ==
  \A a \in h.list :
    h.mem[a].next # NULL => ~(h.mem[a].is_free /\ h.mem[h.mem[a].next].is_free)

(* Every call leaves a well-formed list, see TilesHeap: no split or merge  *)
(* forgets a link.                                                         *)
ListTilesHeap == heap.memory_initialized => TilesHeap(heap)

(* Every call leaves the blocks apart, see Disjoint: no client's bytes are *)
(* another's, nor a header's.                                              *)
BlocksDisjoint == Disjoint(heap)

(* Every call leaves no two free neighbours, see Coalesced: both merges of *)
(* kfree are made when they are due.                                       *)
FullyCoalesced == Coalesced(heap)

(* The blocks in use *)
InUse(h) == {a \in h.list : ~h.mem[a].is_free}

(* Exactly the pointers handed out and not given back are marked in use:   *)
(* no block leaks (krealloc frees the old block once and only if it has a  *)
(* new one), and no block is granted twice.                                *)
InUseIsOwned == {a + HEADER : a \in InUse(heap)} = DOMAIN owned

(* A header a client may free once more (memory.c "Already freed") is free *)
(* whether or not a merge has unlinked it since.                           *)
FreedIsFree ==
  \A p \in freed : p - HEADER \in DOMAIN heap.mem /\ heap.mem[p - HEADER].is_free

(* "Find a free block that's large enough": the block behind a pointer has *)
(* at least the bytes its owner asked for, after any split or krealloc.    *)
LargeEnough ==
  \A p \in DOMAIN owned : heap.mem[p - HEADER].size >= owned[p]

(* What memory_print_stats shows as free is what the free blocks hold and  *)
(* the headers of all blocks: it never wraps below 0, and the usage, which *)
(* is computed with a product of 32 bits, is the used share of the heap.   *)
StatsAddUp ==
  heap.memory_initialized =>
    /\ memory_get_free(heap) =
         MapThenSumSet(LAMBDA a : HEADER + (IF heap.mem[a].is_free THEN heap.mem[a].size ELSE 0),
                       heap.list)
    /\ \A scale \in 1 .. WORD \div HEAP_SIZE :
         /\ Usage(heap, scale) * HEAP_SIZE <= memory_get_used(heap) * scale
         /\ (Usage(heap, scale) + 1) * HEAP_SIZE > memory_get_used(heap) * scale

(* Once every client has freed everything the heap is one free block again *)
(* in whatever order the frees came: no fragmentation survives.            *)
EmptyIsWhole ==
  heap.memory_initialized /\ DOMAIN owned = {} =>
    /\ heap.list = {HEAP_START}
    /\ heap.mem[HEAP_START].size = HEAP_SIZE - HEADER

(* The walk of kmalloc visits each linked header once, in address order,   *)
(* and then ends: the loop terminates and meets first the lowest block     *)
(* that fits.                                                              *)
WalkMeetsList ==
  heap.memory_initialized =>
    LET w == Walk(heap)
        n == Cardinality(heap.list)
    IN /\ {w[i] : i \in 0 .. n - 1} = heap.list
       /\ \A i \in 1 .. n - 1 : w[i - 1] < w[i]
       /\ w[n] = NULL

(* The headers of the list and their contents: what later calls depend on *)
Linked(h) == [a \in h.list |-> h.mem[a]]

(* Freeing a pointer a second time, before its header is overwritten,      *)
(* changes neither the list nor the counter.                               *)
DoubleFreeHarmless ==
  [][\A p \in freed : kfree(p) => Linked(heap') = Linked(heap)
                                  /\ heap'.total_allocated = heap.total_allocated]_vars

(* memtest gives back all it takes: the list and the counter end as they   *)
(* began, also when one of the two allocations fails.                      *)
MemtestNeutral ==
  [][memtest => Linked(heap') = Linked(heap)
                /\ heap'.total_allocated = heap.total_allocated]_vars

(* A block stays its owner's as it is, whatever the others allocate, free, *)
(* split and merge around it, until it is given back; a krealloc that      *)
(* fails leaves the old block alone.                                       *)
OwnersKeepBlocks ==
  [][\A p \in DOMAIN owned \cap DOMAIN owned' :
       LET b == p - HEADER
       IN /\ b \in heap'.list /\ ~heap'.mem[b].is_free
          /\ heap'.mem[b].size = heap.mem[b].size]_vars

-----------------------------------------------------------------------------
(* The inductive invariant of the proofs in HeapProofs. *)

(* A header that a merge unlinked was free at that moment and stays so. *)
StaleFree(h) == \A a \in DOMAIN h.mem \ h.list : h.mem[a].is_free

Sound(h) ==
  /\ IsHeap(h) /\ h.memory_initialized
  /\ TilesHeap(h) /\ Disjoint(h) /\ StaleFree(h)

(* A heap as every call finds it and leaves it *)
Good(h) == Sound(h) /\ Coalesced(h)

OwnedOK(h, o) ==
  /\ IsFunction(o) /\ \A p \in DOMAIN o : o[p] \in Sizes
  /\ DOMAIN o = {a + HEADER : a \in InUse(h)}

FreedOK(h, o, f) ==
  \A p \in f : /\ p \in Nat \ {NULL} /\ p - HEADER \in DOMAIN h.mem
               /\ p \notin DOMAIN o

Enough(h, o) == \A p \in DOMAIN o : h.mem[p - HEADER].size >= o[p]

(* Between calls the heap is untouched or good, the clients' pointers are  *)
(* the blocks in use, each large enough, and what they gave back is free   *)
(* or was unlinked while free.                                             *)
IInv ==
  /\ IF heap.memory_initialized THEN Good(heap) ELSE heap = Uninitialized
  /\ OwnedOK(heap, owned)
  /\ FreedOK(heap, owned, freed)
  /\ Enough(heap, owned)
=============================================================================
