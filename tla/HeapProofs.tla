----------------------------- MODULE HeapProofs -----------------------------
(***************************************************************************)
(* Proofs about Heap, for every heap, header and request size.             *)
(*                                                                         *)
(* The argument is about one heap at a time: each of Split, Hand, MarkFree *)
(* and Absorb is shown to keep a heap sound, and the theorems follow by    *)
(* putting the calls of memory.c together.  The last parts are about the   *)
(* walk along the list, about refusals and about alignment.                *)
(***************************************************************************)
EXTENDS Heap, FoldProofs, TLAPS

(* What TilesHeap says of block a, if these are the fields of its header *)
TileAt(h, a, size, next, prev) ==
  LET end == a + HEADER + size IN
  /\ HEAP_START <= a /\ end <= HEAP_END
  /\ next = IF end = HEAP_END THEN NULL ELSE end
  /\ next # NULL => next \in h.list /\ h.mem[next].prev = a
  /\ prev = NULL <=> a = HEAP_START
  /\ prev # NULL => prev \in h.list /\ h.mem[prev].next = a

LEMMA TilesIff ==
  ASSUME NEW h
  PROVE  TilesHeap(h) <=>
           /\ HEAP_START \in h.list /\ NULL \notin h.list
           /\ \A a \in h.list : TileAt(h, a, h.mem[a].size, h.mem[a].next, h.mem[a].prev)
BY Zenon DEF TilesHeap, TileAt

(* Only the pair of block b and its successor may both be free. *)
CoalescedBut(h, b) ==
  \A a \in h.list :
    a # b /\ h.mem[a].next # NULL =>
      ~(h.mem[a].is_free /\ h.mem[h.mem[a].next].is_free)

(* The heap memory_init builds is sound and coalesced.                     *)
LEMMA InitialHeapSound == Sound(InitialHeap) /\ Coalesced(InitialHeap)
BY HeapAssumption, SMTT(30) DEF Sound, IsHeap, TilesHeap, Disjoint, StaleFree, Coalesced,
   InitialHeap, IsFunction, Header, HEAP_END, NULL

(* What Split does to each field of each header. *)
IsSplitOf(m, h, c, s, new) ==
  /\ new \in Nat /\ new \notin h.list /\ new # c /\ new # NULL
  /\ IsHeap(m) /\ m.memory_initialized /\ m.total_allocated = h.total_allocated
  /\ m.list = h.list \cup {new}
  /\ DOMAIN m.mem = DOMAIN h.mem \cup {new}
  /\ m.mem[new].size = h.mem[c].size - s - HEADER /\ m.mem[new].is_free
  /\ m.mem[new].next = h.mem[c].next /\ m.mem[new].prev = c
  /\ m.mem[c].size = s /\ m.mem[c].is_free = h.mem[c].is_free
  /\ m.mem[c].next = new /\ m.mem[c].prev = h.mem[c].prev
  /\ \A a \in DOMAIN h.mem \ {new, c} :
       /\ m.mem[a].size = h.mem[a].size /\ m.mem[a].is_free = h.mem[a].is_free
       /\ m.mem[a].next = h.mem[a].next
       /\ m.mem[a].prev = IF a = h.mem[c].next THEN new ELSE h.mem[a].prev

(* Split yields what IsSplitOf describes.                                  *)
LEMMA SplitFields ==
  ASSUME NEW h, Sound(h), NEW c \in h.list, NEW s \in Nat,
         ShouldSplit(h, c, s)
  PROVE  IsSplitOf(Split(h, c, s), h, c, s, c + HEADER + s)
<1> DEFINE m == Split(h, c, s)
           new == c + HEADER + s
           g == h.mem
<1>1. /\ c \in Nat /\ c \in DOMAIN g /\ g[c] \in Header /\ IsHeap(h)
      BY DEF Sound, IsHeap
<1>2. new \in Nat /\ new # c /\ new # NULL /\ new < c + HEADER + g[c].size
      BY <1>1, HeapAssumption DEF Header, ShouldSplit, NULL
<1>3. new \notin h.list
      BY <1>1, <1>2, HeapAssumption DEF Sound, Disjoint, Header
<1>4. /\ m.list = h.list \cup {new}
      /\ m.memory_initialized /\ m.total_allocated = h.total_allocated
      /\ m = [mem |-> m.mem, list |-> m.list, total_allocated |-> m.total_allocated,
              memory_initialized |-> m.memory_initialized]
      /\ m.mem = [a \in DOMAIN g \cup {new} |->
          IF a = new THEN [size |-> g[c].size - s - HEADER,
                           is_free |-> TRUE, next |-> g[c].next, prev |-> c]
          ELSE IF a = c THEN [g[c] EXCEPT !.size = s, !.next = new]
          ELSE IF a = g[c].next THEN [g[a] EXCEPT !.prev = new]
          ELSE g[a]]
      BY DEF Sound, Split, Update
<1>5. DOMAIN m.mem = DOMAIN g \cup {new} /\ IsFunction(m.mem)
      BY <1>4 DEF IsFunction
<1>6. m.mem[new] = [size |-> g[c].size - s - HEADER,
                    is_free |-> TRUE, next |-> g[c].next, prev |-> c]
      BY <1>4
<1>7. m.mem[c] = [g[c] EXCEPT !.size = s, !.next = new]
      BY <1>1, <1>2, <1>4
<1>8. ASSUME NEW a \in DOMAIN g \ {new, c}
      PROVE  m.mem[a] = IF a = g[c].next THEN [g[a] EXCEPT !.prev = new] ELSE g[a]
      BY <1>4
<1> HIDE DEF m, new, g
<1>9. /\ m.mem[new].size = g[c].size - s - HEADER /\ m.mem[new].is_free
      /\ m.mem[new].next = g[c].next /\ m.mem[new].prev = c
      /\ m.mem[new] \in Header
      BY <1>1, <1>2, <1>6, HeapAssumption DEF Header, ShouldSplit, new, g
<1>10. /\ m.mem[c].size = s /\ m.mem[c].is_free = g[c].is_free
       /\ m.mem[c].next = new /\ m.mem[c].prev = g[c].prev
       /\ m.mem[c] \in Header
      BY <1>1, <1>2, <1>7 DEF Header
<1>11. ASSUME NEW a \in DOMAIN g \ {new, c}
      PROVE  /\ m.mem[a].size = g[a].size /\ m.mem[a].is_free = g[a].is_free
             /\ m.mem[a].next = g[a].next
             /\ m.mem[a].prev = IF a = g[c].next THEN new ELSE g[a].prev
             /\ m.mem[a] \in Header
  <2>1. g[a] \in Header
        BY <1>1, SMTT(30) DEF IsHeap, g
  <2> QED BY <2>1, <1>2, <1>8, ZenonT(40) DEF Header
<1>12. IsHeap(m)
  <2>1. \A a \in DOMAIN m.mem : m.mem[a] \in Header
        BY <1>5, <1>9, <1>10, <1>11
  <2> QED BY <2>1, <1>1, <1>2, <1>4, <1>5 DEF IsHeap, g
<1> QED BY <1>2, <1>3, <1>4, <1>5, <1>9, <1>10, <1>11, <1>12, ZenonT(40)
        DEF IsSplitOf, m, new, g

(* Splitting keeps the heap sound; only the new pair may both be free. *)
LEMMA SplitSound ==
  ASSUME NEW h, Sound(h), Coalesced(h), NEW c \in h.list, NEW s \in Nat,
         h.mem[c].is_free, ShouldSplit(h, c, s)
  PROVE  LET m == Split(h, c, s)
         IN /\ Sound(m) /\ CoalescedBut(m, c)
            /\ m.mem[c].is_free /\ m.mem[c].size = s
            /\ InUse(m) = InUse(h) /\ m.total_allocated = h.total_allocated
            /\ \A a \in InUse(h) : m.mem[a].size = h.mem[a].size
<1> DEFINE m == Split(h, c, s)
           new == c + HEADER + s
           after == h.mem[c].next
<1> HIDE DEF m
<1>s. IsSplitOf(m, h, c, s, new)
      BY SplitFields DEF m
<1>1. /\ IsHeap(h) /\ IsHeap(m) /\ m.memory_initialized
      /\ TilesHeap(h) /\ Disjoint(h) /\ StaleFree(h)
      /\ c \in DOMAIN h.mem /\ c \in Nat
      BY <1>s DEF Sound, IsHeap, IsSplitOf
<1>2. /\ new \in Nat /\ new \notin h.list /\ new # c /\ new # NULL
      /\ m.list = h.list \cup {new}
      /\ DOMAIN m.mem = DOMAIN h.mem \cup {new}
      BY <1>s DEF IsSplitOf
<1>3. /\ m.mem[new].size = h.mem[c].size - s - HEADER
      /\ m.mem[new].is_free /\ m.mem[new].next = after /\ m.mem[new].prev = c
      /\ m.mem[c].size = s /\ m.mem[c].is_free = h.mem[c].is_free
      /\ m.mem[c].next = new /\ m.mem[c].prev = h.mem[c].prev
      BY <1>s DEF IsSplitOf
<1>4. \A a \in DOMAIN h.mem \ {new, c} :
        /\ m.mem[a].size = h.mem[a].size /\ m.mem[a].is_free = h.mem[a].is_free
        /\ m.mem[a].next = h.mem[a].next
        /\ m.mem[a].prev = IF a = after THEN new ELSE h.mem[a].prev
      BY <1>s DEF IsSplitOf
<1>5. \A a \in h.list : /\ a \in DOMAIN h.mem /\ a \in Nat /\ h.mem[a] \in Header
                        /\ h.mem[a].size \in Nat /\ h.mem[a].next \in Nat
                        /\ h.mem[a].prev \in Nat
      BY <1>1 DEF IsHeap, Header
<1>t. \A a \in h.list : TileAt(h, a, h.mem[a].size, h.mem[a].next, h.mem[a].prev)
      BY <1>1, TilesIff
<1>u. h.mem[c].next = after /\ h.mem[c].size > s + HEADER
      BY <1>5, HeapAssumption DEF ShouldSplit
<1>v. c # NULL /\ HEAP_START \in h.list /\ NULL \notin h.list
      BY <1>1, TilesIff
<1> HIDE DEF after
<1>w. after # c /\ (after # NULL => after \in h.list /\ h.mem[after].prev = c)
  <2>1. TileAt(h, c, h.mem[c].size, after, h.mem[c].prev)
        BY <1>t, <1>u
  <2>2. after = c + HEADER + h.mem[c].size \/ after = NULL
        BY <2>1, Zenon DEF TileAt
  <2>3. after # c
        BY <1>5, <1>v, <2>2, HeapAssumption
  <2> QED BY <2>1, <2>3, Zenon DEF TileAt
<1>6. TilesHeap(m)
  <2>1. HEAP_START \in m.list /\ NULL \notin m.list
        BY <1>2, <1>v
  <2> DEFINE sc == h.mem[c].size
             pc == h.mem[c].prev
  <2>2. TileAt(h, c, sc, after, pc) /\ sc \in Nat /\ sc > s + HEADER
        BY <1>5, <1>t, <1>u
  <2>3. TileAt(m, new, sc - s - HEADER, after, c)
    <3>1. after # NULL => after \in m.list /\ m.mem[after].prev = new
          BY <1>2, <1>4, <1>5, <1>w
    <3>2. new # HEAP_START /\ c \in m.list /\ m.mem[c].next = new
          BY <1>2, <1>3, <1>v
    <3> HIDE DEF sc, pc
    <3>3. new + HEADER + (sc - s - HEADER) = c + HEADER + sc /\ HEAP_START <= new
          BY <1>1, <2>2, HeapAssumption DEF TileAt
    <3> HIDE DEF new
    <3> QED BY <1>v, <2>2, <3>1, <3>2, <3>3 DEF TileAt
  <2>4. TileAt(m, c, s, new, pc)
    <3>1. new \in m.list /\ m.mem[new].prev = c
          BY <1>2, <1>3
    <3>2. pc # NULL => pc \in m.list /\ m.mem[pc].next = c
      <4>1. pc # NULL => pc \in h.list /\ h.mem[pc].next = c
            BY <2>2, Zenon DEF TileAt
      <4> HIDE DEF pc
      <4>2. pc # NULL => pc # c /\ pc # new
            BY <1>2, <1>u, <1>w, <4>1
      <4> QED BY <1>2, <1>4, <1>5, <4>1, <4>2
    <3> HIDE DEF sc, pc
    <3>3. c + HEADER + s < HEAP_END
          BY <1>1, <2>2, HeapAssumption DEF TileAt, HEAP_END
    <3>4. new # HEAP_END
          BY <1>1, <3>3, HeapAssumption DEF HEAP_END
    <3>5. HEAP_START <= c /\ (pc = NULL <=> c = HEAP_START)
          BY <2>2, Zenon DEF TileAt
    <3> QED BY <1>1, <3>1, <3>2, <3>3, <3>5, HeapAssumption DEF TileAt, HEAP_END
  <2>5. ASSUME NEW a \in h.list, a # c
        PROVE  TileAt(m, a, m.mem[a].size, m.mem[a].next, m.mem[a].prev)
    <3> DEFINE sa == h.mem[a].size
               xa == h.mem[a].next
               pa == h.mem[a].prev
               q  == IF a = after THEN new ELSE pa
    <3>1. TileAt(h, a, sa, xa, pa) /\ a # new /\ a \in DOMAIN h.mem
          BY <1>2, <1>5, <1>t
    <3>2. m.mem[a].size = sa /\ m.mem[a].next = xa /\ m.mem[a].prev = q
          BY <1>4, <2>5, <3>1
    <3>3. xa # NULL => xa \in m.list /\ m.mem[xa].prev = a
      <4> SUFFICES ASSUME xa # NULL PROVE xa \in m.list /\ m.mem[xa].prev = a
          BY Zenon
      <4>1. xa \in h.list /\ h.mem[xa].prev = a
            BY <3>1, Zenon DEF TileAt
      <4> HIDE DEF xa
      <4>2. xa # after /\ xa # new
            BY <1>2, <1>w, <2>5, <4>1
      <4> QED BY <1>2, <1>3, <1>4, <1>5, <4>1, <4>2
    <3>4. (q = NULL <=> a = HEAP_START) /\ (q # NULL => q \in m.list /\ m.mem[q].next = a)
      <4>1. CASE a = after
        <5>1. pa = c /\ a # NULL
              BY <1>v, <1>w, <4>1
        <5>2. a # HEAP_START
              BY <1>v, <3>1, <5>1, Zenon DEF TileAt
        <5> QED BY <1>2, <1>3, <4>1, <5>2
      <4>2. CASE a # after
        <5>1. (pa = NULL <=> a = HEAP_START)
              /\ (pa # NULL => pa \in h.list /\ h.mem[pa].next = a)
              BY <3>1, Zenon DEF TileAt
        <5> HIDE DEF pa
        <5>2. pa # NULL => pa # c /\ pa # new
              BY <1>2, <1>u, <4>2, <5>1
        <5>3. pa # NULL => pa \in m.list /\ m.mem[pa].next = a
              BY <1>2, <1>4, <1>5, <5>1, <5>2
        <5> QED BY <4>2, <5>1, <5>3
      <4> QED BY <4>1, <4>2
    <3> HIDE DEF sa, xa, pa, q
    <3>5. TileAt(m, a, sa, xa, q)
          BY <3>1, <3>3, <3>4, Zenon DEF TileAt
    <3> QED BY <3>2, <3>5
  <2>6. \A a \in m.list : TileAt(m, a, m.mem[a].size, m.mem[a].next, m.mem[a].prev)
    <3>1. TileAt(m, new, m.mem[new].size, m.mem[new].next, m.mem[new].prev)
          BY <1>3, <2>3
    <3>2. TileAt(m, c, m.mem[c].size, m.mem[c].next, m.mem[c].prev)
          BY <1>3, <2>4
    <3> HIDE DEF new
    <3> QED BY <1>2, <2>5, <3>1, <3>2, Zenon
  <2> QED BY <2>1, <2>6, TilesIff
<1>7. Disjoint(m)
  <2> SUFFICES ASSUME NEW a \in m.list, NEW b \in m.list, a < b
               PROVE  a + HEADER + m.mem[a].size <= b
      BY DEF Disjoint
  <2>1. CASE a = new /\ b # new
    BY <2>1, <1>1, <1>2, <1>3, <1>4, <1>5, HeapAssumption DEF Disjoint, ShouldSplit
  <2>2. CASE b = new /\ a # new
    BY <2>2, <1>1, <1>2, <1>3, <1>4, <1>5, HeapAssumption DEF Disjoint, ShouldSplit
  <2>3. CASE a # new /\ b # new
    BY <2>3, <1>1, <1>2, <1>3, <1>4, <1>5, HeapAssumption DEF Disjoint, ShouldSplit
  <2> QED BY <2>1, <2>2, <2>3, <1>2
<1>8. StaleFree(m)
  BY <1>1, <1>2, <1>3, <1>4 DEF StaleFree
<1>9. CoalescedBut(m, c)
  <2> HIDE DEF new
  <2> SUFFICES ASSUME NEW a \in m.list, a # c, m.mem[a].next # NULL, m.mem[a].is_free
               PROVE  ~m.mem[m.mem[a].next].is_free
      BY DEF CoalescedBut
  <2> DEFINE x == m.mem[a].next
  <2>1. \A b \in h.list : m.mem[b].is_free => h.mem[b].is_free
        BY <1>2, <1>4, <1>5
  <2>2. x \in h.list /\ ~h.mem[x].is_free
    <3>1. CASE a = new
      <4>1. x = after /\ after # NULL
            BY <1>3, <3>1
      <4>2. ~h.mem[after].is_free
            BY <1>u, <4>1 DEF Coalesced
      <4> QED BY <1>w, <4>1, <4>2
    <3>2. CASE a # new
      <4>1. a \in h.list /\ x = h.mem[a].next /\ h.mem[a].is_free
            BY <1>2, <1>4, <1>5, <2>1, <3>2
      <4>2. TileAt(h, a, h.mem[a].size, x, h.mem[a].prev)
            BY <1>t, <4>1
      <4>3. ~h.mem[x].is_free
            BY <4>1 DEF Coalesced
      <4> QED BY <4>2, <4>3, Zenon DEF TileAt
    <3> QED BY <3>1, <3>2
  <2> HIDE DEF x
  <2>3. ~m.mem[x].is_free
        BY <2>1, <2>2
  <2> QED BY <2>3 DEF x
<1>10. InUse(m) = InUse(h) /\ \A a \in InUse(h) : m.mem[a].size = h.mem[a].size
  <2> HIDE DEF new
  <2>1. m.mem[new].is_free /\ m.mem[c].is_free
        BY <1>3
  <2>2. \A a \in h.list : a # c =>
          m.mem[a].size = h.mem[a].size /\ m.mem[a].is_free = h.mem[a].is_free
        BY <1>2, <1>4, <1>5
  <2> QED BY <1>2, <2>1, <2>2 DEF InUse
<1>11. m.total_allocated = h.total_allocated
      BY <1>s, SMTT(30) DEF IsSplitOf
<1> QED BY <1>1, <1>3, <1>6, <1>7, <1>8, <1>9, <1>10, <1>11 DEF Sound, m

(* Handing c to a client keeps the heap sound and settles the one pair     *)
(* that Split may have left.                                               *)
LEMMA HandSound ==
  ASSUME NEW h, Sound(h), NEW c \in h.list, CoalescedBut(h, c), h.mem[c].is_free
  PROVE  LET m == Hand(h, c)
         IN /\ Sound(m) /\ Coalesced(m)
            /\ InUse(m) = InUse(h) \cup {c} /\ c \notin InUse(h)
            /\ m.total_allocated = h.total_allocated + h.mem[c].size
            /\ \A a \in h.list : m.mem[a].size = h.mem[a].size
<1> DEFINE m == Hand(h, c)
           end == c + HEADER + h.mem[c].size
           Kept(a) == a \in h.list \/ a + HEADER <= c \/ a >= end + HEADER
           dom == {b \in DOMAIN h.mem : Kept(b)}
<1>1. /\ IsHeap(h) /\ TilesHeap(h) /\ Disjoint(h) /\ StaleFree(h)
      /\ c \in Nat /\ c \in DOMAIN h.mem /\ h.mem[c] \in Header
      BY DEF Sound, IsHeap
<1>l. m.list = h.list /\ m.memory_initialized
      BY DEF Sound, Hand, Update
<1>2. /\ m.total_allocated = h.total_allocated + h.mem[c].size
      /\ m = [mem |-> m.mem, list |-> m.list, total_allocated |-> m.total_allocated,
              memory_initialized |-> m.memory_initialized]
      /\ m.mem = [a \in dom |->
           IF a = c THEN [h.mem[c] EXCEPT !.is_free = FALSE] ELSE h.mem[a]]
      BY DEF Sound, Hand, Update
<1>3. /\ DOMAIN m.mem \subseteq DOMAIN h.mem /\ h.list \subseteq DOMAIN m.mem
      /\ IsFunction(m.mem)
      BY <1>1, <1>2 DEF IsFunction, IsHeap
<1>4. m.mem[c] = [h.mem[c] EXCEPT !.is_free = FALSE]
      BY <1>1, <1>2, <1>3
<1>5. \A a \in DOMAIN m.mem \ {c} : m.mem[a] = h.mem[a]
      BY <1>2, <1>3
<1> HIDE DEF m
<1>6. /\ m.mem[c].size = h.mem[c].size /\ ~m.mem[c].is_free
      /\ m.mem[c].next = h.mem[c].next /\ m.mem[c].prev = h.mem[c].prev
      /\ m.mem[c] \in Header
      BY <1>1, <1>4, ZenonT(40) DEF Header
<1>7. IsHeap(m)
  <2>1. \A a \in DOMAIN m.mem : m.mem[a] \in Header
        BY <1>1, <1>3, <1>5, <1>6 DEF IsHeap
  <2>2. h.mem[c].size \in Nat /\ h.total_allocated \in Int
        BY <1>1 DEF Header, IsHeap
  <2>3. m.total_allocated \in Int
        BY <2>2, <1>2
  <2>4. DOMAIN m.mem \subseteq Nat /\ m.list \subseteq DOMAIN m.mem
        BY <1>1, <1>l, <1>3 DEF IsHeap
  <2>5. m.memory_initialized \in BOOLEAN
        BY <1>1, <1>2 DEF IsHeap, Sound, Hand, Update, m
  <2> QED BY <2>1, <2>3, <2>4, <2>5, <1>2, <1>3 DEF IsHeap
<1>8. \A a \in h.list : /\ m.mem[a].size = h.mem[a].size
                        /\ m.mem[a].next = h.mem[a].next
                        /\ m.mem[a].prev = h.mem[a].prev
                        /\ a # c => m.mem[a].is_free = h.mem[a].is_free
      BY <1>3, <1>5, <1>6
<1>9. TilesHeap(m) /\ Disjoint(m)
      BY <1>1, <1>l, <1>8, SMTT(30) DEF TilesHeap, Disjoint
<1>10. StaleFree(m)
      BY <1>1, <1>l, <1>3, <1>5 DEF StaleFree
<1>11. Coalesced(m)
      BY <1>1, <1>l, <1>6, <1>8, SMTT(30) DEF CoalescedBut, Coalesced, TilesHeap
<1>12. InUse(m) = InUse(h) \cup {c} /\ c \notin InUse(h)
      BY <1>l, <1>6, <1>8 DEF InUse
<1> QED BY <1>l, <1>2, <1>7, <1>8, <1>9, <1>10, <1>11, <1>12 DEF Sound, m

(* Marking a block in use as free keeps the heap sound, its links and its  *)
(* sizes, and takes that one block out of use.                             *)
LEMMA MarkFreeSound ==
  ASSUME NEW h, Sound(h), NEW b \in InUse(h)
  PROVE  LET m == MarkFree(h, b)
         IN /\ Sound(m) /\ m.list = h.list /\ DOMAIN m.mem = DOMAIN h.mem
            /\ m.mem[b].is_free /\ m.total_allocated = h.total_allocated - h.mem[b].size
            /\ InUse(m) = InUse(h) \ {b}
            /\ \A a \in h.list : /\ m.mem[a].size = h.mem[a].size
                                 /\ m.mem[a].next = h.mem[a].next
                                 /\ m.mem[a].prev = h.mem[a].prev
                                 /\ a # b => m.mem[a].is_free = h.mem[a].is_free
<1> DEFINE m == MarkFree(h, b)
<1>1. /\ IsHeap(h) /\ TilesHeap(h) /\ Disjoint(h) /\ StaleFree(h) /\ b \in h.list
      /\ b \in Nat /\ b \in DOMAIN h.mem /\ h.mem[b] \in Header /\ ~h.mem[b].is_free
      BY DEF Sound, IsHeap, InUse
<1>2. /\ m.list = h.list /\ m.memory_initialized
      /\ m.total_allocated = h.total_allocated - h.mem[b].size
      /\ m = [mem |-> m.mem, list |-> m.list, total_allocated |-> m.total_allocated,
              memory_initialized |-> m.memory_initialized]
      /\ m.mem = [h.mem EXCEPT ![b].is_free = TRUE]
      BY DEF Sound, MarkFree, Update
<1>3. DOMAIN m.mem = DOMAIN h.mem /\ IsFunction(m.mem)
      BY <1>1, <1>2, ZenonT(40) DEF IsFunction, IsHeap
<1>4. m.mem[b] = [h.mem[b] EXCEPT !.is_free = TRUE]
      BY <1>1, <1>2 DEF IsHeap, IsFunction
<1>5. \A a \in DOMAIN m.mem \ {b} : m.mem[a] = h.mem[a]
      BY <1>1, <1>2, <1>3 DEF IsHeap, IsFunction
<1> HIDE DEF m
<1>6. /\ m.mem[b].size = h.mem[b].size /\ m.mem[b].is_free
      /\ m.mem[b].next = h.mem[b].next /\ m.mem[b].prev = h.mem[b].prev
      /\ m.mem[b] \in Header
      BY <1>1, <1>4 DEF Header
<1>7. IsHeap(m)
  <2>1. \A a \in DOMAIN m.mem : m.mem[a] \in Header
        BY <1>1, <1>3, <1>5, <1>6 DEF IsHeap
  <2>2. h.mem[b].size \in Nat /\ h.total_allocated \in Int
        BY <1>1 DEF Header, IsHeap
  <2>3. m.total_allocated \in Int
        BY <2>2, <1>2
  <2>4. DOMAIN m.mem \subseteq Nat /\ m.list \subseteq DOMAIN m.mem
        BY <1>1, <1>2, <1>3 DEF IsHeap
  <2>5. m.memory_initialized \in BOOLEAN
        BY <1>1, <1>2 DEF IsHeap, Sound, MarkFree, Update, m
  <2> QED BY <2>1, <2>3, <2>4, <2>5, <1>2, <1>3 DEF IsHeap
<1>8. \A a \in h.list : /\ m.mem[a].size = h.mem[a].size
                        /\ m.mem[a].next = h.mem[a].next
                        /\ m.mem[a].prev = h.mem[a].prev
                        /\ a # b => m.mem[a].is_free = h.mem[a].is_free
      BY <1>1, <1>3, <1>5, <1>6, SMTT(30) DEF IsHeap
<1>9. TilesHeap(m) /\ Disjoint(m)
      BY <1>1, <1>2, <1>8 DEF TilesHeap, Disjoint
<1>10. StaleFree(m)
      BY <1>1, <1>2, <1>3, <1>5 DEF StaleFree
<1>11. InUse(m) = InUse(h) \ {b}
      BY <1>2, <1>6, <1>8 DEF InUse
<1> QED BY <1>2, <1>3, <1>6, <1>7, <1>8, <1>9, <1>10, <1>11 DEF Sound, m

(* What Absorb does to each field of each header. *)
IsAbsorbOf(m, h, a, n) ==
  /\ IsHeap(m) /\ m.memory_initialized /\ m.total_allocated = h.total_allocated
  /\ m.list = h.list \ {n}
  /\ DOMAIN m.mem = DOMAIN h.mem
  /\ m.mem[a].size = h.mem[a].size + h.mem[n].size + HEADER
  /\ m.mem[a].is_free = h.mem[a].is_free
  /\ m.mem[a].next = h.mem[n].next /\ m.mem[a].prev = h.mem[a].prev
  /\ \A b \in DOMAIN h.mem \ {a} :
       /\ m.mem[b].size = h.mem[b].size /\ m.mem[b].is_free = h.mem[b].is_free
       /\ m.mem[b].next = h.mem[b].next
       /\ m.mem[b].prev = IF b = h.mem[n].next THEN a ELSE h.mem[b].prev

(* Absorb yields what the description above says of its fields.            *)
LEMMA AbsorbFields ==
  ASSUME NEW h, Sound(h), NEW a \in h.list, NEW n \in h.list
  PROVE  IsAbsorbOf(Absorb(h, a, n), h, a, n)
<1> DEFINE m == Absorb(h, a, n)
           g == h.mem
<1>1. /\ a \in Nat /\ a \in DOMAIN g /\ g[a] \in Header /\ IsHeap(h)
      /\ n \in DOMAIN g /\ g[n] \in Header
      BY DEF Sound, IsHeap
<1>2. m.list = h.list \ {n} /\ m.memory_initialized
      /\ m.total_allocated = h.total_allocated
      /\ m = [mem |-> m.mem, list |-> m.list, total_allocated |-> m.total_allocated,
              memory_initialized |-> m.memory_initialized]
      BY DEF Sound, Absorb, Update
<1>3. m.mem = [b \in DOMAIN g |->
          IF b = a THEN [g[a] EXCEPT !.size = @ + g[n].size + HEADER,
                                     !.next = g[n].next]
          ELSE IF b = g[n].next THEN [g[b] EXCEPT !.prev = a]
          ELSE g[b]]
      BY DEF Absorb, Update
<1>4. DOMAIN m.mem = DOMAIN g /\ IsFunction(m.mem)
      BY <1>3 DEF IsFunction
<1>5. m.mem[a] = [g[a] EXCEPT !.size = @ + g[n].size + HEADER, !.next = g[n].next]
      BY <1>1, <1>3
<1>6. ASSUME NEW b \in DOMAIN g \ {a}
      PROVE  m.mem[b] = IF b = g[n].next THEN [g[b] EXCEPT !.prev = a] ELSE g[b]
      BY <1>3
<1> HIDE DEF m, g
<1>7. /\ m.mem[a].size = g[a].size + g[n].size + HEADER
      /\ m.mem[a].is_free = g[a].is_free
      /\ m.mem[a].next = g[n].next /\ m.mem[a].prev = g[a].prev
      BY <1>1, <1>5 DEF Header
<1>8. m.mem[a] \in Header
  <2>1. /\ g[a].size + g[n].size + HEADER \in Nat /\ g[n].next \in Nat
        BY <1>1, HeapAssumption DEF Header
  <2> QED BY <2>1, <1>1, <1>5 DEF Header
<1>9. ASSUME NEW b \in DOMAIN g \ {a}
      PROVE  /\ m.mem[b].size = g[b].size /\ m.mem[b].is_free = g[b].is_free
             /\ m.mem[b].next = g[b].next
             /\ m.mem[b].prev = IF b = g[n].next THEN a ELSE g[b].prev
             /\ m.mem[b] \in Header
  <2>1. g[b] \in Header
        BY <1>1 DEF IsHeap, g
  <2> QED BY <2>1, <1>1, <1>6, ZenonT(40) DEF Header
<1>10. IsHeap(m)
  <2>1. \A b \in DOMAIN m.mem : m.mem[b] \in Header
        BY <1>4, <1>8, <1>9
  <2>2. DOMAIN m.mem \subseteq Nat /\ m.list \subseteq DOMAIN m.mem
        BY <1>1, <1>2, <1>4 DEF IsHeap, g
  <2>3. m.memory_initialized \in BOOLEAN /\ m.total_allocated \in Int
        BY <1>1, <1>2, SMTT(30) DEF IsHeap, Sound, Absorb, Update, m
  <2> QED BY <2>1, <2>2, <2>3, <1>2, <1>4 DEF IsHeap
<1> QED BY <1>2, <1>4, <1>7, <1>9, <1>10 DEF IsAbsorbOf, m, g

(* A free block a that swallows its free successor n keeps the heap sound, *)
(* and a pair of free neighbours is left only where there was one, or from *)
(* n onwards.                                                              *)
FreePair(h, a) ==
  h.mem[a].next # NULL /\ h.mem[a].is_free /\ h.mem[h.mem[a].next].is_free

(* Merging a free pair keeps the heap sound and the blocks in use; the     *)
(* only free pair it can pass on is the one of n and its successor.        *)
LEMMA AbsorbSound ==
  ASSUME NEW h, Sound(h), NEW a \in h.list, NEW n, n = h.mem[a].next, n # NULL,
         h.mem[a].is_free, h.mem[n].is_free
  PROVE  LET m == Absorb(h, a, n)
         IN /\ Sound(m) /\ m.list = h.list \ {n} /\ n \in h.list /\ n # a
            /\ DOMAIN m.mem = DOMAIN h.mem
            /\ m.mem[a].is_free /\ m.mem[a].prev = h.mem[a].prev
            /\ InUse(m) = InUse(h) /\ m.total_allocated = h.total_allocated
            /\ \A b \in InUse(h) : m.mem[b].size = h.mem[b].size
            /\ \A b \in m.list \ {a} : /\ m.mem[b].next = h.mem[b].next
                                       /\ FreePair(m, b) => FreePair(h, b)
            /\ FreePair(m, a) => FreePair(h, n)
<1> DEFINE m == Absorb(h, a, n)
           after == h.mem[n].next
<1> HIDE DEF m
<1>1. /\ IsHeap(h) /\ TilesHeap(h) /\ Disjoint(h) /\ StaleFree(h)
      /\ n \in h.list
      BY DEF Sound, TilesHeap
<1>2. \A b \in h.list : /\ b \in DOMAIN h.mem /\ b \in Nat
                        /\ h.mem[b].size \in Nat /\ h.mem[b].next \in Nat
                        /\ h.mem[b].prev \in Nat
      BY <1>1 DEF IsHeap, Header
<1>t. \A b \in h.list : TileAt(h, b, h.mem[b].size, h.mem[b].next, h.mem[b].prev)
      BY <1>1, TilesIff
<1>u. h.mem[n].next = after
      OBVIOUS
<1> HIDE DEF after
<1>3. n = a + HEADER + h.mem[a].size /\ n # a /\ h.mem[n].prev = a
      /\ n # HEAP_START /\ a # NULL
  <2>1. TileAt(h, a, h.mem[a].size, n, h.mem[a].prev)
        BY <1>t
  <2>2. TileAt(h, n, h.mem[n].size, after, h.mem[n].prev)
        BY <1>1, <1>t, <1>u
  <2>3. n = a + HEADER + h.mem[a].size /\ h.mem[n].prev = a
        BY <2>1 DEF TileAt
  <2>4. a # NULL
        BY <1>1, TilesIff
  <2>5. n # HEAP_START
        BY <2>2, <2>3, <2>4, Zenon DEF TileAt
  <2> QED BY <1>2, <2>3, <2>4, <2>5, HeapAssumption
<1>4. after # a /\ after # n /\ (after # NULL => after \in h.list /\ h.mem[after].prev = n)
  <2>1. TileAt(h, n, h.mem[n].size, after, a)
        BY <1>1, <1>t, <1>u, <1>3
  <2>2. after = n + HEADER + h.mem[n].size \/ after = NULL
        BY <2>1, Zenon DEF TileAt
  <2>3. after # a /\ after # n
        BY <1>1, <1>2, <1>3, <2>2, HeapAssumption
  <2> QED BY <2>1, <2>3, Zenon DEF TileAt
<1>5. IsAbsorbOf(m, h, a, n)
      BY <1>1, AbsorbFields DEF m
<1>6. /\ IsHeap(m) /\ m.memory_initialized
      /\ m.list = h.list \ {n} /\ DOMAIN m.mem = DOMAIN h.mem
      BY <1>5 DEF IsAbsorbOf
<1>7. /\ m.mem[a].size = h.mem[a].size + h.mem[n].size + HEADER
      /\ m.mem[a].is_free /\ m.mem[a].next = after
      /\ m.mem[a].prev = h.mem[a].prev
      BY <1>5, <1>u DEF IsAbsorbOf
<1>8. \A b \in DOMAIN h.mem \ {a} :
        /\ m.mem[b].size = h.mem[b].size /\ m.mem[b].is_free = h.mem[b].is_free
        /\ m.mem[b].next = h.mem[b].next
        /\ m.mem[b].prev = IF b = after THEN a ELSE h.mem[b].prev
      BY <1>5, <1>u DEF IsAbsorbOf
<1>9. \A b \in m.list \ {a} : h.mem[b].next # n /\ b # n
  <2> SUFFICES ASSUME NEW b \in m.list \ {a}, h.mem[b].next = n PROVE FALSE
      BY <1>6
  <2>1. TileAt(h, b, h.mem[b].size, n, h.mem[b].prev)
        BY <1>6, <1>t
  <2> QED BY <1>3, <2>1 DEF TileAt
<1>10. TilesHeap(m)
  <2>1. HEAP_START \in m.list /\ NULL \notin m.list
        BY <1>1, <1>3, <1>6, TilesIff
  <2>2. ASSUME NEW b \in m.list
        PROVE  TileAt(m, b, m.mem[b].size, m.mem[b].next, m.mem[b].prev)
    <3> DEFINE sb == h.mem[b].size
               xb == h.mem[b].next
               pb == h.mem[b].prev
    <3>1. /\ b \in h.list /\ b # n /\ b \in DOMAIN h.mem /\ b \in Nat /\ sb \in Nat
          /\ xb \in Nat /\ pb \in Nat /\ TileAt(h, b, sb, xb, pb)
          BY <1>2, <1>6, <1>t
    <3>2. CASE b = a
      <4> DEFINE sn == h.mem[n].size
      <4>1. /\ TileAt(h, a, sb, n, pb) /\ TileAt(h, n, sn, after, a) /\ sn \in Nat
            BY <1>1, <1>2, <1>3, <1>t, <1>u, <3>2
      <4>2. m.mem[b].size = sb + sn + HEADER /\ m.mem[b].next = after /\ m.mem[b].prev = pb
            BY <1>7, <3>2
      <4>3. after # NULL => after \in m.list /\ m.mem[after].prev = a
            BY <1>2, <1>4, <1>6, <1>8
      <4>4. pb # NULL => pb \in m.list /\ m.mem[pb].next = a
        <5> SUFFICES ASSUME pb # NULL PROVE pb \in m.list /\ m.mem[pb].next = a
            BY Zenon
        <5>1. pb \in h.list /\ h.mem[pb].next = a
              BY <4>1, Zenon DEF TileAt
        <5> HIDE DEF pb
        <5>2. pb # n /\ pb # a
              BY <1>3, <1>4, <1>u, <5>1
        <5> QED BY <1>2, <1>6, <1>8, <5>1, <5>2
      <4> HIDE DEF sb, pb, sn
      <4>5. TileAt(m, a, sb + sn + HEADER, after, pb)
            BY <1>2, <1>3, <3>1, <4>1, <4>3, <4>4, HeapAssumption DEF TileAt, HEAP_END
      <4> QED BY <3>2, <4>2, <4>5
    <3>3. CASE b # a
      <4> DEFINE q == IF b = after THEN a ELSE pb
      <4>1. m.mem[b].size = sb /\ m.mem[b].next = xb /\ m.mem[b].prev = q
            BY <1>8, <3>1, <3>3
      <4>2. xb # NULL => xb \in m.list /\ m.mem[xb].prev = b
        <5> SUFFICES ASSUME xb # NULL PROVE xb \in m.list /\ m.mem[xb].prev = b
            OBVIOUS
        <5>1. xb \in h.list /\ h.mem[xb].prev = b /\ xb # n
              BY <1>9, <3>1, <3>3 DEF TileAt
        <5> HIDE DEF xb
        <5>2. xb # after
              BY <1>4, <3>1, <5>1
        <5> QED BY <1>2, <1>6, <1>7, <1>8, <5>1, <5>2
      <4>3. (q = NULL <=> b = HEAP_START) /\ (q # NULL => q \in m.list /\ m.mem[q].next = b)
        <5>1. CASE b = after
          <6>1. pb = n /\ b # NULL
                BY <1>1, <1>4, <3>1, <5>1, TilesIff
          <6>2. b # HEAP_START
                BY <3>1, <6>1 DEF TileAt
          <6> QED BY <1>3, <1>6, <1>7, <5>1, <6>2
        <5>2. CASE b # after
          <6>1. (pb = NULL <=> b = HEAP_START)
                /\ (pb # NULL => pb \in h.list /\ h.mem[pb].next = b)
                BY <3>1 DEF TileAt
          <6> HIDE DEF pb
          <6>2. pb # NULL => pb # n /\ pb # a
                BY <1>u, <3>1, <5>2, <6>1
          <6>3. pb # NULL => pb \in m.list /\ m.mem[pb].next = b
                BY <1>2, <1>6, <1>8, <6>1, <6>2
          <6> QED BY <5>2, <6>1, <6>3
        <5> QED BY <5>1, <5>2
      <4> HIDE DEF sb, xb, pb, q
      <4>4. TileAt(m, b, sb, xb, q)
            BY <3>1, <4>2, <4>3 DEF TileAt
      <4> QED BY <4>1, <4>4
    <3> QED BY <3>2, <3>3
  <2> QED BY <2>1, <2>2, TilesIff
<1>11. Disjoint(m)
  <2> SUFFICES ASSUME NEW b \in m.list, NEW d \in m.list, b < d
               PROVE  b + HEADER + m.mem[b].size <= d
      BY DEF Disjoint
  <2>1. CASE b = a
    BY <2>1, <1>1, <1>2, <1>3, <1>6, <1>7, HeapAssumption DEF Disjoint
  <2>2. CASE b # a
    BY <2>2, <1>1, <1>2, <1>6, <1>8, HeapAssumption DEF Disjoint
  <2> QED BY <2>1, <2>2
<1>12. StaleFree(m)
  <2> SUFFICES ASSUME NEW b \in DOMAIN m.mem \ m.list PROVE m.mem[b].is_free
      BY DEF StaleFree
  <2>1. b \in DOMAIN h.mem \ {a} /\ (b = n \/ b \notin h.list)
      BY <1>3, <1>6
  <2>2. h.mem[b].is_free
      BY <1>1, <2>1 DEF StaleFree
  <2> QED BY <1>8, <2>1, <2>2
<1>13. InUse(m) = InUse(h) /\ \A b \in InUse(h) : m.mem[b].size = h.mem[b].size
      BY <1>2, <1>3, <1>6, <1>7, <1>8, SMTT(30) DEF InUse
<1>14. FreePair(m, a) => FreePair(h, n)
  <2> SUFFICES ASSUME FreePair(m, a) PROVE FreePair(h, n)
      OBVIOUS
  <2>1. after # NULL /\ m.mem[after].is_free
        BY <1>7 DEF FreePair
  <2>2. h.mem[after].is_free
        BY <1>2, <1>4, <1>8, <2>1
  <2> QED BY <1>u, <2>1, <2>2 DEF FreePair
<1>15. \A b \in m.list \ {a} : /\ m.mem[b].next = h.mem[b].next
                               /\ FreePair(m, b) => FreePair(h, b)
  <2> SUFFICES ASSUME NEW b \in m.list \ {a}
               PROVE  m.mem[b].next = h.mem[b].next /\ (FreePair(m, b) => FreePair(h, b))
      OBVIOUS
  <2> DEFINE x == h.mem[b].next
  <2>1. b \in h.list /\ m.mem[b].next = x /\ m.mem[b].is_free = h.mem[b].is_free
        BY <1>2, <1>6, <1>8
  <2>2. x # NULL => x \in h.list
        BY <1>t, <2>1 DEF TileAt
  <2>3. x # NULL /\ m.mem[x].is_free => h.mem[x].is_free
    <3> HIDE DEF x
    <3>1. CASE x = a
          BY <3>1
    <3>2. CASE x # a
          BY <1>2, <1>8, <2>2, <3>2
    <3> QED BY <3>1, <3>2
  <2> QED BY <2>1, <2>3 DEF FreePair
<1>16. m.total_allocated = h.total_allocated
      BY <1>5 DEF IsAbsorbOf
<1> QED BY <1>1, <1>3, <1>6, <1>7, <1>10, <1>11, <1>12, <1>13, <1>14, <1>15, <1>16, ZenonT(40) DEF Sound, m

-----------------------------------------------------------------------------
(* What kmalloc promises when it returns block c for a request aligned to s *)
Allocated(m, h, c, s) ==
  /\ Good(m) /\ c \in h.list /\ c \notin InUse(h)
  /\ InUse(m) = InUse(h) \cup {c}
  /\ m.mem[c].size >= s
  /\ m.total_allocated = h.total_allocated + m.mem[c].size
  /\ \A a \in InUse(h) : m.mem[a].size = h.mem[a].size

(* An aligned size is a natural number.                                    *)
LEMMA AlignNat == ASSUME NEW size \in Nat PROVE Align(size) \in Nat
BY HeapAssumption DEF Align

(* kmalloc either fails and changes nothing or allocates one block. *)
LEMMA KMallocGood ==
  ASSUME NEW h, Good(h), NEW size \in Nat
  PROVE  LET r == KMalloc(h, size)
         IN \/ r.ptr = NULL /\ r.heap = h
            \/ /\ r.ptr # NULL /\ r.ptr \in Nat /\ size # 0
               /\ Allocated(r.heap, h, r.ptr - HEADER, Align(size))
<1> DEFINE s == Align(size)
           c == FirstFit(h, s)
           g == IF ShouldSplit(h, c, s) THEN Split(h, c, s) ELSE h
           r == KMalloc(h, size)
<1>1. s \in Nat
      BY AlignNat
<1> HIDE DEF s
<1>2. h.memory_initialized
      BY DEF Good, Sound
<1>3. CASE size = 0 \/ \A a \in h.list : ~Fits(h, a, s)
      BY <1>2, <1>3 DEF KMalloc, s
<1>4. CASE ~(size = 0 \/ \A a \in h.list : ~Fits(h, a, s))
  <2>1. \E a \in h.list : IsFirstFit(h, a, s)
    <3> DEFINE T == {a \in h.list : Fits(h, a, s)}
    <3>1. T # {} /\ T \subseteq Nat
          BY <1>4 DEF Good, Sound, IsHeap
    <3>2. PICK a \in T : \A b \in T : a <= b
          BY <3>1, LeastNat
    <3> QED BY <3>2 DEF IsFirstFit
  <2>2. c \in h.list /\ h.mem[c].is_free /\ h.mem[c].size >= s
        BY <2>1 DEF FirstFit, IsFirstFit, Fits
  <2> HIDE DEF c
  <2>3. /\ Sound(g) /\ CoalescedBut(g, c) /\ g.mem[c].is_free /\ c \in g.list
        /\ g.mem[c].size >= s /\ InUse(g) = InUse(h)
        /\ g.total_allocated = h.total_allocated
        /\ \A a \in InUse(h) : g.mem[a].size = h.mem[a].size
    <3>1. CASE ShouldSplit(h, c, s)
      <4>1. c \in Split(h, c, s).list
            BY <2>2 DEF Split, Update
      <4> QED BY <3>1, <4>1, <2>2, <1>1, SplitSound DEF Good
    <3>2. CASE ~ShouldSplit(h, c, s)
      BY <3>2, <2>2 DEF Good, Coalesced, CoalescedBut
    <3> QED BY <3>1, <3>2
  <2> HIDE DEF g
  <2>4. LET m == Hand(g, c)
        IN /\ Sound(m) /\ Coalesced(m)
           /\ InUse(m) = InUse(g) \cup {c} /\ c \notin InUse(g)
           /\ m.total_allocated = g.total_allocated + g.mem[c].size
           /\ \A a \in g.list : m.mem[a].size = g.mem[a].size
        BY <2>3, HandSound
  <2>5. r = [heap |-> Hand(g, c), ptr |-> c + HEADER]
        BY <1>2, <1>4 DEF KMalloc, s, c, g
  <2>6. c \in Nat
        BY <2>2 DEF Good, Sound, IsHeap
  <2>7. Allocated(Hand(g, c), h, c, s)
    <3>1. \A a \in InUse(h) : a \in g.list
          BY <2>3 DEF InUse
    <3> QED BY <2>2, <2>3, <2>4, <3>1 DEF Allocated, Good
  <2>8. c + HEADER # NULL /\ c + HEADER \in Nat /\ (c + HEADER) - HEADER = c
        BY <2>6, HeapAssumption DEF NULL
  <2> QED BY <2>5, <2>7, <2>8, <1>4 DEF s
<1> QED BY <1>3, <1>4

(* kfree of the pointer to header b: nothing if b is free already, else b  *)
(* leaves the blocks in use and no others change.                          *)
LEMMA KFreeGood ==
  ASSUME NEW h, Good(h), NEW ptr, ptr # NULL, ptr - HEADER \in DOMAIN h.mem
  PROVE  LET m == KFree(h, ptr)
             b == ptr - HEADER
         IN \/ b \notin InUse(h) /\ m = h
            \/ /\ b \in InUse(h) /\ Good(m) /\ DOMAIN m.mem = DOMAIN h.mem
               /\ InUse(m) = InUse(h) \ {b}
               /\ m.total_allocated = h.total_allocated - h.mem[b].size
               /\ \A a \in InUse(m) : m.mem[a].size = h.mem[a].size
<1> DEFINE b == ptr - HEADER
<1>1. Sound(h) /\ Coalesced(h) /\ h.memory_initialized
      BY DEF Good, Sound
<1>2. CASE h.mem[b].is_free
      BY <1>1, <1>2 DEF KFree, InUse
<1>3. CASE ~h.mem[b].is_free
  <2> DEFINE f == MarkFree(h, b)
             g == MergeNext(f, b)
             m == MergePrev(g, b)
  <2>1. b \in InUse(h)
        BY <1>1, <1>3 DEF Sound, StaleFree, InUse
  <2>2. KFree(h, ptr) = m
        BY <1>1, <1>3 DEF KFree
  <2> HIDE DEF b
  <2>3. /\ Sound(f) /\ f.list = h.list /\ DOMAIN f.mem = DOMAIN h.mem
        /\ f.mem[b].is_free /\ b \in f.list
        /\ f.total_allocated = h.total_allocated - h.mem[b].size
        /\ InUse(f) = InUse(h) \ {b}
        /\ \A a \in h.list : /\ f.mem[a].size = h.mem[a].size
                             /\ f.mem[a].next = h.mem[a].next
                             /\ f.mem[a].prev = h.mem[a].prev
                             /\ a # b => f.mem[a].is_free = h.mem[a].is_free
        BY <1>1, <2>1, MarkFreeSound DEF InUse
  <2> HIDE DEF f
  <2>4. \A a \in f.list : FreePair(f, a) => a = b \/ f.mem[a].next = b
        BY <1>1, <2>3 DEF FreePair, Coalesced, Sound, TilesHeap
  <2>5. /\ Sound(g) /\ DOMAIN g.mem = DOMAIN h.mem
        /\ g.mem[b].is_free /\ b \in g.list
        /\ InUse(g) = InUse(f) /\ g.total_allocated = f.total_allocated
        /\ \A a \in InUse(f) : g.mem[a].size = f.mem[a].size
        /\ \A a \in g.list : FreePair(g, a) => g.mem[a].next = b
    <3> DEFINE n == f.mem[b].next
    <3>1. CASE n # NULL /\ f.mem[n].is_free
      <4>1. g = Absorb(f, b, n)
            BY <3>1 DEF MergeNext
      <4>2. /\ Sound(g) /\ g.list = f.list \ {n} /\ n \in f.list /\ n # b
            /\ DOMAIN g.mem = DOMAIN f.mem /\ g.mem[b].is_free
            /\ InUse(g) = InUse(f) /\ g.total_allocated = f.total_allocated
            /\ \A a \in InUse(f) : g.mem[a].size = f.mem[a].size
            /\ \A a \in g.list \ {b} : /\ g.mem[a].next = f.mem[a].next
                                       /\ FreePair(g, a) => FreePair(f, a)
            /\ FreePair(g, b) => FreePair(f, n)
            BY <2>3, <3>1, <4>1, AbsorbSound
      <4>3. f.mem[n].next # b
            BY <2>3, <3>1, HeapAssumption DEF Sound, TilesHeap, IsHeap, Header, NULL
      <4> QED BY <2>3, <2>4, <4>2, <4>3
    <3>2. CASE ~(n # NULL /\ f.mem[n].is_free)
      <4>1. g = f
            BY <3>2 DEF MergeNext
      <4> QED BY <2>3, <2>4, <3>2, <4>1 DEF FreePair
    <3> QED BY <3>1, <3>2
  <2> HIDE DEF g
  <2>6. /\ Sound(m) /\ DOMAIN m.mem = DOMAIN h.mem
        /\ InUse(m) = InUse(g) /\ m.total_allocated = g.total_allocated
        /\ \A a \in InUse(g) : m.mem[a].size = g.mem[a].size
        /\ \A a \in m.list : ~FreePair(m, a)
    <3> DEFINE p == g.mem[b].prev
    <3>1. CASE p # NULL /\ g.mem[p].is_free
      <4>1. m = Absorb(g, p, b)
            BY <3>1 DEF MergePrev
      <4>2. p \in g.list /\ g.mem[p].next = b /\ b # NULL
            BY <2>5, <3>1 DEF Sound, TilesHeap
      <4>3. /\ Sound(m) /\ m.list = g.list \ {b}
            /\ DOMAIN m.mem = DOMAIN g.mem
            /\ InUse(m) = InUse(g) /\ m.total_allocated = g.total_allocated
            /\ \A a \in InUse(g) : m.mem[a].size = g.mem[a].size
            /\ \A a \in m.list \ {p} : /\ m.mem[a].next = g.mem[a].next
                                       /\ FreePair(m, a) => FreePair(g, a)
            /\ FreePair(m, p) => FreePair(g, b)
            BY <2>5, <3>1, <4>1, <4>2, AbsorbSound, SMTT(30)
      <4>4. g.mem[b].next # b
            BY <2>5, HeapAssumption DEF Sound, TilesHeap, IsHeap, Header, NULL
      <4>5. \A a \in g.list \ {p} : g.mem[a].next # b
            BY <2>5, <4>2 DEF Sound, TilesHeap
      <4> QED BY <2>5, <4>3, <4>4, <4>5
    <3>2. CASE ~(p # NULL /\ g.mem[p].is_free)
      <4>1. m = g
            BY <3>2 DEF MergePrev
      <4>2. \A a \in g.list : g.mem[a].next = b => g.mem[b].prev = a /\ a # NULL
            BY <2>5 DEF Sound, TilesHeap
      <4> QED BY <2>5, <3>2, <4>1, <4>2 DEF FreePair
    <3> QED BY <3>1, <3>2
  <2>7. Good(m)
        BY <2>6 DEF Good, Coalesced, FreePair
  <2>8. \A a \in InUse(m) : m.mem[a].size = h.mem[a].size
        BY <2>3, <2>5, <2>6 DEF InUse
  <2> QED BY <2>1, <2>2, <2>3, <2>5, <2>6, <2>7, <2>8 DEF b
<1> QED BY <1>2, <1>3

-----------------------------------------------------------------------------
(* The clients' side of each call *)

(* Two blocks in use with the same client pointer are one block.           *)
LEMMA HeaderInjective ==
  ASSUME NEW h, IsHeap(h), NEW a \in InUse(h), NEW b \in InUse(h),
         a + HEADER = b + HEADER
  PROVE  a = b
BY HeapAssumption DEF IsHeap, InUse

(* A newly allocated block may be granted to a client.                     *)
LEMMA GrantOK ==
  ASSUME NEW h, NEW m, NEW c, NEW s \in Nat, NEW o, NEW size \in Sizes, IsHeap(h),
         Allocated(m, h, c, s), OwnedOK(h, o),
         s >= size, Enough(h, o)
  PROVE  /\ OwnedOK(m, Grant(o, c + HEADER, size))
         /\ Enough(m, Grant(o, c + HEADER, size))
<1> DEFINE g == Grant(o, c + HEADER, size)
<1>1. /\ InUse(m) = InUse(h) \cup {c} /\ c \notin InUse(h) /\ c \in Nat
      /\ m.mem[c].size >= s
      /\ \A a \in InUse(h) : m.mem[a].size = h.mem[a].size
      BY DEF Allocated, IsHeap
<1>2. /\ DOMAIN g = DOMAIN o \cup {c + HEADER} /\ IsFunction(g)
      /\ g[c + HEADER] = size
      /\ \A p \in DOMAIN o \ {c + HEADER} : g[p] = o[p]
      BY DEF Grant, IsFunction
<1> HIDE DEF g
<1>3. OwnedOK(m, g)
      BY <1>1, <1>2 DEF OwnedOK
<1>4. Enough(m, g)
  <2> SUFFICES ASSUME NEW p \in DOMAIN g PROVE m.mem[p - HEADER].size >= g[p]
      BY DEF Enough
  <2>1. CASE p = c + HEADER
    <3>1. p - HEADER = c
          BY <2>1, <1>1, HeapAssumption
    <3>2. m.mem[c].size \in Nat /\ size \in Nat
          BY <1>1, HeapAssumption DEF Allocated, Good, Sound, IsHeap, Header, InUse
    <3>3. m.mem[c].size >= size
          BY <3>2, <1>1
    <3> QED BY <3>1, <3>3, <2>1, <1>2
  <2>2. CASE p # c + HEADER
    <3>1. p \in DOMAIN o
          BY <2>2, <1>2
    <3>2. PICK a \in InUse(h) : p = a + HEADER
          BY <3>1 DEF OwnedOK
    <3>3. p - HEADER = a
          BY <3>2, HeapAssumption DEF IsHeap, InUse
    <3> QED BY <3>1, <3>2, <3>3, <2>2, <1>1, <1>2 DEF Enough
  <2> QED BY <2>1, <2>2
<1> QED BY <1>3, <1>4 DEF g

(* A block out of use is taken from its client.                            *)
LEMMA RevokeOK ==
  ASSUME NEW h, NEW m, NEW b \in InUse(h), NEW o, IsHeap(h),
         InUse(m) = InUse(h) \ {b}, OwnedOK(h, o),
         \A a \in InUse(m) : m.mem[a].size = h.mem[a].size,
         Enough(h, o)
  PROVE  /\ OwnedOK(m, Revoke(o, b + HEADER))
         /\ Enough(m, Revoke(o, b + HEADER))
<1> DEFINE g == Revoke(o, b + HEADER)
<1>1. /\ DOMAIN g = DOMAIN o \ {b + HEADER} /\ IsFunction(g)
      /\ \A p \in DOMAIN g : g[p] = o[p]
      BY DEF Revoke, IsFunction
<1> HIDE DEF g
<1>2. \A a \in InUse(h) : a + HEADER = b + HEADER => a = b
      BY HeaderInjective
<1>3. OwnedOK(m, g)
      BY <1>1, <1>2 DEF OwnedOK
<1>4. Enough(m, g)
  <2> SUFFICES ASSUME NEW p \in DOMAIN g PROVE m.mem[p - HEADER].size >= g[p]
      BY DEF Enough
  <2>1. PICK a \in InUse(m) : p = a + HEADER
        BY <1>3 DEF OwnedOK
  <2>2. p - HEADER = a
        BY <2>1, HeapAssumption DEF IsHeap, InUse
  <2> QED BY <2>1, <2>2, <1>1 DEF Enough
<1> QED BY <1>3, <1>4 DEF g

(* Aligning never rounds down unless the addition wraps. *)
LEMMA AlignUp ==
  ASSUME NEW size \in Nat, size + 3 < WORD
  PROVE  Align(size) >= size
<1>1. (size + 3) % WORD = size + 3
      BY HeapAssumption
<1> QED BY <1>1 DEF Align

-----------------------------------------------------------------------------
(* Every heap the actions start from is good once memory_init has run. *)
Ready(h) == IF h.memory_initialized THEN h ELSE InitialHeap

LEMMA ReadyGood ==
  ASSUME NEW h, IF h.memory_initialized THEN Good(h) ELSE h = Uninitialized
  PROVE  /\ Good(Ready(h)) /\ InUse(Ready(h)) = InUse(h)
         /\ \A a \in InUse(h) : Ready(h).mem[a].size = h.mem[a].size
         /\ \A size : KMalloc(h, size) = KMalloc(Ready(h), size)
<1>1. CASE h.memory_initialized
      BY <1>1 DEF Ready
<1>2. CASE ~h.memory_initialized
  <2>1. h = Uninitialized /\ Ready(h) = InitialHeap
        BY <1>2 DEF Ready
  <2>2. InUse(h) = {}
        BY <2>1 DEF InUse, Uninitialized
  <2>3. InUse(InitialHeap) = {} /\ InitialHeap.memory_initialized
        BY DEF InUse, InitialHeap
  <2>4. Good(InitialHeap)
        BY InitialHeapSound DEF Good
  <2>5. \A size : KMalloc(h, size) = KMalloc(InitialHeap, size)
        BY <1>2, <2>3 DEF KMalloc
  <2> QED BY <2>1, <2>2, <2>3, <2>4, <2>5
<1> QED BY <1>1, <1>2

(* A good heap is a heap that memory_init has run on.                      *)
LEMMA InUseHeap == ASSUME NEW h, Good(h) PROVE IsHeap(h) /\ h.memory_initialized
BY DEF Good, Sound

(* Facts about the clients carry over from a heap to its Ready form. *)
LEMMA ReadyOwned ==
  ASSUME NEW h, IF h.memory_initialized THEN Good(h) ELSE h = Uninitialized,
         NEW o, OwnedOK(h, o), Enough(h, o)
  PROVE  OwnedOK(Ready(h), o) /\ Enough(Ready(h), o)
<1>1. /\ InUse(Ready(h)) = InUse(h) /\ IsHeap(Ready(h))
      /\ \A a \in InUse(h) : Ready(h).mem[a].size = h.mem[a].size
      BY ReadyGood, InUseHeap
<1>2. OwnedOK(Ready(h), o)
      BY <1>1 DEF OwnedOK
<1>3. ASSUME NEW p \in DOMAIN o PROVE Ready(h).mem[p - HEADER].size >= o[p]
  <2>1. PICK a \in InUse(h) : p = a + HEADER
        BY DEF OwnedOK
  <2>2. p - HEADER = a
        BY <2>1, <1>1, HeapAssumption DEF IsHeap, InUse
  <2> QED BY <2>1, <2>2, <1>1 DEF Enough
<1> QED BY <1>2, <1>3 DEF Enough

(* kmalloc followed by the bookkeeping of its caller *)
LEMMA MallocStep ==
  ASSUME NEW h, Good(h), NEW o, OwnedOK(h, o), Enough(h, o),
         NEW size \in Sizes
  PROVE  LET r == KMalloc(h, size)
         IN /\ Good(r.heap)
            /\ r.ptr = NULL => OwnedOK(r.heap, o) /\ Enough(r.heap, o)
            /\ r.ptr # NULL =>
                 /\ OwnedOK(r.heap, Grant(o, r.ptr, size))
                 /\ Enough(r.heap, Grant(o, r.ptr, size))
<1> DEFINE r == KMalloc(h, size)
           c == r.ptr - HEADER
<1>1. size \in Nat /\ Align(size) \in Nat /\ IsHeap(h)
      BY HeapAssumption, AlignNat, InUseHeap
<1>2. \/ r.ptr = NULL /\ r.heap = h
      \/ r.ptr # NULL /\ r.ptr \in Nat /\ Allocated(r.heap, h, c, Align(size))
      BY <1>1, KMallocGood
<1> HIDE DEF r
<1>3. CASE r.ptr = NULL
      BY <1>2, <1>3 DEF r
<1>4. CASE r.ptr # NULL
  <2>1. c + HEADER = r.ptr
        BY <1>2, <1>4, HeapAssumption
  <2>2. Align(size) >= size
        BY <1>1, AlignUp, HeapAssumption
  <2> HIDE DEF c
  <2>3. /\ OwnedOK(r.heap, Grant(o, c + HEADER, size))
        /\ Enough(r.heap, Grant(o, c + HEADER, size))
        BY <1>1, <1>2, <1>4, <2>2, GrantOK
  <2>4. Good(r.heap)
        BY <1>2, <1>4 DEF Allocated
  <2> QED BY <1>4, <2>1, <2>3, <2>4 DEF r
<1> QED BY <1>3, <1>4

(* kfree of an owned pointer followed by the bookkeeping of its caller *)
LEMMA FreeStep ==
  ASSUME NEW h, Good(h), NEW o, OwnedOK(h, o), Enough(h, o),
         NEW ptr \in DOMAIN o
  PROVE  /\ Good(KFree(h, ptr))
         /\ OwnedOK(KFree(h, ptr), Revoke(o, ptr))
         /\ Enough(KFree(h, ptr), Revoke(o, ptr))
<1>1. PICK b \in InUse(h) : ptr = b + HEADER
      BY DEF OwnedOK
<1>2. IsHeap(h) /\ b \in Nat /\ b \in DOMAIN h.mem
      BY InUseHeap DEF IsHeap, InUse
<1>3. ptr - HEADER = b /\ ptr # NULL
      BY <1>1, <1>2, HeapAssumption DEF NULL
<1> DEFINE m == KFree(h, ptr)
<1>4. /\ Good(m) /\ InUse(m) = InUse(h) \ {b}
      /\ \A a \in InUse(m) : m.mem[a].size = h.mem[a].size
      BY <1>2, <1>3, KFreeGood
<1> HIDE DEF m
<1>5. OwnedOK(m, Revoke(o, b + HEADER)) /\ Enough(m, Revoke(o, b + HEADER))
      BY <1>2, <1>4, RevokeOK
<1> QED BY <1>1, <1>4, <1>5 DEF m

(* Intact keeps the pointers that satisfy FreedOK.                         *)
LEMMA IntactOK ==
  ASSUME NEW h, NEW o, NEW f, f \subseteq Nat \ {NULL}
  PROVE  FreedOK(h, o, Intact(f, h, o))
BY DEF FreedOK, Intact

(* Client pointers are natural numbers other than NULL, a header above the *)
(* block in use they belong to.                                            *)
LEMMA OwnedNat ==
  ASSUME NEW h, IF h.memory_initialized THEN Good(h) ELSE h = Uninitialized,
         NEW o, OwnedOK(h, o)
  PROVE  /\ DOMAIN o \subseteq Nat \ {NULL} /\ Revoke(o, NULL) = o
         /\ ~h.memory_initialized => DOMAIN o = {}
         /\ \A p \in DOMAIN o : p - HEADER \in InUse(h)
<1>1. CASE h.memory_initialized
  <2>1. InUse(h) \subseteq Nat
        BY <1>1, InUseHeap DEF IsHeap, InUse
  <2>2. DOMAIN o \subseteq Nat \ {NULL}
        BY <2>1, HeapAssumption DEF OwnedOK, NULL
  <2>3. \A p \in DOMAIN o : p - HEADER \in InUse(h)
        BY <2>1, HeapAssumption DEF OwnedOK
  <2>4. Revoke(o, NULL) = o
        BY <2>2 DEF Revoke, OwnedOK, IsFunction
  <2> QED BY <1>1, <2>2, <2>3, <2>4
<1>2. CASE ~h.memory_initialized
  <2>1. InUse(h) = {}
        BY <1>2 DEF InUse, Uninitialized
  <2>2. DOMAIN o = {}
        BY <2>1 DEF OwnedOK
  <2>3. Revoke(o, NULL) = o
        BY <2>2 DEF Revoke, OwnedOK, IsFunction
  <2> QED BY <2>2, <2>3
<1> QED BY <1>1, <1>2

(* krealloc that stays in its block *)
LEMMA KeepStep ==
  ASSUME NEW h, Good(h), NEW o, OwnedOK(h, o), Enough(h, o),
         NEW ptr \in DOMAIN o, NEW size \in Sizes,
         h.mem[ptr - HEADER].size >= size
  PROVE  /\ OwnedOK(h, Grant(Revoke(o, ptr), ptr, size))
         /\ Enough(h, Grant(Revoke(o, ptr), ptr, size))
<1> DEFINE g == Grant(Revoke(o, ptr), ptr, size)
<1>1. /\ DOMAIN g = DOMAIN o /\ IsFunction(g) /\ g[ptr] = size
      /\ \A p \in DOMAIN o \ {ptr} : g[p] = o[p]
      BY DEF Grant, Revoke, IsFunction
<1> HIDE DEF g
<1>2. OwnedOK(h, g)
      BY <1>1 DEF OwnedOK
<1>3. Enough(h, g)
      BY <1>1 DEF Enough
<1> QED BY <1>2, <1>3 DEF g

(* krealloc that moves to a new block *)
LEMMA MoveStep ==
  ASSUME NEW h, Good(h), NEW o, OwnedOK(h, o), Enough(h, o),
         NEW ptr \in DOMAIN o, NEW size \in Sizes,
         KMalloc(h, size).ptr # NULL
  PROVE  LET r == KMalloc(h, size)
             m == KFree(r.heap, ptr)
             g == Grant(Revoke(o, ptr), r.ptr, size)
         IN Good(m) /\ OwnedOK(m, g) /\ Enough(m, g)
<1> DEFINE r == KMalloc(h, size)
           g == Grant(Revoke(o, ptr), r.ptr, size)
           k == Grant(o, r.ptr, size)
<1>1. /\ Good(r.heap) /\ OwnedOK(r.heap, k) /\ Enough(r.heap, k)
      BY MallocStep
<1>2. size \in Nat /\ h.memory_initialized
      BY HeapAssumption, InUseHeap
<1>3. Allocated(r.heap, h, r.ptr - HEADER, Align(size))
      BY <1>2, KMallocGood
<1> HIDE DEF r
<1>4. r.ptr \notin DOMAIN o
      BY <1>2, <1>3, OwnedNat DEF Allocated
<1>5. ptr \in DOMAIN k /\ Revoke(k, ptr) = g
      BY <1>4 DEF Grant, Revoke
<1> HIDE DEF g, k
<1>6. /\ Good(KFree(r.heap, ptr)) /\ OwnedOK(KFree(r.heap, ptr), g)
      /\ Enough(KFree(r.heap, ptr), g)
      BY <1>1, <1>5, FreeStep
<1> QED BY <1>6 DEF g, r

(* The blocks in use and their sizes are the same. *)
SameInUse(m, h) ==
  InUse(m) = InUse(h) /\ \A a \in InUse(h) : m.mem[a].size = h.mem[a].size

(* Freeing what an earlier kmalloc returned, or NULL if it failed, takes   *)
(* just that block out of use.                                             *)
LEMMA FreeOne ==
  ASSUME NEW h, Good(h), NEW ptr,
         ptr = NULL \/ ptr - HEADER \in InUse(h)
  PROVE  LET m == KFree(h, ptr)
         IN /\ Good(m)
            /\ InUse(m) = IF ptr = NULL THEN InUse(h) ELSE InUse(h) \ {ptr - HEADER}
            /\ \A a \in InUse(m) : m.mem[a].size = h.mem[a].size
<1>1. CASE ptr = NULL
      BY <1>1 DEF KFree
<1>2. CASE ptr # NULL
  <2>1. ptr - HEADER \in DOMAIN h.mem
        BY <1>2, InUseHeap DEF InUse, IsHeap
  <2> QED BY <1>2, <2>1, KFreeGood
<1> QED BY <1>1, <1>2

(* One kmalloc adds at most one block in use and moves no other.           *)
LEMMA MallocOne ==
  ASSUME NEW h, Good(h), NEW size \in Nat
  PROVE  LET r == KMalloc(h, size)
         IN /\ Good(r.heap) /\ (r.ptr # NULL => r.ptr - HEADER \notin InUse(h))
            /\ r.ptr = NULL \/ r.ptr \in Nat
            /\ InUse(r.heap) = IF r.ptr = NULL THEN InUse(h)
                               ELSE InUse(h) \cup {r.ptr - HEADER}
            /\ \A a \in InUse(h) : r.heap.mem[a].size = h.mem[a].size
<1>1. CASE KMalloc(h, size).ptr = NULL
      BY <1>1, KMallocGood DEF NULL
<1>2. CASE KMalloc(h, size).ptr # NULL
      BY <1>2, KMallocGood DEF Allocated
<1> QED BY <1>1, <1>2

(* memtest leaves a good heap with the same blocks in use.                 *)
LEMMA MemtestGood ==
  ASSUME NEW h, Good(h), NEW t1 \in Nat, NEW t2 \in Nat
  PROVE  LET r1 == KMalloc(h, t1)
             r2 == KMalloc(r1.heap, t2)
             m  == KFree(KFree(r2.heap, r1.ptr), r2.ptr)
         IN /\ Good(m) /\ SameInUse(m, h)
            /\ {r1.ptr, r2.ptr} \ {NULL} \subseteq Nat \ {NULL}
<1> DEFINE r1 == KMalloc(h, t1)
           r2 == KMalloc(r1.heap, t2)
           f  == KFree(r2.heap, r1.ptr)
           m  == KFree(f, r2.ptr)
           U1 == IF r1.ptr = NULL THEN {} ELSE {r1.ptr - HEADER}
           U2 == IF r2.ptr = NULL THEN {} ELSE {r2.ptr - HEADER}
<1>1. /\ Good(r1.heap) /\ InUse(r1.heap) = InUse(h) \cup U1
      /\ U1 \cap InUse(h) = {} /\ (r1.ptr = NULL \/ r1.ptr \in Nat)
      /\ \A a \in InUse(h) : r1.heap.mem[a].size = h.mem[a].size
      BY MallocOne, ZenonT(40)
<1> HIDE DEF r1
<1>2. /\ Good(r2.heap) /\ InUse(r2.heap) = InUse(r1.heap) \cup U2
      /\ U2 \cap InUse(r1.heap) = {} /\ (r2.ptr = NULL \/ r2.ptr \in Nat)
      /\ \A a \in InUse(r1.heap) : r2.heap.mem[a].size = r1.heap.mem[a].size
      BY <1>1, MallocOne, ZenonT(40)
<1> HIDE DEF r2
<1>3. /\ Good(f) /\ InUse(f) = InUse(r2.heap) \ U1
      /\ \A a \in InUse(f) : f.mem[a].size = r2.heap.mem[a].size
      BY <1>1, <1>2, FreeOne
<1> HIDE DEF f
<1>4. U2 \subseteq InUse(f)
      BY <1>1, <1>2, <1>3
<1>5. /\ Good(m) /\ InUse(m) = InUse(f) \ U2
      /\ \A a \in InUse(m) : m.mem[a].size = f.mem[a].size
      BY <1>3, <1>4, FreeOne
<1> HIDE DEF m
<1>6. InUse(m) = InUse(h)
      BY <1>1, <1>2, <1>3, <1>5
<1>7. \A a \in InUse(h) : m.mem[a].size = h.mem[a].size
      BY <1>1, <1>2, <1>3, <1>5, <1>6
<1> QED BY <1>1, <1>2, <1>5, <1>6, <1>7 DEF SameInUse, m, f, r2, r1

(* Ownership carries over to a heap with the same blocks in use.           *)
LEMMA SameOwned ==
  ASSUME NEW h, Good(h), NEW m, SameInUse(m, h), NEW o, OwnedOK(h, o),
         Enough(h, o)
  PROVE  OwnedOK(m, o) /\ Enough(m, o)
<1>1. OwnedOK(m, o)
      BY DEF OwnedOK, SameInUse
<1>2. \A p \in DOMAIN o : p - HEADER \in InUse(h)
      BY InUseHeap, OwnedNat
<1> QED BY <1>1, <1>2 DEF SameInUse, Enough

-----------------------------------------------------------------------------
(* The invariant holds initially.                                          *)
LEMMA IInvInit == Init => IInv
BY DEF Init, IInv, OwnedOK, FreedOK, Enough, IsFunction, InUse, Uninitialized

(* Every call preserves the invariant: one step per action of Next.        *)
LEMMA IInvNext == IInv /\ [Next]_vars => IInv'
<1> SUFFICES ASSUME IInv, [Next]_vars PROVE IInv'
    OBVIOUS
<1>1. /\ IF heap.memory_initialized THEN Good(heap) ELSE heap = Uninitialized
      /\ OwnedOK(heap, owned) /\ FreedOK(heap, owned, freed)
      /\ Enough(heap, owned)
      BY DEF IInv
<1>2. /\ DOMAIN owned \subseteq Nat \ {NULL} /\ Revoke(owned, NULL) = owned
      /\ ~heap.memory_initialized => DOMAIN owned = {}
      /\ \A p \in DOMAIN owned : p - HEADER \in InUse(heap)
      /\ freed \subseteq Nat \ {NULL}
      BY <1>1, OwnedNat DEF FreedOK
<1>3. heap.memory_initialized => Good(heap) /\ Ready(heap) = heap
      BY <1>1 DEF Ready
<1>4. DOMAIN owned # {} \/ freed # {} => heap.memory_initialized
  <2> SUFFICES ASSUME ~heap.memory_initialized PROVE freed = {}
      BY <1>2
  <2>1. DOMAIN heap.mem = {}
      BY <1>1 DEF Uninitialized
  <2> QED BY <1>1, <2>1 DEF FreedOK
<1>5. /\ Good(Ready(heap)) /\ OwnedOK(Ready(heap), owned)
      /\ Enough(Ready(heap), owned)
      /\ \A size : KMalloc(heap, size) = KMalloc(Ready(heap), size)
      BY <1>1, ReadyGood, ReadyOwned
<1> SUFFICES /\ IF heap'.memory_initialized THEN Good(heap') ELSE heap' = Uninitialized
             /\ OwnedOK(heap', owned') /\ FreedOK(heap', owned', freed')
             /\ Enough(heap', owned')
    BY DEF IInv
<1>6. CASE memory_init
  <2>1. heap' = Ready(heap) /\ owned' = owned /\ freed' = freed /\ freed = {}
        BY <1>4, <1>6 DEF memory_init, Ready
  <2> QED BY <2>1, <1>5, InUseHeap DEF FreedOK
<1>7. ASSUME NEW size \in Sizes, kmalloc(size) PROVE IInv'
  <2> DEFINE r == KMalloc(Ready(heap), size)
  <2>1. /\ heap' = r.heap /\ freed' = Intact(freed, heap', owned')
        /\ owned' = IF r.ptr = NULL THEN owned ELSE Grant(owned, r.ptr, size)
        BY <1>5, <1>7 DEF kmalloc
  <2>2. /\ Good(r.heap)
        /\ r.ptr = NULL => OwnedOK(r.heap, owned) /\ Enough(r.heap, owned)
        /\ r.ptr # NULL =>
             /\ OwnedOK(r.heap, Grant(owned, r.ptr, size))
             /\ Enough(r.heap, Grant(owned, r.ptr, size))
        BY <1>5, MallocStep
  <2> HIDE DEF r
  <2>3. FreedOK(heap', owned', freed')
        BY <1>2, <2>1, IntactOK
  <2> QED BY <2>1, <2>2, <2>3, InUseHeap DEF IInv
<1>8. ASSUME NEW ptr \in DOMAIN owned \cup freed \cup {NULL}, kfree(ptr) PROVE IInv'
  <2>1. /\ heap' = KFree(heap, ptr) /\ owned' = Revoke(owned, ptr)
        /\ freed' = Intact(freed \cup ({ptr} \ {NULL}), heap', owned')
        BY <1>8 DEF kfree
  <2>2. FreedOK(heap', owned', freed')
    <3>1. freed \cup ({ptr} \ {NULL}) \subseteq Nat \ {NULL}
          BY <1>2
    <3> QED BY <2>1, <3>1, IntactOK
  <2>3. CASE ptr = NULL
    <3>1. heap' = heap /\ owned' = owned
          BY <2>1, <2>3, <1>2 DEF KFree
    <3> QED BY <3>1, <2>2, <1>1 DEF IInv
  <2>4. CASE ptr \in DOMAIN owned
    <3>1. Good(heap)
          BY <2>4, <1>3, <1>4
    <3>2. /\ Good(heap') /\ OwnedOK(heap', owned')
          /\ Enough(heap', owned')
          BY <2>1, <2>4, <3>1, <1>1, FreeStep
    <3> QED BY <3>2, <2>2, InUseHeap DEF IInv
  <2>5. CASE ptr \in freed
    <3>1. Good(heap) /\ ptr - HEADER \in DOMAIN heap.mem /\ ptr # NULL
          /\ ptr \notin DOMAIN owned /\ ptr \in Nat
          BY <2>5, <1>1, <1>2, <1>3, <1>4 DEF FreedOK
    <3>2. ptr - HEADER \notin InUse(heap)
          BY <3>1, <1>1, HeapAssumption DEF OwnedOK
    <3>3. heap' = heap
          BY <3>1, <3>2, <2>1, KFreeGood
    <3>4. owned' = owned
          BY <3>1, <2>1, <1>1 DEF Revoke, OwnedOK, IsFunction
    <3> QED BY <3>3, <3>4, <2>2, <1>1 DEF IInv
  <2> QED BY <2>3, <2>4, <2>5
<1>9. ASSUME NEW ptr \in DOMAIN owned \cup {NULL}, NEW size \in Sizes,
             krealloc(ptr, size)
      PROVE  IInv'
  <2> DEFINE r == KMalloc(Ready(heap), size)
             q == KRealloc(heap, ptr, size)
  <2>1. /\ heap' = q.heap
        /\ owned' = IF q.ptr # NULL THEN Grant(Revoke(owned, ptr), q.ptr, size)
                    ELSE IF size = 0 THEN Revoke(owned, ptr) ELSE owned
        /\ freed' = Intact(freed \cup ({ptr} \ {NULL}), heap', owned')
        BY <1>9 DEF krealloc
  <2>2. FreedOK(heap', owned', freed')
    <3>1. freed \cup ({ptr} \ {NULL}) \subseteq Nat \ {NULL}
          BY <1>2
    <3> QED BY <2>1, <3>1, IntactOK
  <2>3. /\ Good(r.heap)
        /\ r.ptr = NULL => OwnedOK(r.heap, owned) /\ Enough(r.heap, owned)
        /\ r.ptr # NULL =>
             /\ OwnedOK(r.heap, Grant(owned, r.ptr, size))
             /\ Enough(r.heap, Grant(owned, r.ptr, size))
        BY <1>5, MallocStep
  <2>4. KMalloc(heap, size) = r
        BY <1>5
  <2> SUFFICES /\ IF heap'.memory_initialized THEN Good(heap')
                  ELSE heap' = Uninitialized
               /\ OwnedOK(heap', owned')
               /\ Enough(heap', owned')
      BY <2>2 DEF IInv
  <2>5. CASE ptr = NULL
    <3>1. q = r
          BY <2>4, <2>5 DEF KRealloc
    <3> HIDE DEF r, q
    <3>2. owned' = IF r.ptr # NULL THEN Grant(owned, r.ptr, size) ELSE owned
          BY <3>1, <2>1, <2>5, <1>2
    <3> QED BY <3>1, <3>2, <2>1, <2>3, InUseHeap
  <2>6. CASE ptr # NULL
    <3>1. ptr \in DOMAIN owned /\ Good(heap) /\ heap.memory_initialized /\ Ready(heap) = heap
          BY <2>6, <1>3, <1>4
    <3>2. CASE size = 0
      <4>1. heap' = KFree(heap, ptr) /\ owned' = Revoke(owned, ptr)
            BY <3>2, <2>1, <2>6 DEF KRealloc
      <4> QED BY <4>1, <3>1, <1>1, FreeStep, InUseHeap
    <3>3. CASE size # 0 /\ heap.mem[ptr - HEADER].size >= size
      <4>1. heap' = heap /\ owned' = Grant(Revoke(owned, ptr), ptr, size)
            BY <3>3, <2>1, <2>6 DEF KRealloc
      <4> QED BY <4>1, <3>1, <3>3, <1>1, KeepStep
    <3>4. CASE size # 0 /\ ~(heap.mem[ptr - HEADER].size >= size) /\ r.ptr = NULL
      <4>1. q = r
            BY <3>4, <2>4, <2>6 DEF KRealloc
      <4> HIDE DEF r, q
      <4>2. heap' = r.heap /\ owned' = owned
            BY <4>1, <3>4, <2>1
      <4> QED BY <4>2, <3>4, <2>3, InUseHeap
    <3>5. CASE size # 0 /\ ~(heap.mem[ptr - HEADER].size >= size) /\ r.ptr # NULL
      <4>1. q = [heap |-> KFree(r.heap, ptr), ptr |-> r.ptr]
            BY <3>5, <2>4, <2>6 DEF KRealloc
      <4>2. LET m == KFree(r.heap, ptr)
                g == Grant(Revoke(owned, ptr), r.ptr, size)
            IN Good(m) /\ OwnedOK(m, g) /\ Enough(m, g)
            BY <3>1, <3>5, <1>1, MoveStep
      <4> HIDE DEF r, q
      <4>3. heap' = KFree(r.heap, ptr) /\ owned' = Grant(Revoke(owned, ptr), r.ptr, size)
            BY <4>1, <3>5, <2>1
      <4> QED BY <4>2, <4>3, InUseHeap
    <3> QED BY <3>2, <3>3, <3>4, <3>5
  <2> QED BY <2>5, <2>6
<1>10. CASE memtest
  <2> DEFINE r1 == KMalloc(heap, TestSizes[1])
             r2 == KMalloc(r1.heap, TestSizes[2])
             m  == KFree(KFree(r2.heap, r1.ptr), r2.ptr)
  <2>1. /\ heap.memory_initialized /\ heap' = m /\ owned' = owned
        /\ freed' = Intact(freed \cup ({r1.ptr, r2.ptr} \ {NULL}), heap', owned')
        BY <1>10 DEF memtest
  <2>2. TestSizes[1] \in Nat /\ TestSizes[2] \in Nat
        BY HeapAssumption
  <2>3. /\ Good(m) /\ SameInUse(m, heap)
        /\ {r1.ptr, r2.ptr} \ {NULL} \subseteq Nat \ {NULL}
        BY <2>1, <2>2, <1>3, MemtestGood
  <2> HIDE DEF m
  <2>4. FreedOK(heap', owned', freed')
    <3>1. freed \cup ({r1.ptr, r2.ptr} \ {NULL}) \subseteq Nat \ {NULL}
          BY <1>2, <2>3
    <3> QED BY <2>1, <3>1, IntactOK
  <2>5. OwnedOK(heap', owned') /\ Enough(heap', owned')
        BY <2>1, <2>3, <1>1, <1>3, SameOwned
  <2> QED BY <2>1, <2>3, <2>4, <2>5, InUseHeap
<1>11. CASE UNCHANGED vars
      BY <1>1, <1>11 DEF vars
<1> QED BY <1>6, <1>7, <1>8, <1>9, <1>10, <1>11 DEF Next, IInv

(* The inductive invariant holds in every reachable state. *)
THEOREM Invariance == Spec => []IInv
BY IInvInit, IInvNext, PTL DEF Spec

(* The heap before memory_init is a heap without headers.                  *)
LEMMA UninitializedShape ==
  /\ Uninitialized.mem = [a \in {} |-> NULL] /\ Uninitialized.list = {}
  /\ Uninitialized.total_allocated = 0 /\ Uninitialized.memory_initialized = FALSE
  /\ DOMAIN Uninitialized.mem = {}
  /\ IsHeap(Uninitialized)
<1>1. /\ Uninitialized.mem = [a \in {} |-> NULL] /\ Uninitialized.list = {}
      /\ Uninitialized.total_allocated = 0 /\ Uninitialized.memory_initialized = FALSE
      /\ Uninitialized = [mem |-> Uninitialized.mem, list |-> Uninitialized.list,
            total_allocated |-> Uninitialized.total_allocated,
            memory_initialized |-> Uninitialized.memory_initialized]
      BY DEF Uninitialized
<1>2. DOMAIN Uninitialized.mem = {} /\ IsFunction(Uninitialized.mem)
      BY <1>1 DEF IsFunction
<1>3. Uninitialized.total_allocated \in Int /\ Uninitialized.memory_initialized \in BOOLEAN
      BY DEF Uninitialized
<1>4. IsHeap(Uninitialized)
  <2>1. Uninitialized.list \subseteq DOMAIN Uninitialized.mem
        BY <1>1
  <2>2. DOMAIN Uninitialized.mem \subseteq Nat
        BY <1>2
  <2>3. \A a \in DOMAIN Uninitialized.mem : Uninitialized.mem[a] \in Header
        BY <1>2
  <2> QED BY <1>1, <1>2, <1>3, <2>1, <2>2, <2>3 DEF IsHeap
<1> QED BY <1>1, <1>2, <1>4

(* What the invariant says of one state *)
LEMMA IInvImplies ==
  ASSUME IInv
  PROVE  /\ TypeOK /\ ListTilesHeap /\ BlocksDisjoint /\ FullyCoalesced
         /\ InUseIsOwned /\ FreedIsFree /\ EmptyIsWhole
         /\ LargeEnough
<1>1. /\ IF heap.memory_initialized THEN Good(heap) ELSE heap = Uninitialized
      /\ OwnedOK(heap, owned) /\ FreedOK(heap, owned, freed)
      BY DEF IInv
<1>2. IsHeap(heap)
      BY <1>1, InUseHeap, UninitializedShape
<1>3. heap.memory_initialized =>
        Good(heap) /\ TilesHeap(heap) /\ Disjoint(heap) /\ Coalesced(heap) /\ StaleFree(heap)
      BY <1>1 DEF Good, Sound
<1>4. ~heap.memory_initialized => heap.list = {} /\ DOMAIN heap.mem = {}
      BY <1>1, UninitializedShape
<1>5. DOMAIN owned \subseteq Nat \ {NULL} /\ \A p \in DOMAIN owned : p - HEADER \in InUse(heap)
      BY <1>1, OwnedNat
<1>6. TypeOK
      BY <1>1, <1>2, <1>5 DEF TypeOK, OwnedOK, FreedOK
<1>7. ListTilesHeap /\ BlocksDisjoint /\ FullyCoalesced
      BY <1>3, <1>4 DEF ListTilesHeap, BlocksDisjoint, FullyCoalesced, Disjoint, Coalesced
<1>8. InUseIsOwned
      BY <1>1 DEF OwnedOK, InUseIsOwned
<1>9. FreedIsFree
  <2> SUFFICES ASSUME NEW p \in freed
               PROVE  p - HEADER \in DOMAIN heap.mem /\ heap.mem[p - HEADER].is_free
      BY DEF FreedIsFree
  <2>1. /\ p \in Nat /\ p - HEADER \in DOMAIN heap.mem /\ p \notin DOMAIN owned
      BY <1>1 DEF FreedOK
  <2>2. p - HEADER \notin InUse(heap)
      BY <2>1, <1>1, HeapAssumption DEF OwnedOK
  <2> QED BY <2>1, <2>2, <1>3, <1>4 DEF InUse, StaleFree
<1>10. EmptyIsWhole
  <2> SUFFICES ASSUME heap.memory_initialized, DOMAIN owned = {}
               PROVE  /\ heap.list = {HEAP_START}
                      /\ heap.mem[HEAP_START].size = HEAP_SIZE - HEADER
      BY DEF EmptyIsWhole
  <2>1. \A a \in heap.list : heap.mem[a].is_free
      BY <1>1 DEF OwnedOK, InUse
  <2>2. HEAP_START \in heap.list /\ heap.mem[HEAP_START].next = NULL
      BY <2>1, <1>3 DEF TilesHeap, Coalesced
  <2>3. \A a \in heap.list : a \in Nat /\ heap.mem[a].size \in Nat
      BY <1>2 DEF IsHeap, Header
  <2>4. HEAP_START + HEADER + heap.mem[HEAP_START].size = HEAP_END
    <3> DEFINE z == heap.mem[HEAP_START].size
    <3>1. TileAt(heap, HEAP_START, z, NULL, heap.mem[HEAP_START].prev) /\ z \in Nat
          BY <1>3, <2>2, <2>3, TilesIff
    <3> HIDE DEF z
    <3>2. HEAP_START + HEADER + z # NULL
          BY <3>1, HeapAssumption DEF NULL
    <3> QED BY <3>1, <3>2 DEF TileAt, z
  <2>5. heap.mem[HEAP_START].size = HEAP_SIZE - HEADER
      BY <2>2, <2>3, <2>4, HeapAssumption, SMTT(30) DEF HEAP_END
  <2>6. ASSUME NEW a \in heap.list PROVE a = HEAP_START
    <3>1. HEAP_START <= a /\ a + HEADER + heap.mem[a].size <= HEAP_END
        BY <1>3 DEF TilesHeap
    <3>2. HEAP_START < a => HEAP_END <= a
        BY <2>2, <2>4, <1>3 DEF Disjoint
    <3> DEFINE z == heap.mem[a].size
    <3>3. a \in Nat /\ z \in Nat
        BY <2>3
    <3> HIDE DEF z
    <3>4. ~(HEAP_END <= a)
        BY <3>1, <3>3, HeapAssumption DEF HEAP_END, z
    <3> QED BY <3>1, <3>2, <3>3, <3>4, HeapAssumption
  <2> QED BY <2>2, <2>5, <2>6
<1>11. LargeEnough
      BY DEF IInv, Enough, LargeEnough
<1> QED BY <1>6, <1>7, <1>8, <1>9, <1>10, <1>11

(* Type correctness of memory.c's state. *)
THEOREM TypeCorrect == Spec => []TypeOK
BY Invariance, IInvImplies, PTL

(* Whatever is allocated, reallocated and freed, and in whatever order,    *)
(* the blocks tile the heap, do not overlap and are fully coalesced.       *)
THEOREM HeapStructure ==
  Spec => [](ListTilesHeap /\ BlocksDisjoint /\ FullyCoalesced)
BY Invariance, IInvImplies, PTL

(* No block leaks and none is granted twice: the blocks marked in use are  *)
(* those the clients hold.                                                 *)
THEOREM NoLeak == Spec => []InUseIsOwned
BY Invariance, IInvImplies, PTL

(* A block given back stays free until it is handed out again. *)
THEOREM FreedStaysFree == Spec => []FreedIsFree
BY Invariance, IInvImplies, PTL

(* kfree undoes all fragmentation once every client has freed everything. *)
THEOREM NoFragmentation == Spec => []EmptyIsWhole
BY Invariance, IInvImplies, PTL

(* Every client has the bytes it asked for.                                *)
THEOREM EnoughBytes == Spec => []LargeEnough
BY Invariance, IInvImplies, PTL

(* No call resizes a block that is in use before it and after it. *)
LEMMA SizesStay ==
  ASSUME IInv, [Next]_vars
  PROVE  \A a \in InUse(heap) \cap InUse(heap') : heap'.mem[a].size = heap.mem[a].size
<1>1. IF heap.memory_initialized THEN Good(heap) ELSE heap = Uninitialized
      BY DEF IInv
<1>2. ~heap.memory_initialized => InUse(heap) = {}
      BY <1>1, UninitializedShape DEF InUse
<1> SUFFICES ASSUME heap.memory_initialized, Good(heap)
             PROVE  \A a \in InUse(heap) \cap InUse(heap') :
                      heap'.mem[a].size = heap.mem[a].size
    BY <1>1, <1>2
<1>3. /\ \A p \in DOMAIN owned : p - HEADER \in InUse(heap)
      /\ \A p \in freed : p # NULL /\ p - HEADER \in DOMAIN heap.mem
      BY <1>1, OwnedNat DEF IInv, FreedOK
<1>4. CASE memory_init
      BY <1>4 DEF memory_init
<1>5. ASSUME NEW size \in Sizes, kmalloc(size)
      PROVE  \A a \in InUse(heap) : heap'.mem[a].size = heap.mem[a].size
  <2>1. heap' = KMalloc(heap, size).heap /\ size \in Nat
        BY <1>5, HeapAssumption DEF kmalloc
  <2> QED BY <2>1, MallocOne
<1>6. ASSUME NEW ptr, ptr = NULL \/ ptr - HEADER \in DOMAIN heap.mem
      PROVE  \A a \in InUse(heap) \cap InUse(KFree(heap, ptr)) :
               KFree(heap, ptr).mem[a].size = heap.mem[a].size
  <2>1. CASE ptr = NULL
        BY <2>1 DEF KFree
  <2>2. CASE ptr # NULL
        BY <1>6, <2>2, KFreeGood
  <2> QED BY <2>1, <2>2
<1>7. ASSUME NEW ptr \in DOMAIN owned \cup freed \cup {NULL}, kfree(ptr)
      PROVE  \A a \in InUse(heap) \cap InUse(heap') :
               heap'.mem[a].size = heap.mem[a].size
  <2>1. ptr = NULL \/ ptr - HEADER \in DOMAIN heap.mem
        BY <1>3, InUseHeap DEF InUse, IsHeap
  <2>2. heap' = KFree(heap, ptr)
        BY <1>7 DEF kfree
  <2> QED BY <1>6, <2>1, <2>2
<1>8. ASSUME NEW ptr \in DOMAIN owned \cup {NULL}, NEW size \in Sizes,
             krealloc(ptr, size)
      PROVE  \A a \in InUse(heap) \cap InUse(heap') :
               heap'.mem[a].size = heap.mem[a].size
  <2> DEFINE r == KMalloc(heap, size)
  <2>0. size \in Nat
        BY HeapAssumption
  <2>1. /\ Good(r.heap) /\ InUse(heap) \subseteq InUse(r.heap)
        /\ \A a \in InUse(heap) : r.heap.mem[a].size = heap.mem[a].size
        BY <2>0, MallocOne
  <2>2. ptr = NULL \/ (ptr - HEADER \in InUse(heap) /\ ptr - HEADER \in DOMAIN heap.mem)
        BY <1>3, InUseHeap DEF InUse, IsHeap
  <2>3. \/ heap' = heap \/ heap' = r.heap \/ heap' = KFree(heap, ptr)
        \/ heap' = KFree(r.heap, ptr)
        BY <1>8 DEF krealloc, KRealloc
  <2> HIDE DEF r
  <2>4. CASE heap' = KFree(r.heap, ptr)
    <3>1. \A a \in InUse(heap') : heap'.mem[a].size = r.heap.mem[a].size
          BY <2>1, <2>2, <2>4, FreeOne
    <3> QED BY <2>1, <3>1
  <2> QED BY <1>6, <2>1, <2>2, <2>3, <2>4
<1>9. CASE memtest
  <2> DEFINE m == KFree(KFree(KMalloc(KMalloc(heap, TestSizes[1]).heap, TestSizes[2]).heap,
                              KMalloc(heap, TestSizes[1]).ptr),
                        KMalloc(KMalloc(heap, TestSizes[1]).heap, TestSizes[2]).ptr)
  <2>1. TestSizes[1] \in Nat /\ TestSizes[2] \in Nat
        BY HeapAssumption
  <2>2. heap' = m
        BY <1>9 DEF memtest
  <2>3. SameInUse(m, heap)
        BY <2>1, MemtestGood
  <2> HIDE DEF m
  <2> QED BY <2>2, <2>3 DEF SameInUse
<1>10. CASE UNCHANGED vars
      BY <1>10 DEF vars
<1> QED BY <1>4, <1>5, <1>7, <1>8, <1>9, <1>10 DEF Next

(* Nothing the others do to the heap moves, frees or resizes a block that  *)
(* its owner has not given back.                                           *)
THEOREM OwnersKeep == Spec => OwnersKeepBlocks
<1>1. IInv /\ [Next]_vars =>
        [\A p \in DOMAIN owned \cap DOMAIN owned' :
           LET b == p - HEADER
           IN /\ b \in heap'.list /\ ~heap'.mem[b].is_free
              /\ heap'.mem[b].size = heap.mem[b].size]_vars
  <2> SUFFICES ASSUME IInv, [Next]_vars, NEW p \in DOMAIN owned \cap DOMAIN owned'
               PROVE  /\ p - HEADER \in heap'.list /\ ~heap'.mem[p - HEADER].is_free
                      /\ heap'.mem[p - HEADER].size = heap.mem[p - HEADER].size
      OBVIOUS
  <2>1. p - HEADER \in InUse(heap)
        BY OwnedNat DEF IInv
  <2>2. IInv'
        BY IInvNext
  <2>3. p - HEADER \in InUse(heap')
        BY <2>2, OwnedNat DEF IInv
  <2> QED BY <2>1, <2>3, SizesStay DEF InUse
<1> QED BY <1>1, Invariance, PTL DEF Spec, OwnersKeepBlocks

(* A second kfree of a pointer whose header is intact changes nothing. *)
THEOREM DoubleFree == Spec => DoubleFreeHarmless
<1>1. ASSUME IInv, NEW p \in freed, kfree(p)
      PROVE  Linked(heap') = Linked(heap)
             /\ heap'.total_allocated = heap.total_allocated
  <2>1. heap' = KFree(heap, p)
        BY <1>1 DEF kfree
  <2>2. FreedIsFree /\ p \in freed
        BY <1>1, IInvImplies
  <2>3. heap' = heap
        BY <2>1, <2>2 DEF KFree, FreedIsFree
  <2> QED BY <2>3
<1>2. IInv /\ [Next]_vars =>
        [\A p \in freed : kfree(p) => Linked(heap') = Linked(heap)
                          /\ heap'.total_allocated = heap.total_allocated]_vars
      BY <1>1
<1> QED BY <1>2, Invariance, PTL DEF Spec, DoubleFreeHarmless

-----------------------------------------------------------------------------
(* The statistics *)

SizeOf(h) == [a \in h.list |-> h.mem[a].size]
Held(h) == Total(SizeOf(h), InUse(h))

(* total_allocated is the sum of the sizes of the blocks in use. *)
Counted(h) == h.total_allocated = Held(h)

LEMMA ListFinite ==
  ASSUME NEW h, Sound(h)
  PROVE  /\ IsFiniteSet(h.list) /\ IsFiniteSet(InUse(h)) /\ InUse(h) \subseteq h.list
         /\ \A a \in h.list : a \in Nat /\ SizeOf(h)[a] = h.mem[a].size
                             /\ h.mem[a].size \in Nat /\ h.mem[a].is_free \in BOOLEAN
         /\ Integral(SizeOf(h), InUse(h)) /\ Held(h) \in Int
<1>1. \A a \in h.list : /\ a \in Nat /\ h.mem[a].size \in Nat /\ h.mem[a].is_free \in BOOLEAN
                        /\ HEAP_START <= a /\ a + HEADER + h.mem[a].size <= HEAP_END
      BY DEF Sound, IsHeap, Header, TilesHeap
<1>2. HEAP_START \in Int /\ HEAP_END \in Int
      BY HeapAssumption DEF HEAP_END
<1>3. h.list \subseteq HEAP_START .. HEAP_END
      BY <1>1, <1>2, HeapAssumption
<1>4. IsFiniteSet(h.list) /\ IsFiniteSet(InUse(h)) /\ InUse(h) \subseteq h.list
      BY <1>2, <1>3, FS_Interval, FS_Subset DEF InUse
<1>5. Integral(SizeOf(h), InUse(h))
      BY <1>1, <1>4 DEF Integral, SizeOf
<1>6. Held(h) \in Int
      BY <1>5, TotalUnfold DEF Held
<1> QED BY <1>1, <1>4, <1>5, <1>6 DEF SizeOf

(* kmalloc counts the block it hands out, ... *)
LEMMA CountedMalloc ==
  ASSUME NEW h, Good(h), NEW m, NEW c, NEW s, Allocated(m, h, c, s), Counted(h)
  PROVE  Counted(m)
<1>1. Good(m) /\ c \notin InUse(h) /\ InUse(m) = InUse(h) \cup {c}
      BY DEF Allocated
<1>2. Sound(h) /\ Sound(m)
      BY <1>1 DEF Good
<1>3. Integral(SizeOf(h), InUse(h)) /\ Held(h) \in Int
      BY <1>2, ListFinite
<1>4. \A a \in InUse(m) : SizeOf(m)[a] = m.mem[a].size /\ m.mem[a].size \in Nat
      BY <1>2, ListFinite
<1>5. \A a \in InUse(h) : SizeOf(m)[a] = SizeOf(h)[a]
  <2>1. \A a \in InUse(h) : SizeOf(h)[a] = h.mem[a].size
        BY <1>2, ListFinite
  <2>2. \A a \in InUse(h) : m.mem[a].size = h.mem[a].size
        BY DEF Allocated
  <2> QED BY <1>1, <1>4, <2>1, <2>2
<1>6. SizeOf(m)[c] \in Int /\ SizeOf(m)[c] = m.mem[c].size
      BY <1>1, <1>4
<1> DEFINE w == SizeOf(h)
           v == SizeOf(m)
           T == InUse(h)
<1>7. Total(v, T \cup {c}) = Total(w, T) + v[c]
  <2>1. c \notin T /\ Integral(w, T) /\ v[c] \in Int /\ \A a \in T : v[a] = w[a]
        BY <1>1, <1>3, <1>5, <1>6
  <2> HIDE DEF w, v, T
  <2> QED BY <2>1, TotalAdd, SMTT(60)
<1> QED BY <1>1, <1>6, <1>7 DEF Counted, Held, Allocated

(* ... kfree discounts it, with the size the header then has. *)
LEMMA CountedFree ==
  ASSUME NEW h, Good(h), NEW m, Good(m), NEW b \in InUse(h), InUse(m) = InUse(h) \ {b},
         m.total_allocated = h.total_allocated - h.mem[b].size,
         \A a \in InUse(m) : m.mem[a].size = h.mem[a].size, Counted(h)
  PROVE  Counted(m)
<1>1. Sound(h) /\ Sound(m)
      BY DEF Good
<1>2. Integral(SizeOf(h), InUse(h)) /\ SizeOf(h)[b] = h.mem[b].size /\ h.mem[b].size \in Nat
      BY <1>1, ListFinite
<1>3. \A a \in InUse(m) : SizeOf(m)[a] = SizeOf(h)[a]
      BY <1>1, ListFinite
<1> DEFINE R == InUse(h) \ {b}
<1>4. Integral(SizeOf(m), R) /\ Integral(SizeOf(h), R)
      BY <1>1, <1>3, ListFinite DEF Integral
<1> HIDE DEF R
<1>5. Total(SizeOf(m), R) = Total(SizeOf(h), R)
      BY <1>3, <1>4, TotalSame DEF R
<1>6. Total(SizeOf(h), InUse(h)) = SizeOf(h)[b] + Total(SizeOf(h), R)
      /\ Total(SizeOf(h), R) \in Int
      BY <1>2, TotalRemove DEF R
<1> QED BY <1>2, <1>5, <1>6 DEF Counted, Held, R

LEMMA CountedCalls ==
  ASSUME NEW h, Good(h), Counted(h)
  PROVE  /\ \A size \in Nat : Counted(KMalloc(h, size).heap)
         /\ \A ptr : ptr = NULL \/ ptr - HEADER \in DOMAIN h.mem => Counted(KFree(h, ptr))
<1>1. ASSUME NEW size \in Nat PROVE Counted(KMalloc(h, size).heap)
  <2> DEFINE r == KMalloc(h, size)
  <2>1. CASE r.heap = h
        BY <2>1
  <2>2. CASE Allocated(r.heap, h, r.ptr - HEADER, Align(size))
    <3> HIDE DEF r
    <3>1. PICK c, s : Allocated(r.heap, h, c, s)
          BY <2>2
    <3>2. Counted(r.heap)
          BY <3>1, CountedMalloc
    <3> QED BY <3>2 DEF r
  <2> QED BY <2>1, <2>2, KMallocGood
<1>2. ASSUME NEW ptr, ptr # NULL, ptr - HEADER \in DOMAIN h.mem PROVE Counted(KFree(h, ptr))
  <2> DEFINE b == ptr - HEADER
             m == KFree(h, ptr)
  <2>1. CASE m = h
        BY <2>1
  <2>2. CASE /\ b \in InUse(h) /\ Good(m)
             /\ InUse(m) = InUse(h) \ {b}
             /\ m.total_allocated = h.total_allocated - h.mem[b].size
             /\ \A a \in InUse(m) : m.mem[a].size = h.mem[a].size
    <3> HIDE DEF b, m
    <3>1. Counted(m)
          BY <2>2, CountedFree
    <3> QED BY <3>1 DEF m
  <2> QED BY <1>2, <2>1, <2>2, KFreeGood
<1>3. Counted(KFree(h, NULL))
      BY DEF KFree
<1> QED BY <1>1, <1>2, <1>3

(* Between calls, once there is a heap, the counter is right. *)
Counting == heap.memory_initialized => Counted(heap)

LEMMA InitialCounted == Counted(InitialHeap) /\ InitialHeap.memory_initialized
<1>1. InUse(InitialHeap) = {} /\ InitialHeap.total_allocated = 0 /\ InitialHeap.memory_initialized
      BY DEF InUse, InitialHeap
<1>2. Sound(InitialHeap)
      BY InitialHeapSound
<1>3. Integral(SizeOf(InitialHeap), {})
      BY <1>1, <1>2, ListFinite
<1>4. Held(InitialHeap) = 0
      BY <1>1, <1>3, TotalUnfold DEF Held
<1> QED BY <1>1, <1>4 DEF Counted

LEMMA CountingNext == IInv /\ Counting /\ [Next]_vars => Counting'
<1> SUFFICES ASSUME IInv, Counting, [Next]_vars PROVE Counting'
    OBVIOUS
<1>1. /\ IF heap.memory_initialized THEN Good(heap) ELSE heap = Uninitialized
      /\ OwnedOK(heap, owned) /\ FreedOK(heap, owned, freed)
      BY DEF IInv
<1>2. Good(Ready(heap)) /\ \A size : KMalloc(heap, size) = KMalloc(Ready(heap), size)
      BY <1>1, ReadyGood
<1>3. Counted(Ready(heap))
      BY InitialCounted DEF Ready, Counting
<1>4. \A size \in Nat : Counted(KMalloc(heap, size).heap)
      BY <1>2, <1>3, CountedCalls
<1>5. Sizes \subseteq Nat
      BY HeapAssumption
<1>6. CASE memory_init
      BY <1>6, InitialCounted DEF memory_init, Counting
<1>7. ASSUME NEW size \in Sizes, kmalloc(size) PROVE Counting'
      BY <1>4, <1>5, <1>7 DEF kmalloc, Counting
<1>8. ASSUME NEW ptr \in DOMAIN owned \cup freed \cup {NULL} PROVE
        ptr = NULL \/ ptr - HEADER \in DOMAIN heap.mem
  <2>1. \A p \in DOMAIN owned : p - HEADER \in InUse(heap)
        BY <1>1, OwnedNat
  <2>2. InUse(heap) \subseteq DOMAIN heap.mem
        BY <1>1, UninitializedShape, InUseHeap DEF InUse, IsHeap
  <2> QED BY <1>1, <2>1, <2>2 DEF FreedOK
<1>9. ASSUME NEW ptr \in DOMAIN owned \cup freed \cup {NULL}
      PROVE  KFree(heap, ptr).memory_initialized => Counted(KFree(heap, ptr))
  <2>1. CASE heap.memory_initialized
        BY <1>1, <1>8, <2>1, CountedCalls DEF Counting
  <2>2. CASE ~heap.memory_initialized
        BY <2>2 DEF KFree
  <2> QED BY <2>1, <2>2
<1>10. ASSUME NEW ptr \in DOMAIN owned \cup freed \cup {NULL}, kfree(ptr) PROVE Counting'
  <2>1. heap' = KFree(heap, ptr)
        BY <1>10 DEF kfree
  <2> QED BY <1>9, <2>1 DEF Counting
<1>11. ASSUME NEW ptr \in DOMAIN owned \cup {NULL}, NEW size \in Sizes, krealloc(ptr, size)
       PROVE  Counting'
  <2> DEFINE r == KMalloc(heap, size)
  <2>1. heap' = KRealloc(heap, ptr, size).heap
        BY <1>11 DEF krealloc
  <2>2. Counted(r.heap)
        BY <1>4, <1>5
  <2>3. CASE ptr = NULL
        BY <2>1, <2>2, <2>3 DEF KRealloc, Counting
  <2>4. CASE ptr # NULL /\ size = 0
    <3>1. heap' = KFree(heap, ptr)
          BY <2>1, <2>4 DEF KRealloc
    <3> QED BY <1>9, <3>1 DEF Counting
  <2>5. CASE ptr # NULL /\ size # 0 /\ heap.mem[ptr - HEADER].size >= size
    <3>1. heap' = heap
          BY <2>1, <2>5 DEF KRealloc
    <3> QED BY <3>1 DEF Counting
  <2>6. CASE ptr # NULL /\ size # 0 /\ ~(heap.mem[ptr - HEADER].size >= size)
    <3>1. CASE r.ptr = NULL
      <4>1. heap' = r.heap
            BY <2>1, <2>6, <3>1 DEF KRealloc
      <4> QED BY <2>2, <4>1 DEF Counting
    <3>2. CASE r.ptr # NULL
      <4>1. heap' = KFree(r.heap, ptr)
            BY <2>1, <2>6, <3>2 DEF KRealloc
      <4>2. ptr - HEADER \in InUse(heap)
            BY <1>1, <2>6, OwnedNat
      <4>3. InUse(heap) = InUse(Ready(heap))
            BY <1>1, ReadyGood
      <4>4. Good(r.heap) /\ ptr - HEADER \in InUse(r.heap)
        <5>1. size \in Nat /\ r = KMalloc(Ready(heap), size)
              BY <1>2, <1>5
        <5>2. LET q == KMalloc(Ready(heap), size)
              IN Good(q.heap) /\ InUse(Ready(heap)) \subseteq InUse(q.heap)
              BY <1>2, <5>1, MallocOne
        <5> QED BY <4>2, <4>3, <5>1, <5>2
      <4>5. ptr - HEADER \in DOMAIN r.heap.mem
            BY <4>4, InUseHeap DEF InUse, IsHeap
      <4> HIDE DEF r
      <4>6. Counted(KFree(r.heap, ptr))
            BY <2>2, <4>4, <4>5, CountedCalls
      <4> QED BY <4>1, <4>6 DEF Counting
    <3> QED BY <3>1, <3>2
  <2> QED BY <2>3, <2>4, <2>5, <2>6
<1>12. CASE memtest
  <2> DEFINE r1 == KMalloc(heap, TestSizes[1])
             r2 == KMalloc(r1.heap, TestSizes[2])
             f  == KFree(r2.heap, r1.ptr)
  <2>1. heap.memory_initialized /\ heap' = KFree(f, r2.ptr) /\ Good(heap)
        BY <1>1, <1>12 DEF memtest
  <2>2. TestSizes[1] \in Nat /\ TestSizes[2] \in Nat
        BY HeapAssumption
  <2>3. /\ Good(r1.heap) /\ Counted(r1.heap)
        /\ r1.ptr = NULL \/ r1.ptr - HEADER \in InUse(r1.heap)
    <3> DEFINE z == TestSizes[1]
    <3>1. z \in Nat
          BY <2>2
    <3> HIDE DEF z
    <3>2. Counted(KMalloc(heap, z).heap)
          BY <1>4, <2>1, <3>1, ZenonT(30)
    <3>3. /\ Good(KMalloc(heap, z).heap)
          /\ InUse(KMalloc(heap, z).heap) = IF KMalloc(heap, z).ptr = NULL THEN InUse(heap)
                                     ELSE InUse(heap) \cup {KMalloc(heap, z).ptr - HEADER}
          BY <2>1, <3>1, MallocOne, ZenonT(30)
    <3> QED BY <3>2, <3>3, ZenonT(30) DEF z
  <2> HIDE DEF r1
  <2>4. /\ Good(r2.heap) /\ Counted(r2.heap) /\ InUse(r1.heap) \subseteq InUse(r2.heap)
        /\ r2.ptr = NULL \/ r2.ptr - HEADER \in InUse(r2.heap) \ InUse(r1.heap)
        BY <2>2, <2>3, MallocOne, CountedCalls, ZenonT(40)
  <2> HIDE DEF r2
  <2>5. /\ Good(f) /\ (r2.ptr = NULL \/ r2.ptr - HEADER \in InUse(f))
        BY <2>3, <2>4, FreeOne
  <2>6. \A h : Good(h) => InUse(h) \subseteq DOMAIN h.mem
        BY InUseHeap DEF InUse, IsHeap
  <2>7. Counted(f)
        BY <2>3, <2>4, <2>6, CountedCalls
  <2> HIDE DEF f
  <2>8. Counted(KFree(f, r2.ptr))
        BY <2>5, <2>6, <2>7, CountedCalls
  <2> QED BY <2>1, <2>8 DEF Counting
<1>13. CASE UNCHANGED vars
       BY <1>13 DEF vars, Counting
<1> QED BY <1>6, <1>7, <1>10, <1>11, <1>12, <1>13 DEF Next

(* The blocks and their headers make up the heap. *)
Extent(h) == [a \in h.list |-> HEADER + h.mem[a].size]
Below(h, a) == {b \in h.list : b < a}

LEMMA TilesBelow ==
  ASSUME NEW h, Sound(h), NEW a \in h.list, a # HEAP_START
  PROVE  LET p == h.mem[a].prev
         IN /\ p \in h.list /\ p < a /\ p + HEADER + h.mem[p].size = a
            /\ Below(h, a) = Below(h, p) \cup {p} /\ p \notin Below(h, p)
<1> DEFINE p == h.mem[a].prev
<1>1. \A b \in h.list : b \in Nat /\ h.mem[b].size \in Nat
      BY ListFinite
<1>2. p \in h.list /\ h.mem[p].next = a /\ a # NULL
      BY DEF Sound, TilesHeap
<1>3. p + HEADER + h.mem[p].size = a
      BY <1>2 DEF Sound, TilesHeap
<1> HIDE DEF p
<1>4. p < a
      BY <1>1, <1>2, <1>3, HeapAssumption
<1>5. \A b \in h.list : b < a => b <= p
      BY <1>1, <1>2, <1>3 DEF Sound, Disjoint
<1>6. Below(h, a) = Below(h, p) \cup {p} /\ p \notin Below(h, p)
      BY <1>1, <1>2, <1>4, <1>5 DEF Below
<1> QED BY <1>2, <1>3, <1>4, <1>6 DEF p

LEMMA TilesSum ==
  ASSUME NEW h, Sound(h)
  PROVE  Integral(Extent(h), h.list) /\ Total(Extent(h), h.list) = HEAP_SIZE
<1> DEFINE E == Extent(h)
<1>1. IsFiniteSet(h.list) /\ \A a \in h.list : a \in Nat /\ h.mem[a].size \in Nat
      BY ListFinite
<1>2. \A a \in h.list : E[a] = HEADER + h.mem[a].size /\ E[a] \in Int
      BY <1>1, HeapAssumption DEF Extent
<1> HIDE DEF E
<1>3. \A T \in SUBSET h.list : Integral(E, T)
      BY <1>1, <1>2, FS_Subset DEF Integral
<1>4. ASSUME NEW a \in h.list PROVE Below(h, a) \in SUBSET h.list
      BY DEF Below
<1>5. ASSUME NEW a \in h.list, a \notin Below(h, a)
      PROVE  Total(E, Below(h, a) \cup {a}) = Total(E, Below(h, a)) + E[a]
  <2> DEFINE T == Below(h, a)
  <2>1. Integral(E, T) /\ E[a] \in Int /\ a \notin T /\ \A x \in T : E[x] = E[x]
        BY <1>2, <1>3, <1>4, <1>5
  <2> HIDE DEF T
  <2>2. Total(E, T \cup {a}) = Total(E, T) + E[a]
        BY <2>1, TotalAdd, SMTT(60)
  <2> QED BY <2>2 DEF T
<1>6. ASSUME NEW a \in h.list PROVE Total(E, Below(h, a)) = a - HEAP_START
  <2> DEFINE Wrong == {b \in h.list : Total(E, Below(h, b)) # b - HEAP_START}
  <2> SUFFICES ASSUME Wrong # {} PROVE FALSE
      OBVIOUS
  <2>1. PICK b \in Wrong : \A c \in Wrong : b <= c
        BY <1>1, LeastNat
  <2>2. b \in h.list /\ b \in Nat
        BY <1>1
  <2>3. CASE b = HEAP_START
    <3>1. Below(h, b) = {}
          BY <1>1, <2>3 DEF Below, Sound, TilesHeap
    <3>2. Total(E, {}) = 0
      <4>1. Integral(E, {})
            BY <1>3
      <4> QED BY <4>1, TotalUnfold
    <3>3. b - HEAP_START = 0
          BY <2>2, <2>3
    <3> QED BY <2>1, <3>1, <3>2, <3>3
  <2>4. CASE b # HEAP_START
    <3>1. PICK p \in h.list : /\ p < b /\ p + HEADER + h.mem[p].size = b
                              /\ Below(h, b) = Below(h, p) \cup {p} /\ p \notin Below(h, p)
          BY <2>2, <2>4, TilesBelow
    <3>2. p \notin Wrong
          BY <1>1, <2>1, <2>2, <3>1
    <3>3. Total(E, Below(h, p)) = p - HEAP_START
          BY <3>2
    <3>4. Total(E, Below(h, p) \cup {p}) = Total(E, Below(h, p)) + E[p]
          BY <1>5, <3>1
    <3>5. (p - HEAP_START) + (HEADER + h.mem[p].size) = b - HEAP_START
          BY <1>1, <2>2, <3>1, HeapAssumption
    <3> QED BY <1>2, <2>1, <3>1, <3>3, <3>4, <3>5
  <2> QED BY <2>3, <2>4
<1> DEFINE L == h.list
           l == Max(L)
<1>7. l \in L /\ \A b \in L : b <= l
  <2>1. L \subseteq Nat /\ HEAP_START \in L
        BY <1>1 DEF Sound, TilesHeap
  <2>2. HEAP_END \in Nat
        BY HeapAssumption DEF HEAP_END
  <2>3. \A b \in L : b + HEADER + h.mem[b].size <= HEAP_END
        BY DEF Sound, TilesHeap
  <2>4. \A b \in L : b <= HEAP_END
        BY <1>1, <2>2, <2>3, HeapAssumption
  <2> HIDE DEF L
  <2> QED BY <2>1, <2>2, <2>4, MaxIn
<1> HIDE DEF l
<1>8. l + HEADER + h.mem[l].size = HEAP_END
  <2> DEFINE end == l + HEADER + h.mem[l].size
  <2>1. end > l /\ l \in Nat
        BY <1>1, <1>7, HeapAssumption
  <2>2. end # HEAP_END => h.mem[l].next = end /\ end \in L
        BY <1>7, <2>1 DEF Sound, TilesHeap, NULL
  <2> HIDE DEF end
  <2>3. end = HEAP_END
        BY <1>1, <1>7, <2>1, <2>2
  <2> QED BY <2>3 DEF end
<1>9. Below(h, l) \cup {l} = h.list /\ l \notin Below(h, l)
      BY <1>1, <1>7 DEF Below
<1>10. Total(E, h.list) = (l - HEAP_START) + (HEADER + h.mem[l].size)
      BY <1>2, <1>5, <1>6, <1>7, <1>9
<1>11. Total(E, h.list) = HEAP_SIZE
      BY <1>1, <1>7, <1>8, <1>10, HeapAssumption DEF HEAP_END
<1> QED BY <1>3, <1>11 DEF E

(* What is not counted is what the free blocks hold and the headers. *)
FreeOf(h) == [a \in h.list |-> HEADER + (IF h.mem[a].is_free THEN h.mem[a].size ELSE 0)]

LEMMA FreeSum ==
  ASSUME NEW h, Sound(h), Counted(h)
  PROVE  /\ Total(FreeOf(h), h.list) = HEAP_SIZE - h.total_allocated
         /\ h.total_allocated \in Nat /\ h.total_allocated < HEAP_SIZE
         /\ Integral(FreeOf(h), h.list)
<1> DEFINE u == FreeOf(h)
           v == SizeOf(h)
           w == Extent(h)
           T == h.list
           U == InUse(h)
<1>1. /\ IsFiniteSet(T) /\ IsFiniteSet(U) /\ U \subseteq T
      /\ \A a \in T : v[a] = h.mem[a].size /\ h.mem[a].size \in Nat
      BY ListFinite
<1>2. \A a \in T : u[a] \in Nat /\ u[a] > 0 /\ w[a] = HEADER + h.mem[a].size
                   /\ u[a] = HEADER + (IF h.mem[a].is_free THEN h.mem[a].size ELSE 0)
      BY <1>1, HeapAssumption DEF FreeOf, Extent
<1>3. \A a \in T : w[a] = u[a] + (IF a \in U THEN v[a] ELSE 0)
      BY <1>1, <1>2, HeapAssumption DEF InUse
<1>4. Total(w, T) = HEAP_SIZE
      BY TilesSum
<1>5. HEAP_START \in T
      BY DEF Sound, TilesHeap
<1>6. h.total_allocated = Total(v, U)
      BY DEF Counted, Held
<1> HIDE DEF u, v, w, T, U
<1>7. Total(w, T) = Total(u, T) + Total(v, U)
  <2>1. \A x \in T : u[x] \in Int
        BY <1>2
  <2>2. \A x \in U : v[x] \in Int
        BY <1>1
  <2> QED BY <1>1, <1>3, <2>1, <2>2, TotalParts
<1>8. Total(v, U) \in Nat
  <2>1. \A x \in U : v[x] \in Nat
        BY <1>1
  <2> QED BY <1>1, <2>1, TotalNat
<1>9. Integral(u, T)
      BY <1>1, <1>2 DEF Integral
<1>10. Total(u, T) \in Nat /\ Total(u, T) > 0
  <2>1. Total(u, T) = u[HEAP_START] + Total(u, T \ {HEAP_START})
        BY <1>5, <1>9, TotalRemove
  <2>2. Total(u, T \ {HEAP_START}) \in Nat
    <3>1. IsFiniteSet(T \ {HEAP_START}) /\ \A x \in T \ {HEAP_START} : u[x] \in Nat
          BY <1>1, <1>2, FS_Subset
    <3> QED BY <3>1, TotalNat
  <2> QED BY <1>2, <1>5, <2>1, <2>2
<1>11. Total(u, T) = HEAP_SIZE - h.total_allocated
      BY <1>4, <1>6, <1>7, <1>8, <1>10
<1>12. h.total_allocated \in Nat /\ h.total_allocated < HEAP_SIZE
      BY <1>4, <1>6, <1>7, <1>8, <1>10
<1> QED BY <1>9, <1>11, <1>12 DEF u, T

(* The sum in StatsAddUp *)
LEMMA FreeSumIs ==
  ASSUME NEW h, Integral(FreeOf(h), h.list)
  PROVE  MapThenSumSet(LAMBDA a : HEADER + (IF h.mem[a].is_free THEN h.mem[a].size ELSE 0),
                       h.list) = Total(FreeOf(h), h.list)
<1> DEFINE D == h.list
           w == FreeOf(h)
           Part(a) == HEADER + (IF h.mem[a].is_free THEN h.mem[a].size ELSE 0)
           Eq(f) == f = [T \in SUBSET D |-> IF T = {} THEN 0
                           ELSE Part(CHOOSE x \in T : TRUE) + f[T \ {CHOOSE x \in T : TRUE}]]
           g == CHOOSE f : Eq(f)
<1>1. MapThenSumSet(LAMBDA a : HEADER + (IF h.mem[a].is_free THEN h.mem[a].size ELSE 0), h.list)
        = g[D]
      BY DEF MapThenSumSet, MapThenFoldSet
<1>2. ASSUME NEW f PROVE Eq(f) <=> IsSum(f, D, w)
  <2>1. ASSUME NEW T \in SUBSET D, T # {} PROVE w[Pick(T)] = Part(CHOOSE x \in T : TRUE)
        BY <2>1 DEF Pick, FreeOf
  <2> QED BY <2>1 DEF IsSum, Pick
<1>3. \E f : Eq(f)
  <2>1. Integral(w, D)
        OBVIOUS
  <2> HIDE DEF Eq, D, w
  <2>2. PICK f \in [SUBSET D -> Int] : IsSum(f, D, w)
        BY <2>1, SumExists
  <2> QED BY <1>2, <2>2
<1>4. Eq(g)
      BY <1>3
<1> HIDE DEF g, Eq
<1>5. IsSum(g, D, w)
      BY <1>2, <1>4
<1>6. Integral(w, D)
      OBVIOUS
<1> HIDE DEF D, w
<1>7. D \in SUBSET D /\ \A x \in D : w[x] = w[x]
      OBVIOUS
<1>8. g[D] = Total(w, D)
      BY <1>5, <1>6, <1>7, TotalIs
<1> QED BY <1>1, <1>8 DEF D, w

(* The product of memory_print_stats does not wrap, and its quotient is    *)
(* the share of the heap that is used.                                     *)
LEMMA UsageExact ==
  ASSUME NEW t \in Nat, t < HEAP_SIZE, NEW scale \in 1 .. WORD \div HEAP_SIZE
  PROVE  LET q == ((t * scale) % WORD) \div HEAP_SIZE
         IN q * HEAP_SIZE <= t * scale /\ (q + 1) * HEAP_SIZE > t * scale
<1>1. HEAP_SIZE \in Nat /\ HEAP_SIZE > 0 /\ WORD \in Nat /\ WORD > 0
      BY HeapAssumption DEF HEAP_END
<1> DEFINE k == WORD \div HEAP_SIZE
           x == t * scale
<1>2. k \in Nat /\ k * HEAP_SIZE <= WORD
  <2>1. k \in Nat /\ WORD % HEAP_SIZE \in Nat /\ WORD = k * HEAP_SIZE + (WORD % HEAP_SIZE)
        BY <1>1, Quotient
  <2> HIDE DEF k
  <2>2. k * HEAP_SIZE \in Nat
        BY <1>1, <2>1
  <2> QED BY <1>1, <2>1, <2>2
<1> HIDE DEF k
<1>3. scale \in Nat /\ scale >= 1 /\ scale <= k
      BY <1>2 DEF k
<1>4. x \in Nat /\ x < WORD
  <2>1. scale * HEAP_SIZE <= k * HEAP_SIZE
        BY <1>1, <1>2, <1>3
  <2>2. t * scale < HEAP_SIZE * scale
        BY <1>1, <1>3
  <2>3. t * scale \in Nat
        BY <1>3
  <2>4. HEAP_SIZE * scale = scale * HEAP_SIZE
        BY <1>1, <1>3
  <2>5. scale * HEAP_SIZE \in Nat /\ k * HEAP_SIZE \in Nat
        BY <1>1, <1>2, <1>3
  <2> QED BY <1>1, <1>2, <2>1, <2>2, <2>3, <2>4, <2>5
<1> HIDE DEF x
<1>5. x % WORD = x
      BY <1>1, <1>4, Quotient
<1> DEFINE q == x \div HEAP_SIZE
<1>6. /\ q \in Nat /\ x % HEAP_SIZE \in Nat /\ x % HEAP_SIZE < HEAP_SIZE
      /\ x = q * HEAP_SIZE + (x % HEAP_SIZE)
      BY <1>1, <1>4, Quotient
<1> HIDE DEF q
<1>7. (q + 1) * HEAP_SIZE = q * HEAP_SIZE + HEAP_SIZE /\ q * HEAP_SIZE \in Nat
      BY <1>1, <1>6
<1>8. q * HEAP_SIZE <= x /\ (q + 1) * HEAP_SIZE > x
      BY <1>1, <1>4, <1>6, <1>7
<1> QED BY <1>5, <1>8 DEF q, x

LEMMA StatsHold == IInv /\ Counting => StatsAddUp
<1> SUFFICES ASSUME IInv, Counting, heap.memory_initialized
             PROVE  /\ memory_get_free(heap) = MapThenSumSet(LAMBDA a :
                          HEADER + (IF heap.mem[a].is_free THEN heap.mem[a].size ELSE 0),
                          heap.list)
                    /\ \A scale \in 1 .. WORD \div HEAP_SIZE :
                         /\ Usage(heap, scale) * HEAP_SIZE <= memory_get_used(heap) * scale
                         /\ (Usage(heap, scale) + 1) * HEAP_SIZE > memory_get_used(heap) * scale
    BY DEF StatsAddUp
<1>1. Sound(heap) /\ Counted(heap)
      BY DEF IInv, Good, Counting
<1> DEFINE t == heap.total_allocated
<1>2. /\ Total(FreeOf(heap), heap.list) = HEAP_SIZE - t
      /\ t \in Nat /\ t < HEAP_SIZE /\ Integral(FreeOf(heap), heap.list)
      BY <1>1, FreeSum
<1>3. (HEAP_SIZE - t) % WORD = HEAP_SIZE - t
  <2> DEFINE y == HEAP_SIZE - t
  <2>1. y \in Nat /\ y < WORD /\ WORD \in Nat /\ WORD > 0
        BY <1>2, HeapAssumption DEF HEAP_END
  <2> HIDE DEF y
  <2>2. y % WORD = y
        BY <2>1, Quotient
  <2> QED BY <2>2 DEF y
<1>4. memory_get_free(heap) = Total(FreeOf(heap), heap.list)
      BY <1>2, <1>3 DEF memory_get_free
<1>5. MapThenSumSet(LAMBDA a : HEADER + (IF heap.mem[a].is_free THEN heap.mem[a].size ELSE 0),
                    heap.list) = Total(FreeOf(heap), heap.list)
      BY <1>2, FreeSumIs
<1>6. ASSUME NEW scale \in 1 .. WORD \div HEAP_SIZE
      PROVE  /\ Usage(heap, scale) * HEAP_SIZE <= memory_get_used(heap) * scale
             /\ (Usage(heap, scale) + 1) * HEAP_SIZE > memory_get_used(heap) * scale
      BY <1>2, UsageExact DEF Usage, memory_get_used
<1> QED BY <1>4, <1>5, <1>6

(* The numbers that memory_print_stats shows are right after any calls:    *)
(* total_allocated is what the blocks in use hold, so that the difference  *)
(* does not wrap below 0 nor the product above 2^32.                       *)
THEOREM StatsRight == Spec => []StatsAddUp
<1>1. Init => Counting
      BY DEF Init, Counting, Uninitialized
<1>2. Spec => [](IInv /\ Counting)
      BY <1>1, CountingNext, Invariance, PTL DEF Spec
<1> QED BY <1>2, StatsHold, PTL

-----------------------------------------------------------------------------
(* The blocks in use determine a good heap: its free blocks are the gaps   *)
(* between them.                                                           *)

LEMMA SizeAtMost ==
  ASSUME NEW h, Good(h), NEW m, Good(m), SameInUse(m, h), NEW a \in h.list, a \in m.list
  PROVE  h.mem[a].size <= m.mem[a].size
<1>1. Sound(h) /\ Sound(m) /\ Coalesced(m)
      BY DEF Good
<1>2. /\ \A b \in h.list : b \in Nat /\ h.mem[b].size \in Nat
      /\ \A b \in m.list : b \in Nat /\ m.mem[b].size \in Nat
      BY <1>1, ListFinite
<1>3. CASE a \in InUse(h)
      BY <1>2, <1>3 DEF SameInUse
<1>4. CASE a \notin InUse(h)
  <2> SUFFICES ASSUME m.mem[a].size < h.mem[a].size PROVE FALSE
      BY <1>2
  <2> DEFINE n == a + HEADER + m.mem[a].size
  <2>1. m.mem[a].is_free
        BY <1>4 DEF SameInUse, InUse
  <2>2. n > a /\ n < a + HEADER + h.mem[a].size
        BY <1>2, HeapAssumption
  <2>3. a + HEADER + h.mem[a].size <= HEAP_END
        BY <1>1 DEF Sound, TilesHeap
  <2>4. n # HEAP_END
        BY <1>2, <2>2, <2>3, HeapAssumption DEF HEAP_END
  <2>5. m.mem[a].next = n /\ n # NULL
        BY <1>1, <1>2, <2>2, <2>4 DEF Sound, TilesHeap, NULL
  <2> HIDE DEF n
  <2>6. n \in m.list /\ ~m.mem[n].is_free
        BY <1>1, <2>1, <2>5 DEF Sound, TilesHeap, Coalesced
  <2>7. n \in h.list
        BY <2>6 DEF SameInUse, InUse
  <2>8. a + HEADER + h.mem[a].size <= n
        BY <1>1, <2>2, <2>7 DEF Sound, Disjoint
  <2> QED BY <1>2, <2>2, <2>7, <2>8, HeapAssumption
<1> QED BY <1>3, <1>4

(* A block that starts in h starts in m, if the one before it does so with *)
(* the same size.                                                          *)
LEMMA SameStart ==
  ASSUME NEW h, Sound(h), NEW m, Sound(m), NEW a \in h.list, a # HEAP_START,
         LET p == h.mem[a].prev IN p \in m.list /\ m.mem[p].size = h.mem[p].size
  PROVE  a \in m.list
<1> DEFINE p == h.mem[a].prev
<1>1. p \in h.list /\ p + HEADER + h.mem[p].size = a
      BY TilesBelow
<1>2. p \in m.list /\ p + HEADER + m.mem[p].size = a
      BY <1>1
<1> HIDE DEF p
<1>3. a # HEAP_END /\ a # NULL
  <2>1. a \in Nat /\ h.mem[a].size \in Nat /\ a + HEADER + h.mem[a].size <= HEAP_END
        BY ListFinite DEF Sound, TilesHeap
  <2> QED BY <2>1, HeapAssumption, SMTT(30) DEF Sound, TilesHeap, HEAP_END
<1> QED BY <1>2, <1>3 DEF Sound, TilesHeap

LEMMA SameBlocks ==
  ASSUME NEW h, Good(h), NEW m, Good(m), SameInUse(m, h)
  PROVE  h.list = m.list /\ \A a \in h.list : h.mem[a].size = m.mem[a].size
<1>1. Sound(h) /\ Sound(m) /\ SameInUse(h, m)
      BY DEF Good, SameInUse
<1>2. /\ \A b \in h.list : b \in Nat /\ h.mem[b].size \in Nat
      /\ \A b \in m.list : b \in Nat /\ m.mem[b].size \in Nat
      BY <1>1, ListFinite
<1>3. ASSUME NEW a \in h.list, a \in m.list PROVE h.mem[a].size = m.mem[a].size
  <2>1. h.mem[a].size <= m.mem[a].size
        BY <1>3, SizeAtMost
  <2>2. m.mem[a].size <= h.mem[a].size
        BY <1>1, <1>3, SizeAtMost
  <2> QED BY <1>2, <1>3, <2>1, <2>2
<1> DEFINE Odd == {a \in h.list \cup m.list : a \notin h.list \/ a \notin m.list}
<1>4. Odd = {}
  <2> SUFFICES ASSUME Odd # {} PROVE FALSE
      OBVIOUS
  <2>1. PICK a \in Odd : \A b \in Odd : a <= b
        BY <1>2, LeastNat
  <2>2. a # HEAP_START /\ a \in Nat
        BY <1>1, <1>2 DEF Sound, TilesHeap
  <2>3. \A b \in h.list \cup m.list : b < a => b \in h.list /\ b \in m.list
        BY <1>2, <2>1, <2>2
  <2>4. CASE a \in h.list
    <3> DEFINE p == h.mem[a].prev
    <3>1. p \in h.list /\ p < a
          BY <1>1, <2>2, <2>4, TilesBelow
    <3>2. p \in m.list /\ m.mem[p].size = h.mem[p].size
          BY <1>3, <2>3, <3>1
    <3>3. a \in m.list
          BY <1>1, <2>2, <2>4, <3>2, SameStart
    <3> QED BY <2>4, <3>3
  <2>5. CASE a \in m.list
    <3> DEFINE p == m.mem[a].prev
    <3>1. p \in m.list /\ p < a
          BY <1>1, <2>2, <2>5, TilesBelow
    <3>2. p \in h.list /\ m.mem[p].size = h.mem[p].size
          BY <1>3, <2>3, <3>1
    <3>3. a \in h.list
          BY <1>1, <2>2, <2>5, <3>2, SameStart
    <3> QED BY <2>5, <3>3
  <2> QED BY <2>4, <2>5
<1> QED BY <1>3, <1>4

LEMMA SameLinked ==
  ASSUME NEW h, Good(h), NEW m, Good(m), SameInUse(m, h)
  PROVE  Linked(m) = Linked(h)
<1>1. h.list = m.list /\ \A a \in h.list : h.mem[a].size = m.mem[a].size
      BY SameBlocks
<1>2. Sound(h) /\ Sound(m)
      BY DEF Good
<1>3. ASSUME NEW a \in h.list PROVE m.mem[a] = h.mem[a]
  <2>1. h.mem[a] \in Header /\ m.mem[a] \in Header
        BY <1>1, <1>2 DEF Sound, IsHeap
  <2>2. h.mem[a].size = m.mem[a].size
        BY <1>1
  <2>3. h.mem[a].is_free = m.mem[a].is_free
    <3>1. h.mem[a].is_free <=> m.mem[a].is_free
          BY <1>1 DEF SameInUse, InUse
    <3>2. h.mem[a].is_free \in BOOLEAN /\ m.mem[a].is_free \in BOOLEAN
          BY <2>1 DEF Header
    <3> QED BY <3>1, <3>2
  <2>4. h.mem[a].next = m.mem[a].next
        BY <1>1, <1>2, <2>2 DEF Sound, TilesHeap
  <2>5. h.mem[a].prev = m.mem[a].prev
    <3>1. CASE a = HEAP_START
          BY <1>1, <1>2, <3>1 DEF Sound, TilesHeap
    <3>2. CASE a # HEAP_START
      <4> DEFINE p == h.mem[a].prev
      <4>1. p \in h.list /\ h.mem[p].next = a /\ a # NULL
            BY <1>2, <3>2 DEF Sound, TilesHeap
      <4>2. m.mem[p].next = a /\ p \in m.list
            BY <1>1, <1>2, <4>1 DEF Sound, TilesHeap
      <4> HIDE DEF p
      <4>3. m.mem[a].prev = p
            BY <1>2, <4>1, <4>2 DEF Sound, TilesHeap
      <4> QED BY <4>3 DEF p
    <3> QED BY <3>1, <3>2
  <2> QED BY <2>1, <2>2, <2>3, <2>4, <2>5 DEF Header
<1> QED BY <1>1, <1>3 DEF Linked

(* memtest leaves the heap and its statistics as they were, whatever else  *)
(* is allocated and whether or not its own allocations succeed.            *)
THEOREM MemtestLeavesNothing == Spec => MemtestNeutral
<1>1. ASSUME IInv, Counting, Counting', memtest
      PROVE  Linked(heap') = Linked(heap) /\ heap'.total_allocated = heap.total_allocated
  <2>1. heap.memory_initialized /\ Good(heap) /\ Counted(heap)
        BY <1>1 DEF memtest, IInv, Counting
  <2>2. TestSizes[1] \in Nat /\ TestSizes[2] \in Nat
        BY HeapAssumption
  <2>3. Good(heap') /\ SameInUse(heap', heap)
        BY <1>1, <2>1, <2>2, MemtestGood DEF memtest
  <2>4. Counted(heap')
        BY <1>1, <2>3, InUseHeap DEF Counting
  <2> DEFINE w == SizeOf(heap)
             v == SizeOf(heap')
             T == InUse(heap)
  <2>5. Integral(w, T) /\ \A a \in T : v[a] = w[a]
    <3>1. Sound(heap) /\ Sound(heap')
          BY <2>1, <2>3 DEF Good
    <3>2. Integral(w, T) /\ \A a \in T : w[a] = heap.mem[a].size
          BY <3>1, ListFinite
    <3>3. \A a \in InUse(heap') : v[a] = heap'.mem[a].size
          BY <3>1, ListFinite
    <3> QED BY <2>3, <3>2, <3>3 DEF SameInUse
  <2>6. InUse(heap') = T
        BY <2>3 DEF SameInUse
  <2> HIDE DEF w, v, T
  <2>7. Total(v, T) = Total(w, T)
        BY <2>5, TotalSame
  <2>8. heap'.total_allocated = heap.total_allocated
        BY <2>1, <2>4, <2>6, <2>7 DEF Counted, Held, w, v, T
  <2> QED BY <2>1, <2>3, <2>8, SameLinked
<1>2. Init => Counting
      BY DEF Init, Counting, Uninitialized
<1>3. Spec => [](IInv /\ Counting)
      BY <1>2, CountingNext, Invariance, PTL DEF Spec
<1>4. IInv /\ Counting /\ Counting' /\ [Next]_vars =>
        [memtest => Linked(heap') = Linked(heap)
                    /\ heap'.total_allocated = heap.total_allocated]_vars
      BY <1>1
<1> QED BY <1>3, <1>4, PTL DEF Spec, MemtestNeutral

-----------------------------------------------------------------------------
(* The walk of kmalloc.  Its function exists and takes the steps of the    *)
(* loop; it is at the block with i blocks below it after i steps, so that  *)
(* it meets the blocks in address order and leaves the list after all.     *)
LEMMA WalkSteps ==
  ASSUME NEW h, Sound(h)
  PROVE  /\ Walk(h)[0] = HEAP_START
         /\ \A i \in Nat : Walk(h)[i] \in h.list => Walk(h)[i + 1] = h.mem[Walk(h)[i]].next
<1> DEFINE X == h.list \cup {NULL}
           After(a) == IF a = NULL THEN NULL ELSE h.mem[a].next
           step == [p \in Nat \X X |-> After(p[2])]
           before == [n \in Nat |-> IF n = 0 THEN 0 ELSE n - 1]
           Eq(w) == w = [n \in Nat |-> IF n = 0 THEN HEAP_START
                                       ELSE IF w[n - 1] = NULL THEN NULL
                                       ELSE h.mem[w[n - 1]].next]
<1>1. \A a \in X : After(a) \in X
      BY DEF Sound, TilesHeap
<1>2. step \in [Nat \X X -> X] /\ \A n \in Nat, a \in X : step[<<n, a>>] = After(a)
      BY <1>1
<1>3. HEAP_START \in X /\ NULL \notin h.list
      BY DEF Sound, TilesHeap
<1>4. Descends(before) /\ \A n \in Nat : n # 0 => before[n] = n - 1
      BY DEF Descends
<1> HIDE DEF X, step, before
<1>5. PICK f \in [Nat -> X] : IsRecursion(f, Nat, HEAP_START, before, step)
      BY <1>2, <1>3, <1>4, RecursionExists
<1> HIDE DEF After
<1>6. ASSUME NEW n \in Nat
      PROVE  f[n] = IF n = 0 THEN HEAP_START ELSE After(f[n - 1])
  <2>1. f[n] = IF n = 0 THEN HEAP_START ELSE step[<<n, f[before[n]]>>]
        BY <1>5 DEF IsRecursion
  <2>2. n # 0 => n - 1 \in Nat /\ before[n] = n - 1
        BY <1>4
  <2>3. n # 0 => f[n - 1] \in X
        BY <2>2, <1>5
  <2>4. n # 0 => step[<<n, f[n - 1]>>] = After(f[n - 1])
        BY <2>3, <1>2
  <2> QED BY <2>1, <2>2, <2>4
<1>7. f = [n \in Nat |-> f[n]]
      BY <1>5
<1>8. Eq(f)
      BY <1>6, <1>7 DEF After
<1>9. Walk(h) = CHOOSE w : Eq(w)
      BY DEF Walk
<1> DEFINE w == Walk(h)
<1> HIDE DEF Eq, w
<1>10. Eq(w)
      BY <1>8, <1>9 DEF w
<1>11. \A n \in Nat : w[n] = IF n = 0 THEN HEAP_START
                             ELSE IF w[n - 1] = NULL THEN NULL ELSE h.mem[w[n - 1]].next
      BY <1>10 DEF Eq
<1>12. ASSUME NEW i \in Nat, w[i] \in h.list PROVE w[i + 1] = h.mem[w[i]].next
  <2>1. i + 1 \in Nat /\ i + 1 # 0 /\ (i + 1) - 1 = i
        OBVIOUS
  <2> QED BY <2>1, <1>3, <1>11, <1>12
<1>13. w[0] = HEAP_START
      BY <1>11
<1> QED BY <1>12, <1>13 DEF w

LEMMA BlocksBelow ==
  ASSUME NEW h, Sound(h), NEW a \in h.list
  PROVE  /\ IsFiniteSet(Below(h, a)) /\ Cardinality(Below(h, a)) \in Nat
         /\ Cardinality(Below(h, a)) < Cardinality(h.list)
         /\ \A b \in h.list : b < a => Cardinality(Below(h, b)) < Cardinality(Below(h, a))
<1>1. IsFiniteSet(h.list) /\ \A b \in h.list : b \in Nat
      BY ListFinite
<1>2. \A b \in h.list : /\ IsFiniteSet(Below(h, b)) /\ Cardinality(Below(h, b)) \in Nat
                        /\ b \notin Below(h, b)
      BY <1>1, FS_Subset, FS_CardinalityType DEF Below
<1>3. ASSUME NEW b \in h.list, NEW S, IsFiniteSet(S), b \in S, Below(h, b) \subseteq S
      PROVE  Cardinality(Below(h, b)) < Cardinality(S)
  <2>1. Below(h, b) \subseteq S /\ Below(h, b) # S
        BY <1>2, <1>3
  <2>2. Cardinality(Below(h, b)) <= Cardinality(S)
        BY <2>1, <1>3, FS_Subset
  <2>3. Cardinality(Below(h, b)) # Cardinality(S)
        BY <2>1, <1>3, FS_Subset
  <2>4. Cardinality(S) \in Nat /\ Cardinality(Below(h, b)) \in Nat
        BY <1>2, <1>3, FS_CardinalityType
  <2> QED BY <2>2, <2>3, <2>4
<1>4. a \in h.list /\ Below(h, a) \subseteq h.list
      BY DEF Below
<1>5. \A b \in h.list : b < a => b \in Below(h, a) /\ Below(h, b) \subseteq Below(h, a)
      BY <1>1 DEF Below
<1> QED BY <1>1, <1>2, <1>3, <1>4, <1>5

LEMMA NextBlock ==
  ASSUME NEW h, Sound(h), NEW a \in h.list
  PROVE  LET n == h.mem[a].next
             k == Cardinality(Below(h, a))
         IN IF n = NULL THEN Cardinality(h.list) = k + 1
            ELSE n \in h.list /\ a < n /\ Cardinality(Below(h, n)) = k + 1
<1> DEFINE n == h.mem[a].next
           end == a + HEADER + h.mem[a].size
<1>1. \A b \in h.list : b \in Nat /\ h.mem[b].size \in Nat
      BY ListFinite
<1>2. IsFiniteSet(Below(h, a)) /\ a \notin Below(h, a)
  <2>1. a \notin Below(h, a)
        BY <1>1 DEF Below
  <2> QED BY <2>1, BlocksBelow
<1>3. Cardinality(Below(h, a) \cup {a}) = Cardinality(Below(h, a)) + 1
      BY <1>2, FS_AddElement
<1>4. /\ n = IF end = HEAP_END THEN NULL ELSE end
      /\ n # NULL => n \in h.list
      BY DEF Sound, TilesHeap
<1>5. \A b \in h.list : a < b => end <= b
      BY DEF Sound, Disjoint
<1>6. \A b \in h.list : b < HEAP_END
  <2>1. \A b \in h.list : b + HEADER + h.mem[b].size <= HEAP_END
        BY DEF Sound, TilesHeap
  <2> QED BY <1>1, <2>1, HeapAssumption DEF HEAP_END
<1>7. CASE n = NULL
  <2>1. end = HEAP_END
        BY <1>1, <1>4, <1>7, HeapAssumption DEF NULL
  <2>2. \A b \in h.list : b < a \/ b = a
        BY <1>1, <1>5, <1>6, <2>1, HeapAssumption DEF HEAP_END
  <2>3. h.list = Below(h, a) \cup {a}
        BY <2>2 DEF Below
  <2> QED BY <1>3, <1>7, <2>3
<1>8. CASE n # NULL
  <2>1. n = end /\ n \in h.list
        BY <1>4, <1>8
  <2>2. a < n
        BY <1>1, <2>1, HeapAssumption
  <2>3. \A b \in h.list : b < n <=> b < a \/ b = a
        BY <1>1, <1>5, <2>1, <2>2
  <2>4. Below(h, n) = Below(h, a) \cup {a}
        BY <2>3 DEF Below
  <2> QED BY <1>3, <1>8, <2>1, <2>2, <2>4
<1> QED BY <1>7, <1>8

(* After i steps the walk is at the block with i blocks below it, and then *)
(* at NULL.                                                                *)
LEMMA WalkCounts ==
  ASSUME NEW h, Sound(h)
  PROVE  /\ Cardinality(h.list) \in Nat \ {0} /\ Walk(h)[Cardinality(h.list)] = NULL
         /\ \A i \in 0 .. Cardinality(h.list) - 1 :
              Walk(h)[i] \in h.list /\ Cardinality(Below(h, Walk(h)[i])) = i
<1> DEFINE w == Walk(h)
           n == Cardinality(h.list)
           S == {i \in Nat : i < n => w[i] \in h.list /\ Cardinality(Below(h, w[i])) = i}
<1>1. /\ w[0] = HEAP_START /\ HEAP_START \in h.list
      /\ \A i \in Nat : w[i] \in h.list => w[i + 1] = h.mem[w[i]].next
      BY WalkSteps DEF Sound, TilesHeap
<1>2. IsFiniteSet(h.list) /\ n \in Nat /\ \A a \in h.list : a \in Nat /\ HEAP_START <= a
      BY ListFinite, FS_CardinalityType DEF Sound, TilesHeap
<1>3. n # 0
      BY <1>1, <1>2, FS_EmptySet
<1> HIDE DEF w
<1>4. 0 \in S
  <2>1. Below(h, HEAP_START) = {}
        BY <1>2, HeapAssumption DEF Below
  <2> QED BY <1>1, <2>1, FS_EmptySet
<1>5. ASSUME NEW i \in Nat, i \in S PROVE i + 1 \in S
  <2> SUFFICES ASSUME i + 1 < n
               PROVE  w[i + 1] \in h.list /\ Cardinality(Below(h, w[i + 1])) = i + 1
      OBVIOUS
  <2>1. w[i] \in h.list /\ Cardinality(Below(h, w[i])) = i
        BY <1>2, <1>5
  <2>2. w[i + 1] = h.mem[w[i]].next
        BY <1>1, <2>1
  <2>3. IF h.mem[w[i]].next = NULL THEN n = i + 1
        ELSE /\ h.mem[w[i]].next \in h.list
             /\ Cardinality(Below(h, h.mem[w[i]].next)) = i + 1
        BY <2>1, NextBlock
  <2> QED BY <1>2, <2>2, <2>3
<1>6. \A i \in Nat : i \in S
  <2> HIDE DEF S
  <2> QED BY <1>4, <1>5, Induct
<1>7. \A i \in 0 .. n - 1 : w[i] \in h.list /\ Cardinality(Below(h, w[i])) = i
      BY <1>2, <1>6
<1> HIDE DEF S
<1>8. w[n] = NULL
  <2> DEFINE i == n - 1
  <2>1. i \in Nat /\ i \in 0 .. n - 1 /\ i + 1 = n
        BY <1>2, <1>3
  <2> HIDE DEF i, n
  <2>2. w[i] \in h.list /\ Cardinality(Below(h, w[i])) = i
        BY <1>7, <2>1
  <2>3. w[n] = h.mem[w[i]].next
        BY <1>1, <2>1, <2>2
  <2>4. IF h.mem[w[i]].next = NULL THEN n = i + 1
        ELSE /\ h.mem[w[i]].next \in h.list
             /\ Cardinality(Below(h, h.mem[w[i]].next)) = i + 1
        BY <2>2, NextBlock DEF n
  <2>5. \A a \in h.list : Cardinality(Below(h, a)) < n /\ Cardinality(Below(h, a)) \in Nat
        BY BlocksBelow DEF n
  <2> QED BY <1>2, <2>1, <2>3, <2>4, <2>5
<1> QED BY <1>2, <1>3, <1>7, <1>8 DEF w

(* A sound heap is walked from end to end. *)
LEMMA WalkWhole ==
  ASSUME NEW h, Sound(h)
  PROVE  LET w == Walk(h)
             n == Cardinality(h.list)
         IN /\ {w[i] : i \in 0 .. n - 1} = h.list
            /\ \A i, j \in 0 .. n - 1 : i < j => w[i] < w[j]
            /\ w[n] = NULL
<1> DEFINE w == Walk(h)
           n == Cardinality(h.list)
           At(a) == Cardinality(Below(h, a))
<1>1. n \in Nat /\ w[n] = NULL /\ \A i \in 0 .. n - 1 : w[i] \in h.list /\ At(w[i]) = i
      BY WalkCounts
<1>2. /\ \A a \in h.list : a \in Nat /\ At(a) \in Nat /\ At(a) < n
      /\ \A a, b \in h.list : b < a => At(b) < At(a)
      BY ListFinite, BlocksBelow
<1> HIDE DEF w, n, At
<1>3. ASSUME NEW a \in h.list PROVE \E i \in 0 .. n - 1 : a = w[i]
  <2>1. At(a) \in 0 .. n - 1
        BY <1>1, <1>2
  <2>2. w[At(a)] \in h.list /\ At(w[At(a)]) = At(a)
        BY <1>1, <2>1
  <2>3. a = w[At(a)]
        BY <1>2, <2>2
  <2> QED BY <2>1, <2>3
<1>4. {w[i] : i \in 0 .. n - 1} = h.list
      BY <1>1, <1>3
<1>5. ASSUME NEW i \in 0 .. n - 1, NEW j \in 0 .. n - 1, i < j PROVE w[i] < w[j]
  <2>1. w[i] \in h.list /\ At(w[i]) = i /\ w[j] \in h.list /\ At(w[j]) = j
        BY <1>1
  <2>2. i \in Int /\ j \in Int /\ ~(j < i) /\ i # j
        BY <1>1, <1>5
  <2>3. ~(w[j] < w[i]) /\ w[i] # w[j]
        BY <1>2, <2>1, <2>2
  <2> QED BY <1>2, <2>1, <2>3
<1> QED BY <1>1, <1>4, <1>5 DEF w, n

(* The walk of kmalloc ends, and has met each block once in address order, *)
(* in every reachable state.                                               *)
THEOREM WalkEnds == Spec => []WalkMeetsList
<1>1. IInv => WalkMeetsList
  <2> SUFFICES ASSUME IInv, heap.memory_initialized
               PROVE  LET w == Walk(heap)
                          n == Cardinality(heap.list)
                      IN /\ {w[i] : i \in 0 .. n - 1} = heap.list
                         /\ \A i \in 1 .. n - 1 : w[i - 1] < w[i]
                         /\ w[n] = NULL
      BY DEF WalkMeetsList
  <2> DEFINE w == Walk(heap)
             n == Cardinality(heap.list)
  <2>1. Sound(heap)
        BY DEF IInv, Good
  <2>2. /\ {w[i] : i \in 0 .. n - 1} = heap.list /\ w[n] = NULL
        /\ \A i, j \in 0 .. n - 1 : i < j => w[i] < w[j]
        BY <2>1, WalkWhole
  <2>3. n \in Nat
        BY <2>1, WalkCounts
  <2> HIDE DEF w, n
  <2>4. ASSUME NEW i \in 1 .. n - 1 PROVE w[i - 1] < w[i]
    <3>1. i - 1 \in 0 .. n - 1 /\ i \in 0 .. n - 1 /\ i - 1 < i
          BY <2>3
    <3> QED BY <2>2, <3>1
  <2> QED BY <2>2, <2>4 DEF w, n
<1> QED BY <1>1, Invariance, PTL

(* If a block fits, FirstFit is the lowest that does. *)
LEMMA FirstFitIn ==
  ASSUME NEW h, Sound(h), NEW size, NEW a \in h.list, Fits(h, a, size)
  PROVE  FirstFit(h, size) \in h.list /\ IsFirstFit(h, FirstFit(h, size), size)
<1> DEFINE F == {b \in h.list : Fits(h, b, size)}
<1>1. PICK m \in F : \A b \in F : m <= b
  <2>1. F \subseteq Nat /\ a \in F
        BY ListFinite
  <2> HIDE DEF F
  <2> QED BY <2>1, LeastNat
<1>2. m \in h.list /\ IsFirstFit(h, m, size)
      BY <1>1 DEF IsFirstFit
<1> QED BY <1>2 DEF FirstFit

(* The loop of kmalloc stops where FirstFit says, whenever a block fits:   *)
(* at the first block of the walk that does.                               *)
THEOREM WalkFindsFirstFit ==
  ASSUME NEW h, Sound(h), NEW size \in Nat, NEW a \in h.list, Fits(h, a, size)
  PROVE  \E i \in 0 .. Cardinality(h.list) - 1 :
           /\ Walk(h)[i] = FirstFit(h, size) /\ Fits(h, FirstFit(h, size), size)
           /\ \A j \in 0 .. i - 1 : ~Fits(h, Walk(h)[j], size)
<1> DEFINE w == Walk(h)
           n == Cardinality(h.list)
           c == FirstFit(h, size)
<1>1. \A b \in h.list : b \in Nat
      BY ListFinite
<1>2. c \in h.list /\ IsFirstFit(h, c, size)
      BY FirstFitIn
<1>3. /\ {w[i] : i \in 0 .. n - 1} = h.list /\ n \in Nat
      /\ \A i, j \in 0 .. n - 1 : i < j => w[i] < w[j]
      BY WalkWhole, WalkCounts
<1> HIDE DEF w, n, c
<1>4. PICK i \in 0 .. n - 1 : w[i] = c
      BY <1>2, <1>3
<1>5. ASSUME NEW j \in 0 .. i - 1 PROVE ~Fits(h, w[j], size)
  <2>1. j \in 0 .. n - 1 /\ j < i
        BY <1>3, <1>4
  <2>2. w[j] < c /\ w[j] \in h.list
        BY <1>3, <1>4, <2>1
  <2>3. w[j] \in Nat /\ c \in Nat /\ ~(c <= w[j])
        BY <1>1, <1>2, <2>2
  <2> QED BY <1>2, <2>2, <2>3 DEF IsFirstFit
<1>6. Fits(h, c, size)
      BY <1>2 DEF IsFirstFit
<1> QED BY <1>4, <1>5, <1>6 DEF w, n, c

-----------------------------------------------------------------------------
(* Block a and the n bytes from x on have a byte in common. *)
Overlaps(h, a, x, n) == a < x + n /\ x < a + HEADER + h.mem[a].size

(* kmalloc refuses a request only if no stretch of the heap that is free   *)
(* of blocks in use has room for a header and the request: no free memory  *)
(* is lost between two blocks that kfree should have merged.               *)
RefusesOnlyWhenFull ==
  heap.memory_initialized =>
    \A size \in Sizes \ {0} : KMalloc(heap, size).ptr = NULL =>
      LET n == HEADER + Align(size)
      IN \A x \in HEAP_START .. HEAP_END - n : \E a \in InUse(heap) : Overlaps(heap, a, x, n)

(* Every address of the heap lies in a block. *)
LEMMA BlockAround ==
  ASSUME NEW h, Sound(h), NEW x \in Nat, HEAP_START <= x, x < HEAP_END
  PROVE  \E a \in h.list : a <= x /\ x < a + HEADER + h.mem[a].size
<1> DEFINE B == {a \in h.list : a <= x}
<1>1. \A a \in h.list : a \in Nat /\ h.mem[a].size \in Nat
      BY ListFinite
<1>2. HEAP_START \in B /\ B \subseteq Nat /\ \A a \in B : a <= x
      BY <1>1 DEF Sound, TilesHeap
<1> DEFINE m == Max(B)
<1>3. m \in B /\ \A a \in B : a <= m
  <2> HIDE DEF B
  <2> QED BY <1>2, MaxIn
<1> HIDE DEF m
<1> DEFINE end == m + HEADER + h.mem[m].size
<1>4. m \in h.list /\ m \in Nat /\ m <= x /\ end \in Nat /\ m < end
      BY <1>1, <1>3, HeapAssumption
<1>5. end = HEAP_END \/ end \in h.list
  <2>1. /\ h.mem[m].next = IF end = HEAP_END THEN NULL ELSE end
        /\ h.mem[m].next # NULL => h.mem[m].next \in h.list
        BY <1>4 DEF Sound, TilesHeap
  <2>2. end # NULL
        BY <1>4, HeapAssumption DEF NULL
  <2> QED BY <2>1, <2>2
<1>6. x < end
  <2>1. CASE end = HEAP_END
        BY <2>1
  <2>2. CASE end \in h.list
    <3>1. ~(end <= m) /\ end \notin B
          BY <1>3, <1>4
    <3> QED BY <1>4, <2>2, <3>1
  <2> QED BY <1>5, <2>1, <2>2
<1> QED BY <1>4, <1>6

LEMMA NoRoom ==
  ASSUME NEW h, Good(h), NEW s \in Nat, \A a \in h.list : ~Fits(h, a, s),
         NEW x \in HEAP_START .. HEAP_END - (HEADER + s)
  PROVE  \E a \in InUse(h) : Overlaps(h, a, x, HEADER + s)
<1>1. Sound(h) /\ Coalesced(h)
      BY DEF Good
<1>2. /\ HEAP_START \in Nat /\ HEAP_END \in Nat /\ HEADER \in Nat /\ HEADER > 0
      BY HeapAssumption DEF HEAP_END
<1>3. x \in Nat /\ HEAP_START <= x /\ x + HEADER + s <= HEAP_END /\ x < HEAP_END
      BY <1>2
<1>4. PICK b \in h.list : b <= x /\ x < b + HEADER + h.mem[b].size
      BY <1>1, <1>3, BlockAround
<1>5. \A a \in h.list : a \in Nat /\ h.mem[a].size \in Nat
      BY <1>1, ListFinite
<1>6. CASE ~h.mem[b].is_free
  <2>1. b \in InUse(h)
        BY <1>6 DEF InUse
  <2>2. b < x + (HEADER + s)
        BY <1>2, <1>3, <1>4, <1>5
  <2> QED BY <1>4, <2>1, <2>2 DEF Overlaps
<1>7. CASE h.mem[b].is_free
  <2> DEFINE n == h.mem[b].next
             end == b + HEADER + h.mem[b].size
  <2>1. h.mem[b].size < s
        BY <1>5, <1>7 DEF Fits
  <2>2. end < x + (HEADER + s) /\ end # HEAP_END
        BY <1>2, <1>3, <1>4, <1>5, <2>1
  <2>3. n = end /\ n # NULL
        BY <1>1, <1>2, <1>5, <2>2 DEF Sound, TilesHeap, NULL
  <2>4. n \in h.list /\ ~h.mem[n].is_free
        BY <1>1, <1>7, <2>3 DEF Sound, TilesHeap, Coalesced
  <2> HIDE DEF n
  <2>5. n \in InUse(h)
        BY <2>4 DEF InUse
  <2>6. n < x + (HEADER + s)
        BY <2>2, <2>3
  <2>7. x < n + HEADER + h.mem[n].size
    <3>1. x < n
          BY <1>4, <2>3
    <3> QED BY <1>2, <1>3, <1>5, <2>4, <3>1
  <2> QED BY <2>5, <2>6, <2>7 DEF Overlaps
<1> QED BY <1>6, <1>7

(* kmalloc fails for want of memory only, in every reachable state. *)
THEOREM RefusalMeansFull == Spec => []RefusesOnlyWhenFull
<1>1. IInv => RefusesOnlyWhenFull
  <2> SUFFICES ASSUME IInv, heap.memory_initialized, NEW size \in Sizes \ {0},
                      KMalloc(heap, size).ptr = NULL,
                      NEW x \in HEAP_START .. HEAP_END - (HEADER + Align(size))
               PROVE  \E a \in InUse(heap) : Overlaps(heap, a, x, HEADER + Align(size))
      BY DEF RefusesOnlyWhenFull
  <2>1. Good(heap)
        BY DEF IInv
  <2>2. size \in Nat /\ size # 0
        BY HeapAssumption
  <2>3. Align(size) \in Nat
        BY <2>2, AlignNat
  <2> DEFINE s == Align(size)
             c == FirstFit(heap, s)
  <2>4. \A a \in heap.list : ~Fits(heap, a, s)
    <3> SUFFICES ASSUME NEW b \in heap.list, Fits(heap, b, s) PROVE FALSE
        OBVIOUS
    <3>1. KMalloc(heap, size).ptr = c + HEADER
          BY <2>2 DEF KMalloc
    <3> HIDE DEF c, s
    <3>2. c \in heap.list
          BY <2>1, FirstFitIn DEF Good, c
    <3>3. c \in Nat
          BY <2>1, <3>2, ListFinite DEF Good
    <3> QED BY <3>1, <3>3, HeapAssumption DEF NULL
  <2> HIDE DEF s
  <2>5. s \in Nat /\ x \in HEAP_START .. HEAP_END - (HEADER + s)
        BY <2>3 DEF s
  <2> QED BY <2>1, <2>4, <2>5, NoRoom DEF s
<1> QED BY <1>1, Invariance, PTL

-----------------------------------------------------------------------------
(* "Align to 4-byte boundary" (memory.c): every pointer that kmalloc or    *)
(* krealloc has returned is a multiple of 4.                               *)
PointersAligned == \A p \in DOMAIN owned : p % 4 = 0

(* The heap and its headers begin at multiples of 4 (0x400000, 16). *)
AlignedHeap == HEAP_START % 4 = 0 /\ HEADER % 4 = 0

Aligned(h) == \A a \in h.list : a % 4 = 0

LEMMA AlignedSum ==
  ASSUME NEW a \in Nat, NEW b \in Nat, NEW c \in Nat, a % 4 = 0, b % 4 = 0, c % 4 = 0
  PROVE  (a + b) % 4 = 0 /\ (a + b + c) % 4 = 0
OBVIOUS

LEMMA AlignAligns == ASSUME NEW size \in Nat PROVE Align(size) % 4 = 0
<1> DEFINE s == (size + 3) % WORD
<1>1. s \in Nat
      BY HeapAssumption
<1> HIDE DEF s
<1>2. (s - (s % 4)) % 4 = 0
      BY <1>1
<1> QED BY <1>2 DEF Align, s

(* kmalloc adds at most the header of a split to the list; ... *)
LEMMA AlignedMalloc ==
  ASSUME AlignedHeap, NEW h, Good(h), Aligned(h), NEW size \in Nat
  PROVE  Aligned(KMalloc(h, size).heap)
<1> DEFINE s == Align(size)
           c == FirstFit(h, s)
           g == IF ShouldSplit(h, c, s) THEN Split(h, c, s) ELSE h
<1>1. h.memory_initialized /\ Sound(h)
      BY DEF Good, Sound
<1>2. CASE size = 0 \/ \A a \in h.list : ~Fits(h, a, s)
      BY <1>1, <1>2 DEF KMalloc
<1>3. CASE ~(size = 0 \/ \A a \in h.list : ~Fits(h, a, s))
  <2>1. KMalloc(h, size).heap = Hand(g, c)
        BY <1>1, <1>3 DEF KMalloc
  <2>2. c \in h.list /\ c \in Nat
        BY <1>1, <1>3, FirstFitIn, ListFinite
  <2>3. s \in Nat /\ s % 4 = 0
        BY AlignNat, AlignAligns
  <2> HIDE DEF s, c
  <2>4. (c + HEADER + s) % 4 = 0
        BY <2>2, <2>3, HeapAssumption, AlignedSum DEF AlignedHeap, Aligned
  <2>5. Split(h, c, s).list = h.list \cup {c + HEADER + s}
        BY DEF Split, Update
  <2>6. Hand(g, c).list = g.list
        BY DEF Hand, Update
  <2>7. g.list \subseteq h.list \cup {c + HEADER + s}
        BY <2>5
  <2> QED BY <2>1, <2>4, <2>6, <2>7 DEF Aligned
<1> QED BY <1>2, <1>3

(* ... kfree only takes headers from it. *)
LEMMA AlignedFree ==
  ASSUME NEW h, Aligned(h), NEW ptr
  PROVE  Aligned(KFree(h, ptr))
<1>1. ASSUME NEW m, NEW a PROVE MergeNext(m, a).list \subseteq m.list
      BY DEF MergeNext, Absorb, Update
<1>2. ASSUME NEW m, NEW a PROVE MergePrev(m, a).list \subseteq m.list
      BY DEF MergePrev, Absorb, Update
<1>3. ASSUME NEW a PROVE MarkFree(h, a).list = h.list
      BY DEF MarkFree, Update
<1> DEFINE b == ptr - HEADER
           f == MarkFree(h, b)
           g == MergeNext(f, b)
<1>4. MergePrev(g, b).list \subseteq h.list
  <2>1. f.list = h.list
        BY <1>3
  <2> HIDE DEF f
  <2>2. g.list \subseteq f.list
        BY <1>1
  <2> HIDE DEF g
  <2>3. MergePrev(g, b).list \subseteq g.list
        BY <1>2
  <2> QED BY <2>1, <2>2, <2>3
<1>5. KFree(h, ptr).list \subseteq h.list
      BY <1>4 DEF KFree
<1> QED BY <1>5 DEF Aligned

LEMMA AlignedNext ==
  ASSUME AlignedHeap PROVE IInv /\ Aligned(heap) /\ [Next]_vars => Aligned(heap)'
<1> SUFFICES ASSUME IInv, Aligned(heap), [Next]_vars PROVE Aligned(heap')
    BY DEF Aligned
<1>1. IF heap.memory_initialized THEN Good(heap) ELSE heap = Uninitialized
      BY DEF IInv
<1>2. Good(Ready(heap)) /\ \A size : KMalloc(heap, size) = KMalloc(Ready(heap), size)
      BY <1>1, ReadyGood
<1>3. Aligned(InitialHeap)
      BY DEF AlignedHeap, Aligned, InitialHeap
<1>4. Aligned(Ready(heap))
      BY <1>3 DEF Ready
<1>5. \A size \in Nat : Aligned(KMalloc(heap, size).heap)
      BY <1>2, <1>4, AlignedMalloc
<1>6. Sizes \subseteq Nat /\ TestSizes[1] \in Nat /\ TestSizes[2] \in Nat
      BY HeapAssumption
<1>7. CASE memory_init
      BY <1>3, <1>7 DEF memory_init
<1>8. ASSUME NEW size \in Sizes, kmalloc(size) PROVE Aligned(heap')
      BY <1>5, <1>6, <1>8 DEF kmalloc
<1>9. ASSUME NEW ptr, kfree(ptr) PROVE Aligned(heap')
      BY <1>9, AlignedFree DEF kfree
<1>10. ASSUME NEW ptr, NEW size \in Sizes, krealloc(ptr, size) PROVE Aligned(heap')
  <2> DEFINE r == KMalloc(heap, size)
  <2>1. heap' = KRealloc(heap, ptr, size).heap
        BY <1>10 DEF krealloc
  <2>2. Aligned(r.heap) /\ Aligned(KFree(r.heap, ptr)) /\ Aligned(KFree(heap, ptr))
        BY <1>5, <1>6, AlignedFree
  <2>3. KRealloc(heap, ptr, size).heap \in {r.heap, KFree(r.heap, ptr), KFree(heap, ptr), heap}
        BY DEF KRealloc
  <2> QED BY <2>1, <2>2, <2>3
<1>11. CASE memtest
  <2> DEFINE r1 == KMalloc(heap, TestSizes[1])
             r2 == KMalloc(r1.heap, TestSizes[2])
             f  == KFree(r2.heap, r1.ptr)
  <2>1. heap.memory_initialized /\ heap' = KFree(f, r2.ptr) /\ Good(heap)
        BY <1>1, <1>11 DEF memtest
  <2>2. Good(r1.heap)
        BY <1>6, <2>1, MallocOne
  <2>3. Aligned(r1.heap)
        BY <1>5, <1>6
  <2> HIDE DEF r1
  <2>4. Aligned(r2.heap)
        BY <1>6, <2>2, <2>3, AlignedMalloc
  <2> HIDE DEF r2
  <2>5. Aligned(f)
        BY <2>4, AlignedFree
  <2> HIDE DEF f
  <2>6. Aligned(KFree(f, r2.ptr))
        BY <2>5, AlignedFree
  <2> QED BY <2>1, <2>6
<1>12. CASE UNCHANGED vars
       BY <1>12 DEF vars
<1> QED BY <1>7, <1>8, <1>9, <1>10, <1>11, <1>12 DEF Next

(* kmalloc and krealloc return aligned pointers only, after any calls.  In *)
(* a tiled heap the addresses of the headers say it all: a block's size is *)
(* the distance to the next.                                               *)
THEOREM PointersStayAligned == ASSUME AlignedHeap PROVE Spec => []PointersAligned
<1>1. Init => Aligned(heap)
      BY DEF Init, Uninitialized, Aligned
<1>2. IInv /\ Aligned(heap) => PointersAligned
  <2> SUFFICES ASSUME IInv, Aligned(heap), NEW p \in DOMAIN owned PROVE p % 4 = 0
      BY DEF PointersAligned
  <2>1. PICK a \in InUse(heap) : p = a + HEADER
        BY DEF IInv, OwnedOK
  <2>2. heap.memory_initialized
        BY <2>1 DEF IInv, Uninitialized, InUse
  <2>3. a \in heap.list /\ a \in Nat
        BY <2>1, <2>2, ListFinite DEF IInv, Good, InUse
  <2> QED BY <2>1, <2>3, HeapAssumption, AlignedSum DEF Aligned, AlignedHeap
<1>3. IInv /\ Aligned(heap) /\ [Next]_vars => Aligned(heap)'
      BY AlignedNext
<1> QED BY <1>1, <1>2, <1>3, Invariance, PTL DEF Spec
=============================================================================
