-------------------------- MODULE FileSystemProofs --------------------------
(***************************************************************************)
(* Proofs about FileSystem, for every number of files, handles and bytes.  *)
(*                                                                         *)
(* Each function of filesystem.c is shown to keep a file system in order   *)
(* (Ok), so that the calls of a client, and the sequences of calls that    *)
(* fs_init makes, do too.                                                  *)
(***************************************************************************)
EXTENDS FileSystem, FoldProofs, TLAPS, FiniteSetTheorems

(* What filesystem.c keeps in memory *)
State ==
  [ready : BOOLEAN, used_files : Int, used_size : 0 .. WORD - 1,
   files : [Slots -> Entry], data_area : [DATA -> Bytes],
   file_handles : [Handles -> Handle]]

InUse(s) == {i \in Slots : s.files[i].in_use}

(* The parts of the invariant, of one file system s *)
HandlesOk(s) ==
  \A k \in Handles : s.file_handles[k].is_open =>
    /\ s.file_handles[k].file_index \in Slots
    /\ s.file_handles[k].position \in 0 .. MAX_FILE_SIZE

FilesOk(s) ==
  \A i \in Slots : s.files[i].in_use =>
    /\ s.files[i].size \in 0 .. MAX_FILE_SIZE
    /\ s.files[i].data_offset = i * MAX_FILE_SIZE

NamesOk(s) ==
  \A i, j \in Slots :
    s.files[i].in_use /\ s.files[j].in_use /\ s.files[i].name = s.files[j].name
      => i = j \/ s.files[i].name = GARBLED

CountOk(s) == s.used_files = Cardinality(InUse(s))

Ok(s) == s \in State /\ HandlesOk(s) /\ FilesOk(s) /\ NamesOk(s) /\ CountOk(s)

-----------------------------------------------------------------------------
(* A nonempty set of naturals has a least element, so that Least finds the *)
(* entry or the handle at which the code's loop stops.                     *)
LEMMA LeastIn == ASSUME NEW S, S \subseteq Nat, S # {} PROVE Least(S) \in S
BY LeastNat DEF Least

(* A number below WORD is its own remainder.                               *)
LEMMA WordSame ==
  ASSUME NEW n \in 0 .. WORD - 1
  PROVE  (n - 0) % WORD = n
<1>1. WORD \in Nat /\ WORD > 0 BY FileSystemAssumption
<1>2. n \in Nat /\ n < WORD /\ n - 0 = n BY <1>1
<1>3. n % WORD = n BY <1>1, <1>2
<1>. QED BY <1>2, <1>3

(* The entries in use are finitely many.                                   *)
LEMMA InUseFinite == ASSUME NEW s PROVE IsFiniteSet(InUse(s))
<1>1. IsFiniteSet(Slots)
      BY FS_Interval, FileSystemAssumption, MAX_FILES - 1 \in Int DEF Slots
<1>2. InUse(s) \in SUBSET Slots
      BY DEF InUse
<1> QED BY <1>1, <1>2, FS_Subset

(* A product of natural numbers is one, and grows with its factors.        *)
LEMMA Product ==
  ASSUME NEW m \in Nat, NEW n \in Nat
  PROVE  m * n \in Nat /\ (m + 1) * n = m * n + n
BY SMT

LEMMA ProductGrows ==
  ASSUME NEW i \in Nat, NEW m \in Nat, NEW n \in Nat, i < m
  PROVE  i * n + n <= m * n
<1>1. PICK d \in Nat : m = i + 1 + d
      <2>1. m = i + 1 + (m - i - 1) /\ m - i - 1 \in Nat
            OBVIOUS
      <2> QED BY <2>1
<1>2. m * n = i * n + n + d * n /\ d * n \in Nat /\ i * n \in Nat
      BY <1>1
<1> QED BY <1>2

(* A byte of slot i lies in the data area, and in no other slot.           *)
LEMMA SlotBytes ==
  ASSUME NEW i \in Slots, NEW p \in 0 .. MAX_FILE_SIZE - 1
  PROVE  i * MAX_FILE_SIZE + p \in DATA /\ SlotOf(i * MAX_FILE_SIZE + p) = i
<1> USE FileSystemAssumption
<1>1. i \in Nat /\ i < MAX_FILES
      BY DEF Slots
<1>2. i * MAX_FILE_SIZE + MAX_FILE_SIZE <= MAX_FILES * MAX_FILE_SIZE
      BY <1>1, ProductGrows
<1>3. i * MAX_FILE_SIZE \in Nat /\ MAX_FILES * MAX_FILE_SIZE \in Nat
      BY <1>1, Product
<1>4. i * MAX_FILE_SIZE + p \in DATA
      BY <1>2, <1>3 DEF DATA
<1>5. (i * MAX_FILE_SIZE + p) \div MAX_FILE_SIZE = i
      BY <1>1, <1>3
<1> QED BY <1>4, <1>5 DEF SlotOf

-----------------------------------------------------------------------------
(* fs_create_file takes an entry that was not in use, or fails.            *)
LEMMA CreateOk ==
  ASSUME NEW s, Ok(s), NEW name \in Names, NEW type \in Types
  PROVE  Ok(FsCreate(s, name, type).fs)
<1> USE FileSystemAssumption
<1> DEFINE free == {i \in Slots : ~s.files[i].in_use}
           i == Least(free)
           t == FsCreate(s, name, type).fs
<1>1. CASE ~s.ready \/ fs_file_exists(s, name) \/ free = {}
      BY <1>1 DEF FsCreate
<1>2. CASE s.ready /\ ~fs_file_exists(s, name) /\ free # {}
  <2>1. i \in Slots /\ ~s.files[i].in_use
    <3>1. free \subseteq Nat
          BY DEF Slots
    <3> QED BY <1>2, <3>1, LeastIn
  <2>2. t = [s EXCEPT !.files[i] = NewEntry(i, name, type), !.used_files = @ + 1]
        BY <1>2 DEF FsCreate
  <2> HIDE DEF i, t, free
  <2>3. NewEntry(i, name, type) \in Entry /\ NewEntry(i, name, type).in_use
    <3>1. i * MAX_FILE_SIZE \in Nat
          BY <2>1, Product DEF Slots
    <3> QED BY <3>1 DEF NewEntry, Entry, StoredName
  <2>4. [s.files EXCEPT ![i] = NewEntry(i, name, type)] \in [Slots -> Entry]
        BY <2>3 DEF Ok, State
  <2>5. /\ t \in State
        /\ t.file_handles = s.file_handles /\ t.used_files = s.used_files + 1
        /\ t.files = [s.files EXCEPT ![i] = NewEntry(i, name, type)]
    <3> DEFINE f == [s.files EXCEPT ![i] = NewEntry(i, name, type)]
           n == s.used_files + 1
    <3>1. t = [s EXCEPT !.files = f, !.used_files = n]
          BY <2>2
    <3>2. f \in [Slots -> Entry]
          BY <2>4
    <3>3. n \in Int
          BY DEF Ok, State
    <3> HIDE DEF f, n
    <3>4. /\ t \in State /\ t.file_handles = s.file_handles
          /\ t.used_files = n /\ t.files = f
          BY <3>1, <3>2, <3>3 DEF Ok, State
    <3> QED BY <3>4 DEF f, n
  <2>6. HandlesOk(t)
        BY <2>5 DEF Ok, HandlesOk
  <2>7. FilesOk(t)
        BY <2>1, <2>5 DEF Ok, State, FilesOk, NewEntry
  <2>8. NamesOk(t)
    <3>1. \A j \in Slots : s.files[j].in_use => s.files[j].name # name
          BY <1>2 DEF fs_file_exists, Matching
    <3>2. t.files[i].name = StoredName(name)
          BY <2>1, <2>5 DEF Ok, State, NewEntry
    <3>3. \A j \in Slots \ {i} : t.files[j] = s.files[j]
          BY <2>1, <2>5 DEF Ok, State
    <3> QED BY <3>1, <3>2, <3>3 DEF Ok, NamesOk, StoredName
  <2>9. CountOk(t)
    <3>1. InUse(t) = InUse(s) \cup {i} /\ i \notin InUse(s)
          BY <2>1, <2>3, <2>5 DEF Ok, State, InUse
    <3> DEFINE T == InUse(s)
    <3>2. IsFiniteSet(T) /\ InUse(t) = T \cup {i} /\ i \notin T
          BY <3>1, InUseFinite
    <3> HIDE DEF T
    <3>3. Cardinality(InUse(t)) = Cardinality(T) + 1
          BY <3>2, FS_AddElement
    <3>4. s.used_files = Cardinality(T)
          BY DEF Ok, CountOk, T
    <3> QED BY <2>5, <3>3, <3>4 DEF CountOk
  <2> QED BY <2>5, <2>6, <2>7, <2>8, <2>9 DEF Ok, t
<1> QED BY <1>1, <1>2

(* fs_delete_file clears the entry that has the name.                      *)
LEMMA DeleteOk ==
  ASSUME NEW s, Ok(s), NEW name \in Names
  PROVE  Ok(FsDelete(s, name).fs)
<1> USE FileSystemAssumption
<1> DEFINE i == Least(Matching(s, name))
           t == FsDelete(s, name).fs
<1>1. CASE ~s.ready \/ Matching(s, name) = {}
      BY <1>1 DEF FsDelete
<1>2. CASE s.ready /\ Matching(s, name) # {}
  <2>1. i \in Slots /\ s.files[i].in_use
    <3>1. Matching(s, name) \subseteq Nat
          BY DEF Matching, Slots
    <3> QED BY <1>2, <3>1, LeastIn DEF Matching
  <2> HIDE DEF i
  <2>2. NoEntry \in Entry /\ ~NoEntry.in_use /\ NoEntry.size = 0
        BY DEF NoEntry, Entry
  <2>3. t = [s EXCEPT !.files[i] = NoEntry, !.used_files = @ - 1]
    <3> DEFINE cleared == [s EXCEPT !.files[i] = NoEntry, !.used_files = @ - 1]
    <3>1. t = [cleared EXCEPT !.used_size = (@ - cleared.files[i].size) % WORD]
          BY <1>2 DEF FsDelete, i
    <3>2. cleared \in State /\ cleared.used_size = s.used_size /\ cleared.files[i].size = 0
      <4> DEFINE f == [s.files EXCEPT ![i] = NoEntry]
             n == s.used_files - 1
      <4>1. cleared = [s EXCEPT !.files = f, !.used_files = n]
            OBVIOUS
      <4>2. f \in [Slots -> Entry] /\ f[i] = NoEntry
            BY <2>1, <2>2 DEF Ok, State
      <4>3. n \in Int
            BY DEF Ok, State
      <4> HIDE DEF f, n, cleared
      <4> QED BY <4>1, <4>2, <4>3, <2>2 DEF Ok, State
    <3> HIDE DEF cleared
    <3>3. (cleared.used_size - cleared.files[i].size) % WORD = cleared.used_size
      <4>1. cleared.used_size \in 0 .. WORD - 1
            BY <3>2 DEF State
      <4>2. (cleared.used_size - 0) % WORD = cleared.used_size
            BY <4>1, WordSame
      <4> QED BY <4>2, <3>2
    <3>4. t = cleared
          BY <3>1, <3>2, <3>3 DEF State
    <3> QED BY <3>4 DEF cleared
  <2> HIDE DEF t
  <2>5. /\ t \in State
        /\ t.file_handles = s.file_handles /\ t.used_files = s.used_files - 1
        /\ t.files = [s.files EXCEPT ![i] = NoEntry]
    <3> DEFINE f == [s.files EXCEPT ![i] = NoEntry]
           n == s.used_files - 1
    <3>1. t = [s EXCEPT !.files = f, !.used_files = n]
          BY <2>3
    <3>2. f \in [Slots -> Entry]
          BY <2>2 DEF Ok, State
    <3>3. n \in Int
          BY DEF Ok, State
    <3> HIDE DEF f, n
    <3>4. /\ t \in State /\ t.file_handles = s.file_handles
          /\ t.used_files = n /\ t.files = f
          BY <3>1, <3>2, <3>3 DEF Ok, State
    <3> QED BY <3>4 DEF f, n
  <2>6. HandlesOk(t)
        BY <2>5 DEF Ok, HandlesOk
  <2>7. FilesOk(t) /\ NamesOk(t)
        BY <2>1, <2>2, <2>5 DEF Ok, State, FilesOk, NamesOk
  <2>8. CountOk(t)
    <3>1. InUse(t) = InUse(s) \ {i} /\ i \in InUse(s)
          BY <2>1, <2>2, <2>5 DEF Ok, State, InUse
    <3>2. IsFiniteSet(InUse(s))
          BY InUseFinite
    <3>3. Cardinality(InUse(s) \ {i}) = Cardinality(InUse(s)) - 1
          BY <3>1, <3>2, FS_RemoveElement
    <3> QED BY <3>1, <3>3, <2>5 DEF Ok, CountOk
  <2> QED BY <2>5, <2>6, <2>7, <2>8 DEF Ok, t
<1> QED BY <1>1, <1>2

(* Calls that only touch handles keep a file system in order if each       *)
(* handle stays in its slot.                                               *)
LEMMA SetHandlesOk ==
  ASSUME NEW s, Ok(s), NEW g \in [Handles -> Handle],
         \A k \in Handles : g[k].is_open =>
           g[k].file_index \in Slots /\ g[k].position \in 0 .. MAX_FILE_SIZE
  PROVE  Ok([s EXCEPT !.file_handles = g])
<1> DEFINE t == [s EXCEPT !.file_handles = g]
<1>1. t \in State /\ t.file_handles = g /\ t.files = s.files /\ t.used_files = s.used_files
      BY DEF Ok, State
<1> HIDE DEF t
<1>2. HandlesOk(t)
      BY <1>1 DEF HandlesOk
<1>3. FilesOk(t) /\ NamesOk(t) /\ InUse(t) = InUse(s)
      BY <1>1 DEF Ok, FilesOk, NamesOk, InUse
<1>4. CountOk(t)
      BY <1>1, <1>3 DEF Ok, CountOk
<1> QED BY <1>1, <1>2, <1>3, <1>4 DEF Ok, t

(* fs_open_file points a free handle at the entry with the name.           *)
LEMMA OpenOk ==
  ASSUME NEW s, Ok(s), NEW name
  PROVE  /\ Ok(FsOpen(s, name).fs)
         /\ FsOpen(s, name).handle \in Handles \cup {NO_HANDLE}
<1> USE FileSystemAssumption
<1> DEFINE free == {k \in Handles : ~s.file_handles[k].is_open}
           k == Least(free)
           i == Least(Matching(s, name))
           h == [file_index |-> i, position |-> 0, is_open |-> TRUE]
           g == [s.file_handles EXCEPT ![k] = h]
<1>1. CASE ~s.ready \/ Matching(s, name) = {} \/ free = {}
      BY <1>1 DEF FsOpen
<1>2. CASE ~(~s.ready \/ Matching(s, name) = {} \/ free = {})
  <2>1. k \in Handles
    <3>1. free \subseteq Nat
          BY DEF Handles
    <3> QED BY <1>2, <3>1, LeastIn
  <2>2. i \in Slots
    <3>1. Matching(s, name) \subseteq Nat
          BY DEF Matching, Slots
    <3> QED BY <1>2, <3>1, LeastIn DEF Matching
  <2>3. FsOpen(s, name).fs = [s EXCEPT !.file_handles = g]
        /\ FsOpen(s, name).handle = k
        BY <1>2 DEF FsOpen
  <2> HIDE DEF k, i, free
  <2>4. g \in [Handles -> Handle]
        BY <2>2 DEF Ok, State, Handle
  <2>5. \A m \in Handles : g[m].is_open =>
           g[m].file_index \in Slots /\ g[m].position \in 0 .. MAX_FILE_SIZE
        BY <2>1, <2>2 DEF Ok, State, HandlesOk
  <2> HIDE DEF g
  <2>6. Ok([s EXCEPT !.file_handles = g])
        BY <2>4, <2>5, SetHandlesOk
  <2> QED BY <2>1, <2>3, <2>6
<1> QED BY <1>1, <1>2

(* fs_close_file closes a handle; NULL and closed ones are left alone.     *)
LEMMA CloseOk ==
  ASSUME NEW s, Ok(s), NEW k
  PROVE  Ok(FsClose(s, k))
<1> DEFINE g == [s.file_handles EXCEPT ![k] = ClosedHandle]
<1>1. CASE ~(k \in Handles /\ s.file_handles[k].is_open)
      BY <1>1 DEF FsClose
<1>2. CASE k \in Handles /\ s.file_handles[k].is_open
  <2>1. FsClose(s, k) = [s EXCEPT !.file_handles = g]
        BY <1>2 DEF FsClose
  <2>2. g \in [Handles -> Handle]
        BY DEF Ok, State, Handle, ClosedHandle
  <2>3. \A m \in Handles : g[m].is_open =>
           g[m].file_index \in Slots /\ g[m].position \in 0 .. MAX_FILE_SIZE
        BY <1>2 DEF Ok, State, HandlesOk, ClosedHandle
  <2> HIDE DEF g
  <2> QED BY <2>1, <2>2, <2>3, SetHandlesOk
<1> QED BY <1>1, <1>2

(* Moving an open handle inside its slot keeps a file system in order.     *)
LEMMA MoveOk ==
  ASSUME NEW s, Ok(s), NEW k \in Handles, s.file_handles[k].is_open,
         NEW p \in 0 .. MAX_FILE_SIZE
  PROVE  Ok([s EXCEPT !.file_handles[k].position = p])
<1> USE FileSystemAssumption
<1> DEFINE h == [s.file_handles[k] EXCEPT !.position = p]
           g == [s.file_handles EXCEPT ![k] = h]
<1>1. h \in Handle /\ h.position = p /\ h.file_index = s.file_handles[k].file_index
  <2> DEFINE o == s.file_handles[k]
  <2>1. o \in Handle
        BY DEF Ok, State
  <2> HIDE DEF o
  <2>2. LET e == [o EXCEPT !.position = p]
        IN e \in Handle /\ e.position = p /\ e.file_index = o.file_index
        BY <2>1, SMTT(30) DEF Handle
  <2> QED BY <2>2 DEF o
<1>2. [s EXCEPT !.file_handles[k].position = p] = [s EXCEPT !.file_handles = g]
      OBVIOUS
<1> HIDE DEF h
<1>3. g \in [Handles -> Handle]
      BY <1>1 DEF Ok, State
<1>4. \A m \in Handles : g[m].is_open =>
         g[m].file_index \in Slots /\ g[m].position \in 0 .. MAX_FILE_SIZE
      BY <1>1 DEF Ok, State, HandlesOk
<1> HIDE DEF g
<1> QED BY <1>2, <1>3, <1>4, SetHandlesOk

(* fs_read_file moves the handle, not beyond the end of the file.          *)
LEMMA ReadOk ==
  ASSUME NEW s, Ok(s), NEW k, NEW size \in Nat
  PROVE  Ok(FsRead(s, k, size).fs)
<1> USE FileSystemAssumption
<1> DEFINE hd    == s.file_handles[k]
           file  == s.files[hd.file_index]
           avail == file.size - hd.position
           n     == IF size < avail THEN size ELSE avail
           p     == hd.position + n
<1>1. CASE ~Usable(s, k) \/ hd.position >= file.size
      BY <1>1 DEF FsRead
<1>2. CASE Usable(s, k) /\ ~(hd.position >= file.size)
  <2>1. k \in Handles /\ hd.is_open /\ hd.file_index \in Slots /\ file.in_use
        /\ hd.position \in Nat /\ file.size \in 0 .. MAX_FILE_SIZE
        BY <1>2 DEF Usable, Ok, State, HandlesOk, FilesOk, Handle
  <2>2. p \in 0 .. MAX_FILE_SIZE
    <3> DEFINE x == hd.position
               y == file.size
    <3>1. p = x + (IF size < y - x THEN size ELSE y - x)
          BY Zenon
    <3>2. x \in Nat /\ y \in 0 .. MAX_FILE_SIZE /\ ~(x >= y)
          BY <1>2, <2>1, Zenon
    <3> HIDE DEF p, x, y
    <3> QED BY <3>1, <3>2
  <2>3. FsRead(s, k, size).fs = [s EXCEPT !.file_handles[k].position = p]
        BY <1>2 DEF FsRead
  <2> HIDE DEF p
  <2> QED BY <2>1, <2>2, <2>3, MoveOk, SMTT(30)
<1> QED BY <1>1, <1>2

(* fs_seek_file moves the handle, not beyond the end of the file.          *)
LEMMA SeekOk ==
  ASSUME NEW s, Ok(s), NEW k, NEW p \in Nat
  PROVE  Ok(FsSeek(s, k, p).fs)
<1> USE FileSystemAssumption
<1> DEFINE hd    == s.file_handles[k]
           file  == s.files[hd.file_index]
<1>1. CASE ~Usable(s, k) \/ p > file.size
      BY <1>1 DEF FsSeek
<1>2. CASE Usable(s, k) /\ ~(p > file.size)
  <2>1. k \in Handles /\ hd.is_open /\ hd.file_index \in Slots /\ file.in_use
        /\ file.size \in 0 .. MAX_FILE_SIZE
        BY <1>2, SMTT(30) DEF Usable, Ok, State, HandlesOk, FilesOk, Handle
  <2>2. p \in 0 .. MAX_FILE_SIZE
    <3> DEFINE z == file.size
    <3>1. z \in 0 .. MAX_FILE_SIZE /\ ~(p > z)
          BY <1>2, <2>1
    <3> HIDE DEF z
    <3> QED BY <3>1
  <2>3. FsSeek(s, k, p).fs = [s EXCEPT !.file_handles[k].position = p]
        BY <1>2 DEF FsSeek
  <2> QED BY <2>1, <2>2, <2>3, MoveOk
<1> QED BY <1>1, <1>2

(* A remainder modulo WORD is a uint32_t.                                  *)
LEMMA Word == ASSUME NEW n \in Int PROVE n % WORD \in 0 .. WORD - 1
BY FileSystemAssumption

(* Writing bytes into the data area disturbs nothing else.                 *)
LEMMA SetDataOk ==
  ASSUME NEW s, Ok(s), NEW a \in [DATA -> Bytes]
  PROVE  LET t == [s EXCEPT !.data_area = a]
         IN /\ Ok(t) /\ t.data_area = a /\ t.ready = s.ready
            /\ t.files = s.files /\ t.file_handles = s.file_handles
<1> DEFINE t == [s EXCEPT !.data_area = a]
<1>1. /\ t \in State /\ t.file_handles = s.file_handles /\ t.files = s.files
      /\ t.used_files = s.used_files /\ t.data_area = a /\ t.ready = s.ready
      BY DEF Ok, State
<1> HIDE DEF t
<1>2. HandlesOk(t) /\ FilesOk(t) /\ NamesOk(t) /\ InUse(t) = InUse(s)
      BY <1>1 DEF Ok, HandlesOk, FilesOk, NamesOk, InUse
<1>3. CountOk(t)
      BY <1>1, <1>2 DEF Ok, CountOk
<1> QED BY <1>1, <1>2, <1>3 DEF Ok, t

(* A file that grows inside its slot keeps a file system in order.         *)
LEMMA GrowOk ==
  ASSUME NEW s, Ok(s), NEW i \in Slots, NEW end \in 0 .. MAX_FILE_SIZE
  PROVE  LET t == Grow(s, i, end)
         IN /\ Ok(t) /\ t.data_area = s.data_area /\ t.ready = s.ready
            /\ t.file_handles = s.file_handles
            /\ t.files[i].size = IF end > s.files[i].size THEN end ELSE s.files[i].size
            /\ \A j \in Slots :
                 /\ t.files[j].in_use = s.files[j].in_use
                 /\ t.files[j].name = s.files[j].name
                 /\ t.files[j].type = s.files[j].type
                 /\ t.files[j].data_offset = s.files[j].data_offset
                 /\ j # i => t.files[j].size = s.files[j].size
<1> USE FileSystemAssumption
<1> DEFINE e == [s.files[i] EXCEPT !.size = end]
           f == [s.files EXCEPT ![i] = e]
           u == (s.used_size + end - s.files[i].size) % WORD
           t == Grow(s, i, end)
<1>1. CASE ~(end > s.files[i].size)
      BY <1>1 DEF Grow
<1>2. CASE end > s.files[i].size
  <2>1. t = [s EXCEPT !.used_size = u, !.files = f]
        BY <1>2 DEF Grow
  <2>2. s.used_size \in Int /\ s.files[i] \in Entry /\ s.files[i].size \in Nat
        BY DEF Ok, State, Entry
  <2>3. u \in 0 .. WORD - 1
    <3>1. s.used_size + end - s.files[i].size \in Int
          BY <2>2, SMTT(30)
    <3> QED BY <3>1, Word
  <2>4. /\ e \in Entry /\ e.size = end /\ e.in_use = s.files[i].in_use
        /\ e.name = s.files[i].name /\ e.type = s.files[i].type
        /\ e.data_offset = s.files[i].data_offset
    <3> DEFINE r == s.files[i]
    <3>1. r \in Entry /\ end \in Nat
          BY <2>2
    <3> HIDE DEF r
    <3>2. [r EXCEPT !.size = end] \in Entry
          BY <3>1 DEF Entry
    <3>3. /\ [r EXCEPT !.size = end].size = end
          /\ [r EXCEPT !.size = end].in_use = r.in_use
          /\ [r EXCEPT !.size = end].name = r.name
          /\ [r EXCEPT !.size = end].type = r.type
          /\ [r EXCEPT !.size = end].data_offset = r.data_offset
          BY <3>1 DEF Entry
    <3> QED BY <3>2, <3>3 DEF r
  <2> HIDE DEF e, t, u
  <2>5. f \in [Slots -> Entry] /\ f[i] = e /\ \A j \in Slots \ {i} : f[j] = s.files[j]
        BY <2>4 DEF Ok, State
  <2> HIDE DEF f
  <2>6. /\ t \in State /\ t.file_handles = s.file_handles /\ t.files = f
        /\ t.used_files = s.used_files /\ t.data_area = s.data_area /\ t.ready = s.ready
        BY <2>1, <2>3, <2>5 DEF Ok, State
  <2>7. \A j \in Slots :
          /\ t.files[j].in_use = s.files[j].in_use
          /\ t.files[j].name = s.files[j].name
          /\ t.files[j].type = s.files[j].type
          /\ t.files[j].data_offset = s.files[j].data_offset
          /\ j # i => t.files[j].size = s.files[j].size
        BY <2>4, <2>5, <2>6
  <2>8. HandlesOk(t)
        BY <2>6 DEF Ok, HandlesOk
  <2>9. FilesOk(t) /\ NamesOk(t)
        BY <2>4, <2>5, <2>6, <2>7, SMTT(30) DEF Ok, FilesOk, NamesOk
  <2>10. InUse(t) = InUse(s)
        BY <2>7 DEF InUse
  <2>11. Ok(t)
        BY <2>6, <2>8, <2>9, <2>10 DEF Ok, CountOk
  <2> QED BY <1>2, <2>4, <2>5, <2>6, <2>7, <2>11 DEF t
<1> QED BY <1>1, <1>2

(* The bytes that a write of n bytes to file i at position p leaves *)
Written(s, i, p, n, buffer) ==
  [d \in DATA |->
     IF d \in i * MAX_FILE_SIZE + p .. i * MAX_FILE_SIZE + p + n - 1
     THEN buffer[d - (i * MAX_FILE_SIZE + p) + 1] ELSE s.data_area[d]]

(* The file system when the bytes w are written and handle k is at q *)
Stored(s, k, w, q) == [s EXCEPT !.data_area = w, !.file_handles[k].position = q]

(* The data area old as fs_write_file leaves it, wherever base is *)
Put(old, base, n, buffer) ==
  [d \in DATA \cup base .. base + n - 1 |->
     IF d \in base .. base + n - 1 THEN buffer[d - base + 1] ELSE old[d]]

(* The bytes that fs_write_file writes lie in the slot of its file.        *)
LEMMA WrittenIs ==
  ASSUME NEW i \in Slots, NEW p \in Nat, NEW buffer \in Seq(Bytes), NEW n \in 1 .. Len(buffer),
         p + n <= MAX_FILE_SIZE, NEW base, base = i * MAX_FILE_SIZE + p,
         NEW s, s.data_area \in [DATA -> Bytes]
  PROVE  /\ Written(s, i, p, n, buffer) = Put(s.data_area, base, n, buffer)
         /\ Written(s, i, p, n, buffer) \in [DATA -> Bytes]
<1> USE FileSystemAssumption
<1> DEFINE off == i * MAX_FILE_SIZE
           old == s.data_area
           span == base .. base + n - 1
           put == [d \in DATA |-> IF d \in span THEN buffer[d - base + 1] ELSE old[d]]
<1>1. off \in Nat /\ base = off + p /\ Len(buffer) \in Nat
      BY Product, SMTT(30) DEF Slots
<1>2. put = Written(s, i, p, n, buffer)
      BY Zenon DEF Written
<1>3. old \in [DATA -> Bytes]
      OBVIOUS
<1> HIDE DEF off, old
<1>4. ASSUME NEW d \in span
      PROVE  d \in DATA /\ d - base + 1 \in 1 .. Len(buffer)
  <2>1. d - off \in 0 .. MAX_FILE_SIZE - 1 /\ d = off + (d - off)
        BY <1>1, <1>4
  <2>2. d \in DATA
    <3> DEFINE x == d - off
    <3>1. x \in 0 .. MAX_FILE_SIZE - 1 /\ d = off + x
          BY <2>1
    <3> HIDE DEF x
    <3>2. i * MAX_FILE_SIZE + x \in DATA
          BY <3>1, SlotBytes
    <3> QED BY <3>1, <3>2 DEF off
  <2>3. d - base + 1 \in 1 .. Len(buffer)
        BY <1>1, <1>4, SMTT(30)
  <2> QED BY <2>2, <2>3
<1> HIDE DEF span
<1>5. DATA \cup span = DATA
      BY <1>4
<1>6. \A d \in DATA : (IF d \in span THEN buffer[d - base + 1] ELSE old[d]) \in Bytes
      BY <1>3, <1>4
<1>7. put \in [DATA -> Bytes]
      BY <1>6
<1>8. put = [d \in DATA \cup span |-> IF d \in span THEN buffer[d - base + 1] ELSE old[d]]
      BY <1>5, Zenon
<1> HIDE DEF put
<1>9. put = Put(old, base, n, buffer)
      BY <1>8, Zenon DEF Put, span
<1> QED BY <1>2, <1>7, <1>9, Zenon DEF old

(* Nothing that clients write makes fs_write_file's sums wrap.             *)
LEMMA ClampIs ==
  ASSUME NEW p \in 0 .. MAX_FILE_SIZE, NEW buffer \in Writable
  PROVE  LET n == Clamp(p, Len(buffer))
         IN /\ buffer \in Seq(Bytes) /\ Len(buffer) \in Nat
            /\ n = IF p + Len(buffer) > MAX_FILE_SIZE THEN MAX_FILE_SIZE - p
                   ELSE Len(buffer)
            /\ (p + n) % WORD = p + n
<1> USE FileSystemAssumption
<1> DEFINE L == Len(buffer)
<1>1. buffer \in Seq(Bytes) /\ L \in Nat /\ MAX_FILE_SIZE + L < WORD
      BY DEF Writable
<1> HIDE DEF L
<1>2. /\ p + L \in 0 .. WORD - 1 /\ MAX_FILE_SIZE - p \in 0 .. WORD - 1
      /\ MAX_FILE_SIZE \in 0 .. WORD - 1
      BY <1>1
<1>3. \A x \in 0 .. WORD - 1 : x % WORD = x
      OBVIOUS
<1>4. (p + L) % WORD = p + L /\ (MAX_FILE_SIZE - p) % WORD = MAX_FILE_SIZE - p
      BY <1>2, <1>3
<1>5. Clamp(p, L) = IF p + L > MAX_FILE_SIZE THEN MAX_FILE_SIZE - p ELSE L
      BY <1>4 DEF Clamp
<1>6. p + Clamp(p, L) \in 0 .. WORD - 1
      BY <1>1, <1>2, <1>5
<1>7. (p + Clamp(p, L)) % WORD = p + Clamp(p, L)
      BY <1>3, <1>6
<1> QED BY <1>1, <1>5, <1>7 DEF L

(* A write that does something: what it writes and where.                  *)
LEMMA WriteFields ==
  ASSUME NEW s, Ok(s), NEW k, NEW buffer \in Writable, Usable(s, k),
         Clamp(s.file_handles[k].position, Len(buffer)) # 0
  PROVE  LET hd == s.file_handles[k]
             i  == hd.file_index
             n  == Clamp(hd.position, Len(buffer))
             t  == FsWrite(s, k, buffer).fs
         IN /\ i \in Slots /\ s.files[i].in_use /\ k \in Handles
            /\ n \in 1 .. Len(buffer) /\ hd.position \in Nat
            /\ hd.position + n <= MAX_FILE_SIZE
            /\ Written(s, i, hd.position, n, buffer) \in [DATA -> Bytes]
            /\ t = Grow(Stored(s, k, Written(s, i, hd.position, n, buffer), hd.position + n),
                        i, hd.position + n)
<1> USE FileSystemAssumption
<1> DEFINE hd   == s.file_handles[k]
           i    == hd.file_index
           p    == hd.position
           n    == Clamp(p, Len(buffer))
           base == s.files[i].data_offset + p
           w    == Written(s, i, p, n, buffer)
           area == Put(s.data_area, base, n, buffer)
<1>1. /\ k \in Handles /\ i \in Slots /\ s.files[i].in_use /\ p \in 0 .. MAX_FILE_SIZE
      /\ s.files[i].data_offset = i * MAX_FILE_SIZE /\ s.data_area \in [DATA -> Bytes]
      BY DEF Usable, Ok, State, HandlesOk, FilesOk
<1>2. n # 0
      OBVIOUS
<1>0. /\ buffer \in Seq(Bytes) /\ Len(buffer) \in Nat /\ (p + n) % WORD = p + n
      /\ n = IF p + Len(buffer) > MAX_FILE_SIZE THEN MAX_FILE_SIZE - p ELSE Len(buffer)
      BY <1>1, ClampIs
<1>3. FsWrite(s, k, buffer).fs =
        Grow(Stored(s, k, area, p + n), i, p + n)
  <2>1. FsWrite(s, k, buffer).fs =
          Grow(Stored(s, k, area, (p + n) % WORD), i, (p + n) % WORD)
        BY <1>2 DEF FsWrite, Stored, Put
  <2> QED BY <1>0, <2>1, Zenon
<1>4. p \in Nat /\ n \in 1 .. Len(buffer) /\ p + n <= MAX_FILE_SIZE
  <2>1. Len(buffer) \in Nat /\ p \in 0 .. MAX_FILE_SIZE
        BY <1>0, <1>1
  <2> HIDE DEF p, n
  <2> QED BY <1>0, <1>2, <2>1, SMTT(30)
<1>5. base = i * MAX_FILE_SIZE + p
      BY <1>1, Zenon
<1>6. w = area /\ w \in [DATA -> Bytes]
  <2> HIDE DEF i, p, n, base
  <2>1. i \in Slots /\ p \in Nat /\ n \in 1 .. Len(buffer) /\ p + n <= MAX_FILE_SIZE
        /\ base = i * MAX_FILE_SIZE + p /\ s.data_area \in [DATA -> Bytes]
        BY <1>1, <1>4, <1>5, Zenon
  <2> USE <1>0
  <2>2. Written(s, i, p, n, buffer) = area /\ Written(s, i, p, n, buffer) \in [DATA -> Bytes]
        BY <2>1, WrittenIs
  <2> QED BY <2>2, Zenon
<1> HIDE DEF area, w
<1> QED BY <1>1, <1>3, <1>4, <1>6, Zenon DEF w

(* fs_write_file writes into its slot and makes its file longer.           *)
LEMMA WriteOk ==
  ASSUME NEW s, Ok(s), NEW k, NEW buffer \in Writable
  PROVE  Ok(FsWrite(s, k, buffer).fs)
<1> USE FileSystemAssumption
<1> DEFINE hd == s.file_handles[k]
           i  == hd.file_index
           n  == Clamp(hd.position, Len(buffer))
           q  == hd.position + n
           w  == Written(s, i, hd.position, n, buffer)
           t  == FsWrite(s, k, buffer).fs
<1>1. CASE ~Usable(s, k)
      BY <1>1 DEF FsWrite
<1>2. CASE n = 0
      BY <1>2 DEF FsWrite
<1>3. CASE Usable(s, k) /\ n # 0
  <2>1. /\ i \in Slots /\ k \in Handles /\ q \in 0 .. MAX_FILE_SIZE
        /\ w \in [DATA -> Bytes] /\ hd.is_open
        /\ t = Grow(Stored(s, k, w, q), i, q)
    <3>1. /\ i \in Slots /\ k \in Handles /\ n \in 1 .. Len(buffer) /\ hd.position \in Nat
          /\ hd.position + n <= MAX_FILE_SIZE /\ w \in [DATA -> Bytes]
          /\ t = Grow(Stored(s, k, w, q), i, q)
          BY <1>3, WriteFields, ZenonT(40)
    <3> QED BY <1>3, <3>1, SMTT(30) DEF Usable
  <2> HIDE DEF w, q, t, i
  <2> DEFINE m == [s EXCEPT !.data_area = w]
  <2>2. Ok(m) /\ m.file_handles = s.file_handles
        BY <2>1, SetDataOk
  <2>3. Stored(s, k, w, q) = [m EXCEPT !.file_handles[k].position = q]
        BY DEF Stored
  <2> HIDE DEF m
  <2>4. Ok([m EXCEPT !.file_handles[k].position = q])
        BY <2>1, <2>2, MoveOk
  <2> QED BY <2>1, <2>3, <2>4, GrowOk DEF t
<1> QED BY <1>1, <1>2, <1>3

(* Opening, writing and closing a file is in order if each call is.        *)
LEMMA StoreOk ==
  ASSUME NEW s, Ok(s), NEW name, NEW buffer \in Writable
  PROVE  Ok(Store(s, name, buffer))
<1> DEFINE o == FsOpen(s, name)
           w == FsWrite(o.fs, o.handle, buffer).fs
<1>1. Ok(o.fs)
      BY OpenOk
<1>2. Ok(w)
      BY <1>1, WriteOk
<1>3. Ok(FsClose(w, o.handle))
      BY <1>2, CloseOk
<1> QED BY <1>3 DEF Store

(* A table without files and open handles is in order.                     *)
LEMMA BlankOk ==
  ASSUME NEW s, s \in State, s.used_files = 0,
         \A i \in Slots : ~s.files[i].in_use,
         \A k \in Handles : ~s.file_handles[k].is_open
  PROVE  Ok(s)
<1>1. InUse(s) = {}
      BY DEF InUse
<1>2. CountOk(s)
      BY <1>1, FS_EmptySet DEF CountOk
<1> QED BY <1>2 DEF Ok, HandlesOk, FilesOk, NamesOk

(* The static storage before fs_init is in order.                          *)
LEMMA UnmountedOk == Ok(Unmounted)
<1> USE FileSystemAssumption
<1>1. NoEntry \in Entry /\ ~NoEntry.in_use
      BY DEF NoEntry, Entry
<1>2. Unmounted \in State
      BY <1>1 DEF Unmounted, State, Handle
<1> QED BY <1>1, <1>2, BlankOk DEF Unmounted

(* The table and the demo files that fs_init sets up are in order.         *)
LEMMA FsInitOk == Ok(FsInit)
<1> USE FileSystemAssumption
<1> DEFINE s0 == [Unmounted EXCEPT !.ready = TRUE,
                                   !.file_handles = [k \in Handles |-> ClosedHandle]]
           s1 == FsCreate(s0, README, FILE_TYPE_REGULAR).fs
           s2 == FsCreate(s1, WELCOME, FILE_TYPE_REGULAR).fs
           s3 == FsCreate(s2, DOCS, FILE_TYPE_DIRECTORY).fs
           s4 == Store(s3, README, README_TEXT)
<1>1. Ok(s0)
  <2>1. NoEntry \in Entry /\ ~NoEntry.in_use
        BY DEF NoEntry, Entry
  <2>2. Unmounted \in State
        BY UnmountedOk DEF Ok
  <2>3. [k \in Handles |-> ClosedHandle] \in [Handles -> Handle]
        BY DEF Handle, ClosedHandle
  <2>4. /\ s0 \in State /\ s0.files = Unmounted.files /\ s0.used_files = Unmounted.used_files
        /\ s0.file_handles = [k \in Handles |-> ClosedHandle]
    <3> DEFINE g == [k \in Handles |-> ClosedHandle]
    <3>1. g \in [Handles -> Handle]
          BY <2>3
    <3> HIDE DEF g
    <3>2. LET t == [Unmounted EXCEPT !.ready = TRUE, !.file_handles = g]
          IN /\ t \in State /\ t.files = Unmounted.files
             /\ t.used_files = Unmounted.used_files /\ t.file_handles = g
          BY <3>1, <2>2 DEF State
    <3> QED BY <3>2 DEF g
  <2> HIDE DEF s0
  <2>5. s0.used_files = 0 /\ \A i \in Slots : ~s0.files[i].in_use
        BY <2>1, <2>4 DEF Unmounted
  <2>6. \A k \in Handles : ~s0.file_handles[k].is_open
        BY <2>4 DEF ClosedHandle
  <2> QED BY <2>4, <2>5, <2>6, BlankOk
<1>2. {README, WELCOME, DOCS} \subseteq Names
      /\ FILE_TYPE_REGULAR \in Types /\ FILE_TYPE_DIRECTORY \in Types
      BY DEF Names, Types
<1>3. FsInit = Store(s4, WELCOME, WELCOME_TEXT)
      BY DEF FsInit
<1> HIDE DEF s0
<1>4. Ok(s1)
      BY <1>1, <1>2, CreateOk
<1> HIDE DEF s1
<1>5. Ok(s2)
      BY <1>2, <1>4, CreateOk
<1> HIDE DEF s2
<1>6. Ok(s3)
      BY <1>2, <1>5, CreateOk
<1> HIDE DEF s3
<1>7. Ok(s4)
      BY <1>6, StoreOk
<1> HIDE DEF s4
<1> QED BY <1>3, <1>7, StoreOk
-----------------------------------------------------------------------------
(* Every call keeps the file system in order, whatever handle or name it   *)
(* is given.                                                               *)
LEMMA OkNext == Ok(fs) /\ [Next]_fs => Ok(fs)'
<1> SUFFICES ASSUME Ok(fs), [Next]_fs PROVE Ok(fs')
    OBVIOUS
<1>1. CASE fs_init
      BY <1>1, FsInitOk DEF fs_init
<1>2. ASSUME NEW name \in Names, fs_create_file(name, FILE_TYPE_REGULAR)
      PROVE  Ok(fs')
      BY <1>2, CreateOk DEF fs_create_file, Types
<1>3. ASSUME NEW name \in Names, fs_delete_file(name) \/ fs_open_file(name)
      PROVE  Ok(fs')
      BY <1>3, DeleteOk, OpenOk DEF fs_delete_file, fs_open_file
<1>4. ASSUME NEW k \in Handles \cup {NO_HANDLE}, fs_close_file(k)
      PROVE  Ok(fs')
      BY <1>4, CloseOk DEF fs_close_file
<1>5. ASSUME NEW k \in Handles \cup {NO_HANDLE}, NEW n \in 0 .. MAX_FILE_SIZE + 1,
             fs_read_file(k, n) \/ fs_seek_file(k, n)
      PROVE  Ok(fs')
  <2>1. n \in Nat
        BY FileSystemAssumption
  <2> QED BY <1>5, <2>1, ReadOk, SeekOk DEF fs_read_file, fs_seek_file
<1>6. ASSUME NEW k \in Handles \cup {NO_HANDLE}, NEW buffer \in Buffers,
             fs_write_file(k, buffer)
      PROVE  Ok(fs')
  <2>1. buffer \in Writable
        BY FileSystemAssumption
  <2> QED BY <1>6, <2>1, WriteOk DEF fs_write_file
<1>7. CASE UNCHANGED fs
      BY <1>7
<1> QED BY <1>1, <1>2, <1>3, <1>4, <1>5, <1>6, <1>7 DEF Next

(* The inductive invariant: the file system is in order after any sequence *)
(* of calls, through stale and closed handles too.                         *)
THEOREM FsInvariant == Spec => []Ok(fs)
<1>1. Init => Ok(fs)
      BY UnmountedOk DEF Init
<1> QED BY <1>1, OkNext, PTL DEF Spec

(* Type correctness: in particular no write falls outside data_area.       *)
THEOREM FsTypes == Spec => []TypeOK
<1>1. Ok(fs) => TypeOK
      BY DEF Ok, State, TypeOK
<1> QED BY <1>1, FsInvariant, PTL

(* Every read and write stays in the slot of its file.                     *)
THEOREM FsAccess == Spec => []AccessInSlot
<1>1. Ok(fs) => AccessInSlot
      BY DEF Ok, HandlesOk, FilesOk, AccessInSlot
<1> QED BY <1>1, FsInvariant, PTL

(* A name is found in one entry at most, however files are created and     *)
(* deleted.                                                                *)
THEOREM FsNames == Spec => []UniqueNames
<1>1. Ok(fs) => UniqueNames
      BY DEF Ok, NamesOk, UniqueNames
<1> QED BY <1>1, FsInvariant, PTL

(* used_files counts the entries in use.                                   *)
THEOREM FsCounts == Spec => []UsedFilesCounted
<1>1. Ok(fs) => UsedFilesCounted
      BY DEF Ok, CountOk, InUse, UsedFilesCounted
<1> QED BY <1>1, FsInvariant, PTL

(* The data area after each call: only fs_write_file changes it.           *)
LEMMA DataKept ==
  ASSUME NEW s, Ok(s), NEW name, NEW type, NEW k, NEW n
  PROVE  /\ FsCreate(s, name, type).fs.data_area = s.data_area
         /\ FsDelete(s, name).fs.data_area = s.data_area
         /\ FsOpen(s, name).fs.data_area = s.data_area
         /\ FsClose(s, k).data_area = s.data_area
         /\ FsRead(s, k, n).fs.data_area = s.data_area
         /\ FsSeek(s, k, n).fs.data_area = s.data_area
<1>2. FsCreate(s, name, type).fs.data_area = s.data_area
      BY DEF FsCreate, Ok, State
<1>3. FsDelete(s, name).fs.data_area = s.data_area
      BY DEF FsDelete, Ok, State
<1>4. FsOpen(s, name).fs.data_area = s.data_area
      BY DEF FsOpen, Ok, State
<1>5. FsClose(s, k).data_area = s.data_area
      BY DEF FsClose, Ok, State
<1>6. FsRead(s, k, n).fs.data_area = s.data_area
      BY DEF FsRead, Ok, State
<1>7. FsSeek(s, k, n).fs.data_area = s.data_area
      BY DEF FsSeek, Ok, State
<1> QED BY <1>2, <1>3, <1>4, <1>5, <1>6, <1>7

(* A byte that fs_write_file changes is in the slot of the handle's file.  *)
LEMMA WriteInSlot ==
  ASSUME NEW s, Ok(s), NEW k, NEW buffer \in Writable, NEW d \in DATA,
         FsWrite(s, k, buffer).fs.data_area[d] # s.data_area[d]
  PROVE  /\ k \in Handles /\ s.file_handles[k].is_open
         /\ s.file_handles[k].file_index = SlotOf(d) /\ s.files[SlotOf(d)].in_use
<1> USE FileSystemAssumption
<1> DEFINE hd  == s.file_handles[k]
           i   == hd.file_index
           p   == hd.position
           n   == Clamp(p, Len(buffer))
           w   == Written(s, i, p, n, buffer)
           m   == Stored(s, k, w, p + n)
           off == i * MAX_FILE_SIZE
           t   == FsWrite(s, k, buffer).fs
<1>1. Usable(s, k)
      BY ZenonT(40) DEF FsWrite
<1>2. n # 0
      BY ZenonT(40) DEF FsWrite
<1>3. /\ i \in Slots /\ s.files[i].in_use /\ k \in Handles /\ hd.is_open
      /\ n \in Nat /\ p \in Nat /\ p + n \in 0 .. MAX_FILE_SIZE
      /\ w \in [DATA -> Bytes] /\ t = Grow(m, i, p + n)
  <2>1. /\ i \in Slots /\ s.files[i].in_use /\ k \in Handles
        /\ n \in 1 .. Len(buffer) /\ p \in Nat /\ p + n <= MAX_FILE_SIZE
        /\ w \in [DATA -> Bytes] /\ t = Grow(m, i, p + n)
        BY <1>1, <1>2, WriteFields, SMTT(30)
  <2>2. hd.is_open
        BY <1>1, SMTT(30) DEF Usable
  <2> HIDE DEF hd, i, n, p, w, m, t
  <2> QED BY <2>1, <2>2
<1>4. Ok([s EXCEPT !.data_area = w]) /\ [s EXCEPT !.data_area = w].file_handles = s.file_handles
      BY <1>3, SetDataOk
<1> HIDE DEF w, n
<1>5. Ok(m)
  <2> DEFINE v == [s EXCEPT !.data_area = w]
             q == p + n
  <2>1. m = [v EXCEPT !.file_handles[k].position = q]
        BY DEF Stored
  <2>2. Ok(v) /\ v.file_handles = s.file_handles
        BY <1>4
  <2>3. q \in 0 .. MAX_FILE_SIZE
        BY <1>3
  <2> HIDE DEF v, m, q
  <2> QED BY <1>3, <2>1, <2>2, <2>3, MoveOk
<1>6. m.data_area = w
      BY DEF Stored, Ok, State
<1>7. t.data_area = w
  <2> DEFINE q == p + n
  <2>1. i \in Slots /\ q \in 0 .. MAX_FILE_SIZE /\ t = Grow(m, i, q)
        BY <1>3
  <2> HIDE DEF i, q, m, t
  <2>2. Grow(m, i, q).data_area = m.data_area
        BY <1>5, <2>1, GrowOk
  <2> QED BY <1>6, <2>1, <2>2
<1>8. d \in off + p .. off + p + n - 1
  <2>1. w[d] # s.data_area[d]
        BY <1>7
  <2> QED BY <2>1 DEF w, Written
<1>9. off \in Nat
  <2>1. i \in Slots
        BY <1>3
  <2> HIDE DEF i
  <2> QED BY <2>1, Product DEF Slots
<1> HIDE DEF off, p
<1>10. d - off \in 0 .. MAX_FILE_SIZE - 1 /\ d = off + (d - off)
      BY <1>3, <1>8, <1>9
<1>11. SlotOf(d) = i
      BY <1>3, <1>10, SlotBytes DEF off
<1> QED BY <1>3, <1>11, SMTT(30)

(* Writing one file never touches another, nor the slot of a deleted one.  *)
THEOREM FsIsolation == Spec => WritesIsolated
<1>1. Ok(fs) /\ [Next]_fs =>
        [fs.ready => \A d \in DATA : fs'.data_area[d] # fs.data_area[d] =>
           /\ fs.files[SlotOf(d)].in_use
           /\ \E k \in Handles : /\ fs.file_handles[k].is_open
                                 /\ fs.file_handles[k].file_index = SlotOf(d)]_fs
  <2> SUFFICES ASSUME Ok(fs), Next, fs.ready, NEW d \in DATA,
                      fs'.data_area[d] # fs.data_area[d]
               PROVE  /\ fs.files[SlotOf(d)].in_use
                      /\ \E k \in Handles :
                           /\ fs.file_handles[k].is_open
                           /\ fs.file_handles[k].file_index = SlotOf(d)
      OBVIOUS
  <2>1. fs'.data_area # fs.data_area
        OBVIOUS
  <2>2. ~fs_init
        BY DEF fs_init
  <2>3. \E k \in Handles \cup {NO_HANDLE}, buffer \in Buffers : fs_write_file(k, buffer)
        BY <2>1, <2>2, DataKept
        DEF Next, fs_create_file, fs_delete_file, fs_open_file, fs_close_file,
            fs_read_file, fs_seek_file
  <2>4. PICK k \in Handles \cup {NO_HANDLE}, buffer \in Buffers : fs_write_file(k, buffer)
        BY <2>3
  <2>5. buffer \in Writable /\ FsWrite(fs, k, buffer).fs.data_area[d] # fs.data_area[d]
        BY <2>4, FileSystemAssumption DEF fs_write_file
  <2> QED BY <2>5, WriteInSlot
<1> QED BY <1>1, FsInvariant, PTL DEF Spec, WritesIsolated

-----------------------------------------------------------------------------
(* used_size and the sizes of the files *)

Sizes(s) == [i \in Slots |-> s.files[i].size]

Held(s) == Total(Sizes(s), InUse(s))

LEMMA SizesIntegral ==
  ASSUME NEW s, Ok(s)
  PROVE  Integral(Sizes(s), InUse(s)) /\ Held(s) \in Int
<1>1. Integral(Sizes(s), InUse(s)) BY InUseFinite DEF Integral, Sizes, InUse, Ok, State, Entry
<1>. QED BY <1>1, TotalUnfold DEF Held

(* The fold in Surplus is the sum of the sizes.                            *)
LEMMA SurplusIs ==
  ASSUME NEW s, Ok(s)
  PROVE  Surplus(s) = (s.used_size - Held(s)) % WORD
<1>. DEFINE D == InUse(s)
            w == Sizes(s)
            Eq(f) == f = [T \in SUBSET D |-> IF T = {} THEN 0
                            ELSE s.files[CHOOSE x \in T : TRUE].size + f[T \ {CHOOSE x \in T : TRUE}]]
            g == CHOOSE f : Eq(f)
<1>1. MapThenSumSet(LAMBDA i : s.files[i].size, {i \in Slots : s.files[i].in_use}) = g[D]
  BY DEF MapThenSumSet, MapThenFoldSet, InUse
<1>2. ASSUME NEW f PROVE Eq(f) <=> IsSum(f, D, w)
  <2>1. ASSUME NEW T \in SUBSET D, T # {}
        PROVE  w[Pick(T)] = s.files[CHOOSE x \in T : TRUE].size
    BY <2>1 DEF Pick, Sizes, InUse
  <2>. QED BY <2>1 DEF IsSum, Pick
<1>3. Integral(w, D) BY SizesIntegral
<1>4. \E f : Eq(f)
  <2>. HIDE DEF Eq, D, w
  <2>1. PICK f \in [SUBSET D -> Int] : IsSum(f, D, w) BY <1>3, SumExists
  <2>. QED BY <1>2, <2>1
<1>5. Eq(g) BY <1>4
<1>. HIDE DEF g, Eq
<1>6. IsSum(g, D, w) BY <1>2, <1>5
<1>. HIDE DEF D, w
<1>7. D \in SUBSET D /\ \A x \in D : w[x] = w[x] OBVIOUS
<1>8. g[D] = Total(w, D) BY <1>3, <1>6, <1>7, TotalIs
<1>. QED BY <1>1, <1>8 DEF Surplus, Held, D, w

(* Arithmetic modulo WORD                                                  *)
LEMMA Division ==
  ASSUME NEW x \in Int
  PROVE  x = (x \div WORD) * WORD + (x % WORD) /\ x \div WORD \in Int /\ (x % WORD) \in 0 .. WORD - 1
BY FileSystemAssumption

LEMMA SameRemainder ==
  ASSUME NEW x \in Int, NEW y \in Int, NEW q \in Int, y = x + q * WORD
  PROVE  y % WORD = x % WORD
<1>. DEFINE k == x \div WORD
            r == x % WORD
            m == y \div WORD
            t == y % WORD
            d == m - k - q
<1>. WORD \in Nat /\ WORD > 0 BY FileSystemAssumption
<1>1. x = k * WORD + r /\ k \in Int /\ r \in 0 .. WORD - 1 BY Division
<1>2. y = m * WORD + t /\ m \in Int /\ t \in 0 .. WORD - 1 BY Division
<1>. HIDE DEF k, r, m, t
<1>3. d \in Int /\ r - t = d * WORD
  <2>1. d * WORD = m * WORD - k * WORD - q * WORD BY <1>1, <1>2, SMT
  <2>2. m * WORD \in Int /\ k * WORD \in Int /\ q * WORD \in Int BY <1>1, <1>2
  <2>. QED BY <1>1, <1>2, <2>1, <2>2
<1>. HIDE DEF d
<1>4. d >= 1 => d * WORD >= WORD BY <1>3, SMT
<1>5. d <= -1 => d * WORD <= -WORD BY <1>3, SMT
<1>6. d = 0 BY <1>1, <1>2, <1>3, <1>4, <1>5
<1>7. r = t BY <1>1, <1>2, <1>3, <1>6
<1>. QED BY <1>7 DEF r, t

LEMMA LessRemainder ==
  ASSUME NEW a \in Int, NEW b \in Int
  PROVE  ((a % WORD) - b) % WORD = (a - b) % WORD
<1>. DEFINE q == a \div WORD
            x == (a % WORD) - b
            y == a - b
<1>. WORD \in Nat /\ WORD > 0 BY FileSystemAssumption
<1>1. a = q * WORD + (a % WORD) /\ q \in Int /\ (a % WORD) \in Int BY Division
<1>. HIDE DEF q
<1>2. x \in Int /\ y \in Int /\ y = x + q * WORD BY <1>1
<1>. HIDE DEF x, y
<1>3. y % WORD = x % WORD BY <1>1, <1>2, SameRemainder
<1>. QED BY <1>3 DEF x, y

(* A new file is empty.                                                    *)
LEMMA CreateSurplus ==
  ASSUME NEW s, Ok(s), NEW name \in Names, NEW type \in Types
  PROVE  Surplus(FsCreate(s, name, type).fs) = Surplus(s)
<1>. USE FileSystemAssumption
<1>. DEFINE free == {i \in Slots : ~s.files[i].in_use}
            i == Least(free)
            t == FsCreate(s, name, type).fs
<1>1. CASE ~s.ready \/ fs_file_exists(s, name) \/ free = {}
  BY <1>1 DEF FsCreate
<1>2. CASE s.ready /\ ~fs_file_exists(s, name) /\ free # {}
  <2>1. i \in Slots /\ ~s.files[i].in_use
    <3>1. free \subseteq Nat BY DEF Slots
    <3>. QED BY <1>2, <3>1, LeastIn
  <2>. DEFINE e == NewEntry(i, name, type)
              f == [s.files EXCEPT ![i] = e]
  <2>2. t = [s EXCEPT !.files = f, !.used_files = s.used_files + 1] BY <1>2 DEF FsCreate
  <2>3. e.in_use /\ e.size = 0 BY DEF NewEntry
  <2>4. Ok(t) BY CreateOk
  <2>. HIDE DEF i, t, e
  <2>5. f[i] = e /\ \A j \in Slots \ {i} : f[j] = s.files[j] BY <2>1 DEF Ok, State
  <2>. HIDE DEF f
  <2>6. t.files = f /\ t.used_size = s.used_size BY <2>2 DEF Ok, State
  <2>7. InUse(t) \ {i} = InUse(s) /\ i \in InUse(t) BY <2>1, <2>3, <2>5, <2>6 DEF InUse
  <2>8. Sizes(t)[i] = 0 /\ \A j \in InUse(s) : Sizes(t)[j] = Sizes(s)[j]
    BY <2>1, <2>3, <2>5, <2>6 DEF Sizes, InUse
  <2>. DEFINE w == Sizes(t)
              v == Sizes(s)
              R == InUse(s)
  <2>9. Integral(w, InUse(t)) /\ Integral(v, R) /\ Held(s) \in Int
    BY <2>4, SizesIntegral
  <2>. HIDE DEF w, v, R
  <2>10. Total(w, InUse(t)) = w[i] + Total(w, InUse(t) \ {i}) BY <2>7, <2>9, TotalRemove
  <2>11. Total(w, R) = Total(v, R) BY <2>8, <2>9, TotalSame DEF w, v, R
  <2>12. Held(t) = Held(s)
    <3>1. Held(t) = 0 + Held(s) BY <2>7, <2>8, <2>10, <2>11 DEF Held, w, v, R
    <3>. QED BY <2>9, <3>1
  <2>13. Surplus(t) = Surplus(s) BY <2>4, <2>6, <2>12, SurplusIs
  <2>. QED BY <2>13 DEF t
<1>. QED BY <1>1, <1>2

(* A file that grows adds as much to used_size as to the files.            *)
LEMMA GrowSurplus ==
  ASSUME NEW s, Ok(s), NEW i \in InUse(s), NEW end \in 0 .. MAX_FILE_SIZE
  PROVE  Surplus(Grow(s, i, end)) = Surplus(s)
<1>. USE FileSystemAssumption
<1>. DEFINE old == s.files[i].size
            a   == s.used_size + end - old
            t   == Grow(s, i, end)
<1>0. i \in Slots BY DEF InUse
<1>1. CASE ~(end > old) BY <1>1 DEF Grow
<1>2. CASE end > old
  <2>1. /\ Ok(t) /\ t.files[i].size = IF end > s.files[i].size THEN end ELSE s.files[i].size
        /\ \A j \in Slots : /\ t.files[j].in_use = s.files[j].in_use
                            /\ j # i => t.files[j].size = s.files[j].size
    BY <1>0, GrowOk, SMTT(30)
  <2>2. t.used_size = a % WORD BY <1>2 DEF Grow, Ok, State
  <2>3. t.files[i].size = end BY <1>2, <2>1
  <2>4. InUse(t) = InUse(s) BY <2>1 DEF InUse
  <2>. DEFINE w == Sizes(t)
              v == Sizes(s)
              D == InUse(s)
              R == D \ {i}
              b == Total(v, R)
  <2>5. w[i] = end /\ v[i] = old /\ \A j \in R : w[j] = v[j]
    <3>1. R \subseteq Slots BY DEF InUse
    <3>. QED BY <1>0, <2>1, <2>3, <3>1 DEF Sizes
  <2>6. Integral(w, D) /\ Integral(v, D) BY <2>1, <2>4, SizesIntegral
  <2>7. old \in Nat /\ s.used_size \in Int BY <1>0 DEF Ok, State, Entry
  <2>. HIDE DEF w, v, D, t, old
  <2>8. Total(w, D) = w[i] + Total(w, R) BY <2>6, TotalRemove DEF D
  <2>9. Total(v, D) = v[i] + Total(v, R) /\ Total(v, R) \in Int BY <2>6, TotalRemove DEF D
  <2>. HIDE DEF R
  <2>10. Total(w, R) = Total(v, R)
    <3>1. Integral(v, R)
      <4>1. R \subseteq D BY DEF R
      <4>. QED BY <2>6, <4>1, FS_Subset DEF Integral
    <3>. QED BY <2>5, <3>1, TotalSame
  <2>. HIDE DEF b
  <2>11. Held(t) = end + b /\ Held(s) = old + b /\ b \in Int
    BY <2>4, <2>5, <2>8, <2>9, <2>10 DEF Held, w, v, D, b
  <2>12. Surplus(t) = ((a % WORD) - (end + b)) % WORD
    BY <2>1, <2>2, <2>11, SurplusIs
  <2>13. Surplus(s) = (s.used_size - (old + b)) % WORD BY <2>11, SurplusIs
  <2>14. a \in Int /\ end + b \in Int /\ a - (end + b) = s.used_size - (old + b)
    BY <2>7, <2>11
  <2>. DEFINE e == end + b
  <2>15. ((a % WORD) - e) % WORD = (a - e) % WORD
    <3>. HIDE DEF a, e
    <3>1. a \in Int /\ e \in Int BY <2>14 DEF e
    <3>. QED BY <3>1, LessRemainder
  <2>16. Surplus(t) = Surplus(s) BY <2>12, <2>13, <2>14, <2>15
  <2>. QED BY <2>16 DEF t
<1>. QED BY <1>1, <1>2

(* A write, whether it overwrites or extends its file                      *)
LEMMA WriteSurplus ==
  ASSUME NEW s, Ok(s), NEW k, NEW buffer \in Writable
  PROVE  Surplus(FsWrite(s, k, buffer).fs) = Surplus(s)
<1>. USE FileSystemAssumption
<1>. DEFINE hd == s.file_handles[k]
            i  == hd.file_index
            n  == Clamp(hd.position, Len(buffer))
            q  == hd.position + n
            w  == Written(s, i, hd.position, n, buffer)
            t  == FsWrite(s, k, buffer).fs
<1>1. CASE ~Usable(s, k) \/ n = 0 BY <1>1, Zenon DEF FsWrite
<1>2. CASE Usable(s, k) /\ n # 0
  <2>1. /\ i \in Slots /\ s.files[i].in_use /\ k \in Handles /\ q \in 0 .. MAX_FILE_SIZE
        /\ w \in [DATA -> Bytes] /\ hd.is_open
        /\ t = Grow(Stored(s, k, w, q), i, q)
    <3>1. /\ i \in Slots /\ s.files[i].in_use /\ k \in Handles /\ n \in 1 .. Len(buffer)
          /\ hd.position \in Nat
          /\ hd.position + n <= MAX_FILE_SIZE /\ w \in [DATA -> Bytes]
          /\ t = Grow(Stored(s, k, w, q), i, q)
      BY <1>2, WriteFields
    <3>. QED BY <1>2, <3>1 DEF Usable
  <2>. HIDE DEF w, q, t
  <2>. DEFINE area == [s EXCEPT !.data_area = w]
              m == Stored(s, k, w, q)
  <2>2. Ok(area) /\ area.files = s.files /\ area.file_handles = s.file_handles
    BY <2>1, SetDataOk
  <2>3. m = [area EXCEPT !.file_handles[k].position = q] BY DEF Stored
  <2>4. m.files = s.files /\ m.used_size = s.used_size BY DEF Stored, Ok, State
  <2>5. Ok(m)
    <3>. HIDE DEF area
    <3>1. area.file_handles[k].is_open BY <2>1, <2>2
    <3>2. Ok([area EXCEPT !.file_handles[k].position = q]) BY <2>1, <2>2, <3>1, MoveOk
    <3>. QED BY <2>3, <3>2
  <2>. HIDE DEF m
  <2>6. i \in InUse(m) BY <2>1, <2>4 DEF InUse
  <2>7. Surplus(Grow(m, i, q)) = Surplus(m) BY <2>1, <2>5, <2>6, GrowSurplus
  <2>8. Surplus(m) = Surplus(s) BY <2>4 DEF Surplus
  <2>9. Surplus(t) = Surplus(s) BY <2>1, <2>7, <2>8 DEF m
  <2>. QED BY <2>9 DEF t
<1>. QED BY <1>1, <1>2, SMTT(30)

(* The calls that leave the files alone                                    *)
LEMMA FilesKept ==
  ASSUME NEW s, Ok(s), NEW name, NEW k, NEW n
  PROVE  /\ Surplus(FsOpen(s, name).fs) = Surplus(s)
         /\ Surplus(FsClose(s, k)) = Surplus(s)
         /\ Surplus(FsRead(s, k, n).fs) = Surplus(s)
         /\ Surplus(FsSeek(s, k, n).fs) = Surplus(s)
<1>. DEFINE Kept(t) == t.files = s.files /\ t.used_size = s.used_size
<1>1. Kept(FsOpen(s, name).fs) BY DEF FsOpen, Ok, State
<1>2. Kept(FsClose(s, k)) BY DEF FsClose, Ok, State
<1>3. Kept(FsRead(s, k, n).fs) BY DEF FsRead, Ok, State
<1>4. Kept(FsSeek(s, k, n).fs) BY DEF FsSeek, Ok, State
<1>5. ASSUME NEW t, Kept(t) PROVE Surplus(t) = Surplus(s) BY <1>5 DEF Surplus
<1>. QED BY <1>1, <1>2, <1>3, <1>4, <1>5

(* As long as no file is deleted, the used bytes that fsinfo prints change *)
(* by what the files do.                                                   *)
THEOREM FsUsedSize == Spec => UsedSizeFollows
<1>1. Ok(fs) /\ [Next]_fs =>
        [fs.ready /\ (\A i \in Slots : fs.files[i].in_use => fs'.files[i].in_use)
           => Surplus(fs') = Surplus(fs)]_fs
  <2>. SUFFICES ASSUME Ok(fs), Next, fs.ready,
                       \A i \in Slots : fs.files[i].in_use => fs'.files[i].in_use
                PROVE  Surplus(fs') = Surplus(fs)
    OBVIOUS
  <2>1. CASE fs_init BY <2>1 DEF fs_init
  <2>2. ASSUME NEW name \in Names, fs_create_file(name, FILE_TYPE_REGULAR)
        PROVE  Surplus(fs') = Surplus(fs)
    BY <2>2, CreateSurplus DEF fs_create_file, Types
  <2>3. ASSUME NEW name \in Names, fs_delete_file(name) PROVE Surplus(fs') = Surplus(fs)
    <3>. DEFINE i == Least(Matching(fs, name))
    <3>1. CASE Matching(fs, name) = {}
      <4>1. fs' = fs BY <2>3, <3>1 DEF fs_delete_file, FsDelete
      <4>. QED BY <4>1
    <3>2. CASE Matching(fs, name) # {}
      <4>1. i \in Matching(fs, name)
        <5>1. Matching(fs, name) \subseteq Nat BY FileSystemAssumption DEF Matching, Slots
        <5>. QED BY <3>2, <5>1, LeastIn
      <4>2. i \in Slots /\ fs.files[i].in_use BY <4>1 DEF Matching
      <4>3. fs'.files = [fs.files EXCEPT ![i] = NoEntry]
        BY <2>3, <3>2 DEF fs_delete_file, FsDelete, Ok, State
      <4>4. ~fs'.files[i].in_use BY <4>2, <4>3 DEF Ok, State, NoEntry
      <4>. QED BY <4>2, <4>4
    <3>. QED BY <3>1, <3>2
  <2>4. ASSUME NEW name \in Names, fs_open_file(name) PROVE Surplus(fs') = Surplus(fs)
    BY <2>4, FilesKept DEF fs_open_file
  <2>5. ASSUME NEW k \in Handles \cup {NO_HANDLE}, fs_close_file(k)
        PROVE  Surplus(fs') = Surplus(fs)
    BY <2>5, FilesKept DEF fs_close_file
  <2>6. ASSUME NEW k \in Handles \cup {NO_HANDLE}, NEW n \in 0 .. MAX_FILE_SIZE + 1,
               fs_read_file(k, n) \/ fs_seek_file(k, n)
        PROVE  Surplus(fs') = Surplus(fs)
    BY <2>6, FilesKept DEF fs_read_file, fs_seek_file
  <2>7. ASSUME NEW k \in Handles \cup {NO_HANDLE}, NEW buffer \in Buffers,
               fs_write_file(k, buffer)
        PROVE  Surplus(fs') = Surplus(fs)
    <3>1. buffer \in Writable BY FileSystemAssumption
    <3>. QED BY <2>7, <3>1, WriteSurplus DEF fs_write_file
  <2>. QED BY <2>1, <2>2, <2>3, <2>4, <2>5, <2>6, <2>7 DEF Next
<1>. QED BY <1>1, FsInvariant, PTL DEF Spec, UsedSizeFollows
=============================================================================
