-------------------------- MODULE ShellFilesProofs --------------------------
(***************************************************************************)
(* The shell's file commands leave no handle open and implement FileStore, *)
(* for any number of files, handles, names and bytes.                      *)
(***************************************************************************)
EXTENDS ShellFiles, FileSystemProofs, SequenceTheorems

NoneOpen(s) == \A k \in Handles : ~s.file_handles[k].is_open

(* At most handle k is open. *)
OnlyOpen(s, k) == \A j \in Handles : s.file_handles[j].is_open => j = k

(* Two file systems with the same files *)
SameFiles(s, t) ==
  /\ t.files = s.files /\ t.data_area = s.data_area
  /\ t.ready = s.ready /\ t.used_files = s.used_files
-----------------------------------------------------------------------------
(* Handles *)

(* fs_create_file and fs_delete_file leave the handles alone. *)
LEMMA HandlesKept ==
  ASSUME NEW s, Ok(s), NEW name, NEW type
  PROVE  /\ FsCreate(s, name, type).fs.file_handles = s.file_handles
         /\ FsDelete(s, name).fs.file_handles = s.file_handles
<1>1. FsCreate(s, name, type).fs.file_handles = s.file_handles
  BY DEF FsCreate, Ok, State
<1>2. FsDelete(s, name).fs.file_handles = s.file_handles
  BY DEF FsDelete, Ok, State
<1>. QED BY <1>1, <1>2

(* fs_open_file opens one handle, at the start of the file it finds. *)
LEMMA OpenFields ==
  ASSUME NEW s, Ok(s), NoneOpen(s), NEW name
  PROVE  LET o == FsOpen(s, name)
         IN /\ OnlyOpen(o.fs, o.handle) /\ SameFiles(s, o.fs)
            /\ o.handle = NO_HANDLE => o.fs = s
            /\ s.ready /\ Matching(s, name) # {} /\ MAX_HANDLES >= 1 =>
                 /\ o.handle \in Handles /\ o.handle # NO_HANDLE
                 /\ o.fs.file_handles[o.handle] =
                      [file_index |-> Least(Matching(s, name)), position |-> 0, is_open |-> TRUE]
<1>. USE FileSystemAssumption
<1>. DEFINE free == {k \in Handles : ~s.file_handles[k].is_open}
            k == Least(free)
            h == [file_index |-> Least(Matching(s, name)), position |-> 0, is_open |-> TRUE]
            g == [s.file_handles EXCEPT ![k] = h]
            o == FsOpen(s, name)
<1>0. MAX_HANDLES >= 1 => free # {}
  <2>1. MAX_HANDLES >= 1 => 0 \in Handles BY DEF Handles
  <2>. QED BY <2>1 DEF NoneOpen
<1>1. CASE ~s.ready \/ Matching(s, name) = {} \/ free = {}
  <2>1. o.fs = s BY <1>1 DEF FsOpen
  <2>. QED BY <1>0, <1>1, <2>1 DEF NoneOpen, OnlyOpen, SameFiles
<1>2. CASE ~(~s.ready \/ Matching(s, name) = {} \/ free = {})
  <2>1. k \in Handles
    <3>1. free \subseteq Nat BY DEF Handles
    <3>. QED BY <1>2, <3>1, LeastIn
  <2>2. k # NO_HANDLE BY <2>1 DEF Handles, NO_HANDLE
  <2>3. o.fs = [s EXCEPT !.file_handles = g] /\ o.handle = k BY <1>2 DEF FsOpen
  <2>. HIDE DEF k, free, h, o
  <2>4. g[k] = h /\ \A j \in Handles \ {k} : g[j] = s.file_handles[j]
    BY <2>1 DEF Ok, State
  <2>. HIDE DEF g
  <2>5. /\ o.fs.files = s.files /\ o.fs.data_area = s.data_area /\ o.fs.ready = s.ready
        /\ o.fs.used_files = s.used_files /\ o.fs.file_handles = g
    BY <2>3 DEF Ok, State
  <2>6. OnlyOpen(o.fs, k) BY <2>4, <2>5 DEF OnlyOpen, NoneOpen
  <2>. QED BY <2>1, <2>2, <2>3, <2>4, <2>5, <2>6 DEF SameFiles, h, o
<1>. QED BY <1>1, <1>2

(* fs_close_file closes it again. *)
LEMMA CloseFields ==
  ASSUME NEW s, Ok(s), NEW k, OnlyOpen(s, k)
  PROVE  NoneOpen(FsClose(s, k)) /\ SameFiles(s, FsClose(s, k))
<1>. DEFINE g == [s.file_handles EXCEPT ![k] = ClosedHandle]
<1>1. CASE ~(k \in Handles /\ s.file_handles[k].is_open)
  BY <1>1 DEF FsClose, OnlyOpen, NoneOpen, SameFiles
<1>2. CASE k \in Handles /\ s.file_handles[k].is_open
  <2>1. FsClose(s, k) = [s EXCEPT !.file_handles = g] BY <1>2 DEF FsClose
  <2>2. ~g[k].is_open /\ \A j \in Handles \ {k} : g[j] = s.file_handles[j]
    BY <1>2 DEF Ok, State, ClosedHandle
  <2>. HIDE DEF g
  <2>3. FsClose(s, k).file_handles = g /\ SameFiles(s, FsClose(s, k))
    BY <2>1 DEF Ok, State, SameFiles
  <2>. QED BY <2>2, <2>3 DEF OnlyOpen, NoneOpen
<1>. QED BY <1>1, <1>2

(* Moving a handle opens none. *)
LEMMA MoveOpens ==
  ASSUME NEW s, Ok(s), NEW k \in Handles, NEW p, NEW j, OnlyOpen(s, j)
  PROVE  OnlyOpen([s EXCEPT !.file_handles[k].position = p], j)
<1>. DEFINE h == [s.file_handles[k] EXCEPT !.position = p]
            g == [s.file_handles EXCEPT ![k] = h]
            t == [s EXCEPT !.file_handles[k].position = p]
<1>1. h.is_open = s.file_handles[k].is_open BY DEF Ok, State, Handle
<1>2. t.file_handles = g BY DEF Ok, State
<1>. HIDE DEF h, t
<1>3. \A m \in Handles : g[m].is_open = s.file_handles[m].is_open BY <1>1 DEF Ok, State
<1>4. OnlyOpen(t, j) BY <1>2, <1>3 DEF OnlyOpen
<1>. QED BY <1>4 DEF t

(* Neither reading nor writing opens a handle. *)
LEMMA ReadOpens ==
  ASSUME NEW s, Ok(s), NEW k, NEW n, NEW j, OnlyOpen(s, j)
  PROVE  OnlyOpen(FsRead(s, k, n).fs, j) /\ SameFiles(s, FsRead(s, k, n).fs)
<1>. DEFINE t == FsRead(s, k, n).fs
<1>1. CASE t = s BY <1>1 DEF SameFiles
<1>2. CASE t # s
  <2>1. k \in Handles /\ \E p : t = [s EXCEPT !.file_handles[k].position = p]
    BY <1>2, Zenon DEF FsRead, Usable
  <2>2. PICK p : t = [s EXCEPT !.file_handles[k].position = p] BY <2>1
  <2>. HIDE DEF t
  <2>3. SameFiles(s, t) BY <2>2 DEF SameFiles, Ok, State
  <2>4. OnlyOpen([s EXCEPT !.file_handles[k].position = p], j) BY <2>1, MoveOpens, SMTT(30)
  <2>. QED BY <2>2, <2>3, <2>4, SMTT(30) DEF t
<1>. QED BY <1>1, <1>2

LEMMA WriteOpens ==
  ASSUME NEW s, Ok(s), NEW k, NEW buffer \in Writable, NEW j, OnlyOpen(s, j)
  PROVE  OnlyOpen(FsWrite(s, k, buffer).fs, j)
<1>. DEFINE hd == s.file_handles[k]
            i  == hd.file_index
            n  == Clamp(hd.position, Len(buffer))
            q  == hd.position + n
            w  == Written(s, i, hd.position, n, buffer)
            t  == FsWrite(s, k, buffer).fs
<1>1. CASE ~Usable(s, k) \/ n = 0 BY <1>1, Zenon DEF FsWrite
<1>2. CASE Usable(s, k) /\ n # 0
  <2>1. /\ i \in Slots /\ k \in Handles /\ q \in 0 .. MAX_FILE_SIZE
        /\ w \in [DATA -> Bytes] /\ hd.is_open
        /\ t = Grow(Stored(s, k, w, q), i, q)
    <3>1. /\ i \in Slots /\ k \in Handles /\ n \in 1 .. Len(buffer) /\ hd.position \in Nat
          /\ hd.position + n <= MAX_FILE_SIZE /\ w \in [DATA -> Bytes]
          /\ t = Grow(Stored(s, k, w, q), i, q)
      BY <1>2, WriteFields
    <3>. QED BY <1>2, <3>1, FileSystemAssumption, SMTT(30) DEF Usable
  <2>. HIDE DEF w, q, t, i
  <2>. DEFINE m == [s EXCEPT !.data_area = w]
  <2>2. Ok(m) /\ m.file_handles = s.file_handles BY <2>1, SetDataOk
  <2>3. Stored(s, k, w, q) = [m EXCEPT !.file_handles[k].position = q] BY DEF Stored
  <2>. HIDE DEF m
  <2>4. OnlyOpen(m, j) BY <2>2 DEF OnlyOpen
  <2>5. Ok([m EXCEPT !.file_handles[k].position = q]) BY <2>1, <2>2, MoveOk
  <2>6. OnlyOpen([m EXCEPT !.file_handles[k].position = q], j) BY <2>1, <2>2, <2>4, MoveOpens
  <2>. DEFINE v == Stored(s, k, w, q)
  <2>7. Ok(v) /\ OnlyOpen(v, j) /\ t = Grow(v, i, q) BY <2>1, <2>3, <2>5, <2>6
  <2>. HIDE DEF v
  <2>8. t.file_handles = v.file_handles BY <2>1, <2>7, GrowOk
  <2>9. OnlyOpen(t, j) BY <2>7, <2>8 DEF OnlyOpen
  <2>. QED BY <2>9 DEF t
<1>. QED BY <1>1, <1>2

(* Opening, writing and closing leaves no handle open. *)
LEMMA StoreCloses ==
  ASSUME NEW s, Ok(s), NoneOpen(s), NEW name, NEW buffer \in Writable
  PROVE  Ok(Store(s, name, buffer)) /\ NoneOpen(Store(s, name, buffer))
<1>. DEFINE o == FsOpen(s, name)
            w == FsWrite(o.fs, o.handle, buffer).fs
<1>1. Ok(o.fs) /\ OnlyOpen(o.fs, o.handle) BY OpenOk, OpenFields
<1>2. Ok(w) /\ OnlyOpen(w, o.handle) BY <1>1, WriteOk, WriteOpens
<1>3. NoneOpen(FsClose(w, o.handle)) BY <1>2, CloseFields
<1>4. Ok(Store(s, name, buffer)) BY StoreOk
<1>. QED BY <1>3, <1>4 DEF Store

(* Each call a command makes keeps a tidy file system tidy. *)
Tidy(s) == Ok(s) /\ NoneOpen(s)

LEMMA CreateTidy ==
  ASSUME NEW s, Tidy(s), NEW name \in Names, NEW type \in Types
  PROVE  Tidy(FsCreate(s, name, type).fs)
<1>1. Ok(FsCreate(s, name, type).fs) BY CreateOk DEF Tidy
<1>2. NoneOpen(FsCreate(s, name, type).fs) BY HandlesKept DEF Tidy, NoneOpen
<1>. QED BY <1>1, <1>2 DEF Tidy

LEMMA DeleteTidy ==
  ASSUME NEW s, Tidy(s), NEW name \in Names
  PROVE  Tidy(FsDelete(s, name).fs)
<1>1. Ok(FsDelete(s, name).fs) BY DeleteOk DEF Tidy
<1>2. NoneOpen(FsDelete(s, name).fs)
  <2>1. FsDelete(s, name).fs.file_handles = s.file_handles BY HandlesKept DEF Tidy
  <2>. QED BY <2>1 DEF Tidy, NoneOpen
<1>. QED BY <1>1, <1>2 DEF Tidy

LEMMA StoreTidy ==
  ASSUME NEW s, Tidy(s), NEW name, NEW buffer \in Writable
  PROVE  Tidy(Store(s, name, buffer))
BY StoreCloses DEF Tidy

(* The table before fs_init fills it: handles closed, no file *)
Fresh == [Unmounted EXCEPT !.ready = TRUE,
                           !.file_handles = [k \in Handles |-> ClosedHandle]]

LEMMA FreshTidy ==
  /\ Tidy(Fresh) /\ Fresh.ready = TRUE /\ InUse(Fresh) = {}
  /\ Tidy(Unmounted) /\ Unmounted.ready = FALSE /\ InUse(Unmounted) = {}
<1>. USE FileSystemAssumption
<1>. DEFINE g == [k \in Handles |-> ClosedHandle]
<1>1. NoEntry \in Entry /\ ~NoEntry.in_use BY DEF NoEntry, Entry
<1>2. Unmounted \in State BY UnmountedOk DEF Ok
<1>3. g \in [Handles -> Handle] /\ \A k \in Handles : ~g[k].is_open BY DEF Handle, ClosedHandle
<1>. HIDE DEF g
<1>4. /\ Fresh \in State /\ Fresh.files = Unmounted.files /\ Fresh.ready = TRUE
      /\ Fresh.used_files = Unmounted.used_files /\ Fresh.file_handles = g
  <2>1. Fresh = [Unmounted EXCEPT !.ready = TRUE, !.file_handles = g] BY DEF Fresh, g
  <2>. QED BY <1>2, <1>3, <2>1 DEF State
<1>5. Unmounted.used_files = 0 /\ \A i \in Slots : ~Unmounted.files[i].in_use
  BY <1>1 DEF Unmounted
<1>6. InUse(Fresh) = {} /\ InUse(Unmounted) = {} BY <1>4, <1>5 DEF InUse
<1>7. Ok(Fresh) /\ NoneOpen(Fresh)
  <2>1. \A i \in Slots : ~Fresh.files[i].in_use BY <1>4, <1>5
  <2>2. \A k \in Handles : ~Fresh.file_handles[k].is_open BY <1>3, <1>4
  <2>. QED BY <1>4, <1>5, <2>1, <2>2, BlankOk DEF NoneOpen
<1>8. NoneOpen(Unmounted) /\ Unmounted.ready = FALSE BY DEF NoneOpen, Unmounted
<1>. QED BY <1>4, <1>6, <1>7, <1>8, UnmountedOk DEF Tidy

(* The steps of fs_init *)
Made1 == FsCreate(Fresh, README, FILE_TYPE_REGULAR).fs
Made2 == FsCreate(Made1, WELCOME, FILE_TYPE_REGULAR).fs
Made3 == FsCreate(Made2, DOCS, FILE_TYPE_DIRECTORY).fs
Made4 == Store(Made3, README, README_TEXT)

LEMMA InitTidy ==
  /\ Tidy(Made1) /\ Tidy(Made2) /\ Tidy(Made3) /\ Tidy(Made4) /\ Tidy(FsInit)
  /\ FsInit = Store(Made4, WELCOME, WELCOME_TEXT)
<1>1. /\ README \in Names /\ WELCOME \in Names /\ DOCS \in Names
      /\ FILE_TYPE_REGULAR \in Types /\ FILE_TYPE_DIRECTORY \in Types
      /\ README_TEXT \in Writable /\ WELCOME_TEXT \in Writable
  BY FileSystemAssumption DEF Names, Types
<1>2. Tidy(Made1) BY <1>1, FreshTidy, CreateTidy DEF Made1
<1>3. Tidy(Made2) BY <1>1, <1>2, CreateTidy DEF Made2
<1>4. Tidy(Made3) BY <1>1, <1>3, CreateTidy DEF Made3
<1>5. Tidy(Made4) BY <1>1, <1>4, StoreTidy DEF Made4
<1>6. FsInit = Store(Made4, WELCOME, WELCOME_TEXT)
  BY DEF FsInit, Made4, Made3, Made2, Made1, Fresh
<1>7. Tidy(FsInit) BY <1>1, <1>5, <1>6, StoreTidy
<1>. QED BY <1>2, <1>3, <1>4, <1>5, <1>6, <1>7

(* Every text a command writes may be written. *)
LEMMA TextsAreWritable ==
  /\ DEFAULT_TEXT \in Writable /\ Typed \subseteq Writable
  /\ README_TEXT \in Writable /\ WELCOME_TEXT \in Writable
BY ShellFilesAssumption, FileSystemAssumption DEF Typed

(* Every command keeps a tidy file system tidy. *)
LEMMA TidyNext == Tidy(fs) /\ [ShellNext]_shellVars => Tidy(fs)'
<1>. SUFFICES ASSUME Tidy(fs), [ShellNext]_shellVars PROVE Tidy(fs') OBVIOUS
<1>0. FILE_TYPE_REGULAR \in Types BY DEF Types
<1>1. ASSUME NEW name \in Names, create(name) PROVE Tidy(fs')
  <2>. DEFINE c == FsCreate(fs, name, FILE_TYPE_REGULAR)
  <2>1. Tidy(c.fs) BY <1>0, CreateTidy
  <2>2. fs' = c.fs \/ fs' = Store(c.fs, name, DEFAULT_TEXT) BY <1>1 DEF create
  <2>. QED BY <2>1, <2>2, StoreTidy, TextsAreWritable
<1>2. ASSUME NEW name \in Names, delete(name) PROVE Tidy(fs')
  BY <1>2, DeleteTidy DEF delete
<1>3. ASSUME NEW name \in Names, cat(name) PROVE Tidy(fs')
  <2>. DEFINE o == FsOpen(fs, name)
              r == FsRead(o.fs, o.handle, CAT_MAX)
  <2>1. Ok(o.fs) /\ OnlyOpen(o.fs, o.handle) BY OpenOk, OpenFields DEF Tidy
  <2>2. Ok(r.fs) /\ OnlyOpen(r.fs, o.handle) BY <2>1, ReadOk, ReadOpens, ShellFilesAssumption
  <2>3. Tidy(FsClose(r.fs, o.handle)) BY <2>2, CloseOk, CloseFields DEF Tidy
  <2>4. fs' = fs \/ fs' = FsClose(r.fs, o.handle) BY <1>3 DEF cat
  <2>. QED BY <2>3, <2>4
<1>4. ASSUME NEW name \in Names, NEW text \in Typed, edit(name, text) PROVE Tidy(fs')
  <2>. DEFINE c1 == FsCreate(fs, name, FILE_TYPE_REGULAR)
              d  == FsDelete(c1.fs, name).fs
              c2 == FsCreate(d, name, FILE_TYPE_REGULAR)
  <2>1. Tidy(c1.fs) BY <1>0, CreateTidy
  <2>2. Tidy(d) BY <2>1, DeleteTidy
  <2>3. Tidy(c2.fs) BY <1>0, <2>2, CreateTidy
  <2>4. text \in Writable BY TextsAreWritable
  <2>5. fs' \in {c1.fs, c2.fs, Store(c1.fs, name, text), Store(c2.fs, name, text)}
    BY <1>4 DEF edit
  <2>. HIDE DEF c1, c2, d
  <2>. QED BY <2>1, <2>3, <2>4, <2>5, StoreTidy
<1>5. CASE ls \/ fsinfo \/ UNCHANGED shellVars
  BY <1>5 DEF ls, fsinfo, shellVars
<1>. QED BY <1>1, <1>2, <1>3, <1>4, <1>5 DEF ShellNext

(* No sequence of commands leaves a handle open, whether they succeed or   *)
(* fail.                                                                   *)
THEOREM ShellClosesHandles == ShellSpec => []NoHandleLeak
<1>1. ShellInit => Tidy(fs) BY InitTidy, FreshTidy DEF ShellInit
<1>2. Tidy(fs) => NoHandleLeak BY DEF Tidy, NoneOpen, NoHandleLeak
<1>. QED BY <1>1, <1>2, TidyNext, PTL DEF ShellSpec

-----------------------------------------------------------------------------
(* The files as their user sees them *)

(* No name is garbled, no file is longer than cat shows, and there is no   *)
(* file before fs_init.                                                    *)
Known(s) ==
  /\ \A i \in InUse(s) : s.files[i].name \in ShortNames /\ s.files[i].size <= CAT_MAX
  /\ ~s.ready => InUse(s) = {}

Sound(s) == Tidy(s) /\ Known(s)

File(s, i) == [type |-> s.files[i].type, text |-> Content(s, i)]

(* A name in use is that of one entry. *)
LEMMA OneMatch ==
  ASSUME NEW s, Sound(s), NEW i \in InUse(s)
  PROVE  Matching(s, s.files[i].name) = {i} /\ Least(Matching(s, s.files[i].name)) = i
<1>1. s.files[i].name # GARBLED /\ i \in Slots /\ s.files[i].in_use
  BY FileSystemAssumption DEF Sound, Known, Names, InUse
<1>2. Matching(s, s.files[i].name) = {i}
  BY <1>1 DEF Sound, Tidy, Ok, NamesOk, Matching
<1>3. Least({i}) \in {i} BY <1>1, LeastIn DEF Slots
<1>. QED BY <1>2, <1>3

(* A name is found if an entry in use has it. *)
LEMMA FoundMatches ==
  ASSUME NEW s, NEW n
  PROVE  /\ n \in Found(s) <=> Matching(s, n) # {}
         /\ n \in Found(s) <=> \E i \in InUse(s) : s.files[i].name = n
  BY DEF Found, Matching, InUse

(* What is found under a name, and that this says it all *)
LEMMA FilesAt ==
  ASSUME NEW s, Sound(s)
  PROVE  /\ DOMAIN Files(s) = Found(s)
         /\ \A i \in InUse(s) : /\ s.files[i].name \in Found(s)
                                /\ Files(s)[s.files[i].name] = File(s, i)
<1>1. DOMAIN Files(s) = Found(s) BY DEF Files
<1>2. ASSUME NEW i \in InUse(s)
      PROVE  s.files[i].name \in Found(s) /\ Files(s)[s.files[i].name] = File(s, i)
  <2>1. s.files[i].name \in Found(s) BY FoundMatches
  <2>2. Least(Matching(s, s.files[i].name)) = i BY OneMatch
  <2>. QED BY <2>1, <2>2 DEF Files, File
<1>. QED BY <1>1, <1>2

LEMMA FilesAre ==
  ASSUME NEW s, Sound(s), NEW v, v = [n \in Found(s) |-> v[n]],
         \A i \in InUse(s) : v[s.files[i].name] = File(s, i)
  PROVE  Files(s) = v
<1>1. ASSUME NEW n \in Found(s) PROVE Files(s)[n] = v[n]
  <2>1. PICK i \in InUse(s) : s.files[i].name = n BY FoundMatches
  <2>. QED BY <2>1, FilesAt
<1>2. Files(s) = [n \in Found(s) |-> Files(s)[n]] BY DEF Files
<1>. QED BY <1>1, <1>2

(* The text of a file is as long as the entry says. *)
LEMMA TextLength ==
  ASSUME NEW s, Ok(s), NEW i \in Slots
  PROVE  /\ Len(Content(s, i)) = s.files[i].size
         /\ Content(s, i) = <<>> <=> s.files[i].size = 0
<1>1. s.files[i].size \in Nat BY DEF Ok, State, Entry
<1>2. DOMAIN Content(s, i) = 1 .. s.files[i].size BY DEF Content
<1>3. Len(Content(s, i)) = s.files[i].size BY <1>1, <1>2
<1>4. s.files[i].size = 0 => Content(s, i) = <<>> BY DEF Content
<1>. QED BY <1>1, <1>3, <1>4

(* The names found are as many as the entries in use, and there is a free  *)
(* entry if they are fewer than the table has.                             *)
LEMMA FoundCounted ==
  ASSUME NEW s, Sound(s)
  PROVE  /\ Cardinality(Found(s)) = s.used_files
         /\ Cardinality(Found(s)) < MAX_FILES <=> {i \in Slots : ~s.files[i].in_use} # {}
<1>. USE FileSystemAssumption
<1>. DEFINE f == [i \in InUse(s) |-> s.files[i].name]
<1>1. f \in Bijection(InUse(s), Found(s))
  <2>1. f \in [InUse(s) -> Found(s)] BY FoundMatches
  <2>2. \A a, b \in InUse(s) : f[a] = f[b] => a = b
    <3>1. \A a \in InUse(s) : Matching(s, s.files[a].name) = {a} BY OneMatch
    <3>. QED BY <3>1
  <2>3. \A n \in Found(s) : \E a \in InUse(s) : f[a] = n BY FoundMatches
  <2>. HIDE DEF f
  <2>. QED BY <2>1, <2>2, <2>3 DEF Bijection, Injection, Surjection, IsInjective
<1>2. ExistsBijection(InUse(s), Found(s)) BY <1>1 DEF ExistsBijection
<1>3. Cardinality(Found(s)) = Cardinality(InUse(s)) BY <1>2, InUseFinite, FS_Bijection
<1>4. Cardinality(InUse(s)) = s.used_files BY DEF Sound, Tidy, Ok, CountOk
<1>5. IsFiniteSet(Slots) /\ Cardinality(Slots) = MAX_FILES
  <2>1. 0 \in Int /\ MAX_FILES - 1 \in Int OBVIOUS
  <2>2. IsFiniteSet(Slots) /\ Cardinality(Slots) = IF 0 > MAX_FILES - 1 THEN 0 ELSE MAX_FILES - 1 - 0 + 1
    BY <2>1, FS_Interval DEF Slots
  <2>. QED BY <2>2
<1>6. InUse(s) \subseteq Slots BY DEF InUse
<1>7. /\ Cardinality(InUse(s)) <= MAX_FILES /\ Cardinality(InUse(s)) \in Nat
      /\ Cardinality(InUse(s)) = MAX_FILES => InUse(s) = Slots
  BY <1>5, <1>6, FS_Subset, InUseFinite, FS_CardinalityType
<1>8. InUse(s) = Slots <=> {i \in Slots : ~s.files[i].in_use} = {} BY DEF InUse
<1>. QED BY <1>3, <1>4, <1>5, <1>7, <1>8

(* The store v with the file e under the name n *)
With(v, n, e) == [m \in DOMAIN v \cup {n} |-> IF m = n THEN e ELSE v[m]]

(* fs_create_file adds an empty file, if its name is new and an entry free. *)
LEMMA CreateView ==
  ASSUME LongNames = {}, NEW s, Sound(s), NEW name \in Names, NEW type \in Types
  PROVE  LET c == FsCreate(s, name, type)
         IN /\ ~s.ready => c.fs = s /\ c.result = -1
            /\ name \in Found(s) => c.fs = s /\ c.result = -2
            /\ s.ready /\ name \notin Found(s) /\ ~(Cardinality(Found(s)) < MAX_FILES)
                 => c.fs = s /\ c.result = -3
            /\ s.ready /\ name \notin Found(s) /\ Cardinality(Found(s)) < MAX_FILES
                 => /\ c.result \in Nat /\ Sound(c.fs) /\ c.fs.ready
                    /\ Files(c.fs) = With(Files(s), name, [type |-> type, text |-> <<>>])
<1>. USE FileSystemAssumption
<1>. DEFINE free == {i \in Slots : ~s.files[i].in_use}
            i == Least(free)
            c == FsCreate(s, name, type)
            t == c.fs
<1>1. name \in Found(s) => s.ready
  <2>1. ~s.ready => InUse(s) = {} BY DEF Sound, Known
  <2>. QED BY <2>1, FoundMatches
<1>2. s.ready => (fs_file_exists(s, name) <=> name \in Found(s))
  BY FoundMatches DEF fs_file_exists
<1>3. Cardinality(Found(s)) < MAX_FILES <=> free # {} BY FoundCounted
<1>4. CASE ~s.ready BY <1>1, <1>4 DEF FsCreate
<1>5. CASE s.ready /\ name \in Found(s) BY <1>2, <1>5 DEF FsCreate
<1>6. CASE s.ready /\ name \notin Found(s) /\ free = {} BY <1>2, <1>3, <1>6 DEF FsCreate
<1>7. CASE s.ready /\ name \notin Found(s) /\ free # {}
  <2>1. i \in Slots /\ ~s.files[i].in_use
    <3>1. free \subseteq Nat BY DEF Slots
    <3>. QED BY <1>7, <3>1, LeastIn
  <2>. DEFINE e == NewEntry(i, name, type)
              f == [s.files EXCEPT ![i] = e]
              u == s.used_files + 1
  <2>2. t = [s EXCEPT !.files = f, !.used_files = u] /\ c.result = i
    BY <1>2, <1>7 DEF FsCreate
  <2>3. e.name = name /\ e.type = type /\ e.size = 0 /\ e.in_use
    BY DEF NewEntry, StoredName
  <2>4. Tidy(t) BY CreateTidy DEF Sound
  <2>. HIDE DEF i, free, c, e
  <2>5. f[i] = e /\ \A j \in Slots \ {i} : f[j] = s.files[j]
    BY <2>1 DEF Sound, Tidy, Ok, State
  <2>. HIDE DEF f, u
  <2>6. t.files = f /\ t.data_area = s.data_area /\ t.ready = s.ready
    BY <2>2 DEF Sound, Tidy, Ok, State
  <2>. HIDE DEF t
  <2>7. InUse(t) = InUse(s) \cup {i} /\ i \notin InUse(s) /\ InUse(s) \subseteq Slots
    BY <2>1, <2>3, <2>5, <2>6 DEF InUse
  <2>8. \A j \in InUse(s) : t.files[j] = s.files[j] /\ j # i
    BY <2>5, <2>6, <2>7
  <2>9. Known(t)
    <3>1. name \in ShortNames BY DEF Names
    <3>2. CAT_MAX \in Nat BY ShellFilesAssumption
    <3>. QED BY <1>7, <2>3, <2>5, <2>6, <2>7, <2>8, <3>1, <3>2 DEF Known, Sound
  <2>10. Sound(t) BY <2>4, <2>9 DEF Sound
  <2>11. Found(t) = Found(s) \cup {name}
    <3>1. Found(t) = {t.files[j].name : j \in InUse(t)}
          /\ Found(s) = {s.files[j].name : j \in InUse(s)} BY DEF Found, InUse
    <3>. QED BY <2>3, <2>5, <2>6, <2>7, <2>8, <3>1
  <2>. DEFINE n == [type |-> type, text |-> <<>>]
              v == With(Files(s), name, n)
  <2>12. v = [m \in Found(t) |-> v[m]]
    <3>1. DOMAIN Files(s) = Found(s) BY FilesAt
    <3>. QED BY <2>11, <3>1 DEF With
  <2>13. ASSUME NEW j \in InUse(t) PROVE v[t.files[j].name] = File(t, j)
    <3>0. DOMAIN Files(s) = Found(s) BY FilesAt
    <3>1. CASE j = i
      <4>1. File(t, j) = n
        <5>1. Content(t, i) = <<>> BY <2>1, <2>3, <2>4, <2>5, <2>6, TextLength DEF Tidy
        <5>. QED BY <2>3, <2>5, <2>6, <3>1, <5>1 DEF File
      <4>. QED BY <2>3, <2>5, <2>6, <3>1, <4>1 DEF With
    <3>2. CASE j # i
      <4>1. j \in InUse(s) BY <2>7, <3>2
      <4>2. t.files[j] = s.files[j] BY <2>8, <4>1
      <4>3. File(t, j) = File(s, j) BY <2>6, <4>2 DEF File, Content
      <4>4. s.files[j].name \in Found(s) /\ Files(s)[s.files[j].name] = File(s, j)
        BY <4>1, FilesAt
      <4>5. s.files[j].name # name BY <1>7, <4>4
      <4>. QED BY <3>0, <4>2, <4>3, <4>4, <4>5 DEF With
    <3>. QED BY <3>1, <3>2
  <2>. HIDE DEF v
  <2>14. Files(t) = v BY <2>10, <2>12, <2>13, FilesAre
  <2>15. c.result \in Nat BY <2>1, <2>2 DEF Slots
  <2>. QED BY <1>3, <1>7, <2>6, <2>10, <2>14, <2>15 DEF v, t, c
<1>. QED BY <1>4, <1>5, <1>6, <1>7

(* fs_create_file fails in a file system that is full or not mounted. *)
LEMMA CreateFails ==
  ASSUME LongNames = {}, NEW s, Sound(s), NEW name \in Names, NEW type \in Types,
         name \notin Found(s), ~s.ready \/ ~(Cardinality(Found(s)) < MAX_FILES)
  PROVE  LET c == FsCreate(s, name, type) IN c.fs = s /\ (c.result = -1 \/ c.result = -3)
<1>. DEFINE c == FsCreate(s, name, type)
<1>1. /\ ~s.ready => c.fs = s /\ c.result = -1
      /\ s.ready /\ name \notin Found(s) /\ ~(Cardinality(Found(s)) < MAX_FILES)
           => c.fs = s /\ c.result = -3
  BY CreateView, ZenonT(40)
<1>. HIDE DEF c
<1>2. c.fs = s /\ (c.result = -1 \/ c.result = -3) BY <1>1
<1>. QED BY <1>2 DEF c

(* The store v without the name n *)
Without(v, n) == [m \in DOMAIN v \ {n} |-> v[m]]

(* fs_delete_file takes the file with the name away, if there is one. *)
LEMMA DeleteView ==
  ASSUME NEW s, Sound(s), NEW name \in Names
  PROVE  LET d == FsDelete(s, name)
         IN /\ name \notin Found(s) => d.fs = s /\ d.result # 0
            /\ name \in Found(s) => /\ d.result = 0 /\ Sound(d.fs) /\ d.fs.ready = s.ready
                                    /\ s.ready /\ Found(d.fs) = Found(s) \ {name}
                                    /\ Cardinality(Found(d.fs)) < MAX_FILES
                                    /\ Files(d.fs) = Without(Files(s), name)
<1>. USE FileSystemAssumption
<1>. DEFINE i == Least(Matching(s, name))
            d == FsDelete(s, name)
            t == d.fs
<1>1. name \in Found(s) => s.ready
  <2>1. ~s.ready => InUse(s) = {} BY DEF Sound, Known
  <2>. QED BY <2>1, FoundMatches
<1>2. name \in Found(s) <=> Matching(s, name) # {} BY FoundMatches
<1>3. CASE name \notin Found(s) BY <1>2, <1>3 DEF FsDelete
<1>4. CASE name \in Found(s)
  <2>1. PICK a \in InUse(s) : s.files[a].name = name BY <1>4, FoundMatches
  <2>2. i = a /\ Matching(s, name) = {a} BY <2>1, OneMatch
  <2>3. i \in InUse(s) /\ i \in Slots /\ s.files[i].name = name BY <2>1, <2>2 DEF InUse
  <2>. DEFINE f == [s.files EXCEPT ![i] = NoEntry]
              cleared == [s EXCEPT !.files = f, !.used_files = s.used_files - 1]
              u == (cleared.used_size - cleared.files[i].size) % WORD
  <2>4. t = [cleared EXCEPT !.used_size = u] /\ d.result = 0
    BY <1>1, <1>2, <1>4 DEF FsDelete
  <2>5. Tidy(t) BY DeleteTidy DEF Sound
  <2>. HIDE DEF i, d, u
  <2>6. ~f[i].in_use /\ \A j \in Slots \ {i} : f[j] = s.files[j]
    BY <2>3 DEF Sound, Tidy, Ok, State, NoEntry
  <2>. HIDE DEF f
  <2>7. t.files = f /\ t.data_area = s.data_area /\ t.ready = s.ready
    BY <2>4 DEF Sound, Tidy, Ok, State
  <2>. HIDE DEF t, cleared
  <2>8. InUse(t) = InUse(s) \ {i} BY <2>3, <2>6, <2>7 DEF InUse
  <2>9. \A j \in InUse(t) : t.files[j] = s.files[j] /\ j \in InUse(s) /\ j # i
    BY <2>6, <2>7, <2>8 DEF InUse
  <2>10. Sound(t) BY <2>5, <2>7, <2>9 DEF Sound, Known
  <2>11. \A j \in InUse(s) : s.files[j].name = name => j = i
    <3>1. \A j \in InUse(s) : Matching(s, s.files[j].name) = {j} BY OneMatch
    <3>. QED BY <2>2, <3>1
  <2>12. Found(t) = Found(s) \ {name}
    <3>1. Found(t) = {t.files[j].name : j \in InUse(t)}
          /\ Found(s) = {s.files[j].name : j \in InUse(s)} BY DEF Found, InUse
    <3>2. ASSUME NEW n \in Found(t) PROVE n \in Found(s) \ {name}
      BY <2>9, <2>11, <3>1
    <3>3. ASSUME NEW n \in Found(s) \ {name} PROVE n \in Found(t)
      <4>1. PICK j \in InUse(s) : s.files[j].name = n BY <3>1
      <4>2. j \in InUse(t) BY <2>3, <2>8, <4>1
      <4>. QED BY <2>9, <3>1, <4>1, <4>2
    <3>. QED BY <3>2, <3>3
  <2>. DEFINE v == Without(Files(s), name)
  <2>13. DOMAIN Files(s) = Found(s) BY FilesAt
  <2>14. v = [m \in Found(t) |-> v[m]] BY <2>12, <2>13 DEF Without
  <2>15. ASSUME NEW j \in InUse(t) PROVE v[t.files[j].name] = File(t, j)
    <3>1. t.files[j] = s.files[j] /\ j \in InUse(s) /\ s.files[j].name # name
      BY <2>9, <2>11
    <3>2. File(t, j) = File(s, j) BY <2>7, <3>1 DEF File, Content
    <3>3. s.files[j].name \in Found(s) /\ Files(s)[s.files[j].name] = File(s, j)
      BY <3>1, FilesAt
    <3>. QED BY <2>13, <3>1, <3>2, <3>3 DEF Without
  <2>. HIDE DEF v
  <2>16. Files(t) = v BY <2>10, <2>14, <2>15, FilesAre
  <2>17. Cardinality(Found(t)) < MAX_FILES
    <3>1. i \in {j \in Slots : ~t.files[j].in_use} BY <2>3, <2>6, <2>7
    <3>. QED BY <2>10, <3>1, FoundCounted
  <2>. QED BY <1>1, <1>4, <2>4, <2>7, <2>10, <2>12, <2>16, <2>17 DEF v, t, d
<1>. QED BY <1>3, <1>4

(* A file that grows: its size, and what stays as it was *)
LEMMA GrowAt ==
  ASSUME NEW s, Ok(s), NEW i \in Slots, NEW end \in 0 .. MAX_FILE_SIZE,
         s.files[i].size <= end, NEW t, t = Grow(s, i, end)
  PROVE  /\ Ok(t) /\ t.data_area = s.data_area /\ t.ready = s.ready
         /\ t.files[i].size = end
         /\ \A j \in Slots : /\ t.files[j].in_use = s.files[j].in_use
                             /\ t.files[j].name = s.files[j].name
                             /\ t.files[j].type = s.files[j].type
                             /\ t.files[j].data_offset = s.files[j].data_offset
                             /\ j # i => t.files[j].size = s.files[j].size
<1>1. s.files[i].size \in Nat BY DEF Ok, State, Entry
<1>2. Ok(t) /\ t.data_area = s.data_area /\ t.ready = s.ready BY GrowOk
<1>3. t.files[i].size = IF end > s.files[i].size THEN end ELSE s.files[i].size BY GrowOk
<1>4. t.files[i].size = end BY <1>1, <1>3, FileSystemAssumption
<1>5. ASSUME NEW j \in Slots
      PROVE  /\ t.files[j].in_use = s.files[j].in_use
             /\ t.files[j].name = s.files[j].name
             /\ t.files[j].type = s.files[j].type
             /\ t.files[j].data_offset = s.files[j].data_offset
             /\ j # i => t.files[j].size = s.files[j].size
  BY GrowOk
<1>. QED BY <1>2, <1>4, <1>5, Zenon

(* What a write at the start of file i leaves *)
LEMMA WriteAtStart ==
  ASSUME NEW s, Ok(s), NEW k, NEW buffer \in Writable, Usable(s, k), NEW i,
         s.file_handles[k].file_index = i, s.file_handles[k].position = 0,
         Len(buffer) <= MAX_FILE_SIZE, Len(buffer) # 0
  PROVE  LET w == Written(s, i, 0, Len(buffer), buffer)
         IN /\ w \in [DATA -> Bytes]
            /\ FsWrite(s, k, buffer).fs = Grow(Stored(s, k, w, Len(buffer)), i, Len(buffer))
<1>. DEFINE P == s.file_handles[k].position
            I == s.file_handles[k].file_index
            N == Clamp(P, Len(buffer))
            Q == P + N
<1>0. P \in 0 .. MAX_FILE_SIZE /\ P = 0 BY FileSystemAssumption
<1>1. N # 0 /\ N = Len(buffer) /\ Q = Len(buffer)
  <2>1. Len(buffer) \in Nat
        /\ N = IF P + Len(buffer) > MAX_FILE_SIZE THEN MAX_FILE_SIZE - P ELSE Len(buffer)
    BY <1>0, ClampIs
  <2>. HIDE DEF N
  <2>. QED BY <1>0, <2>1, FileSystemAssumption
<1>2. /\ Written(s, I, P, N, buffer) \in [DATA -> Bytes]
      /\ FsWrite(s, k, buffer).fs = Grow(Stored(s, k, Written(s, I, P, N, buffer), Q), I, Q)
  BY <1>1, WriteFields
<1>3. I = i /\ P = 0 OBVIOUS
<1>. HIDE DEF I, P, N, Q
<1>. QED BY <1>1, <1>2, <1>3

(* fs_write_file at the start of an empty file: the file is the buffer,    *)
(* and no other file changes.                                              *)
LEMMA WriteNew ==
  ASSUME NEW s, Ok(s), s.ready, NEW k \in Handles, NEW i \in InUse(s),
         s.file_handles[k].file_index = i, s.file_handles[k].position = 0,
         s.file_handles[k].is_open, s.files[i].size = 0,
         NEW buffer \in Writable, Len(buffer) <= MAX_FILE_SIZE
  PROVE  LET t == FsWrite(s, k, buffer).fs
         IN /\ Ok(t) /\ t.ready /\ InUse(t) = InUse(s)
            /\ \A j \in InUse(s) : t.files[j].name = s.files[j].name
            /\ t.files[i].size = Len(buffer)
            /\ File(t, i) = [type |-> s.files[i].type, text |-> buffer]
            /\ \A j \in InUse(s) \ {i} : /\ t.files[j].size = s.files[j].size
                                         /\ File(t, j) = File(s, j)
<1>. USE FileSystemAssumption
<1>. DEFINE L == Len(buffer)
            w == Written(s, i, 0, L, buffer)
            m == Stored(s, k, w, L)
            t == FsWrite(s, k, buffer).fs
<1>a. buffer \in Seq(Bytes) BY DEF Writable
<1>0. L \in 0 .. MAX_FILE_SIZE /\ i \in Slots /\ InUse(s) \subseteq Slots
  BY <1>a, LenProperties DEF InUse
<1>1. Usable(s, k) BY DEF Usable, InUse
<1>2. CASE L = 0
  <2>0. Clamp(0, L) = 0
    <3>0. 0 \in 0 .. MAX_FILE_SIZE OBVIOUS
    <3>1. Clamp(0, L) = IF 0 + L > MAX_FILE_SIZE THEN MAX_FILE_SIZE - 0 ELSE L
      BY <3>0, ClampIs
    <3>. QED BY <1>2, <3>1
  <2>1. t = s BY <1>1, <2>0 DEF FsWrite
  <2>2. buffer = <<>> BY <1>2, <1>a, EmptySeq
  <2>3. Content(s, i) = <<>> BY <1>0, TextLength
  <2>. HIDE DEF t
  <2>. QED BY <1>2, <2>1, <2>2, <2>3 DEF File, t
<1>3. CASE L # 0
  <2>. DEFINE area == [s EXCEPT !.data_area = w]
  <2>1. w \in [DATA -> Bytes] /\ t = Grow(m, i, L) BY <1>0, <1>1, <1>3, WriteAtStart
  <2>. HIDE DEF w, t
  <2>2. Ok(area) /\ area.data_area = w /\ area.ready = s.ready /\ area.files = s.files
        /\ area.file_handles = s.file_handles
    BY <2>1, SetDataOk, ZenonT(40)
  <2>3. m = [area EXCEPT !.file_handles[k].position = L] BY DEF Stored
  <2>. HIDE DEF area, L
  <2>a. area.file_handles[k].is_open BY <2>2
  <2>4. Ok(m) /\ SameFiles(area, m)
    <3>1. Ok([area EXCEPT !.file_handles[k].position = L]) BY <1>0, <2>1, <2>2, <2>a, MoveOk
    <3>2. SameFiles(area, [area EXCEPT !.file_handles[k].position = L])
      BY <2>2 DEF SameFiles, Ok, State
    <3>. QED BY <2>3, <3>1, <3>2
  <2>5. m.files = s.files /\ m.data_area = w /\ m.ready = s.ready BY <2>2, <2>4 DEF SameFiles
  <2>. HIDE DEF m
  <2>6. /\ Ok(t) /\ t.data_area = w /\ t.ready = s.ready
        /\ t.files[i].size = L
        /\ \A j \in Slots : /\ t.files[j].in_use = s.files[j].in_use
                            /\ t.files[j].name = s.files[j].name
                            /\ t.files[j].type = s.files[j].type
                            /\ t.files[j].data_offset = s.files[j].data_offset
                            /\ j # i => t.files[j].size = s.files[j].size
    <3>1. m.files[i].size <= L BY <1>0, <2>1, <2>5
    <3>2. /\ Ok(t) /\ t.data_area = m.data_area /\ t.ready = m.ready
          /\ t.files[i].size = L
          /\ \A j \in Slots : /\ t.files[j].in_use = m.files[j].in_use
                              /\ t.files[j].name = m.files[j].name
                              /\ t.files[j].type = m.files[j].type
                              /\ t.files[j].data_offset = m.files[j].data_offset
                              /\ j # i => t.files[j].size = m.files[j].size
      BY <1>0, <2>1, <2>4, <3>1, GrowAt
    <3>. QED BY <2>5, <3>2
  <2>8. InUse(t) = InUse(s) BY <2>6 DEF InUse
  <2>9. File(t, i) = [type |-> s.files[i].type, text |-> buffer]
    <3>. DEFINE off == i * MAX_FILE_SIZE
    <3>1. off \in Nat BY <1>0, Product DEF Slots
    <3>2. t.files[i].data_offset = off BY <1>0, <2>6 DEF Ok, FilesOk, InUse
    <3>3. ASSUME NEW x \in 1 .. L PROVE w[off + x - 1] = buffer[x]
      <4>1. x - 1 \in 0 .. MAX_FILE_SIZE - 1 BY <1>0
      <4>2. off + (x - 1) \in DATA BY <1>0, <4>1, SlotBytes
      <4>. DEFINE d == off + x - 1
      <4>3. d \in DATA /\ d \in off + 0 .. off + 0 + L - 1 /\ d - (off + 0) + 1 = x
        BY <1>0, <3>1, <4>2
      <4>4. w[d] = IF d \in off + 0 .. off + 0 + L - 1 THEN buffer[d - (off + 0) + 1]
                   ELSE s.data_area[d]
        BY <4>3 DEF w, Written
      <4>. QED BY <4>3, <4>4
    <3>. HIDE DEF off
    <3>4. Content(t, i) = [x \in 1 .. L |-> buffer[x]] BY <2>6, <3>2, <3>3 DEF Content
    <3>5. buffer = [x \in 1 .. L |-> buffer[x]] BY <1>a, LenProperties DEF L
    <3>. QED BY <1>0, <2>6, <3>4, <3>5 DEF File
  <2>10. ASSUME NEW j \in InUse(s) \ {i} PROVE File(t, j) = File(s, j)
    <3>. DEFINE off == j * MAX_FILE_SIZE
    <3>1. /\ s.files[j].data_offset = off /\ s.files[j].size \in 0 .. MAX_FILE_SIZE
          /\ t.files[j].data_offset = off /\ t.files[j].size = s.files[j].size
          /\ t.files[j].type = s.files[j].type /\ j \in Slots
      BY <1>0, <2>6 DEF Ok, FilesOk, InUse
    <3>2. off \in Nat BY <3>1, Product DEF Slots
    <3>3. ASSUME NEW x \in 1 .. s.files[j].size PROVE t.data_area[off + x - 1] = s.data_area[off + x - 1]
      <4>1. x - 1 \in 0 .. MAX_FILE_SIZE - 1 BY <3>1
      <4>. DEFINE d == off + (x - 1)
      <4>2. d \in DATA /\ SlotOf(d) = j BY <3>1, <4>1, SlotBytes
      <4>. HIDE DEF d
      <4>3. t.data_area[d] = s.data_area[d] BY <4>2, WriteInSlot DEF t
      <4>4. d = off + x - 1 BY <3>2 DEF d
      <4>. QED BY <4>3, <4>4
    <3>. HIDE DEF off
    <3>. QED BY <3>1, <3>3 DEF File, Content
  <2>. QED BY <1>0, <2>6, <2>8, <2>9, <2>10 DEF t, L
<1>. QED BY <1>2, <1>3

(* The same files look the same. *)
LEMMA SameView ==
  ASSUME NEW s, NEW t, SameFiles(s, t)
  PROVE  /\ Files(t) = Files(s) /\ Found(t) = Found(s) /\ InUse(t) = InUse(s)
         /\ \A i \in InUse(s) : File(t, i) = File(s, i)
         /\ Known(s) => Known(t)
<1>1. InUse(t) = InUse(s) /\ Found(t) = Found(s) BY DEF SameFiles, InUse, Found
<1>2. \A i : Content(t, i) = Content(s, i) BY DEF SameFiles, Content
<1>3. \A i \in InUse(s) : File(t, i) = File(s, i) BY <1>2 DEF SameFiles, File
<1>4. \A n : Matching(t, n) = Matching(s, n) BY DEF SameFiles, Matching
<1>5. Files(t) = Files(s) BY <1>1, <1>2, <1>4 DEF Files, SameFiles
<1>6. Known(s) => Known(t) BY <1>1 DEF Known, SameFiles
<1>. QED BY <1>1, <1>3, <1>5, <1>6

(* Storing a buffer in an empty file makes it the file's text. *)
LEMMA StoreView ==
  ASSUME MAX_HANDLES >= 1, NEW s, Sound(s), s.ready, NEW name, name \in Found(s),
         Files(s)[name].text = <<>>, NEW buffer \in Writable,
         Len(buffer) <= MAX_FILE_SIZE, Len(buffer) <= CAT_MAX
  PROVE  LET t == Store(s, name, buffer)
         IN /\ FsOpen(s, name).handle # NO_HANDLE
            /\ Sound(t) /\ t.ready /\ Found(t) = Found(s)
            /\ Files(t) = With(Files(s), name,
                               [type |-> Files(s)[name].type, text |-> buffer])
<1>. DEFINE o == FsOpen(s, name)
            k == o.handle
            w == FsWrite(o.fs, k, buffer).fs
            t == Store(s, name, buffer)
<1>0. Ok(s) /\ NoneOpen(s) /\ InUse(s) \subseteq Slots BY DEF Sound, Tidy, InUse
<1>1. PICK a \in InUse(s) : s.files[a].name = name BY FoundMatches
<1>2. Least(Matching(s, name)) = a /\ Matching(s, name) # {} BY <1>1, OneMatch
<1>3. Files(s)[name] = File(s, a) BY <1>1, FilesAt
<1>4. s.files[a].size = 0 BY <1>0, <1>3, TextLength DEF File
<1>5. /\ k \in Handles /\ k # NO_HANDLE /\ SameFiles(s, o.fs)
      /\ o.fs.file_handles[k] = [file_index |-> a, position |-> 0, is_open |-> TRUE]
  BY <1>0, <1>2, OpenFields
<1>6. Ok(o.fs) BY <1>0, OpenOk
<1>7. t = FsClose(w, k) BY <1>5 DEF Store
<1>8. Tidy(t) BY StoreTidy DEF Sound
<1>. HIDE DEF o
<1>9. /\ InUse(o.fs) = InUse(s) /\ \A i \in InUse(s) : File(o.fs, i) = File(s, i)
      /\ o.fs.files = s.files /\ o.fs.ready
  BY <1>5, SameView DEF SameFiles
<1>10. /\ o.fs.file_handles[k].file_index = a /\ o.fs.file_handles[k].position = 0
       /\ o.fs.file_handles[k].is_open /\ o.fs.files[a].size = 0 /\ a \in InUse(o.fs)
  BY <1>4, <1>5, <1>9
<1>. HIDE DEF k
<1>11. /\ Ok(w) /\ w.ready /\ InUse(w) = InUse(o.fs)
       /\ \A j \in InUse(o.fs) : w.files[j].name = o.fs.files[j].name
       /\ w.files[a].size = Len(buffer)
       /\ File(w, a) = [type |-> o.fs.files[a].type, text |-> buffer]
       /\ \A j \in InUse(o.fs) \ {a} : /\ w.files[j].size = o.fs.files[j].size
                                       /\ File(w, j) = File(o.fs, j)
  <2>. DEFINE u == o.fs
  <2>1. /\ Ok(u) /\ u.ready /\ k \in Handles /\ a \in InUse(u)
        /\ u.file_handles[k].file_index = a /\ u.file_handles[k].position = 0
        /\ u.file_handles[k].is_open /\ u.files[a].size = 0
    BY <1>5, <1>6, <1>9, <1>10
  <2>. HIDE DEF u
  <2>2. LET v == FsWrite(u, k, buffer).fs
        IN /\ Ok(v) /\ v.ready /\ InUse(v) = InUse(u)
           /\ \A j \in InUse(u) : v.files[j].name = u.files[j].name
           /\ v.files[a].size = Len(buffer)
           /\ File(v, a) = [type |-> u.files[a].type, text |-> buffer]
           /\ \A j \in InUse(u) \ {a} : v.files[j].size = u.files[j].size /\ File(v, j) = File(u, j)
    BY <2>1, WriteNew, SMTT(30)
  <2>. QED BY <2>2, Zenon DEF u
<1>12. SameFiles(w, t)
  <2>1. OnlyOpen(o.fs, k) BY <1>0, OpenFields DEF k, o
  <2>2. OnlyOpen(w, k) BY <1>6, <2>1, WriteOpens
  <2>. QED BY <1>7, <1>11, <2>2, CloseFields
<1>. HIDE DEF w, t
<1>13. t.files = w.files /\ t.ready /\ InUse(t) = InUse(s)
       /\ \A j \in InUse(s) : File(t, j) = File(w, j) /\ t.files[j].name = s.files[j].name
  <2>1. t.files = w.files /\ t.ready BY <1>11, <1>12 DEF SameFiles
  <2>2. InUse(t) = InUse(w) /\ \A j \in InUse(w) : File(t, j) = File(w, j)
    BY <1>12, SameView
  <2>3. InUse(w) = InUse(s) BY <1>9, <1>11
  <2>4. \A j \in InUse(s) : w.files[j].name = s.files[j].name BY <1>9, <1>11
  <2>. QED BY <2>1, <2>2, <2>3, <2>4
<1>14. Known(t)
  <2>1. \A j \in InUse(s) : t.files[j].name \in ShortNames BY <1>13 DEF Sound, Known
  <2>2. \A j \in InUse(s) : t.files[j].size <= CAT_MAX
    BY <1>9, <1>11, <1>13 DEF Sound, Known
  <2>. QED BY <1>13, <2>1, <2>2 DEF Known
<1>15. Sound(t) BY <1>8, <1>14 DEF Sound
<1>16. Found(t) = Found(s)
  <2>1. Found(t) = {t.files[j].name : j \in InUse(t)}
        /\ Found(s) = {s.files[j].name : j \in InUse(s)} BY DEF Found, InUse
  <2>. QED BY <1>13, <2>1
<1>. DEFINE e == [type |-> Files(s)[name].type, text |-> buffer]
            v == With(Files(s), name, e)
<1>17. DOMAIN Files(s) = Found(s) BY FilesAt
<1>18. v = [m \in Found(t) |-> v[m]]
  <2>1. Found(s) \cup {name} = Found(t) BY <1>16
  <2>. QED BY <1>17, <2>1 DEF With
<1>19. ASSUME NEW j \in InUse(t) PROVE v[t.files[j].name] = File(t, j)
  <2>0. j \in InUse(s) /\ s.files[j].name \in Found(s) /\ Files(s)[s.files[j].name] = File(s, j)
    BY <1>13, FilesAt
  <2>1. CASE j = a
    <3>1. e.type = s.files[a].type BY <1>3 DEF File
    <3>2. File(t, a) = e BY <1>1, <1>9, <1>11, <1>13, <3>1
    <3>. QED BY <1>1, <1>13, <2>0, <2>1, <3>2 DEF With
  <2>2. CASE j # a
    <3>1. s.files[j].name # name
      <4>1. Matching(s, s.files[j].name) = {j} /\ Matching(s, name) = {a}
        BY <1>1, <2>0, OneMatch
      <4>. QED BY <2>2, <4>1
    <3>2. File(t, j) = File(s, j) BY <1>9, <1>11, <1>13, <2>0, <2>2
    <3>. QED BY <1>13, <1>17, <2>0, <3>1, <3>2 DEF With
  <2>. QED BY <2>1, <2>2
<1>. HIDE DEF v
<1>20. Files(t) = v BY <1>15, <1>18, <1>19, FilesAre
<1>. QED BY <1>5, <1>13, <1>15, <1>16, <1>20 DEF v, t, k, o

(* cat finds the file and shows its text whole, and changes nothing. *)
LEMMA CatView ==
  ASSUME MAX_HANDLES >= 1, NEW s, Sound(s), NEW name
  PROVE  LET o == FsOpen(s, name)
             r == FsRead(o.fs, o.handle, CAT_MAX)
             t == FsClose(r.fs, o.handle)
         IN /\ name \notin Found(s) => o.handle = NO_HANDLE
            /\ name \in Found(s) =>
                 /\ o.handle # NO_HANDLE /\ SameFiles(s, t)
                 /\ Files(s)[name].text = <<>> => ~(r.result > 0)
                 /\ Files(s)[name].text # <<>> =>
                      r.result > 0 /\ r.buffer = Files(s)[name].text
<1>. DEFINE o == FsOpen(s, name)
            k == o.handle
            r == FsRead(o.fs, k, CAT_MAX)
            t == FsClose(r.fs, k)
<1>0. Ok(s) /\ NoneOpen(s) /\ InUse(s) \subseteq Slots BY DEF Sound, Tidy, InUse
<1>1. CASE name \notin Found(s)
  <2>1. Matching(s, name) = {} BY <1>1, FoundMatches
  <2>. QED BY <1>1, <2>1 DEF FsOpen
<1>2. CASE name \in Found(s)
  <2>1. PICK a \in InUse(s) : s.files[a].name = name BY <1>2, FoundMatches
  <2>2. Least(Matching(s, name)) = a /\ Matching(s, name) # {} BY <2>1, OneMatch
  <2>3. Files(s)[name] = File(s, a) BY <2>1, FilesAt
  <2>4. s.ready BY <2>1 DEF Sound, Known
  <2>5. /\ k \in Handles /\ k # NO_HANDLE /\ SameFiles(s, o.fs) /\ OnlyOpen(o.fs, k)
        /\ o.fs.file_handles[k] = [file_index |-> a, position |-> 0, is_open |-> TRUE]
    BY <1>0, <2>2, <2>4, OpenFields
  <2>6. Ok(o.fs) BY <1>0, OpenOk
  <2>. HIDE DEF o, k
  <2>7. Ok(r.fs) /\ OnlyOpen(r.fs, k) /\ SameFiles(o.fs, r.fs)
    BY <2>5, <2>6, ReadOk, ReadOpens, ShellFilesAssumption
  <2>8. SameFiles(s, t)
    <3>1. SameFiles(r.fs, t) BY <2>7, CloseFields
    <3>. QED BY <2>5, <2>7, <3>1 DEF SameFiles
  <2>9. /\ o.fs.files = s.files /\ o.fs.data_area = s.data_area /\ o.fs.ready = s.ready
        /\ s.files[a].in_use /\ a \in Slots
    BY <2>5 DEF SameFiles, InUse
  <2>10. Usable(o.fs, k) BY <2>4, <2>5, <2>9 DEF Usable
  <2>. DEFINE z == s.files[a].size
              off == s.files[a].data_offset
  <2>11. z \in Nat /\ z <= CAT_MAX /\ CAT_MAX \in Nat /\ off \in Nat
    BY <1>0, <2>9, ShellFilesAssumption DEF Sound, Known, Ok, State, Entry
  <2>12. CASE z = 0
    <3>1. r.result = 0 BY <2>5, <2>9, <2>10, <2>12 DEF FsRead
    <3>2. Files(s)[name].text = <<>> BY <1>0, <2>3, <2>12, TextLength DEF File
    <3>. HIDE DEF r, t
    <3>3. ~(r.result > 0) BY <3>1
    <3>. QED BY <1>2, <2>5, <2>8, <3>2, <3>3 DEF r, t, k, o
  <2>13. CASE z # 0
    <3>1. /\ r.result = IF CAT_MAX < z - 0 THEN CAT_MAX ELSE z - 0
          /\ r.buffer = [x \in 1 .. r.result |-> s.data_area[off + 0 + x - 1]]
      <4>. DEFINE hd == o.fs.file_handles[k]
      <4>1. hd.position = 0 /\ hd.file_index = a BY <2>5
      <4>2. ~(hd.position >= o.fs.files[hd.file_index].size) BY <2>9, <2>11, <2>13, <4>1, SMTT(30)
      <4>3. LET avail == o.fs.files[hd.file_index].size - hd.position
                n == IF CAT_MAX < avail THEN CAT_MAX ELSE avail
            IN /\ r.result = n
               /\ r.buffer = [x \in 1 .. n |-> o.fs.data_area[
                               o.fs.files[hd.file_index].data_offset + hd.position + x - 1]]
        BY <2>10, <4>2, ZenonT(40) DEF FsRead
      <4>. HIDE DEF hd
      <4>. QED BY <2>9, <4>1, <4>3
    <3>. HIDE DEF r, t
    <3>2. r.result = z BY <2>11, <3>1
    <3>3. r.buffer = Content(s, a)
      <4>1. \A x \in 1 .. z : off + 0 + x - 1 = off + x - 1 BY <2>11
      <4>. QED BY <3>1, <3>2, <4>1 DEF Content
    <3>4. r.result > 0 BY <2>11, <2>13, <3>2
    <3>5. Files(s)[name].text = Content(s, a) BY <2>3 DEF File
    <3>6. Content(s, a) # <<>> BY <1>0, <2>13, TextLength
    <3>. QED BY <1>2, <2>5, <2>8, <3>3, <3>4, <3>5, <3>6 DEF r, t, k, o
  <2>. QED BY <2>12, <2>13
<1>. QED BY <1>1, <1>2

(* Creating a file for which there is room *)
LEMMA MakeView ==
  ASSUME LongNames = {}, NEW s, Sound(s), s.ready, NEW name \in Names, NEW type \in Types,
         name \notin Found(s), Cardinality(Found(s)) < MAX_FILES,
         NEW t, t = FsCreate(s, name, type).fs
  PROVE  /\ Sound(t) /\ t.ready /\ Found(t) = Found(s) \cup {name}
         /\ Files(t) = With(Files(s), name, [type |-> type, text |-> <<>>])
<1>1. /\ Sound(t) /\ t.ready
      /\ Files(t) = With(Files(s), name, [type |-> type, text |-> <<>>])
  BY CreateView
<1>2. DOMAIN Files(t) = Found(t) /\ DOMAIN Files(s) = Found(s) BY <1>1, FilesAt
<1>3. Found(t) = Found(s) \cup {name} BY <1>1, <1>2 DEF With
<1>. QED BY <1>1, <1>3

(* A mounted file system begins with the demo files, one that could not be *)
(* mounted with none.                                                      *)
LEMMA InitView ==
  ASSUME FilesFit
  PROVE  /\ Sound(FsInit) /\ FsInit.ready = TRUE /\ Files(FsInit) = DemoFiles
         /\ Sound(Unmounted) /\ Unmounted.ready = FALSE /\ Files(Unmounted) = FS!Nothing
         /\ Sound(Made3) /\ Made3.ready /\ README \in Found(Made3)
         /\ Files(Made3)[README].text = <<>>
         /\ Sound(Made4) /\ Made4.ready /\ WELCOME \in Found(Made4)
         /\ Files(Made4)[WELCOME].text = <<>>
<1>. DEFINE none == [type |-> FILE_TYPE_REGULAR, text |-> <<>>]
            dir  == [type |-> FILE_TYPE_DIRECTORY, text |-> <<>>]
            v1 == With(FS!Nothing, README, none)
            v2 == With(v1, WELCOME, none)
            v3 == With(v2, DOCS, dir)
            r  == [type |-> FILE_TYPE_REGULAR, text |-> README_TEXT]
            w  == [type |-> FILE_TYPE_REGULAR, text |-> WELCOME_TEXT]
            v4 == With(v3, README, r)
            v5 == With(v4, WELCOME, w)
<1>0. /\ LongNames = {} /\ MAX_FILES >= 3 /\ MAX_HANDLES >= 1 /\ MAX_FILES \in Nat
      /\ README \in Names /\ WELCOME \in Names /\ DOCS \in Names
      /\ README # WELCOME /\ README # DOCS /\ WELCOME # DOCS
      /\ FILE_TYPE_REGULAR \in Types /\ FILE_TYPE_DIRECTORY \in Types
  BY FileSystemAssumption DEF FilesFit, Names, Types
<1>1. ASSUME NEW s, Tidy(s), InUse(s) = {} PROVE Sound(s) /\ Found(s) = {} /\ Files(s) = FS!Nothing
  <2>1. Found(s) = {} BY <1>1, FoundMatches
  <2>. QED BY <1>1, <2>1 DEF Sound, Known, Files, FS!Nothing
<1>2. /\ Sound(Fresh) /\ Fresh.ready /\ Found(Fresh) = {} /\ Files(Fresh) = FS!Nothing
      /\ Sound(Unmounted) /\ Unmounted.ready = FALSE /\ Files(Unmounted) = FS!Nothing
  BY <1>1, FreshTidy
<1>3. Cardinality({}) < MAX_FILES /\ Cardinality({README}) < MAX_FILES
      /\ Cardinality({README, WELCOME}) < MAX_FILES
  <2>1. Cardinality({}) = 0 BY FS_EmptySet
  <2>2. IsFiniteSet({README}) /\ Cardinality({README}) = 1 BY FS_Singleton
  <2>3. Cardinality({README} \cup {WELCOME}) = 2
    <3>1. WELCOME \notin {README} BY <1>0
    <3>2. Cardinality({README} \cup {WELCOME}) = Cardinality({README}) + 1
      BY <2>2, <3>1, FS_AddElement, Zenon
    <3>. QED BY <2>2, <3>2
  <2>4. {README} \cup {WELCOME} = {README, WELCOME} OBVIOUS
  <2>. QED BY <1>0, <2>1, <2>2, <2>3, <2>4
<1>4. Sound(Made1) /\ Made1.ready /\ Found(Made1) = {README} /\ Files(Made1) = v1
  <2>1. Sound(Made1) /\ Made1.ready /\ Found(Made1) = Found(Fresh) \cup {README}
        /\ Files(Made1) = With(Files(Fresh), README, none)
    <3>1. Cardinality(Found(Fresh)) < MAX_FILES /\ README \notin Found(Fresh) BY <1>2, <1>3
    <3>. QED BY <1>0, <1>2, <3>1, MakeView, ZenonT(40) DEF Made1
  <2>. QED BY <1>2, <2>1
<1>. HIDE DEF v1
<1>5. Sound(Made2) /\ Made2.ready /\ Found(Made2) = {README, WELCOME} /\ Files(Made2) = v2
  <2>1. Sound(Made2) /\ Made2.ready /\ Found(Made2) = Found(Made1) \cup {WELCOME}
        /\ Files(Made2) = With(Files(Made1), WELCOME, none)
    <3>1. Cardinality(Found(Made1)) < MAX_FILES /\ WELCOME \notin Found(Made1) BY <1>0, <1>3, <1>4
    <3>. QED BY <1>0, <1>4, <3>1, MakeView, ZenonT(40) DEF Made2
  <2>. QED BY <1>4, <2>1
<1>. HIDE DEF v2
<1>6. Sound(Made3) /\ Made3.ready /\ Found(Made3) = {README, WELCOME, DOCS} /\ Files(Made3) = v3
  <2>1. Sound(Made3) /\ Made3.ready /\ Found(Made3) = Found(Made2) \cup {DOCS}
        /\ Files(Made3) = With(Files(Made2), DOCS, dir)
    <3>1. Cardinality(Found(Made2)) < MAX_FILES /\ DOCS \notin Found(Made2) BY <1>0, <1>3, <1>5
    <3>. QED BY <1>0, <1>5, <3>1, MakeView DEF Made3
  <2>. QED BY <1>5, <2>1
<1>7. /\ README_TEXT \in Writable /\ Len(README_TEXT) <= MAX_FILE_SIZE /\ Len(README_TEXT) <= CAT_MAX
      /\ WELCOME_TEXT \in Writable /\ Len(WELCOME_TEXT) <= MAX_FILE_SIZE /\ Len(WELCOME_TEXT) <= CAT_MAX
  BY TextsAreWritable DEF FilesFit
<1>8. v3[README] = none /\ v3[WELCOME] = none /\ v3[DOCS] = dir /\ DOMAIN v3 = {README, WELCOME, DOCS}
  <2>1. DOMAIN v1 = {README} /\ v1[README] = none
    <3>1. DOMAIN FS!Nothing = {} BY DEF FS!Nothing
    <3>. HIDE DEF none
    <3>. QED BY <3>1 DEF v1, With
  <2>2. DOMAIN v2 = {README, WELCOME} /\ v2[README] = none /\ v2[WELCOME] = none
    BY <1>0, <2>1 DEF v2, With
  <2>. HIDE DEF none, dir
  <2>. QED BY <1>0, <2>2 DEF With
<1>. HIDE DEF v3
<1>9. Sound(Made4) /\ Made4.ready /\ Found(Made4) = {README, WELCOME, DOCS} /\ Files(Made4) = v4
  <2>1. README \in Found(Made3) /\ Files(Made3)[README].text = <<>>
        /\ Files(Made3)[README].type = FILE_TYPE_REGULAR
    BY <1>6, <1>8
  <2>2. /\ Sound(Made4) /\ Made4.ready /\ Found(Made4) = Found(Made3)
        /\ Files(Made4) = With(Files(Made3), README, [type |-> Files(Made3)[README].type, text |-> README_TEXT])
    BY <1>0, <1>6, <1>7, <2>1, StoreView DEF Made4
  <2>. QED BY <1>6, <2>1, <2>2
<1>10. DOMAIN v4 = {README, WELCOME, DOCS} /\ v4[README] = r /\ v4[WELCOME] = none /\ v4[DOCS] = dir
  <2>. HIDE DEF none, dir, r
  <2>. QED BY <1>0, <1>8 DEF With
<1>. HIDE DEF v4
<1>11. Sound(FsInit) /\ FsInit.ready /\ Files(FsInit) = v5
  <2>1. WELCOME \in Found(Made4) /\ Files(Made4)[WELCOME].text = <<>>
        /\ Files(Made4)[WELCOME].type = FILE_TYPE_REGULAR
    <3>1. v4[WELCOME].text = <<>> /\ v4[WELCOME].type = FILE_TYPE_REGULAR BY <1>10
    <3>. QED BY <1>9, <3>1
  <2>2. FsInit = Store(Made4, WELCOME, WELCOME_TEXT) BY InitTidy
  <2>3. /\ Sound(FsInit) /\ FsInit.ready
        /\ Files(FsInit) = With(Files(Made4), WELCOME, [type |-> Files(Made4)[WELCOME].type, text |-> WELCOME_TEXT])
    BY <1>0, <1>7, <1>9, <2>1, <2>2, StoreView
  <2>. QED BY <1>9, <2>1, <2>3
<1>12. FsInit.ready = TRUE
  <2>1. FsInit.ready \in BOOLEAN BY <1>11 DEF Sound, Tidy, Ok, State
  <2>. QED BY <1>11, <2>1
<1>13. v5 = DemoFiles
  <2>1. DOMAIN v5 = {README, WELCOME, DOCS} /\ v5[README] = r /\ v5[WELCOME] = w /\ v5[DOCS] = dir
    <3>. HIDE DEF dir, r, w
    <3>. QED BY <1>0, <1>10 DEF With
  <2>2. v5 = [n \in {README, WELCOME, DOCS} |-> v5[n]] BY <1>10 DEF With
  <2>3. DemoFiles[README] = r /\ DemoFiles[WELCOME] = w /\ DemoFiles[DOCS] = dir
        /\ DemoFiles = [n \in {README, WELCOME, DOCS} |-> DemoFiles[n]]
    BY <1>0 DEF DemoFiles
  <2>. HIDE DEF v5, r, w, dir
  <2>. QED BY <2>1, <2>2, <2>3
<1>14. README \in Found(Made3) /\ Files(Made3)[README].text = <<>> BY <1>6, <1>8
<1>15. WELCOME \in Found(Made4) /\ Files(Made4)[WELCOME].text = <<>>
  <2>1. v4[WELCOME].text = <<>> BY <1>10
  <2>. QED BY <1>9, <2>1
<1>. QED BY <1>2, <1>6, <1>9, <1>11, <1>12, <1>13, <1>14, <1>15

-----------------------------------------------------------------------------
(* The bytes in use, as they are counted *)

(* The calls that count nothing *)
LEMMA UsedKept ==
  ASSUME NEW s, Ok(s), NEW name, NEW type, NEW k, NEW n
  PROVE  /\ FsCreate(s, name, type).fs.used_size = s.used_size
         /\ FsOpen(s, name).fs.used_size = s.used_size
         /\ FsClose(s, k).used_size = s.used_size
         /\ FsRead(s, k, n).fs.used_size = s.used_size
<1>1. FsCreate(s, name, type).fs.used_size = s.used_size BY DEF FsCreate, Ok, State
<1>2. FsOpen(s, name).fs.used_size = s.used_size BY DEF FsOpen, Ok, State
<1>3. FsClose(s, k).used_size = s.used_size BY DEF FsClose, Ok, State
<1>4. FsRead(s, k, n).fs.used_size = s.used_size BY DEF FsRead, Ok, State
<1>. QED BY <1>1, <1>2, <1>3, <1>4

(* fs_delete_file subtracts the size of the entry it has cleared, which is *)
(* 0.                                                                      *)
LEMMA DeleteUsed ==
  ASSUME NEW s, Ok(s), NEW name
  PROVE  FsDelete(s, name).fs.used_size = s.used_size
<1>. USE FileSystemAssumption
<1>. DEFINE i == Least(Matching(s, name))
            cleared == [s EXCEPT !.files[i] = NoEntry, !.used_files = @ - 1]
<1>1. CASE ~s.ready \/ Matching(s, name) = {} BY <1>1 DEF FsDelete
<1>2. CASE s.ready /\ Matching(s, name) # {}
  <2>1. FsDelete(s, name).fs =
          [cleared EXCEPT !.used_size = (@ - cleared.files[i].size) % WORD]
    BY <1>2 DEF FsDelete
  <2>2. i \in Slots
    <3>1. Matching(s, name) \subseteq Nat BY DEF Matching, Slots
    <3>. QED BY <1>2, <3>1, LeastIn DEF Matching
  <2>3. cleared.used_size = s.used_size /\ cleared.files[i].size = 0
    <3>. HIDE DEF i
    <3>. QED BY <2>2 DEF Ok, State, NoEntry
  <2>4. DOMAIN cleared = DOMAIN s /\ "used_size" \in DOMAIN s BY DEF Ok, State
  <2>. HIDE DEF cleared
  <2>5. FsDelete(s, name).fs.used_size = (s.used_size - 0) % WORD BY <2>1, <2>3, <2>4
  <2>6. (s.used_size - 0) % WORD = s.used_size
    <3>1. s.used_size \in 0 .. WORD - 1 BY DEF Ok, State
    <3>. QED BY <3>1
  <2>. QED BY <2>5, <2>6
<1>. QED BY <1>1, <1>2

(* A write at the start of an empty file counts all its bytes. *)
LEMMA WriteUsed ==
  ASSUME NEW s, Ok(s), s.ready, NEW k \in Handles, NEW i \in InUse(s),
         s.file_handles[k].file_index = i, s.file_handles[k].position = 0,
         s.file_handles[k].is_open, s.files[i].size = 0,
         NEW buffer \in Writable, Len(buffer) <= MAX_FILE_SIZE
  PROVE  FsWrite(s, k, buffer).fs.used_size = (s.used_size + Len(buffer)) % WORD
<1>. USE FileSystemAssumption
<1>. DEFINE L == Len(buffer)
            w == Written(s, i, 0, L, buffer)
            m == Stored(s, k, w, L)
            t == FsWrite(s, k, buffer).fs
<1>0. L \in Nat /\ L <= MAX_FILE_SIZE /\ s.used_size \in 0 .. WORD - 1 /\ i \in Slots
      /\ 0 \in 0 .. MAX_FILE_SIZE
  BY LenProperties DEF Writable, Ok, State, InUse
<1>1. Usable(s, k) BY DEF Usable, InUse
<1>2. CASE L = 0
  <2>1. Clamp(0, L) = 0
    <3>1. Clamp(0, L) = IF 0 + L > MAX_FILE_SIZE THEN MAX_FILE_SIZE - 0 ELSE L
      BY <1>0, ClampIs
    <3>. QED BY <1>2, <3>1
  <2>2. t = s BY <1>1, <2>1 DEF FsWrite
  <2>3. (s.used_size + L) % WORD = s.used_size BY <1>0, <1>2
  <2>. QED BY <2>2, <2>3
<1>3. CASE L # 0
  <2>1. t = Grow(m, i, L) BY <1>1, <1>3, WriteAtStart
  <2>2. m.used_size = s.used_size /\ m.files = s.files /\ "used_size" \in DOMAIN m
    BY DEF Stored, Ok, State
  <2>. HIDE DEF m, L, t
  <2>3. L > m.files[i].size BY <1>0, <1>3, <2>2
  <2>4. t.used_size = (m.used_size + L - m.files[i].size) % WORD BY <2>1, <2>2, <2>3 DEF Grow
  <2>5. s.used_size + L - 0 = s.used_size + L BY <1>0
  <2>6. t.used_size = (s.used_size + L) % WORD BY <2>2, <2>4, <2>5
  <2>. QED BY <2>6 DEF t, L
<1>. QED BY <1>2, <1>3

(* Storing a buffer in an empty file counts all its bytes. *)
LEMMA StoreUsed ==
  ASSUME MAX_HANDLES >= 1, NEW s, Sound(s), s.ready, NEW name, name \in Found(s),
         Files(s)[name].text = <<>>, NEW buffer \in Writable, Len(buffer) <= MAX_FILE_SIZE
  PROVE  Store(s, name, buffer).used_size = (s.used_size + Len(buffer)) % WORD
<1>. DEFINE o == FsOpen(s, name)
            k == o.handle
            u == o.fs
            w == FsWrite(u, k, buffer).fs
<1>0. Ok(s) /\ NoneOpen(s) /\ InUse(s) \subseteq Slots BY DEF Sound, Tidy, InUse
<1>1. PICK a \in InUse(s) : s.files[a].name = name BY FoundMatches
<1>2. Least(Matching(s, name)) = a /\ Matching(s, name) # {} BY <1>1, OneMatch
<1>3. Files(s)[name] = File(s, a) BY <1>1, FilesAt
<1>4. s.files[a].size = 0 BY <1>0, <1>3, TextLength DEF File
<1>5. /\ k \in Handles /\ k # NO_HANDLE /\ SameFiles(s, u)
      /\ u.file_handles[k] = [file_index |-> a, position |-> 0, is_open |-> TRUE]
  BY <1>0, <1>2, OpenFields
<1>6. Ok(u) /\ u.used_size = s.used_size BY <1>0, OpenOk, UsedKept
<1>7. Store(s, name, buffer) = FsClose(w, k) BY <1>5 DEF Store
<1>. HIDE DEF o, u, k
<1>8. /\ u.ready /\ a \in InUse(u) /\ u.files[a].size = 0
      /\ u.file_handles[k].file_index = a /\ u.file_handles[k].position = 0
      /\ u.file_handles[k].is_open
  <2>1. InUse(u) = InUse(s) BY <1>5, SameView
  <2>2. u.files = s.files /\ u.ready BY <1>5 DEF SameFiles
  <2>. QED BY <1>4, <1>5, <2>1, <2>2
<1>9. Ok(w) /\ w.used_size = (u.used_size + Len(buffer)) % WORD
  BY <1>5, <1>6, <1>8, WriteOk, WriteUsed
<1>. HIDE DEF w
<1>10. FsClose(w, k).used_size = w.used_size BY <1>9, UsedKept
<1>. QED BY <1>6, <1>7, <1>9, <1>10

(* What fs_init has counted *)
LEMMA InitUsed ==
  ASSUME FilesFit
  PROVE  /\ FsInit.used_size = (Len(README_TEXT) + Len(WELCOME_TEXT)) % WORD
         /\ Unmounted.used_size = 0
<1>. USE FileSystemAssumption
<1>1. /\ Sound(Made3) /\ Made3.ready /\ README \in Found(Made3)
      /\ Files(Made3)[README].text = <<>>
      /\ Sound(Made4) /\ Made4.ready /\ WELCOME \in Found(Made4)
      /\ Files(Made4)[WELCOME].text = <<>>
  BY InitView
<1>2. Unmounted.used_size = 0 /\ Fresh.used_size = 0
  <2>1. "used_size" \in DOMAIN Unmounted BY DEF Unmounted
  <2>. QED BY <2>1 DEF Fresh, Unmounted
<1>3. Made3.used_size = 0
  <2>1. Ok(Fresh) /\ Ok(Made1) /\ Ok(Made2) BY FreshTidy, InitTidy DEF Tidy
  <2>2. Made1.used_size = 0 BY <1>2, <2>1, UsedKept DEF Made1
  <2>3. Made2.used_size = 0 BY <2>1, <2>2, UsedKept DEF Made2
  <2>. QED BY <2>1, <2>3, UsedKept DEF Made3
<1>4. /\ README_TEXT \in Writable /\ WELCOME_TEXT \in Writable /\ MAX_HANDLES >= 1
      /\ Len(README_TEXT) <= MAX_FILE_SIZE /\ Len(WELCOME_TEXT) <= MAX_FILE_SIZE
  BY DEF FilesFit
<1>5. Len(README_TEXT) \in 0 .. WORD - 1 /\ Len(WELCOME_TEXT) \in Nat
  BY <1>4, LenProperties DEF Writable
<1>6. Made4.used_size = Len(README_TEXT)
  <2>1. Made4.used_size = (0 + Len(README_TEXT)) % WORD
    BY <1>1, <1>3, <1>4, StoreUsed DEF Made4
  <2>. QED BY <1>5, <2>1
<1>7. FsInit.used_size = (Made4.used_size + Len(WELCOME_TEXT)) % WORD
  <2>1. FsInit = Store(Made4, WELCOME, WELCOME_TEXT) BY InitTidy
  <2>. QED BY <1>1, <1>4, <2>1, StoreUsed
<1>. QED BY <1>2, <1>6, <1>7

-----------------------------------------------------------------------------
(* Every command is a command of FileStore. *)

LEMMA ReadyAgree ==
  ASSUME NEW s, NEW t, Sound(s), Sound(t), s.ready, t.ready
  PROVE  t.ready = s.ready
BY DEF Sound, Tidy, Ok, State

Regular(text) == [type |-> FILE_TYPE_REGULAR, text |-> text]

(* Creating a file and storing a text in it adds the file with the text. *)
LEMMA MakeAndStore ==
  ASSUME FilesFit, NEW s, Sound(s), s.ready, NEW name \in Names,
         name \notin Found(s), Cardinality(Found(s)) < MAX_FILES,
         NEW text \in Writable, Len(text) <= MAX_FILE_SIZE, Len(text) <= CAT_MAX,
         NEW c, c = FsCreate(s, name, FILE_TYPE_REGULAR),
         NEW t, t = Store(c.fs, name, text)
  PROVE  /\ c.result \in Nat /\ FsOpen(c.fs, name).handle # NO_HANDLE
         /\ Sound(t) /\ t.ready = s.ready
         /\ Files(t) = With(Files(s), name, Regular(text))
         /\ t.used_size = (s.used_size + Len(text)) % WORD
<1>. DEFINE m == c.fs
            v == With(Files(s), name, Regular(<<>>))
<1>0. LongNames = {} /\ MAX_HANDLES >= 1 /\ FILE_TYPE_REGULAR \in Types
  BY DEF FilesFit, Types
<1>1. c.result \in Nat BY <1>0, CreateView
<1>2. Sound(m) /\ m.ready /\ Found(m) = Found(s) \cup {name}
      /\ Files(m) = v
  BY <1>0, MakeView DEF Regular
<1>3. v[name].text = <<>> /\ v[name].type = FILE_TYPE_REGULAR
      /\ With(v, name, Regular(text)) = With(Files(s), name, Regular(text))
  <2>1. v[name] = Regular(<<>>) BY DEF With
  <2>2. With(v, name, Regular(text)) = With(Files(s), name, Regular(text)) BY DEF With
  <2>. QED BY <2>1, <2>2 DEF Regular
<1>8. m.used_size = s.used_size BY UsedKept DEF Sound, Tidy
<1>. HIDE DEF m, v
<1>4. Files(m)[name].text = <<>> /\ Files(m)[name].type = FILE_TYPE_REGULAR /\ name \in Found(m)
  BY <1>2, <1>3
<1>5. /\ FsOpen(m, name).handle # NO_HANDLE
      /\ Sound(Store(m, name, text)) /\ Store(m, name, text).ready
      /\ Files(Store(m, name, text)) =
           With(Files(m), name, [type |-> Files(m)[name].type, text |-> text])
  BY <1>0, <1>2, <1>4, StoreView
<1>6. Sound(t) /\ t.ready /\ Files(t) = With(v, name, Regular(text))
  BY <1>2, <1>4, <1>5 DEF m, Regular
<1>7. t.ready = s.ready BY <1>6, ReadyAgree
<1>9. t.used_size = (m.used_size + Len(text)) % WORD
  BY <1>0, <1>2, <1>4, StoreUsed DEF m
<1>. QED BY <1>1, <1>3, <1>5, <1>6, <1>7, <1>8, <1>9 DEF m

(* FileStore counts as this module does. *)
LEMMA SameRoom ==
  ASSUME Sound(fs)
  PROVE  /\ FS!HasRoom <=> Cardinality(Found(fs)) < MAX_FILES
         /\ FS!Cardinality(DOMAIN Files(fs)) = fs.used_files
<1>1. FS!Cardinality(DOMAIN Files(fs)) = Cardinality(DOMAIN Files(fs))
  BY DEF FS!Cardinality, Cardinality
<1>. QED BY <1>1, FilesAt, FoundCounted DEF FS!HasRoom

LEMMA CreateStep ==
  ASSUME FilesFit, Sound(fs), NEW name \in Names, create(name)
  PROVE  Sound(fs') /\ FS!Create(name)
<1>. DEFINE c == FsCreate(fs, name, FILE_TYPE_REGULAR)
            full == ~(Cardinality(Found(fs)) < MAX_FILES)
<1>0. LongNames = {} /\ FILE_TYPE_REGULAR \in Types /\ DOMAIN Files(fs) = Found(fs)
      /\ DEFAULT_TEXT \in Writable /\ Len(DEFAULT_TEXT) <= MAX_FILE_SIZE
      /\ Len(DEFAULT_TEXT) <= CAT_MAX
  BY FilesAt, TextsAreWritable DEF FilesFit, Types
<1>1. CASE name \in Found(fs)
  <2>1. c.fs = fs /\ c.result = -2 BY <1>0, <1>1, CreateView
  <2>. HIDE DEF c
  <2>2. fs' = fs /\ shown' = Answer("exists", <<>>)
    BY <2>1 DEF create, c
  <2>. QED BY <1>0, <1>1, <2>2 DEF FS!Create, FS!Say, FS!Keep, FS!Answer, Answer
<1>2. CASE name \notin Found(fs) /\ (~fs.ready \/ full)
  <2>1. c.fs = fs /\ (c.result = -1 \/ c.result = -3) BY <1>0, <1>2, CreateFails
  <2>. HIDE DEF c
  <2>2. fs' = fs /\ shown' = Answer("failed", <<>>)
    BY <2>1 DEF create, c
  <2>3. ~(fs.ready /\ FS!HasRoom) BY <1>2, SameRoom
  <2>4. FS!Keep BY <2>2 DEF FS!Keep
  <2>. QED BY <1>0, <1>2, <2>2, <2>3, <2>4 DEF FS!Create, FS!Say, FS!Answer, Answer
<1>3. CASE name \notin Found(fs) /\ fs.ready /\ ~full
  <2>. DEFINE t == Store(c.fs, name, DEFAULT_TEXT)
  <2>a. c = FsCreate(fs, name, FILE_TYPE_REGULAR) OBVIOUS
  <2>. HIDE DEF c
  <2>b. t = Store(c.fs, name, DEFAULT_TEXT) OBVIOUS
  <2>. HIDE DEF t
  <2>1. /\ c.result \in Nat /\ Sound(t) /\ t.ready = fs.ready
        /\ Files(t) = With(Files(fs), name, Regular(DEFAULT_TEXT))
        /\ t.used_size = (fs.used_size + Len(DEFAULT_TEXT)) % WORD
    <3>1. fs.ready /\ name \notin Found(fs) /\ Cardinality(Found(fs)) < MAX_FILES BY <1>3
    <3>2. c.result \in Nat BY <1>0, <2>a, <2>b, <3>1, MakeAndStore
    <3>3. Sound(t) /\ t.ready = fs.ready BY <1>0, <2>a, <2>b, <3>1, MakeAndStore
    <3>4. Files(t) = With(Files(fs), name, Regular(DEFAULT_TEXT))
      BY <1>0, <2>a, <2>b, <3>1, MakeAndStore
    <3>5. t.used_size = (fs.used_size + Len(DEFAULT_TEXT)) % WORD
      BY <1>0, <2>a, <2>b, <3>1, MakeAndStore
    <3>. QED BY <3>2, <3>3, <3>4, <3>5
  <2>2. fs' = t /\ shown' = Answer("created", <<>>)
    BY <2>1 DEF create, c, t
  <2>3. Files(fs') = FS!Put(name, DEFAULT_TEXT) BY <2>1, <2>2 DEF With, Regular, FS!Put
  <2>4. Sound(fs') /\ fs'.ready = fs.ready BY <2>1, <2>2
  <2>5. fs.ready /\ FS!HasRoom BY <1>3, SameRoom
  <2>6. FS!Count(DEFAULT_TEXT) BY <2>1, <2>2 DEF FS!Count
  <2>. QED BY <1>0, <1>3, <2>2, <2>3, <2>4, <2>5, <2>6 DEF FS!Create, FS!Say, FS!Answer, Answer
<1>. QED BY <1>1, <1>2, <1>3

LEMMA DeleteStep ==
  ASSUME Sound(fs), NEW name \in Names, delete(name)
  PROVE  Sound(fs') /\ FS!Delete(name)
<1>. DEFINE d == FsDelete(fs, name)
<1>0. DOMAIN Files(fs) = Found(fs) BY FilesAt
<1>1. fs' = d.fs /\ shown' = Answer(IF d.result = 0 THEN "deleted" ELSE "not found", <<>>)
  BY DEF delete
<1>2. /\ name \notin Found(fs) => d.fs = fs /\ d.result # 0
      /\ name \in Found(fs) => /\ d.result = 0 /\ Sound(d.fs) /\ d.fs.ready = fs.ready
                               /\ Files(d.fs) = Without(Files(fs), name)
  BY DeleteView
<1>5. d.fs.used_size = fs.used_size BY DeleteUsed DEF Sound, Tidy
<1>. HIDE DEF d
<1>3. CASE name \notin Found(fs)
  BY <1>0, <1>1, <1>2, <1>3 DEF FS!Delete, FS!Say, FS!Keep, FS!Answer, Answer
<1>4. CASE name \in Found(fs)
  BY <1>0, <1>1, <1>2, <1>4, <1>5 DEF FS!Delete, FS!Say, FS!Answer, Answer, Without
<1>. QED BY <1>3, <1>4

LEMMA CatStep ==
  ASSUME FilesFit, Sound(fs), NEW name \in Names, cat(name)
  PROVE  Sound(fs') /\ FS!Cat(name)
<1>. DEFINE o == FsOpen(fs, name)
            r == FsRead(o.fs, o.handle, CAT_MAX)
            t == FsClose(r.fs, o.handle)
<1>0. DOMAIN Files(fs) = Found(fs) /\ MAX_HANDLES >= 1 BY FilesAt DEF FilesFit
<1>1. /\ o.handle = NO_HANDLE => fs' = fs /\ shown' = Answer("not found", <<>>)
      /\ o.handle # NO_HANDLE =>
           /\ fs' = t
           /\ shown' = IF r.result > 0 THEN Answer("content", r.buffer)
                       ELSE Answer("empty", <<>>)
  BY DEF cat
<1>2. /\ name \notin Found(fs) => o.handle = NO_HANDLE
      /\ name \in Found(fs) =>
           /\ o.handle # NO_HANDLE /\ SameFiles(fs, t)
           /\ Files(fs)[name].text = <<>> => ~(r.result > 0)
           /\ Files(fs)[name].text # <<>> =>
                r.result > 0 /\ r.buffer = Files(fs)[name].text
  BY <1>0, CatView
<1>3. Sound(fs')
  <2>1. Tidy(fs) /\ [ShellNext]_shellVars BY DEF Sound, ShellNext
  <2>2. Tidy(fs') BY <2>1, TidyNext
  <2>. HIDE DEF t
  <2>3. fs' = fs \/ (fs' = t /\ SameFiles(fs, t)) BY <1>1, <1>2
  <2>4. Known(fs') BY <2>3, SameView DEF Sound
  <2>. QED BY <2>2, <2>4 DEF Sound
<1>8. t.used_size = fs.used_size
  <2>1. Ok(o.fs) /\ o.fs.used_size = fs.used_size BY OpenOk, UsedKept DEF Sound, Tidy
  <2>. HIDE DEF o
  <2>2. Ok(r.fs) /\ r.fs.used_size = o.fs.used_size
    BY <2>1, ReadOk, UsedKept, ShellFilesAssumption
  <2>. HIDE DEF r
  <2>. QED BY <2>1, <2>2, UsedKept
<1>. HIDE DEF o, r, t
<1>9. fs'.used_size = fs.used_size BY <1>1, <1>8
<1>4. fs'.ready = fs.ready /\ Files(fs') = Files(fs)
  <2>1. fs' = fs \/ (fs' = t /\ SameFiles(fs, t)) BY <1>1, <1>2
  <2>. QED BY <2>1, SameView DEF SameFiles
<1>5. CASE name \notin Found(fs)
  BY <1>0, <1>1, <1>2, <1>3, <1>4, <1>5, <1>9 DEF FS!Cat, FS!Say, FS!Keep, FS!Answer, Answer
<1>6. CASE name \in Found(fs) /\ Files(fs)[name].text = <<>>
  BY <1>0, <1>1, <1>2, <1>3, <1>4, <1>6, <1>9 DEF FS!Cat, FS!Say, FS!Keep, FS!Answer, Answer
<1>7. CASE name \in Found(fs) /\ Files(fs)[name].text # <<>>
  BY <1>0, <1>1, <1>2, <1>3, <1>4, <1>7, <1>9 DEF FS!Cat, FS!Say, FS!Keep, FS!Answer, Answer
<1>. QED BY <1>5, <1>6, <1>7

LEMMA EditStep ==
  ASSUME FilesFit, Sound(fs), NEW name \in Names, NEW text \in Typed, edit(name, text)
  PROVE  Sound(fs') /\ FS!Edit(name, text)
<1>. DEFINE c1 == FsCreate(fs, name, FILE_TYPE_REGULAR)
            d  == FsDelete(fs, name).fs
<1>0. LongNames = {} /\ FILE_TYPE_REGULAR \in Types /\ DOMAIN Files(fs) = Found(fs)
      /\ text \in Writable /\ Len(text) <= MAX_FILE_SIZE /\ Len(text) <= CAT_MAX
  BY FilesAt, TextsAreWritable DEF FilesFit, Types
<1>1. CASE name \notin Found(fs) /\ (~fs.ready \/ ~(Cardinality(Found(fs)) < MAX_FILES))
  <2>1. c1.fs = fs /\ (c1.result = -1 \/ c1.result = -3) BY <1>0, <1>1, CreateFails
  <2>. HIDE DEF c1
  <2>2. fs' = fs /\ shown' = Answer("silence", <<>>) BY <2>1 DEF edit, c1
  <2>3. ~(fs.ready /\ FS!HasRoom) BY <1>1, SameRoom
  <2>4. FS!Keep BY <2>2 DEF FS!Keep
  <2>. QED BY <1>0, <1>1, <2>2, <2>3, <2>4 DEF FS!Edit, FS!Say, FS!Answer, Answer
<1>2. ASSUME NEW s, Sound(s), s.ready = fs.ready, fs.ready, name \notin Found(s),
             s.used_size = fs.used_size,
             Cardinality(Found(s)) < MAX_FILES,
             With(Files(s), name, Regular(text)) = With(Files(fs), name, Regular(text)),
             name \in Found(fs) \/ FS!HasRoom,
             NEW c, c = FsCreate(s, name, FILE_TYPE_REGULAR),
             fs' = (IF c.result >= 0 /\ FsOpen(c.fs, name).handle # NO_HANDLE
                    THEN Store(c.fs, name, text) ELSE c.fs),
             shown' = Answer(IF c.result >= 0 /\ FsOpen(c.fs, name).handle # NO_HANDLE
                             THEN "saved" ELSE "silence", <<>>)
      PROVE  Sound(fs') /\ FS!Edit(name, text)
  <2>. DEFINE t == Store(c.fs, name, text)
  <2>1. s.ready /\ t = Store(c.fs, name, text) BY <1>2
  <2>. HIDE DEF t
  <2>2. c.result \in Nat /\ FsOpen(c.fs, name).handle # NO_HANDLE
    BY <1>0, <1>2, <2>1, MakeAndStore
  <2>3. Sound(t) /\ t.ready = s.ready BY <1>0, <1>2, <2>1, MakeAndStore
  <2>4. Files(t) = With(Files(s), name, Regular(text)) BY <1>0, <1>2, <2>1, MakeAndStore
  <2>5. c.result >= 0 BY <2>2
  <2>6. fs' = t /\ shown' = Answer("saved", <<>>) BY <1>2, <2>2, <2>5 DEF t
  <2>7. Files(fs') = FS!Put(name, text) BY <1>2, <2>4, <2>6 DEF With, Regular, FS!Put
  <2>8. Sound(fs') /\ fs'.ready = fs.ready BY <1>2, <2>3, <2>6
  <2>9. fs.ready /\ (name \in DOMAIN Files(fs) \/ FS!HasRoom) BY <1>0, <1>2
  <2>10. t.used_size = (s.used_size + Len(text)) % WORD BY <1>0, <1>2, <2>1, MakeAndStore
  <2>11. FS!Count(text) BY <1>2, <2>6, <2>10 DEF FS!Count
  <2>. QED BY <2>6, <2>7, <2>8, <2>9, <2>11 DEF FS!Edit, FS!Say, FS!Answer, Answer
<1>3. CASE name \notin Found(fs) /\ fs.ready /\ Cardinality(Found(fs)) < MAX_FILES
  <2>1. c1.result \in Nat BY <1>0, <1>3, CreateView
  <2>2. FS!HasRoom BY <1>3, SameRoom
  <2>3. c1 = FsCreate(fs, name, FILE_TYPE_REGULAR) OBVIOUS
  <2>. HIDE DEF c1
  <2>4. c1.result # -2 BY <2>1
  <2>5. /\ fs' = IF c1.result >= 0 /\ FsOpen(c1.fs, name).handle # NO_HANDLE
                 THEN Store(c1.fs, name, text) ELSE c1.fs
        /\ shown' = Answer(IF c1.result >= 0 /\ FsOpen(c1.fs, name).handle # NO_HANDLE
                           THEN "saved" ELSE "silence", <<>>)
    BY <2>4 DEF edit, c1
  <2>. QED BY <1>2, <1>3, <2>2, <2>3, <2>5
<1>4. CASE name \in Found(fs)
  <2>1. c1.fs = fs /\ c1.result = -2 BY <1>0, <1>4, CreateView
  <2>2. /\ Sound(d) /\ d.ready = fs.ready /\ fs.ready /\ Found(d) = Found(fs) \ {name}
        /\ Cardinality(Found(d)) < MAX_FILES /\ Files(d) = Without(Files(fs), name)
    BY <1>4, DeleteView
  <2>7. d.used_size = fs.used_size BY DeleteUsed DEF Sound, Tidy
  <2>3. With(Files(d), name, Regular(text)) = With(Files(fs), name, Regular(text))
    <3>. DEFINE v == Files(fs)
                e == Regular(text)
    <3>1. With(Without(v, name), name, e) = With(v, name, e)
      <4>. HIDE DEF v, e
      <4>. QED BY DEF With, Without
    <3>. QED BY <2>2, <3>1
  <2>. DEFINE c2 == FsCreate(d, name, FILE_TYPE_REGULAR)
  <2>4. c2 = FsCreate(d, name, FILE_TYPE_REGULAR) OBVIOUS
  <2>. HIDE DEF c1, c2, d
  <2>5. /\ fs' = IF c2.result >= 0 /\ FsOpen(c2.fs, name).handle # NO_HANDLE
                 THEN Store(c2.fs, name, text) ELSE c2.fs
        /\ shown' = Answer(IF c2.result >= 0 /\ FsOpen(c2.fs, name).handle # NO_HANDLE
                           THEN "saved" ELSE "silence", <<>>)
    BY <2>1 DEF edit, c1, c2, d
  <2>6. name \notin Found(d) BY <2>2
  <2>. QED BY <1>2, <1>4, <2>2, <2>3, <2>4, <2>5, <2>6, <2>7
<1>. QED BY <1>1, <1>3, <1>4

LEMMA LsStep == ASSUME Sound(fs), ls PROVE Sound(fs') /\ FS!Ls
<1>. DEFINE rows == {<<fs.files[i].name, fs.files[i].type, fs.files[i].size>> :
                       i \in {j \in Slots : fs.files[j].in_use}}
            seen == {<<n, Files(fs)[n].type, Len(Files(fs)[n].text)>> : n \in Found(fs)}
<1>0. DOMAIN Files(fs) = Found(fs) /\ InUse(fs) \subseteq Slots /\ Ok(fs)
  BY FilesAt DEF InUse, Sound, Tidy
<1>1. rows = seen
  <2>1. ASSUME NEW i \in InUse(fs)
        PROVE  LET n == fs.files[i].name
               IN /\ n \in Found(fs) /\ Files(fs)[n].type = fs.files[i].type
                  /\ Len(Files(fs)[n].text) = fs.files[i].size
    <3>1. fs.files[i].name \in Found(fs) /\ Files(fs)[fs.files[i].name] = File(fs, i) BY FilesAt
    <3>2. Len(Content(fs, i)) = fs.files[i].size BY <1>0, TextLength
    <3>3. File(fs, i).type = fs.files[i].type /\ File(fs, i).text = Content(fs, i) BY DEF File
    <3>. QED BY <3>1, <3>2, <3>3
  <2>2. \A n \in Found(fs) : \E i \in InUse(fs) : fs.files[i].name = n BY FoundMatches
  <2>3. rows = {<<fs.files[i].name, fs.files[i].type, fs.files[i].size>> : i \in InUse(fs)}
    BY DEF InUse
  <2>4. rows \subseteq seen BY <2>1, <2>3
  <2>5. seen \subseteq rows BY <2>1, <2>2, <2>3
  <2>. QED BY <2>4, <2>5
<1>2. FS!Keep /\ Sound(fs') BY DEF ls, FS!Keep
<1>3. CASE ~fs.ready BY <1>2, <1>3 DEF ls, FS!Ls, FS!Say, FS!Answer, Answer
<1>4. CASE fs.ready
  <2>1. shown' = Answer("listing", rows) BY <1>4 DEF ls
  <2>. HIDE DEF rows
  <2>2. shown' = FS!Answer("listing",
          {<<n, Files(fs)[n].type, Len(Files(fs)[n].text)>> : n \in DOMAIN Files(fs)})
    BY <1>0, <1>1, <2>1 DEF FS!Answer, Answer
  <2>. QED BY <1>2, <1>4, <2>2 DEF FS!Ls, FS!Say
<1>. QED BY <1>3, <1>4

LEMMA FsinfoStep == ASSUME Sound(fs), fsinfo PROVE Sound(fs') /\ FS!Fsinfo
<1>1. FS!Keep /\ Sound(fs') BY DEF fsinfo, FS!Keep
<1>2. CASE ~fs.ready BY <1>1, <1>2 DEF fsinfo, FS!Fsinfo, FS!Say, FS!Answer, Answer
<1>3. CASE fs.ready
  <2>1. shown' = Answer("info", <<fs.used_files, Printed(fs.used_size)>>)
    BY <1>3 DEF fsinfo
  <2>2. FS!Say("info", <<FS!Cardinality(DOMAIN Files(fs)), FS!Printed(fs.used_size)>>)
    BY <2>1, SameRoom DEF FS!Say, FS!Answer, Answer, FS!Printed, Printed
  <2>. QED BY <1>1, <1>3, <2>2 DEF FS!Fsinfo
<1>. QED BY <1>2, <1>3

(* With texts that fit and names that fit their field, the shell's file    *)
(* commands are the commands of a plain store of named texts: no slot,     *)
(* handle or stale byte of the file system shows through.                  *)
THEOREM ShellIsFileStore == ASSUME FilesFit PROVE ShellSpec => ImplementsFileStore
<1>1. ShellInit => Sound(fs) /\ FS!Init
  <2>. SUFFICES ASSUME ShellInit PROVE Sound(fs) /\ FS!Init OBVIOUS
  <2>1. shown = FS!Answer("boot", <<>>) BY DEF ShellInit, Answer, FS!Answer
  <2>2. CASE fs = FsInit BY <2>1, <2>2, InitView, InitUsed DEF FS!Init
  <2>3. CASE fs = Unmounted BY <2>1, <2>3, InitView, InitUsed DEF FS!Init
  <2>. QED BY <2>2, <2>3 DEF ShellInit
<1>2. Sound(fs) /\ [ShellNext]_shellVars => Sound(fs)' /\ [FS!Next]_(FS!vars)
  <2>. SUFFICES ASSUME Sound(fs), [ShellNext]_shellVars
                PROVE  Sound(fs') /\ [FS!Next]_(FS!vars)
    OBVIOUS
  <2>1. ASSUME NEW name \in Names, create(name) \/ delete(name) \/ cat(name)
        PROVE  Sound(fs') /\ (FS!Create(name) \/ FS!Delete(name) \/ FS!Cat(name))
    BY <2>1, CreateStep, DeleteStep, CatStep
  <2>2. ASSUME NEW name \in Names, NEW text \in Typed, edit(name, text)
        PROVE  Sound(fs') /\ FS!Edit(name, text)
    BY <2>2, EditStep
  <2>3. CASE ls BY <2>3, LsStep DEF FS!Next
  <2>4. CASE fsinfo BY <2>4, FsinfoStep DEF FS!Next
  <2>5. CASE UNCHANGED shellVars BY <2>5 DEF shellVars, FS!vars
  <2>6. CASE \E name \in Names : create(name) \/ delete(name) \/ cat(name)
    <3>1. PICK name \in Names : create(name) \/ delete(name) \/ cat(name) BY <2>6
    <3>2. Sound(fs') /\ (FS!Create(name) \/ FS!Delete(name) \/ FS!Cat(name)) BY <2>1, <3>1
    <3>. QED BY <3>2 DEF FS!Next
  <2>7. CASE \E name \in Names, text \in Typed : edit(name, text)
    <3>1. PICK name \in Names, text \in Typed : edit(name, text) BY <2>7
    <3>2. Sound(fs') /\ FS!Edit(name, text) BY <2>2, <3>1
    <3>. QED BY <3>2 DEF FS!Next
  <2>. QED BY <2>3, <2>4, <2>5, <2>6, <2>7 DEF ShellNext
<1>. QED BY <1>1, <1>2, PTL DEF ShellSpec, ImplementsFileStore, FS!Spec
=============================================================================
