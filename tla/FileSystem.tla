----------------------------- MODULE FileSystem -----------------------------
(***************************************************************************)
(* The in-memory file system of src/src/lib/filesystem.c: a table of       *)
(* MAX_FILES entries, each with a fixed slot of the data area, and a table *)
(* of handles shared by all callers.                                       *)
(*                                                                         *)
(* The functions of filesystem.c are operators from the file system to the *)
(* file system and a result, so that the shell's commands (ShellFiles) and *)
(* fs_init can call them in sequence.  The actions of this module are the  *)
(* calls any client may make, in any order and through any handle, stale   *)
(* or closed ones included.                                                *)
(***************************************************************************)
EXTENDS Integers, Sequences, FiniteSets, FiniteSetsExt

CONSTANTS
  MAX_FILES, MAX_FILE_SIZE,
  MAX_HANDLES,        \* entries of file_handles
  ShortNames,         \* names that fit name[MAX_FILENAME_LENGTH] with their NUL
  LongNames,          \* names of 16 to 35 characters
  README, WELCOME, DOCS,            \* names of the demo files
  README_TEXT, WELCOME_TEXT,        \* their contents
  Bytes, Buffers,     \* byte values and the byte sequences clients write
  WORD                \* uint32_t arithmetic is modulo WORD

Slots   == 0 .. MAX_FILES - 1
Handles == 0 .. MAX_HANDLES - 1
Names   == ShortNames \cup LongNames
DATA    == 0 .. MAX_FILES * MAX_FILE_SIZE - 1

FILE_TYPE_REGULAR   == 1
FILE_TYPE_DIRECTORY == 2
Types == {FILE_TYPE_REGULAR, FILE_TYPE_DIRECTORY}

(* A long name runs over type and permissions, which are stored after it   *)
(* and replace its 17th and 18th bytes (its NUL, if it is 16 or 17 long)   *)
(* by 1 and 3.  The keyboard types no such bytes, so whatever the rest of  *)
(* the stored name is, it equals no name a client passes.                  *)
GARBLED == "garbled"

(* The name of an entry that fs_memset has cleared *)
EMPTY == ""

(* What clients write: as much as they like short of 2^32 less a file's    *)
(* size, where the sum of position and size in fs_write_file would wrap.   *)
(* The largest write in src/ is edit's, of at most 511 bytes, and no       *)
(* buffer of nearly 4 GB fits the machine.                                 *)
Writable == {buffer \in Seq(Bytes) : MAX_FILE_SIZE + Len(buffer) < WORD}

ASSUME FileSystemAssumption ==
  /\ MAX_FILES \in Nat /\ MAX_FILE_SIZE \in Nat /\ MAX_HANDLES \in Nat
  /\ MAX_FILE_SIZE > 0
  /\ GARBLED \notin Names /\ EMPTY \notin Names
  /\ ShortNames \cap LongNames = {}
  /\ {README, WELCOME, DOCS} \subseteq ShortNames
  /\ WORD \in Nat /\ WORD > 0 /\ 0 \in Bytes
  /\ Buffers \cup {README_TEXT, WELCOME_TEXT} \subseteq Writable

VARIABLE fs    \* the file system and the handles: see Unmounted

-----------------------------------------------------------------------------
(* Operators named Bug_... are deliberate mistakes, each a plausible slip  *)
(* in the definition it precedes; no action uses them.                     *)
NoEntry == [name |-> EMPTY, type |-> 0, size |-> 0, data_offset |-> 0,
            in_use |-> FALSE]

ClosedHandle == [file_index |-> -1, position |-> 0, is_open |-> FALSE]

(* Static storage before fs_init; ready is "fs is not NULL". *)
Unmounted ==
  [ready |-> FALSE, used_files |-> 0, used_size |-> 0,
   files |-> [i \in Slots |-> NoEntry], data_area |-> [d \in DATA |-> 0],
   file_handles |-> [k \in Handles |->
                       [file_index |-> 0, position |-> 0, is_open |-> FALSE]]]

Least(S) == CHOOSE i \in S : \A j \in S : i <= j

(* The entries in use whose stored name is name *)
Matching(s, name) == {i \in Slots : s.files[i].in_use /\ s.files[i].name = name}

fs_file_exists(s, name) == s.ready /\ Matching(s, name) # {}

StoredName(name) == IF name \in LongNames THEN GARBLED ELSE name

NewEntry(i, name, type) ==
  [name |-> StoredName(name), type |-> type, size |-> 0,
   data_offset |-> i * MAX_FILE_SIZE, in_use |-> TRUE]

Bug_CreateNoExistsCheck(s, name, type) ==
  LET free == {i \in Slots : ~s.files[i].in_use}
      i    == Least(free)
  IN IF ~s.ready THEN [fs |-> s, result |-> -1]
     ELSE IF free = {} THEN [fs |-> s, result |-> -3]
     ELSE [fs |-> [s EXCEPT !.files[i] = NewEntry(i, name, type),
                            !.used_files = @ + 1],
           result |-> i]

Bug_CreateOffset(s, name, type) ==
  LET free == {i \in Slots : ~s.files[i].in_use}
      i    == Least(free)
  IN IF ~s.ready THEN [fs |-> s, result |-> -1]
     ELSE IF fs_file_exists(s, name) THEN [fs |-> s, result |-> -2]
     ELSE IF free = {} THEN [fs |-> s, result |-> -3]
     ELSE [fs |-> [s EXCEPT !.files[i] = [NewEntry(i, name, type)
                                            EXCEPT !.data_offset = s.used_files],
                            !.used_files = @ + 1],
           result |-> i]

FsCreate(s, name, type) ==
  LET free == {i \in Slots : ~s.files[i].in_use}
      i    == Least(free)
  IN IF ~s.ready THEN [fs |-> s, result |-> -1]
     ELSE IF fs_file_exists(s, name) THEN [fs |-> s, result |-> -2]
     ELSE IF free = {} THEN [fs |-> s, result |-> -3]
     ELSE [fs |-> [s EXCEPT !.files[i] = NewEntry(i, name, type),
                            !.used_files = @ + 1],
           result |-> i]

Bug_DeleteUncounted(s, name) ==
  LET i == Least(Matching(s, name))
  IN IF ~s.ready THEN [fs |-> s, result |-> -1]
     ELSE IF Matching(s, name) = {} THEN [fs |-> s, result |-> -2]
     ELSE [fs |-> [s EXCEPT !.files[i] = NoEntry], result |-> 0]

(* The entry is cleared before its size is subtracted, so that 0 is        *)
(* subtracted.                                                             *)
FsDelete(s, name) ==
  LET i       == Least(Matching(s, name))
      cleared == [s EXCEPT !.files[i] = NoEntry, !.used_files = @ - 1]
  IN IF ~s.ready THEN [fs |-> s, result |-> -1]
     ELSE IF Matching(s, name) = {} THEN [fs |-> s, result |-> -2]
     ELSE [fs |-> [cleared EXCEPT
                     !.used_size = (@ - cleared.files[i].size) % WORD],
           result |-> 0]

NO_HANDLE == -1   \* the NULL handle

FsOpen(s, name) ==
  LET free == {k \in Handles : ~s.file_handles[k].is_open}
      k    == Least(free)
  IN IF ~s.ready \/ Matching(s, name) = {} \/ free = {}
     THEN [fs |-> s, handle |-> NO_HANDLE]
     ELSE [fs |-> [s EXCEPT !.file_handles[k] =
                     [file_index |-> Least(Matching(s, name)), position |-> 0,
                      is_open |-> TRUE]],
           handle |-> k]

FsClose(s, k) ==
  IF k \in Handles /\ s.file_handles[k].is_open
  THEN [s EXCEPT !.file_handles[k] = ClosedHandle] ELSE s

(* The checks with which fs_read_file, fs_write_file and fs_seek_file begin *)
Usable(s, k) ==
  /\ k \in Handles /\ s.file_handles[k].is_open /\ s.ready
  /\ s.files[s.file_handles[k].file_index].in_use

FsRead(s, k, size) ==
  LET hd    == s.file_handles[k]
      file  == s.files[hd.file_index]
      avail == file.size - hd.position
      n     == IF size < avail THEN size ELSE avail
  IN IF ~Usable(s, k) THEN [fs |-> s, result |-> -1, buffer |-> <<>>]
     ELSE IF hd.position >= file.size THEN [fs |-> s, result |-> 0, buffer |-> <<>>]
     ELSE [fs |-> [s EXCEPT !.file_handles[k].position = @ + n], result |-> n,
           buffer |-> [x \in 1 .. n |->
                         s.data_area[file.data_offset + hd.position + x - 1]]]

Bug_NoClamp(position, size) == size

(* A write is cut at the end of the file's slot, in 32 bits. *)
Clamp(position, size) ==
  IF (position + size) % WORD > MAX_FILE_SIZE
  THEN (MAX_FILE_SIZE - position) % WORD ELSE size

Bug_GrowCountsAll(s, i, end) ==
  IF end > s.files[i].size
  THEN [s EXCEPT !.used_size = (@ + end) % WORD, !.files[i].size = end]
  ELSE s

(* A write past the end of the file makes it longer. *)
Grow(s, i, end) ==
  IF end > s.files[i].size
  THEN [s EXCEPT !.used_size = (@ + end - s.files[i].size) % WORD, !.files[i].size = end]
  ELSE s

FsWrite(s, k, buffer) ==
  LET hd   == s.file_handles[k]
      i    == hd.file_index
      n    == Clamp(hd.position, Len(buffer))
      end  == (hd.position + n) % WORD
      base == s.files[i].data_offset + hd.position
  IN IF ~Usable(s, k) THEN [fs |-> s, result |-> -1]
     ELSE IF n = 0 THEN [fs |-> s, result |-> 0]
     ELSE [fs |-> Grow([s EXCEPT
                          !.data_area = [d \in DATA \cup base .. base + n - 1 |->
                             IF d \in base .. base + n - 1 THEN buffer[d - base + 1]
                             ELSE s.data_area[d]],
                          !.file_handles[k].position = end],
                       i, end),
           result |-> n]

Bug_SeekUnchecked(s, k, position) ==
  IF ~Usable(s, k) THEN [fs |-> s, result |-> -1]
  ELSE [fs |-> [s EXCEPT !.file_handles[k].position = position], result |-> 0]

FsSeek(s, k, position) ==
  IF ~Usable(s, k) \/ position > s.files[s.file_handles[k].file_index].size
  THEN [fs |-> s, result |-> -1]
  ELSE [fs |-> [s EXCEPT !.file_handles[k].position = position], result |-> 0]

(* Open a file, write to it, close it: nothing is written if the open      *)
(* fails.                                                                  *)
Store(s, name, buffer) ==
  LET o == FsOpen(s, name)
  IN IF o.handle = NO_HANDLE THEN s
     ELSE FsClose(FsWrite(o.fs, o.handle, buffer).fs, o.handle)

(* fs_init once kmalloc has given it the memory *)
FsInit ==
  LET s0 == [Unmounted EXCEPT !.ready = TRUE,
                              !.file_handles = [k \in Handles |-> ClosedHandle]]
      s1 == FsCreate(s0, README, FILE_TYPE_REGULAR).fs
      s2 == FsCreate(s1, WELCOME, FILE_TYPE_REGULAR).fs
      s3 == FsCreate(s2, DOCS, FILE_TYPE_DIRECTORY).fs
  IN Store(Store(s3, README, README_TEXT), WELCOME, WELCOME_TEXT)

-----------------------------------------------------------------------------
Init == fs = Unmounted

(* kmalloc may fail, and then every later call finds fs = NULL. *)
fs_init ==
  /\ ~fs.ready
  /\ fs' \in {FsInit, fs}

fs_create_file(name, type) == fs' = FsCreate(fs, name, type).fs
fs_delete_file(name) == fs' = FsDelete(fs, name).fs
fs_open_file(name) == fs' = FsOpen(fs, name).fs
fs_close_file(k) == fs' = FsClose(fs, k)
fs_read_file(k, size) == fs' = FsRead(fs, k, size).fs
fs_write_file(k, buffer) == fs' = FsWrite(fs, k, buffer).fs
fs_seek_file(k, position) == fs' = FsSeek(fs, k, position).fs

(* A client passes a handle it was given, now or long ago, or NULL; only   *)
(* fs_init creates directories.                                            *)
Next ==
  \/ fs_init
  \/ \E name \in Names : fs_create_file(name, FILE_TYPE_REGULAR)
  \/ \E name \in Names : fs_delete_file(name) \/ fs_open_file(name)
  \/ \E k \in Handles \cup {NO_HANDLE} :
       \/ fs_close_file(k)
       \/ \E n \in 0 .. MAX_FILE_SIZE + 1 : fs_read_file(k, n) \/ fs_seek_file(k, n)
       \/ \E buffer \in Buffers : fs_write_file(k, buffer)

Spec == Init /\ [][Next]_fs
-----------------------------------------------------------------------------
Entry == [name : Names \cup {GARBLED, EMPTY}, type : Types \cup {0}, size : Nat,
          data_offset : Nat, in_use : BOOLEAN]

Handle == [file_index : Slots \cup {-1, 0}, position : Nat, is_open : BOOLEAN]

(* Type invariant: the state has the C types of filesystem_t and           *)
(* file_handle_t; no write falls outside data_area.                        *)
TypeOK ==
  /\ fs \in [ready : BOOLEAN, used_files : Int, used_size : 0 .. WORD - 1,
             files : [Slots -> Entry], data_area : [DATA -> Bytes],
             file_handles : [Handles -> Handle]]

(* Every read and write stays inside the slot of its file, through every   *)
(* handle, also one whose file was deleted and whose slot holds another    *)
(* file by now: an open handle points to an entry of the table and not     *)
(* beyond its slot, and each file in use fills no more than its own slot.  *)
AccessInSlot ==
  /\ \A k \in Handles : fs.file_handles[k].is_open =>
       /\ fs.file_handles[k].file_index \in Slots
       /\ fs.file_handles[k].position \in 0 .. MAX_FILE_SIZE
  /\ \A i \in Slots : fs.files[i].in_use =>
       /\ fs.files[i].size \in 0 .. MAX_FILE_SIZE
       /\ fs.files[i].data_offset = i * MAX_FILE_SIZE

(* used_files, which fsinfo prints, is the number of entries in use after  *)
(* any mix of creates and deletes, failed ones included.                   *)
UsedFilesCounted ==
  fs.used_files = Cardinality({i \in Slots : fs.files[i].in_use})

(* No name is found in two entries, so that open, delete and the size      *)
(* query agree on which file a name means.                                 *)
UniqueNames ==
  \A i, j \in Slots :
    fs.files[i].in_use /\ fs.files[j].in_use /\ fs.files[i].name = fs.files[j].name
      => i = j \/ fs.files[i].name = GARBLED

SlotOf(d) == d \div MAX_FILE_SIZE

(* A byte of the data area changes only in the slot of a file in use that  *)
(* some open handle points to: writing one file never touches another, and *)
(* a deleted file's slot is not written until it is a file again.          *)
WritesIsolated ==
  [][fs.ready => \A d \in DATA : fs'.data_area[d] # fs.data_area[d] =>
       /\ fs.files[SlotOf(d)].in_use
       /\ \E k \in Handles : /\ fs.file_handles[k].is_open
                             /\ fs.file_handles[k].file_index = SlotOf(d)]_fs

(* What fsinfo prints as used bytes, less what the files hold *)
Surplus(s) ==
  (s.used_size - MapThenSumSet(LAMBDA i : s.files[i].size,
                               {i \in Slots : s.files[i].in_use})) % WORD

(* Unless a file is deleted, used_size changes by what the files do,       *)
(* whichever handle writes and whether it overwrites or extends.  (A       *)
(* deleted file stays in used_size: see FsDelete.)                         *)
UsedSizeFollows ==
  [][fs.ready /\ (\A i \in Slots : fs.files[i].in_use => fs'.files[i].in_use)
       => Surplus(fs') = Surplus(fs)]_fs
=============================================================================
