----------------------------- MODULE ShellFiles -----------------------------
(***************************************************************************)
(* The file commands of shell_execute_command (src/src/drivers/shell/      *)
(* shell.c) on top of FileSystem: each command is one action, since        *)
(* nothing else runs in the kernel while it calls filesystem.c.            *)
(***************************************************************************)
EXTENDS FileSystem

CONSTANTS
  DEFAULT_TEXT,   \* what create writes into a new file
  CAT_MAX,        \* bytes cat reads, sizeof(buffer) - 1
  EDIT_MAX        \* bytes edit takes, sizeof(file_content) - 1

ASSUME ShellFilesAssumption ==
  /\ DEFAULT_TEXT \in Writable /\ DEFAULT_TEXT \in Seq(Bytes \ {0})
  /\ CAT_MAX \in Nat /\ EDIT_MAX \in Nat

VARIABLE shown    \* what the last command told its user

shellVars == <<fs, shown>>

(* A message, without the file name it repeats, and the data it shows *)
Answer(says, data) == [says |-> says, data |-> data]

(* What the edit loop can collect before ESC or a full buffer *)
Typed == {buffer \in Buffers : Len(buffer) <= EDIT_MAX}

(* kernel_main runs fs_init before the shell; its kmalloc may fail. *)
ShellInit ==
  /\ fs \in {FsInit, Unmounted}
  /\ shown = Answer("boot", <<>>)

create(name) ==
  LET c == FsCreate(fs, name, FILE_TYPE_REGULAR)
  IN /\ fs' = IF c.result >= 0 THEN Store(c.fs, name, DEFAULT_TEXT) ELSE c.fs
     /\ shown' = Answer(IF c.result >= 0 THEN "created"
                        ELSE IF c.result = -2 THEN "exists" ELSE "failed", <<>>)

delete(name) ==
  LET d == FsDelete(fs, name)
  IN /\ fs' = d.fs
     /\ shown' = Answer(IF d.result = 0 THEN "deleted" ELSE "not found", <<>>)

Bug_CatNoClose(name) ==
  LET o == FsOpen(fs, name)
      r == FsRead(o.fs, o.handle, CAT_MAX)
  IN IF o.handle = NO_HANDLE
     THEN UNCHANGED fs /\ shown' = Answer("not found", <<>>)
     ELSE /\ fs' = r.fs
          /\ shown' = IF r.result > 0 THEN Answer("content", r.buffer)
                      ELSE Answer("empty", <<>>)

cat(name) ==
  LET o == FsOpen(fs, name)
      r == FsRead(o.fs, o.handle, CAT_MAX)
  IN IF o.handle = NO_HANDLE
     THEN UNCHANGED fs /\ shown' = Answer("not found", <<>>)
     ELSE /\ fs' = FsClose(r.fs, o.handle)
          /\ shown' = IF r.result > 0 THEN Answer("content", r.buffer)
                      ELSE Answer("empty", <<>>)

Bug_EditInPlace(name, text) ==
  LET c == FsCreate(fs, name, FILE_TYPE_REGULAR)
  IN IF c.result < 0 /\ c.result # -2
     THEN fs' = c.fs /\ shown' = Answer("silence", <<>>)
     ELSE fs' = Store(c.fs, name, text) /\ shown' = Answer("saved", <<>>)

(* edit creates the file, or deletes and creates it again if there was     *)
(* one; it says something only if it could open what it created.           *)
edit(name, text) ==
  LET c1 == FsCreate(fs, name, FILE_TYPE_REGULAR)
      c2 == IF c1.result = -2
            THEN FsCreate(FsDelete(c1.fs, name).fs, name, FILE_TYPE_REGULAR)
            ELSE c1
      saved == c2.result >= 0 /\ FsOpen(c2.fs, name).handle # NO_HANDLE
  IN /\ fs' = IF saved THEN Store(c2.fs, name, text) ELSE c2.fs
     /\ shown' = Answer(IF saved THEN "saved" ELSE "silence", <<>>)

(* fs_list_files: name, type and size of each entry in use *)
ls ==
  /\ UNCHANGED fs
  /\ shown' = IF ~fs.ready THEN Answer("not initialized", <<>>)
              ELSE Answer("listing",
                     {<<fs.files[i].name, fs.files[i].type, fs.files[i].size>> :
                        i \in {j \in Slots : fs.files[j].in_use}})

(* A uint32_t printed through an int: no digit if that is negative, nor    *)
(* for 0.                                                                  *)
Printed(n) == IF 2 * n < WORD THEN n ELSE 0

(* fs_print_info: files and bytes in use, as they are counted *)
fsinfo ==
  /\ UNCHANGED fs
  /\ shown' = IF ~fs.ready THEN Answer("not initialized", <<>>)
              ELSE Answer("info", <<fs.used_files, Printed(fs.used_size)>>)

ShellNext ==
  \/ \E name \in Names : create(name) \/ delete(name) \/ cat(name)
  \/ \E name \in Names, text \in Typed : edit(name, text)
  \/ ls \/ fsinfo

ShellSpec == ShellInit /\ [][ShellNext]_shellVars
-----------------------------------------------------------------------------
(* No command leaves a handle open: after eight that did, every cat and    *)
(* every save would fail.                                                  *)
NoHandleLeak == \A k \in Handles : ~fs.file_handles[k].is_open

(* The file a user reads under a name *)
Content(s, i) ==
  [x \in 1 .. s.files[i].size |-> s.data_area[s.files[i].data_offset + x - 1]]

Found(s) == {s.files[i].name : i \in {j \in Slots : s.files[j].in_use}}

Files(s) ==
  [name \in Found(s) |->
     LET i == Least(Matching(s, name))
     IN [type |-> s.files[i].type, text |-> Content(s, i)]]

DemoFiles ==
  [name \in {README, WELCOME, DOCS} |->
     CASE name = README  -> [type |-> FILE_TYPE_REGULAR, text |-> README_TEXT]
       [] name = WELCOME -> [type |-> FILE_TYPE_REGULAR, text |-> WELCOME_TEXT]
       [] name = DOCS    -> [type |-> FILE_TYPE_DIRECTORY, text |-> <<>>]]

FS == INSTANCE FileStore WITH
  Texts <- Typed, Capacity <- MAX_FILES, Demo <- DemoFiles,
  DefaultText <- DEFAULT_TEXT, Regular <- FILE_TYPE_REGULAR,
  Directory <- FILE_TYPE_DIRECTORY, Word <- WORD,
  DemoBytes <- (Len(README_TEXT) + Len(WELCOME_TEXT)) % WORD,
  mounted <- fs.ready, store <- Files(fs), used <- fs.used_size

(* With the sizes of the code every text fits its file and the buffer of   *)
(* cat (511 bytes are typed and shown, a file has 1024), and the three     *)
(* demo files fit the table.  Names are at most 15 characters long here.   *)
FilesFit ==
  /\ LongNames = {} /\ MAX_FILES >= 3 /\ MAX_HANDLES >= 1
  /\ README # WELCOME /\ README # DOCS /\ WELCOME # DOCS
  /\ \A text \in Typed \cup {DEFAULT_TEXT, README_TEXT, WELCOME_TEXT} :
       Len(text) <= MAX_FILE_SIZE /\ Len(text) <= CAT_MAX

(* For names that fit their field the commands implement the store: cat    *)
(* shows what was saved last and no byte of an older file, edit replaces   *)
(* all of a file, a full table loses nothing but the new file, and the     *)
(* slots, handles and failed calls in between are not seen.                *)
ImplementsFileStore == FS!Spec
=============================================================================
