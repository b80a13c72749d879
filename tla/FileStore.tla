------------------------------ MODULE FileStore ------------------------------
(***************************************************************************)
(* What the shell's file commands promise their user: a store of named     *)
(* texts with room for Capacity of them, and the answer each command gives *)
(* on the screen.  There are no slots, handles or stale bytes here.        *)
(***************************************************************************)
EXTENDS Integers, FiniteSets, Sequences

CONSTANTS
  Names, Texts,   \* file names, and the texts a user may type into edit
  Capacity,       \* files the store holds
  Demo,           \* the store a successful boot starts with
  DemoBytes,      \* the bytes that boot has written into it
  Word,           \* the count of bytes is modulo Word
  DefaultText,    \* what create puts into a new file
  Directory, Regular

VARIABLES
  mounted,   \* FALSE if boot could not set up the store
  store,     \* name -> [type, text]
  used,      \* bytes of all texts ever saved, also of those replaced and deleted
  shown      \* the answer to the last command

vars == <<mounted, store, used, shown>>

Answer(says, data) == [says |-> says, data |-> data]

Put(n, text) ==
  [m \in DOMAIN store \cup {n} |->
     IF m = n THEN [type |-> Regular, text |-> text] ELSE store[m]]

HasRoom == Cardinality(DOMAIN store) < Capacity

Nothing == [n \in {} |-> <<>>]

Init ==
  /\ \/ mounted = TRUE /\ store = Demo /\ used = DemoBytes
     \/ mounted = FALSE /\ store = Nothing /\ used = 0
  /\ shown = Answer("boot", <<>>)

(* Each command is given by its answers: what the user is told, when, and  *)
(* what becomes of the store.                                              *)
Say(says, data) == shown' = Answer(says, data)

Keep == UNCHANGED <<mounted, store, used>>

Count(text) == used' = (used + Len(text)) % Word

Create(n) ==
  \/ Say("exists", <<>>) /\ n \in DOMAIN store /\ Keep
  \/ Say("failed", <<>>) /\ n \notin DOMAIN store /\ ~(mounted /\ HasRoom) /\ Keep
  \/ /\ Say("created", <<>>)
     /\ n \notin DOMAIN store /\ mounted /\ HasRoom
     /\ store' = Put(n, DefaultText) /\ Count(DefaultText)
     /\ UNCHANGED mounted

Delete(n) ==
  \/ Say("not found", <<>>) /\ n \notin DOMAIN store /\ Keep
  \/ /\ Say("deleted", <<>>)
     /\ n \in DOMAIN store
     /\ store' = [m \in DOMAIN store \ {n} |-> store[m]]
     /\ UNCHANGED <<mounted, used>>

Cat(n) ==
  \/ Say("not found", <<>>) /\ n \notin DOMAIN store /\ Keep
  \/ Say("empty", <<>>) /\ n \in DOMAIN store /\ store[n].text = <<>> /\ Keep
  \/ /\ n \in DOMAIN store /\ store[n].text # <<>>
     /\ Say("content", store[n].text)
     /\ Keep

(* edit replaces the whole text, and makes a directory a regular file; on  *)
(* a full store a new file is lost without a word.                         *)
Edit(n, text) ==
  \/ Say("silence", <<>>) /\ n \notin DOMAIN store /\ ~(mounted /\ HasRoom) /\ Keep
  \/ /\ Say("saved", <<>>)
     /\ mounted /\ (n \in DOMAIN store \/ HasRoom)
     /\ store' = Put(n, text) /\ Count(text)
     /\ UNCHANGED mounted

Ls ==
  \/ Say("not initialized", <<>>) /\ ~mounted /\ Keep
  \/ /\ mounted
     /\ Say("listing", {<<n, store[n].type, Len(store[n].text)>> : n \in DOMAIN store})
     /\ Keep

(* A number from the middle of its range on is not printed, as 0 is not. *)
Printed(n) == IF 2 * n < Word THEN n ELSE 0

(* The files, and the bytes ever saved: neither delete nor edit takes the  *)
(* old text out of the count.                                              *)
Fsinfo ==
  \/ Say("not initialized", <<>>) /\ ~mounted /\ Keep
  \/ mounted /\ Say("info", <<Cardinality(DOMAIN store), Printed(used)>>) /\ Keep

Next ==
  \/ \E n \in Names : Create(n) \/ Delete(n) \/ Cat(n)
  \/ \E n \in Names, text \in Texts : Edit(n, text)
  \/ Ls \/ Fsinfo

Spec == Init /\ [][Next]_vars
=============================================================================
