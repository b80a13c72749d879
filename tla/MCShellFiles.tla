---------------------------- MODULE MCShellFiles ----------------------------
(* Three slots, four names: the table fills up, and a slot is reused by    *)
(* shorter and longer files than the one deleted from it.                  *)
EXTENDS ShellFiles

MCBuffers == {<<>>, <<2, 1>>}
MCReadme  == <<1>>
MCWelcome == <<1>>
MCDefault == <<1, 1>>

ASSUME FilesFit
=============================================================================
