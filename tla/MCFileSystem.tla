---------------------------- MODULE MCFileSystem ----------------------------
(* A file system of two slots of two bytes and two handles. *)
EXTENDS FileSystem

MCBuffers == {<<>>, <<1>>, <<1, 1, 1>>}
MCReadme  == <<1>>
MCWelcome == <<1>>
=============================================================================
