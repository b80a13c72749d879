------------------------------- MODULE MCHeap -------------------------------
(* Small instances of Heap: real header size, slack and alignment, a heap  *)
(* of a few headers, and an address width a little above its end.          *)
EXTENDS Heap

MCTestSizes == <<24, 60>>
=============================================================================
