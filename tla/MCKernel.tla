------------------------------ MODULE MCKernel ------------------------------
(* A heap that holds the file system and both blocks of memtest. *)
EXTENDS Kernel

MCTestSizes == <<8, 16>>
=============================================================================
