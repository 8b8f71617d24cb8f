----------------------------- MODULE MCCh5Kernel -----------------------------
(* Instances of the chapter 5 kernel for TLC.                              *)
EXTENDS Ch5Kernel
=============================================================================
