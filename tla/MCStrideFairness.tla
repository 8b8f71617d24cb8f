--------------------------- MODULE MCStrideFairness ---------------------------
(* Instances of StrideFairness for TLC.                                    *)
EXTENDS StrideFairness
=============================================================================
