---------------------------- MODULE MCBuddyLists ----------------------------
(* An instance of the free lists for TLC.                                  *)
EXTENDS BuddyLists

(* Sizes 0, 1, around the powers of two, and beyond the largest block;     *)
(* alignments below and above the size.                                    *)
SomeLayouts == {<<0, 1>>, <<3, 1>>, <<1, 4>>, <<8, 2>>, <<9, 1>>}
=============================================================================
