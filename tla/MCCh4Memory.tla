---------------------------- MODULE MCCh4Memory ----------------------------
(* Instances of chapter 4 for TLC.                                        *)
EXTENDS Ch4Memory

(* The memory tests in the order of the images, any three of them, and an *)
(* image of programs that make other calls.                               *)
TestOrder ==
    <<"ch3_trace", "ch4_mmap", "ch4_mmap1", "ch4_mmap2", "ch4_mmap3",
      "ch4_unmap", "ch4_unmap2", "ch4_trace", "sbrk">>

TestBuilds ==
    {[a \in App |-> CASE a = 1 -> TestOrder[i] [] a = 2 -> TestOrder[j] [] a = 3 -> TestOrder[k]] :
        <<i, j, k>> \in {t \in (1..9) \X (1..9) \X (1..9) : t[1] < t[2] /\ t[2] < t[3]}}

SomeBuilds == TestBuilds \cup {[a \in App |-> "any"]}
=============================================================================
