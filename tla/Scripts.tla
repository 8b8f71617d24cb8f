------------------------------ MODULE Scripts ------------------------------
(* Programs as sequences of instructions: what UserThreads, UserProcesses  *)
(* and Ch4Memory have in common.                                           *)
EXTENDS Integers, Sequences, SequencesExt

(* A loop whose rounds are all alike, and one over 1..n, both unrolled.    *)
Times(n, s) == FlattenSeq([i \in 1..n |-> s])

ForEach(n, F(_)) == FlattenSeq([i \in 1..n |-> F(i)])

(* exit, and a return from main: _start of lib.rs exits with its value.    *)
Exit(c) == <<"exit", c>>

(* assert!, assert_eq! and conditions that lead to a panic!.               *)
Check(claim, x) == <<"assert", claim, x>>
=============================================================================
