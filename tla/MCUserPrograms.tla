--------------------------- MODULE MCUserPrograms ---------------------------
(***************************************************************************)
(* The user programs for TLC: in a behaviour either a program with threads *)
(* runs (UserThreads), or programs with processes (UserProcesses).         *)
(***************************************************************************)
EXTENDS UserThreads, UserProcesses

(* Tests for the usertests to run: one that forks itself, and two others.  *)
SomeTests == <<"fork_exit", "any", "any">>

(* Enter alone, a name that is not there, and two programs.                *)
SomeLines == {"", "absent", "forktest_simple", "any"}

ThreadsOff == test = "none" /\ ThreadsAtStart({})
ProcessesOff == line = [p \in Pid |-> "none"] /\ ProcessesAtStart

Init == (ThreadInit /\ ProcessesOff) \/ (ProcessInit /\ ThreadsOff)

Next ==
    \/ test # "none" /\ ThreadNext /\ UNCHANGED pvars
    \/ test = "none" /\ ProcessNext /\ UNCHANGED tvars

vars == <<tvars, pvars>>

(* A thread or process that can take a step takes one in the end: the      *)
(* kernel goes round its queue.                                            *)
Fairness ==
    /\ \A t \in Thread :
          WF_vars(test # "none" /\ ThreadStep(t) /\ UNCHANGED pvars)
    /\ \A p \in Pid :
          WF_vars(test = "none" /\ ProcessStep(p) /\ UNCHANGED tvars)

Spec == Init /\ [][Next]_vars /\ Fairness

TypeOK == ThreadTypeOK /\ ProcessTypeOK

(* Every program ends, whatever it waits for: forks, units, a signal,      *)
(* threads, children, bytes or the end of a file.                          *)
AllTestsEnd == <>(IF test = "none" THEN AllDone ELSE 0 \in exited)
=============================================================================
