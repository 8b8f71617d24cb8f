---------------------------- MODULE StrideFairness ----------------------------
(***************************************************************************)
(* Long-run behaviour of the stride scheduler: a fixed set of processes    *)
(* that are dispatched, call the kernel and are queued again, for ever.    *)
(* Strides grow without end, but fetch only compares them, so they are     *)
(* kept here relative to the smallest one; Ch5Kernel has them absolute,    *)
(* with their overflow.                                                    *)
(***************************************************************************)
EXTENDS StrideScheduler, FiniteSetsExt

CONSTANT NoProc

ASSUME NoProcAssumption == NoProc \notin Nat

VARIABLE current

vars == <<schedVars, current>>

Init ==
    /\ tasks = Pid
    /\ stride = [p \in Pid |-> 0]
    /\ priority = [p \in Pid |-> InitPriority]
    /\ ready_queue = [i \in 1..MaxPid + 1 |-> i - 1]
    /\ current = NoProc

Relative(s) == [p \in Pid |-> s[p] - Min({s[q] : q \in Pid})]

Dispatch ==
    /\ current = NoProc
    /\ ready_queue # <<>>
    /\ current' = Fetched
    /\ ready_queue' = RemoveAt(ready_queue, MinIndex)
    /\ stride' = Relative([stride EXCEPT ![Fetched] = @ + Pass(priority[Fetched])])
    /\ UNCHANGED <<tasks, priority>>

Suspend ==
    /\ current # NoProc
    /\ add(current)
    /\ current' = NoProc

(* Any syscall but set_priority, or set_priority with less than 2.         *)
Call ==
    /\ Suspend
    /\ UNCHANGED <<tasks, stride, priority>>

SetPriority ==
    /\ Suspend
    /\ \E prio \in Priorities : priority' = [priority EXCEPT ![current] = prio]
    /\ UNCHANGED <<tasks, stride>>

Next == Dispatch \/ Call \/ SetPriority

(* The loop of rust_main never stops, and every process traps again.       *)
FairSpec == Init /\ [][Next]_vars /\ WF_vars(Next)

-----------------------------------------------------------------------------
(* The strides of processes that live together stay within one maximal     *)
(* pass of each other, so that the scheduler's state cannot drift.         *)
StridesTogether == \A p, q \in Pid : stride[p] - stride[q] <= MaxPass

(* Every process is dispatched again and again, whatever priorities the    *)
(* others give themselves.                                                 *)
AllGetTurns == \A p \in Pid : []<>(current = p)
=============================================================================
