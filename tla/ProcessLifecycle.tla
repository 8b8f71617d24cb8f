--------------------------- MODULE ProcessLifecycle ---------------------------
(***************************************************************************)
(* What the process syscalls of chapter 5 promise their users, without the *)
(* kernel that keeps the promise: a process is born once under a live      *)
(* parent, ends once with one code, and its end is reported once, to the   *)
(* process that is its parent when it ends.  A process whose parent ends   *)
(* first becomes a child of initproc; an unreported end is forgotten with  *)
(* the parent it was kept for.                                             *)
(***************************************************************************)
CONSTANTS
    Proc,    \* the pids
    First,   \* the pid of initproc
    Nobody,  \* not a pid: the parent of initproc
    Code,    \* the codes a process may end with
    NoCode   \* not a code: the process has not ended

VARIABLES
    life,   \* of a pid: "unborn", "live", "zombie" or "gone"
    owner,  \* the parent of a live process or a zombie
    code    \* the code a process ended with

vars == <<life, owner, code>>

Owned(p, what) == {q \in Proc : life[q] \in what /\ owner[q] = p}

Init ==
    /\ life = [q \in Proc |-> IF q = First THEN "live" ELSE "unborn"]
    /\ owner = [q \in Proc |-> Nobody]
    /\ code = [q \in Proc |-> NoCode]

Birth(p, q) ==
    /\ life[p] = "live"
    /\ life[q] = "unborn"
    /\ life' = [life EXCEPT ![q] = "live"]
    /\ owner' = [owner EXCEPT ![q] = p]
    /\ UNCHANGED code

(* initproc only ends when it has nobody left to wait for.                 *)
Finish(q, c) ==
    /\ life[q] = "live"
    /\ q = First => Owned(q, {"live", "zombie"}) = {}
    /\ life' = [r \in Proc |->
                  IF r = q THEN IF q = First THEN "gone" ELSE "zombie"
                  ELSE IF r \in Owned(q, {"zombie"}) THEN "gone"
                  ELSE life[r]]
    /\ owner' = [r \in Proc |->
                   IF r \in Owned(q, {"live"}) THEN First
                   ELSE IF r \in Owned(q, {"zombie"}) THEN Nobody
                   ELSE owner[r]]
    /\ code' = [code EXCEPT ![q] = c]

Reap(p, q) ==
    /\ life[p] = "live"
    /\ q \in Owned(p, {"zombie"})
    /\ life' = [life EXCEPT ![q] = "gone"]
    /\ owner' = [owner EXCEPT ![q] = Nobody]
    /\ UNCHANGED code

Next ==
    \E q \in Proc :
        \/ \E p \in Proc : Birth(p, q) \/ Reap(p, q)
        \/ \E c \in Code : Finish(q, c)

Spec == Init /\ [][Next]_vars
=============================================================================
