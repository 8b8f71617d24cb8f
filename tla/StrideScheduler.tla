--------------------------- MODULE StrideScheduler ---------------------------
(***************************************************************************)
(* ProcManager of chapter 5 (os/ch5/src/processor.rs): the map of tasks    *)
(* and the ready queue from which the process with the smallest stride is  *)
(* taken.  Kernel modules extend this one; each operation is an action on  *)
(* the variables it touches, so that a syscall handler can conjoin them.   *)
(***************************************************************************)
EXTENDS Integers, Sequences, SequencesExt

CONSTANTS
    MaxPid,      \* bound: the pids ProcId::new hands out are 0..MaxPid
    BIG_STRIDE,  \* the numerator of a pass (0x7fff_ffff in the source)
    UsizeMax,    \* usize::MAX; a stride beyond it overflows
    Priorities,  \* the priorities a process may hold
    InitPriority \* the one from_elf sets (16 in the source)

ASSUME PidAssumption == MaxPid \in Nat

ASSUME StrideAssumption ==
    /\ BIG_STRIDE \in Nat
    /\ UsizeMax \in Nat
    /\ Priorities \subseteq {n \in Nat : n >= 2}
    /\ InitPriority \in Priorities

VARIABLES
    tasks,       \* keys of the BTreeMap: the pids that have a Process
    stride,      \* Process.stride
    priority,    \* Process.priority
    ready_queue  \* the VecDeque of ready pids

Pid == 0..MaxPid

schedVars == <<tasks, stride, priority, ready_queue>>

(* Mutants: a numerator too small for the priorities; the sign is wrong.   *)
CoarsePass(prio) == (BIG_STRIDE \div 2) \div prio
NegativePass(prio) == -(BIG_STRIDE \div prio)

(* What one dispatch adds to the stride of a process of priority prio.     *)
Pass(prio) == BIG_STRIDE \div prio

(* The largest pass: priorities below 2 are refused by set_priority.       *)
MaxPass == BIG_STRIDE \div 2

-----------------------------------------------------------------------------
insert(id, s, prio) ==
    /\ tasks' = tasks \cup {id}
    /\ stride' = [stride EXCEPT ![id] = s]
    /\ priority' = [priority EXCEPT ![id] = prio]

(* Mutant: the task stays in the map.                                      *)
KeepTask(id) == UNCHANGED <<tasks, stride, priority>>

(* A pid without a Process has the values it had before it was born.       *)
delete(id) ==
    /\ tasks' = tasks \ {id}
    /\ stride' = [stride EXCEPT ![id] = 0]
    /\ priority' = [priority EXCEPT ![id] = InitPriority]

add(id) == ready_queue' = Append(ready_queue, id)

(* The scan only looks at ids that still have a task, and starts from      *)
(* usize::MAX, which a stride must be strictly below to be chosen.         *)
Candidates ==
    {i \in DOMAIN ready_queue :
        ready_queue[i] \in tasks /\ stride[ready_queue[i]] < UsizeMax}

(* Mutant: first come, first served.                                       *)
HeadIndex == 1

(* The first position that holds the least stride; the head by default.    *)
MinIndex ==
    IF Candidates = {} THEN 1
    ELSE CHOOSE i \in Candidates :
            \A j \in Candidates :
                \/ stride[ready_queue[i]] < stride[ready_queue[j]]
                \/ stride[ready_queue[i]] = stride[ready_queue[j]] /\ i <= j

Fetched == ready_queue[MinIndex]

(* `proc.stride += pass` does not fit a usize: the checked build panics.   *)
StrideOverflows ==
    Fetched \in tasks /\ stride[Fetched] + Pass(priority[Fetched]) > UsizeMax

(* Mutant: the id stays in the queue.                                      *)
fetch_kept ==
    /\ ready_queue # <<>>
    /\ stride' = [stride EXCEPT ![Fetched] = @ + Pass(priority[Fetched])]
    /\ UNCHANGED ready_queue

fetch ==
    /\ ready_queue # <<>>
    /\ ready_queue' = RemoveAt(ready_queue, MinIndex)
    /\ stride' = IF Fetched \in tasks
                 THEN [stride EXCEPT ![Fetched] = @ + Pass(priority[Fetched])]
                 ELSE stride
=============================================================================
