------------------------------ MODULE Ch4Kernel ------------------------------
(***************************************************************************)
(* The process list of chapters 4 and X (schedule in os/ch4/src/main.rs):  *)
(* every program linked into the image becomes a process before the first  *)
(* runs, the kernel always executes the process at the head of the list,   *)
(* and a process that ends is removed.  Ch4Memory adds the address spaces. *)
(***************************************************************************)
EXTENDS Integers, Sequences, SequencesExt

CONSTANTS
    Apps,        \* how many programs are linked
    CountedIds,  \* the syscalls whose counters an instance follows
    MaxCount     \* bound: calls of each followed syscall by a program that
                 \* calls as it likes

(* "memory" stands for sbrk, mmap and munmap.                              *)
Supported == {"write", "clock_gettime", "memory", "trace", "sched_yield", "exit"}

(* Two ids tg_syscall does not implement, one of them beyond the counters. *)
Ids == Supported \cup {"other", "beyond"}

ASSUME Ch4Assumption ==
    /\ Apps \in Nat \ {0}
    /\ CountedIds \subseteq Ids \ {"beyond"}
    /\ MaxCount \in Nat

VARIABLES
    accepted,  \* the programs Process::new accepts; never changes
    mode,      \* "load"; "run": a process executes; "shutdown"
    loading,   \* the next program to load
    PROCESSES, \* the list, of program numbers
    count,     \* Process.syscall_count
    ctx,       \* Process.context: where it resumes, and a0
    made       \* history: made[a][id] calls of id process a has made

vars == <<accepted, mode, loading, PROCESSES, count, ctx, made>>

-----------------------------------------------------------------------------
App == 1..Apps

Fresh == [pc |-> "entry", a0 |-> 0]

NoCalls == [id \in CountedIds |-> 0]

Init ==
    /\ accepted \in SUBSET App
    /\ mode = "load"
    /\ loading = 1
    /\ PROCESSES = <<>>
    /\ count = [a \in App |-> NoCalls]
    /\ ctx = [a \in App |-> Fresh]
    /\ made = [a \in App |-> NoCalls]

(* Process::new refuses what is not a RISC-V executable.                   *)
Load ==
    /\ mode = "load"
    /\ loading \in App
    /\ loading' = loading + 1
    /\ PROCESSES' = IF loading \in accepted THEN Append(PROCESSES, loading)
                    ELSE PROCESSES
    /\ UNCHANGED <<accepted, mode, count, ctx, made>>

Start ==
    /\ mode = "load"
    /\ loading > Apps
    /\ mode' = "run"
    /\ UNCHANGED <<accepted, loading, PROCESSES, count, ctx, made>>

(* PROCESSES[0]: the process that executes and traps.                      *)
Current == PROCESSES[1]

Running == mode = "run" /\ PROCESSES # <<>>

(* Mutant: the list takes its last element for the one removed.            *)
SwapRemoved ==
    IF Len(PROCESSES) = 1 THEN <<>>
    ELSE [k \in 1..Len(PROCESSES) - 1 |->
             IF k = 1 THEN PROCESSES[Len(PROCESSES)] ELSE PROCESSES[k]]

(* PROCESSES.remove(0).                                                    *)
Removed == Tail(PROCESSES)

(* The Process is dropped, with its context and its counters.              *)
Drop ==
    /\ PROCESSES' = Removed
    /\ count' = [count EXCEPT ![Current] = NoCalls]
    /\ made' = [made EXCEPT ![Current] = NoCalls]
    /\ ctx' = [ctx EXCEPT ![Current] = Fresh]
    /\ UNCHANGED <<accepted, mode, loading>>

Killed == Running /\ Drop

-----------------------------------------------------------------------------
(* Mutant: counted at the trap and in the handler again.                   *)
CountedTwice(id) == [count EXCEPT ![Current][id] = @ + 2]

CountedOne(id) == [count EXCEPT ![Current][id] = @ + 1]

(* A syscall trap.                                                         *)
Called(id) ==
    /\ Running
    /\ IF id \in CountedIds
       THEN /\ count' = CountedOne(id)
            /\ made' = [made EXCEPT ![Current][id] = @ + 1]
       ELSE UNCHANGED <<count, made>>

Return(ret) ==
    /\ ctx' = [ctx EXCEPT ![Current] = [pc |-> "after", a0 |-> ret]]
    /\ UNCHANGED <<accepted, mode, loading, PROCESSES>>

(* write and clock_gettime, or the other requests of trace: 0 stands for   *)
(* whatever they answer.                                                   *)
other_call(id) ==
    /\ id \in {"write", "clock_gettime", "trace"}
    /\ Called(id)
    /\ Return(0)

(* Mutant: the count without this call.                                    *)
QueriedBefore(id) == count[Current][id]

(* What trace(2, id) answers: the calls so far, this one included.         *)
Queried(id) == count'[Current][id]

trace_query(id) ==
    /\ Called("trace")
    /\ Return(Queried(id))

(* sched_yield is answered like any other call: the same process goes on.  *)
sched_yield ==
    /\ Called("sched_yield")
    /\ Return(0)

(* exit, and a call tg_syscall does not implement: its count is dropped.   *)
EndByCall == Running /\ Drop

ShutDown ==
    /\ mode = "run"
    /\ PROCESSES = <<>>
    /\ mode' = "shutdown"
    /\ UNCHANGED <<accepted, loading, PROCESSES, count, ctx, made>>

Stopped == mode = "shutdown" /\ UNCHANGED vars

Within(id) == id \in CountedIds => count[Current][id] < MaxCount

(* A program that makes its calls in any order.                            *)
AnyCall ==
    /\ Running
    /\ \/ Killed \/ EndByCall
       \/ \E id \in Ids : Within(id) /\ other_call(id)
       \/ Within("sched_yield") /\ sched_yield
       \/ Within("trace") /\ \E id \in CountedIds : trace_query(id)

Next == Load \/ Start \/ AnyCall \/ ShutDown \/ Stopped

Spec == Init /\ [][Next]_vars

-----------------------------------------------------------------------------
(*                             Properties                                  *)

TypeOK ==
    /\ accepted \subseteq App
    /\ mode \in {"load", "run", "shutdown"}
    /\ loading \in 1..Apps + 1
    /\ PROCESSES \in Seq(App)
    /\ count \in [App -> [CountedIds -> Nat]]
    /\ count = made

(* Programs run one after the other, each to its end, in the order of the  *)
(* image: those waiting are in that order, and have not run at all.        *)
OneAfterTheOther ==
    /\ \A j, k \in DOMAIN PROCESSES : j < k => PROCESSES[j] < PROCESSES[k]
    /\ \A k \in DOMAIN PROCESSES :
          k > 1 => /\ ctx[PROCESSES[k]] = Fresh
                   /\ made[PROCESSES[k]] = NoCalls

(* The machine is shut down only after each accepted program was loaded    *)
(* and removed at the head of the list.                                    *)
NoneSkipped ==
    [][\A a \in App :
          (a \in ToSet(PROCESSES) /\ a \notin ToSet(PROCESSES')) =>
              /\ a = Current
              /\ \A b \in accepted : b > a => b \in ToSet(PROCESSES')]_vars

(* trace(2, id) answers the calls of id made by this very process, this    *)
(* call included.                                                          *)
TraceAnswers ==
    [][\A id \in CountedIds :
          trace_query(id) => ctx'[Current].a0 = made'[Current][id]]_vars
=============================================================================
