-------------------------- MODULE BareKernels_proofs --------------------------
(***************************************************************************)
(* Proofs about the kernels that run applications in physical memory: that *)
(* of chapter 3, for any number of applications, any size of the task      *)
(* table and any length of the quantum; and that of chapter 2, for any     *)
(* number of applications and of calls.                                    *)
(***************************************************************************)
EXTENDS Ch3Kernel, BatchKernel, FiniteSetTheorems, TLAPS

USE Ch3Assumption DEF Off

-----------------------------------------------------------------------------
(*                       The inductive invariant                           *)

Unfinished == {t \in Linked : ~finish[t]}

Contexts == [pc : {"entry", "mid", "after"}, a0 : Int]

(* The task whose turn it is is there and is not finished.                 *)
TurnOfUnfinished == mode \in {"user", "again"} => i \in Unfinished

(* u lies behind t and before k on the way round the table.                *)
Between(t, u, k) == IF t < k THEN t < u /\ u < k ELSE t < u \/ u < k

(* The tasks that have had a turn since t's last are those the scan has    *)
(* come past since, and the one whose turn it is.                          *)
TurnsInOrder ==
    \A t \in Unfinished : \A u \in Task :
        since[t][u] > 0 =>
            /\ since[t][u] = 1
            /\ IF mode \in {"user", "again"} THEN t # i /\ (Between(t, u, i) \/ u = i)
               ELSE Between(t, u, i)

(* What is left of the quantum, and what is used up, is the quantum.       *)
TimerExact ==
    /\ coop => timer = Off
    /\ ~coop /\ mode = "user" => timer \in 0..Quantum /\ timer + ran = Quantum

ShutdownEmpty == mode = "shutdown" => remain = 0

NoneFinishedAtBoot == mode = "boot" => \A t \in Task : ~finish[t]

IInv ==
    /\ TypeOK
    /\ ctx \in [Task -> Contexts]
    /\ count = made
    /\ RemainExact
    /\ TurnOfUnfinished
    /\ TurnsInOrder
    /\ TimerExact
    /\ ShutdownEmpty
    /\ NoneFinishedAtBoot

-----------------------------------------------------------------------------
(* (i + 1) % index_mod is the next entry of the table, or the first.       *)
LEMMA NextTaskFacts ==
    ASSUME apps \in Nat, i \in 0..apps - 1
    PROVE  NextTask = IF i = apps - 1 THEN 0 ELSE i + 1
BY DEF NextTask

(* `remain -= 1` is right for a task that was not finished before.         *)
LEMMA OneFewer ==
    ASSUME TypeOK, i \in Unfinished, apps' = apps,
           finish' = [finish EXCEPT ![i] = TRUE]
    PROVE  /\ Cardinality(Unfinished) \in 1..MaxApps
           /\ Cardinality(Unfinished') = Cardinality(Unfinished) - 1
<1>1. apps \in 0..MaxApps /\ finish \in [Task -> BOOLEAN] /\ Linked \subseteq Task
  BY DEF TypeOK, Linked, Task
<1>2. IsFiniteSet(Task) /\ Cardinality(Task) = MaxApps
  <2>1. IsFiniteSet(0..MaxApps - 1)
        /\ Cardinality(0..MaxApps - 1) = IF 0 > MaxApps - 1 THEN 0 ELSE MaxApps - 1 - 0 + 1
    BY FS_Interval
  <2>2. QED
    BY <2>1 DEF Task
<1>3. Unfinished \subseteq Task
  BY <1>1 DEF Unfinished
<1>4. IsFiniteSet(Unfinished) /\ Cardinality(Unfinished) <= MaxApps
  BY <1>2, <1>3, FS_Subset
<1>5. Unfinished' = Unfinished \ {i}
  BY <1>1 DEF Unfinished, Linked, Task
<1>6. IsFiniteSet(Unfinished \ {i}) /\ Cardinality(Unfinished \ {i}) = Cardinality(Unfinished) - 1
  BY <1>4, FS_RemoveElement
<1>7. Cardinality(Unfinished \ {i}) \in Nat /\ Cardinality(Unfinished) \in Nat
  BY <1>4, <1>6, FS_CardinalityType
<1>8. QED
  BY <1>4, <1>5, <1>6, <1>7

(* A step of the scan keeps the order of turns.                            *)
LEMMA ScanKeepsOrder ==
    ASSUME TypeOK, TurnsInOrder, i \in Linked,
           mode \in {"user", "again"} \/ (mode = "scan" /\ i \notin Unfinished),
           mode' = "scan", i' = NextTask, since' = since, apps' = apps,
           Unfinished' \subseteq Unfinished
    PROVE  TurnsInOrder'
<1> SUFFICES ASSUME NEW t \in Unfinished', NEW u \in Task, since[t][u] > 0
             PROVE  since[t][u] = 1 /\ Between(t, u, NextTask)
  BY DEF TurnsInOrder, Between, Task
<1>1. apps \in Nat /\ i \in 0..apps - 1
  BY DEF TypeOK, Linked
<1>2. t \in Unfinished /\ t \in 0..apps - 1 /\ u \in Int
  BY DEF Unfinished, Linked, Task
<1>3. /\ since[t][u] = 1
      /\ t # i /\ (Between(t, u, i) \/ u = i)
  BY <1>2 DEF TurnsInOrder
<1>4. NextTask = IF i = apps - 1 THEN 0 ELSE i + 1
  BY <1>1, NextTaskFacts
<1>5. QED
  BY <1>1, <1>2, <1>3, <1>4 DEF Between

(* A turn ends, whether the task is finished or not.                       *)
LEMMA EndOfTurn ==
    ASSUME TypeOK, TurnsInOrder, TurnOfUnfinished, TimerExact, mode \in {"user", "again"},
           mode' = "scan", i' = NextTask, since' = since, apps' = apps, coop' = coop,
           Unfinished' \subseteq Unfinished, coop => timer' = Off
    PROVE  i' \in Linked' /\ TurnsInOrder' /\ TurnOfUnfinished' /\ TimerExact' /\ ShutdownEmpty'
<1>1. apps \in Nat /\ i \in 0..apps - 1 /\ i \in Linked
  BY DEF TypeOK, Linked, TurnOfUnfinished, Unfinished
<1>2. i' \in Linked'
  BY <1>1, NextTaskFacts DEF Linked
<1>3. TurnsInOrder'
  BY <1>1, ScanKeepsOrder
<1>4. QED
  BY <1>2, <1>3 DEF TurnOfUnfinished, TimerExact, ShutdownEmpty

LEMMA InitIInv == Init => IInv
<1> SUFFICES ASSUME Init PROVE IInv
  OBVIOUS
<1>1. TypeOK
  BY DEF Init, TypeOK, Linked
<1>2. QED
  BY <1>1 DEF Init, IInv, Contexts, Fresh, RemainExact, TurnOfUnfinished, TurnsInOrder,
              Unfinished, Linked, Task, TimerExact, ShutdownEmpty, NoneFinishedAtBoot

(* A trap of the task whose turn it is, counted by handle_syscall.         *)
LEMMA CalledFacts ==
    ASSUME TypeOK, count = made, i \in Unfinished, NEW id, Called(id)
    PROVE  /\ count' \in [Task -> [CountedIds -> 0..MaxCount]]
           /\ count' = made'
<1>1. i \in Task
  BY DEF TypeOK, Unfinished, Linked, Task
<1>2. CASE id \in CountedIds
  <2>1. count[i] \in [CountedIds -> 0..MaxCount] /\ count[i][id] \in 0..MaxCount
    BY <1>1, <1>2 DEF TypeOK
  <2>2. count[i][id] + 1 \in 0..MaxCount
    BY <1>2, <2>1 DEF Called
  <2>3. count' = [count EXCEPT ![i][id] = @ + 1] /\ made' = count'
    BY <1>2 DEF Called, CountedOne
  <2>4. QED
    BY <1>1, <1>2, <2>1, <2>2, <2>3 DEF TypeOK
<1>3. CASE id \notin CountedIds
  BY <1>3 DEF Called, TypeOK
<1>4. QED
  BY <1>2, <1>3

(* What a turn's end by a return, a kill or the timer leaves in order: the *)
(* invariant but for the counters and the contexts, which the step gives.  *)
LEMMA FinishKeeps ==
    ASSUME IInv, mode = "user", NEW event, Finish(event), since' = since,
           coop => timer' = Off, timer' \in {Off} \cup 0..Quantum, ran' \in 0..Quantum,
           ctx' \in [Task -> Contexts], count' = made',
           count' \in [Task -> [CountedIds -> 0..MaxCount]]
    PROVE  IInv'
<1>1. i \in Unfinished /\ apps' = apps /\ coop' = coop /\ mode' = "scan" /\ i' = NextTask
  BY DEF IInv, TurnOfUnfinished, Finish, built
<1>2. finish' = [finish EXCEPT ![i] = TRUE] /\ i \in Task /\ finish' \in [Task -> BOOLEAN]
  BY <1>1 DEF Finish, IInv, TypeOK, Unfinished, Linked, Task
<1>3. /\ Cardinality(Unfinished) \in 1..MaxApps
      /\ Cardinality(Unfinished') = Cardinality(Unfinished) - 1
  BY <1>1, <1>2, OneFewer DEF IInv
<1>4. remain = Cardinality(Unfinished)
  BY DEF IInv, RemainExact, Unfinished
<1>5. remain' = Cardinality(Unfinished') /\ remain' \in 0..MaxApps
  BY <1>3, <1>4 DEF Finish, RemainAfter
<1>6. Unfinished' \subseteq Unfinished
  BY <1>1, <1>2 DEF Unfinished, Linked, IInv, TypeOK, Task
<1>7. i' \in Linked' /\ TurnsInOrder' /\ TurnOfUnfinished' /\ TimerExact' /\ ShutdownEmpty'
  BY <1>1, <1>6, EndOfTurn DEF IInv
<1>8. TypeOK'
  BY <1>1, <1>2, <1>5, <1>7 DEF TypeOK, IInv
<1>9. RemainExact' /\ NoneFinishedAtBoot'
  BY <1>1, <1>5 DEF RemainExact, Unfinished, NoneFinishedAtBoot
<1>10. QED
  BY <1>7, <1>8, <1>9 DEF IInv

LEMMA SwitchKeeps ==
    ASSUME IInv, mode = "user", Switch, since' = since,
           coop => timer' = Off, timer' \in {Off} \cup 0..Quantum, ran' \in 0..Quantum,
           ctx' \in [Task -> Contexts], count' = made',
           count' \in [Task -> [CountedIds -> 0..MaxCount]]
    PROVE  IInv'
<1>1. /\ i \in Unfinished /\ apps' = apps /\ coop' = coop /\ mode' = "scan" /\ i' = NextTask
      /\ remain' = remain /\ finish' = finish
  BY DEF IInv, TurnOfUnfinished, Switch, built
<1>2. Unfinished' = Unfinished
  BY <1>1 DEF Unfinished, Linked
<1>3. i' \in Linked' /\ TurnsInOrder' /\ TurnOfUnfinished' /\ TimerExact' /\ ShutdownEmpty'
  BY <1>1, <1>2, EndOfTurn DEF IInv
<1>4. TypeOK'
  BY <1>1, <1>3 DEF TypeOK, IInv
<1>5. RemainExact' /\ NoneFinishedAtBoot'
  BY <1>1, <1>2 DEF RemainExact, Unfinished, NoneFinishedAtBoot, IInv
<1>6. QED
  BY <1>3, <1>4, <1>5 DEF IInv

LEMMA NextKeepsIInv == IInv /\ [Next]_vars => IInv'
<1> SUFFICES ASSUME IInv, [Next]_vars PROVE IInv'
  OBVIOUS
<1>0. /\ apps \in Nat /\ Linked \subseteq Task
      /\ mode \notin {"boot", "panic"} => remain = Cardinality(Unfinished)
  BY DEF IInv, TypeOK, RemainExact, Unfinished, Linked, Task
<1>1. CASE Load
  <2>1. Unfinished = Linked /\ Unfinished' = Linked
    BY <1>0, <1>1 DEF IInv, NoneFinishedAtBoot, Load, Unfinished, Linked, built
  <2>2. Cardinality(Linked) = apps
    <3>1. Cardinality(0..apps - 1) = IF 0 > apps - 1 THEN 0 ELSE apps - 1 - 0 + 1
      BY <1>0, FS_Interval
    <3>2. QED
      BY <1>0, <3>1 DEF Linked
  <2>3. RemainExact'
    BY <1>1, <2>1, <2>2 DEF RemainExact, Unfinished, Load
  <2>4. TypeOK'
    BY <1>1 DEF IInv, TypeOK, Load, Linked, built, history
  <2>5. QED
    BY <1>1, <2>3, <2>4 DEF IInv, Load, built, history, TurnOfUnfinished, TurnsInOrder, TimerExact,
          ShutdownEmpty, NoneFinishedAtBoot, Unfinished, Linked
<1>2. CASE LoadPanic
  BY <1>2 DEF LoadPanic, built, history, IInv, TypeOK, RemainExact, TurnOfUnfinished, TurnsInOrder,
        TimerExact, ShutdownEmpty, NoneFinishedAtBoot, Unfinished, Linked
<1>3. CASE SkipFinished
  <2>1. /\ mode = "scan" /\ mode' = "scan" /\ i' = NextTask
        /\ UNCHANGED <<apps, coop, remain, finish, count, ctx, timer, ran, made, since>>
    BY <1>3 DEF SkipFinished, built, history
  <2>2. remain # 0 /\ Unfinished' = Unfinished
    BY <1>3, <2>1 DEF SkipFinished, Unfinished, Linked
  <2>3. Linked # {}
    <3>1. Unfinished # {}
      BY <1>0, <2>1, <2>2, FS_EmptySet
    <3>2. QED
      BY <3>1 DEF Unfinished
  <2>4. i \in 0..apps - 1 /\ i \in Linked /\ i \notin Unfinished
    BY <1>0, <1>3, <2>3 DEF IInv, TypeOK, SkipFinished, MayRun, Unfinished, Linked
  <2>5. i' \in Linked'
    BY <1>0, <2>1, <2>4, NextTaskFacts DEF Linked
  <2>6. TurnsInOrder'
    BY <2>1, <2>2, <2>4, ScanKeepsOrder DEF IInv
  <2>7. TypeOK'
    BY <2>1, <2>5 DEF IInv, TypeOK
  <2>8. RemainExact'
    BY <2>1, <2>2 DEF IInv, RemainExact, Unfinished
  <2>9. QED
    BY <2>1, <2>6, <2>7, <2>8 DEF IInv, TurnOfUnfinished, TimerExact, ShutdownEmpty, NoneFinishedAtBoot
<1>4. CASE Execute
  <2>1. /\ mode = "scan" /\ mode' = "user" /\ timer' = Armed /\ ran' = 0 /\ ~finish[i]
        /\ UNCHANGED <<apps, coop, i, remain, finish, count, ctx, made>>
    BY <1>4 DEF Execute, MayRun, built
  <2>2. remain # 0 /\ Unfinished' = Unfinished
    BY <1>4, <2>1 DEF Execute, Unfinished, Linked
  <2>3. i \in Unfinished /\ i \in Task
    <3>1. Unfinished # {}
      BY <1>0, <2>1, <2>2, FS_EmptySet
    <3>2. QED
      BY <1>0, <2>1, <3>1 DEF IInv, TypeOK, Unfinished, Linked
  <2>4. timer' = IF coop THEN timer ELSE Quantum
    BY <2>1 DEF Armed
  <2>5. since' \in [Task -> [Task -> Nat]]
    BY <1>4, <2>3 DEF Execute, IInv, TypeOK
  <2>6. TurnsInOrder'
    <3> SUFFICES ASSUME NEW t \in Unfinished, NEW u \in Task, since'[t][u] > 0
                 PROVE  since'[t][u] = 1 /\ t # i /\ (Between(t, u, i) \/ u = i)
      BY <2>1, <2>2 DEF TurnsInOrder
    <3>1. t \in Task /\ t \in Linked /\ ~finish[t] /\ since[t] \in [Task -> Nat]
      BY <1>0 DEF Unfinished, IInv, TypeOK
    <3>2. t # i /\ since'[t] = [since[t] EXCEPT ![i] = @ + 1]
      BY <1>4, <3>1 DEF Execute
    <3>3. since[t][u] > 0 => since[t][u] = 1 /\ Between(t, u, i)
      BY <2>1 DEF IInv, TurnsInOrder
    <3>4. since[t][i] > 0 => Between(t, i, i)
      BY <2>1, <2>3 DEF IInv, TurnsInOrder
    <3>5. ~Between(t, i, i) /\ since[t][i] \in Nat
      BY <2>3, <3>1, <3>2 DEF Between, Task
    <3>6. QED
      BY <2>3, <3>1, <3>2, <3>3, <3>4, <3>5
  <2>7. TypeOK' /\ RemainExact' /\ TurnOfUnfinished' /\ TimerExact'
    BY <2>1, <2>2, <2>3, <2>4, <2>5
       DEF IInv, TypeOK, RemainExact, Unfinished, Linked, TurnOfUnfinished, TimerExact
  <2>8. QED
    BY <2>1, <2>6, <2>7 DEF IInv, ShutdownEmpty, NoneFinishedAtBoot
<1>5. CASE ExecuteAgain
  <2>1. /\ mode = "again" /\ mode' = "user" /\ ran' = 0
        /\ timer' = (IF coop THEN timer ELSE Quantum)
        /\ UNCHANGED <<apps, coop, i, remain, finish, count, ctx, made, since>>
    BY <1>5 DEF ExecuteAgain, Armed, built, history
  <2>2. TypeOK' /\ TimerExact'
    BY <2>1 DEF IInv, TypeOK, Linked, TimerExact
  <2>3. QED
    BY <2>1, <2>2 DEF IInv, RemainExact, Unfinished, Linked, TurnOfUnfinished, TurnsInOrder,
          Between, ShutdownEmpty, NoneFinishedAtBoot
<1>6. CASE AllDone
  BY <1>6 DEF AllDone, built, history, IInv, TypeOK, RemainExact, Unfinished, Linked,
        TurnOfUnfinished, TurnsInOrder, Between, TimerExact, ShutdownEmpty, NoneFinishedAtBoot
<1>7. CASE Tick
  <2>1. /\ mode = "user" /\ timer > 0 /\ timer' = timer - 1 /\ ran' = ran + 1
        /\ UNCHANGED <<apps, coop, mode, i, remain, finish, count, ctx, made, since>>
    BY <1>7 DEF Tick, built, history
  <2>2. TypeOK' /\ TimerExact'
    BY <2>1 DEF IInv, TypeOK, Linked, TimerExact
  <2>3. QED
    BY <2>1, <2>2 DEF IInv, RemainExact, Unfinished, Linked, TurnOfUnfinished, TurnsInOrder,
          Between, ShutdownEmpty, NoneFinishedAtBoot
<1>8. CASE Timeout
  <2>1. /\ mode = "user" /\ timer' = Off /\ Switch
        /\ UNCHANGED <<count, ran, made, since>>
        /\ ctx' = [ctx EXCEPT ![i].pc = "mid"]
    BY <1>8 DEF Timeout, history
  <2>2. ctx' \in [Task -> Contexts]
    <3>1. i \in Task
      BY <1>0, <2>1 DEF IInv, TurnOfUnfinished, Unfinished
    <3>2. ctx \in [Task -> Contexts] /\ ctx[i] \in Contexts
      BY <3>1 DEF IInv
    <3>3. [ctx[i] EXCEPT !.pc = "mid"] \in Contexts
      BY <3>2 DEF Contexts
    <3>4. \A c \in Contexts : [ctx EXCEPT ![i] = c] \in [Task -> Contexts]
      BY <3>2
    <3>5. ctx' = [ctx EXCEPT ![i] = [ctx[i] EXCEPT !.pc = "mid"]]
      BY <2>1, <3>2
    <3>6. QED
      BY <3>3, <3>4, <3>5
  <2>3. QED
    BY <2>1, <2>2, SwitchKeeps DEF IInv, TypeOK
<1>9. CASE Killed
  <2>1. /\ mode = "user" /\ Finish("killed")
        /\ UNCHANGED <<count, ctx, timer, ran, made, since>>
    BY <1>9 DEF Killed, history
  <2>2. QED
    BY <2>1, FinishKeeps DEF IInv, TypeOK, TimerExact
<1>10. CASE write_or_clock \/ trace_other \/ \E id \in CountedIds : trace_query(id)
  <2>1. PICK id, ret : Called(id) /\ Return(ret) /\ (ret = 0 \/ \E q \in CountedIds : ret = Queried(q))
    BY <1>10 DEF write_or_clock, trace_other, trace_query
  <2>2. /\ mode = "user" /\ mode' = "again" /\ ctx' = [ctx EXCEPT ![i] = [pc |-> "after", a0 |-> ret]]
        /\ UNCHANGED <<apps, coop, i, remain, finish, timer, ran, since>>
    BY <2>1 DEF Called, Return, Returned, built
  <2>3. i \in Unfinished /\ i \in Task
    BY <1>0, <2>2 DEF IInv, TurnOfUnfinished, Unfinished
  <2>4. count' \in [Task -> [CountedIds -> 0..MaxCount]] /\ count' = made'
    BY <2>1, <2>3, CalledFacts DEF IInv
  <2>5. ret \in Int
    BY <2>1, <2>3, <2>4 DEF Queried
  <2>6. ctx' \in [Task -> Contexts]
    BY <2>2, <2>5 DEF IInv, Contexts
  <2>7. TypeOK'
    BY <2>2, <2>4 DEF IInv, TypeOK, Linked
  <2>8. QED
    BY <2>2, <2>4, <2>6, <2>7 DEF IInv, RemainExact, Unfinished, Linked, TurnOfUnfinished,
          TurnsInOrder, Between, TimerExact, ShutdownEmpty, NoneFinishedAtBoot
<1>11. CASE sched_yield
  <2>1. /\ mode = "user" /\ Called("sched_yield") /\ Switch
        /\ ctx' = [ctx EXCEPT ![i] = [pc |-> "after", a0 |-> 0]]
        /\ UNCHANGED <<timer, ran, since>>
    BY <1>11 DEF sched_yield, Called, Returned
  <2>2. i \in Unfinished /\ i \in Task
    BY <1>0, <2>1 DEF IInv, TurnOfUnfinished, Unfinished
  <2>3. count' \in [Task -> [CountedIds -> 0..MaxCount]] /\ count' = made'
    BY <2>1, <2>2, CalledFacts DEF IInv
  <2>4. ctx' \in [Task -> Contexts]
    <3>1. [pc |-> "after", a0 |-> 0] \in Contexts
      BY DEF Contexts
    <3>2. QED
      BY <2>1, <3>1 DEF IInv
  <2>5. QED
    BY <2>1, <2>3, <2>4, SwitchKeeps DEF IInv, TypeOK, TimerExact
<1>12. CASE EndByCall
  <2>1. PICK id : /\ mode = "user" /\ Called(id) /\ Finish(id)
                  /\ UNCHANGED <<ctx, timer, ran, since>>
    BY <1>12 DEF EndByCall, Called
  <2>2. i \in Unfinished
    BY <2>1 DEF IInv, TurnOfUnfinished
  <2>3. count' \in [Task -> [CountedIds -> 0..MaxCount]] /\ count' = made'
    BY <2>1, <2>2, CalledFacts DEF IInv
  <2>4. QED
    BY <2>1, <2>3, FinishKeeps DEF IInv, TypeOK, TimerExact
<1>13. CASE UNCHANGED vars
  BY <1>13 DEF vars, built, history, IInv, TypeOK, RemainExact, Unfinished, Linked,
        TurnOfUnfinished, TurnsInOrder, Between, TimerExact, ShutdownEmpty, NoneFinishedAtBoot
<1>14. QED
  BY <1>1, <1>2, <1>3, <1>4, <1>5, <1>6, <1>7, <1>8, <1>9, <1>10, <1>11, <1>12, <1>13
     DEF Next, Kernel, Clock, Trap, ShutDown

LEMMA Invariant == Spec => []IInv
<1>1. Init => IInv
  BY InitIInv
<1>2. IInv /\ [Next]_vars => IInv'
  BY NextKeepsIInv
<1>3. QED
  BY <1>1, <1>2, PTL DEF Spec

-----------------------------------------------------------------------------
(*                             Theorems                                    *)

(* Every variable of the loop and of the task table is of its type: the    *)
(* index stays within the linked applications, no counter runs over.       *)
THEOREM Ch3TypeCorrect == Spec => []TypeOK
<1>1. IInv => TypeOK
  BY DEF IInv
<1>2. QED
  BY <1>1, Invariant, PTL

(* `remain` is the number of unfinished applications, whichever of the     *)
(* five ways each of them ends, so that the loop ends with the last one.   *)
THEOREM RemainCorrect == Spec => []RemainExact
<1>1. IInv => RemainExact
  BY DEF IInv
<1>2. QED
  BY <1>1, Invariant, PTL

(* The machine is shut down only when every linked application has ended.  *)
THEOREM Ch3ShutdownCorrect == Spec => []CleanShutdown
<1>1. ASSUME IInv PROVE CleanShutdown
  <2>1. mode = "shutdown" => Cardinality(Unfinished) = 0
    BY <1>1 DEF IInv, RemainExact, ShutdownEmpty, Unfinished
  <2>2. IsFiniteSet(Unfinished)
    <3>1. apps \in Nat
      BY <1>1 DEF IInv, TypeOK
    <3>2. IsFiniteSet(0..apps - 1)
      BY <3>1, FS_Interval
    <3>3. QED
      BY <3>2, FS_Subset DEF Unfinished, Linked
  <2>3. mode = "shutdown" => Unfinished = {}
    BY <2>1, <2>2, FS_EmptySet
  <2>4. QED
    BY <2>3 DEF CleanShutdown, Unfinished
<1>2. IInv => CleanShutdown
  BY <1>1
<1>3. QED
  BY <1>2, Invariant, PTL

(* Between two turns of an unfinished task no other gets two, for every    *)
(* number of tasks and every order of yields, timeouts and ends.           *)
THEOREM RoundRobinCorrect == Spec => []RoundRobin
<1>1. ASSUME IInv PROVE RoundRobin
  <2> SUFFICES ASSUME NEW t \in Linked, ~finish[t], NEW u \in Linked
               PROVE  since[t][u] <= 1
    BY DEF RoundRobin
  <2>1. t \in Unfinished /\ t \in Task /\ u \in Task
    BY <1>1 DEF IInv, TypeOK, Unfinished, Linked, Task
  <2>2. since[t][u] \in Nat
    BY <1>1, <2>1 DEF IInv, TypeOK
  <2>3. since[t][u] > 0 => since[t][u] = 1
    BY <1>1, <2>1 DEF IInv, TurnsInOrder
  <2>4. QED
    BY <2>2, <2>3
<1>2. IInv => RoundRobin
  BY <1>1
<1>3. QED
  BY <1>2, Invariant, PTL

(* No unfinished task is left at its ecall: a yield is never repeated.     *)
THEOREM ResumesCorrect == Spec => []ResumesAfterCall
<1>1. ASSUME IInv PROVE ResumesAfterCall
  <2>1. Linked \subseteq Task /\ ctx \in [Task -> Contexts]
    BY <1>1 DEF IInv, TypeOK, Linked, Task
  <2>2. \A c \in Contexts : c.pc # "ecall"
    BY DEF Contexts
  <2>3. QED
    BY <2>1, <2>2 DEF ResumesAfterCall
<1>2. IInv => ResumesAfterCall
  BY <1>1
<1>3. QED
  BY <1>2, Invariant, PTL

(* The timer takes the processor from nobody before a whole quantum.       *)
THEOREM QuantumCorrect == Spec => FullQuantum
<1>1. IInv /\ [Next]_vars => [Timeout => ~coop /\ ran = Quantum]_vars
  BY DEF IInv, TypeOK, TimerExact, Timeout
<1>2. QED
  BY <1>1, Invariant, PTL DEF Spec, FullQuantum

(* trace(2, id) answers what this task has called, this call included.     *)
THEOREM TraceCorrect == Spec => TraceAnswers
<1>1. ASSUME IInv, [Next]_vars
      PROVE  [\A id \in CountedIds : trace_query(id) => ctx'[i].a0 = made'[i][id]]_vars
  <2> SUFFICES ASSUME NEW id \in CountedIds, trace_query(id)
               PROVE  ctx'[i].a0 = made'[i][id]
    OBVIOUS
  <2>1. i \in Task
    BY <1>1 DEF IInv, TypeOK, TurnOfUnfinished, Unfinished, Linked, Task, trace_query, Called
  <2>2. ctx' = [ctx EXCEPT ![i] = [pc |-> "after", a0 |-> count'[i][id]]]
    BY DEF trace_query, Return, Returned, Queried
  <2>3. count' = made'
    BY <1>1, NextKeepsIInv DEF IInv
  <2>4. QED
    BY <1>1, <2>1, <2>2, <2>3 DEF IInv
<1>2. IInv /\ [Next]_vars =>
        [\A id \in CountedIds : trace_query(id) => ctx'[i].a0 = made'[i][id]]_vars
  BY <1>1
<1>3. QED
  BY <1>2, Invariant, PTL DEF Spec, TraceAnswers

-----------------------------------------------------------------------------
(*                       The kernel of chapter 2                           *)

(* The cache holds instructions of the application in memory only, and     *)
(* none once that has ended.                                               *)
CacheFenced ==
    IF state = "user" THEN icache \subseteq {app} ELSE icache = {}

BatchInv ==
    /\ CacheFenced
    /\ OwnInstructions
    /\ calls \in Nat

LEMMA BatchInvariant == BatchSpec => []BatchInv
<1>1. BatchInit => BatchInv
  BY DEF BatchInit, BatchInv, CacheFenced, OwnInstructions
<1>2. ASSUME BatchInv, [BatchNext]_batchVars PROVE BatchInv'
  <2> USE <1>2 DEF BatchInv, CacheFenced, OwnInstructions
  <2>1. CASE LoadApp
    BY <2>1 DEF LoadApp, NewContext, Entry
  <2>2. CASE ExecuteApp
    BY <2>2 DEF ExecuteApp
  <2>3. CASE HandleSyscall
    BY <2>3 DEF HandleSyscall, Traps, Answered
  <2>4. CASE EndApp
    BY <2>4 DEF EndApp, Fence
  <2>5. CASE ShutDownBatch
    BY <2>5 DEF ShutDownBatch
  <2>6. CASE UNCHANGED batchVars
    BY <2>6 DEF batchVars, Entry
  <2>7. QED
    BY <2>1, <2>2, <2>3, <2>4, <2>5, <2>6 DEF BatchNext, BatchDone
<1>3. BatchInv /\ [BatchNext]_batchVars => BatchInv'
  BY <1>2
<1>4. QED
  BY <1>1, <1>3, PTL DEF BatchSpec

(* An application executes its own instructions only, from its entry on,   *)
(* and is never left at an ecall: fence.i clears the cache before the next *)
(* one is copied to the same address.                                      *)
THEOREM BatchCorrect == BatchSpec => []OwnInstructions
<1>1. BatchInv => OwnInstructions
  BY DEF BatchInv
<1>2. QED
  BY <1>1, BatchInvariant, PTL
=============================================================================
