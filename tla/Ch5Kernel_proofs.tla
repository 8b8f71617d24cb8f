--------------------------- MODULE Ch5Kernel_proofs ---------------------------
(***************************************************************************)
(* Proofs about the chapter 5 kernel, for any number of pids, any          *)
(* BIG_STRIDE, any exit codes and any set of priorities: first its queue,  *)
(* strides and parents, then that it keeps the promise of ProcessLifecycle *)
(* and what its calls return to parent and child.                          *)
(***************************************************************************)
EXTENDS Ch5Kernel, SequenceFacts

USE PidAssumption DEF Pid

-----------------------------------------------------------------------------
(*                        What fetch takes, and a pass                     *)

(* The scan of fetch picks a position of the queue, and no queued task has *)
(* a smaller stride than the one there, provided a dispatch of it does not *)
(* overflow.                                                               *)
LEMMA MinIndexFacts ==
    ASSUME stride \in [Pid -> Nat], ready_queue \in Seq(Pid), ready_queue # <<>>, UsizeMax \in Nat
    PROVE  /\ MinIndex \in 1..Len(ready_queue)
           /\ Fetched \in Pid
           /\ stride[Fetched] <= UsizeMax =>
                 \A j \in DOMAIN ready_queue :
                    ready_queue[j] \in tasks => stride[Fetched] <= stride[ready_queue[j]]
<1>1. Candidates = Below(ready_queue, stride, tasks, UsizeMax)
  BY DEF Candidates, Below
<1>2. MinIndex = IF Candidates = {} THEN 1 ELSE FirstLeast(ready_queue, stride, Candidates)
  BY DEF MinIndex, FirstLeast, Precedes
<1>3. QED
  BY <1>1, <1>2, LeastScanned DEF Fetched

(* A pass is a natural number, and none is larger than MaxPass: a priority *)
(* is at least 2.                                                          *)
LEMMA PassFacts ==
    ASSUME NEW prio \in Priorities
    PROVE  Pass(prio) \in 0..MaxPass /\ MaxPass \in Nat
<1>1. prio \in Nat /\ prio >= 2 /\ BIG_STRIDE \in Nat
  BY StrideAssumption
<1>2. QED
  BY <1>1, Z3 DEF Pass, MaxPass

-----------------------------------------------------------------------------
(* `no process` is not mistaken for a pid.                                 *)
LEMMA NoProcNotPid == NoProc \notin Pid
<1>1. Pid \subseteq Nat
  OBVIOUS
<1> HIDE DEF Pid
<1>2. QED
  BY <1>1, NoProcAssumption

-----------------------------------------------------------------------------
(*                          Type correctness                               *)

LEMMA TypeInit == Init => TypeOK
  BY NoProcAssumption, StrideAssumption, CodeAssumption, UserAssumption
     DEF Init, TypeOK, InitPid, Fresh, Context, Codes

(* Every answer a handler leaves in a0 makes a well-formed context.        *)
LEMMA ContextFacts ==
    /\ \A ret \in Int : Returned(ret) \in Context
    /\ Fresh \in Context
    /\ [pc |-> "ecall", a0 |-> UserValue] \in Context
  BY DEF Returned, Fresh, Context

LEMMA TypeDispatch == TypeOK /\ Dispatch => TypeOK'
<1> SUFFICES ASSUME TypeOK, Dispatch PROVE TypeOK'
  OBVIOUS
<1>1. /\ MinIndex \in 1..Len(ready_queue)
      /\ Fetched \in Pid
  BY MinIndexFacts, StrideAssumption DEF TypeOK, Dispatch, fetch
<1>2. ready_queue' \in Seq(Pid)
  BY <1>1, RemoveAtFacts DEF TypeOK, Dispatch, fetch
<1>3. stride' \in [Pid -> Nat]
  <2>1. Pass(priority[Fetched]) \in Nat
    <3>1. priority \in [Pid -> Priorities]
      BY DEF TypeOK
    <3>2. priority[Fetched] \in Priorities
      BY <1>1, <3>1
    <3>3. QED
      BY <3>2, PassFacts
  <2>2. stride' = [stride EXCEPT ![Fetched] = @ + Pass(priority[Fetched])]
    BY DEF Dispatch, fetch
  <2>3. stride \in [Pid -> Nat]
    BY DEF TypeOK
  <2>4. QED
    BY <1>1, <2>1, <2>2, <2>3
<1>4. ctx' \in [Pid -> Context]
  BY ContextFacts DEF TypeOK, Dispatch
<1>5. status' \in [Pid -> Codes \cup {-1, UserValue}] /\ seen' \in [Pid -> SUBSET Pid]
  BY DEF TypeOK, Dispatch
<1>6. QED
  BY <1>1, <1>2, <1>3, <1>4, <1>5 DEF TypeOK, Dispatch

LEMMA TypeNoTask == TypeOK /\ NoTask => TypeOK'
<1> SUFFICES ASSUME TypeOK, NoTask PROVE TypeOK'
  OBVIOUS
<1>1. ready_queue' \in Seq(Pid)
  <2>1. CASE ready_queue = <<>>
    BY <2>1 DEF TypeOK, NoTask
  <2>2. CASE ready_queue # <<>>
    <3>1. MinIndex \in 1..Len(ready_queue)
      BY <2>2, MinIndexFacts, StrideAssumption DEF TypeOK
    <3>2. QED
      BY <2>2, <3>1, RemoveAtFacts DEF TypeOK, NoTask
  <2>3. QED
    BY <2>1, <2>2
<1>2. QED
  BY <1>1 DEF TypeOK, NoTask, history

LEMMA TypeEnd ==
    ASSUME TypeOK, NEW p \in Pid, NEW code \in Codes, End(p, code)
    PROVE  TypeOK'
<1>1. tasks' \subseteq Pid /\ stride' \in [Pid -> Nat] /\ priority' \in [Pid -> Priorities]
  BY StrideAssumption DEF TypeOK, End, MakeCurrentExited, delete
<1>2. parent' \in [Pid -> Pid \cup {NoProc}] /\ current' \in Pid \cup {NoProc}
  BY DEF TypeOK, End, MakeCurrentExited, Reparented, InitPid
<1>3. dead' \in [Pid -> SUBSET (Pid \X Codes)]
  BY DEF TypeOK, End, MakeCurrentExited, DeadAfterExit
<1>4. exit_code' \in [Pid -> Codes \cup {NoCode}]
  BY DEF TypeOK, End, MakeCurrentExited
<1>5. ctx' \in [Pid -> Context]
  BY ContextFacts DEF TypeOK, End
<1>6. status' \in [Pid -> Codes \cup {-1, UserValue}] /\ seen' \in [Pid -> SUBSET Pid]
  BY DEF TypeOK, End
<1>7. QED
  BY <1>1, <1>2, <1>3, <1>4, <1>5, <1>6 DEF TypeOK, End

LEMMA TypeSuspend ==
    ASSUME TypeOK, NEW p \in Pid, MakeCurrentSuspend(p)
    PROVE  ready_queue' \in Seq(Pid) /\ current' \in Pid \cup {NoProc}
  BY AppendProperties DEF TypeOK, MakeCurrentSuspend, add

LEMMA TypeAddAndSuspend ==
    ASSUME TypeOK, NEW p \in Pid, NEW id \in Pid, NEW prio \in Priorities,
           AddAndSuspend(id, prio, p)
    PROVE  /\ tasks' \subseteq Pid
           /\ stride' \in [Pid -> Nat]
           /\ priority' \in [Pid -> Priorities]
           /\ parent' \in [Pid -> Pid \cup {NoProc}]
           /\ ready_queue' \in Seq(Pid)
           /\ current' \in Pid \cup {NoProc}
<1>1. ready_queue \o <<id, p>> \in Seq(Pid)
  <2>1. <<id, p>> \in Seq(Pid)
    OBVIOUS
  <2>2. QED
    BY <2>1, ConcatProperties DEF TypeOK
<1>2. QED
  BY <1>1 DEF TypeOK, AddAndSuspend, UnderCaller, insert

LEMMA TypeReturnOnly ==
    ASSUME TypeOK, NEW p \in Pid, ReturnOnly(p) PROVE TypeOK'
<1>1. ctx' \in [Pid -> Context]
  BY ContextFacts DEF TypeOK, ReturnOnly
<1>2. QED
  BY <1>1, TypeSuspend DEF TypeOK, ReturnOnly, history

LEMMA TypeSetPriority ==
    ASSUME TypeOK, NEW p \in Pid, set_priority(p) PROVE TypeOK'
<1>1. ctx' \in [Pid -> Context] /\ priority' \in [Pid -> Priorities]
  BY ContextFacts, StrideAssumption DEF TypeOK, set_priority
<1>2. QED
  BY <1>1, TypeSuspend DEF TypeOK, set_priority, history

LEMMA TypeExec ==
    ASSUME TypeOK, NEW p \in Pid, exec(p) PROVE TypeOK'
<1>1. ctx' \in [Pid -> Context] /\ next_pid' \in 1..MaxPid + 1
  BY ContextFacts DEF TypeOK, exec
<1>2. QED
  BY <1>1, TypeSuspend DEF TypeOK, exec, history

(* What fork and spawn put in the context of the process that made them.   *)
LEMMA ReturnedThroughTaskFacts ==
    ASSUME TypeOK, NEW p \in Pid, NEW ret \in Int
    PROVE  /\ ReturnedThroughTask(p, ret) \subseteq Context
           /\ \A c \in ReturnedThroughTask(p, ret) : c.pc = "after"
<1>1. ctx[p] \in Context
  BY DEF TypeOK
<1>2. [ctx[p] EXCEPT !.pc = "after"] \in Context
  BY <1>1 DEF Context
<1>3. [ctx[p] EXCEPT !.pc = "after"].pc = "after"
  BY <1>1 DEF Context
<1>4. Returned(ret) \in Context /\ Returned(ret).pc = "after"
  BY ContextFacts DEF Returned
<1>5. QED
  BY <1>2, <1>3, <1>4 DEF ReturnedThroughTask

LEMMA TypeFork ==
    ASSUME TypeOK, NEW p \in Pid, fork(p) PROVE TypeOK'
<1>1. next_pid \in Pid /\ next_pid' \in 1..MaxPid + 1
  BY DEF TypeOK, fork
<1>2. priority[p] \in Priorities
  BY DEF TypeOK
<1>3. ctx' \in [Pid -> Context]
  <2>1. PICK c \in ReturnedThroughTask(p, next_pid) :
            ctx' = [ctx EXCEPT ![p] = c, ![next_pid] = ForkedContext(p)]
    BY DEF fork
  <2>2. c \in Context
    BY <1>1, ReturnedThroughTaskFacts
  <2>3. ctx[p] \in Context
    BY DEF TypeOK
  <2>4. ForkedContext(p) \in Context
    <3>1. ClonedContext(p) \in Context
      BY <2>3 DEF ClonedContext, Context
    <3>2. QED
      BY <3>1 DEF ForkedContext, Context
  <2>5. QED
    BY <1>1, <2>1, <2>2, <2>4 DEF TypeOK
<1>4. QED
  BY <1>1, <1>2, <1>3, TypeAddAndSuspend DEF TypeOK, fork, history

LEMMA TypeSpawn ==
    ASSUME TypeOK, NEW p \in Pid, spawn(p) PROVE TypeOK'
<1>1. next_pid \in Pid /\ next_pid' \in 1..MaxPid + 1
  BY DEF TypeOK, spawn
<1>2. InitPriority \in Priorities
  BY StrideAssumption
<1>3. ctx' \in [Pid -> Context]
  <2>1. PICK c \in ReturnedThroughTask(p, next_pid) :
            ctx' = [ctx EXCEPT ![p] = c, ![next_pid] = Fresh]
    BY DEF spawn
  <2>2. c \in Context /\ Fresh \in Context
    BY <1>1, ContextFacts, ReturnedThroughTaskFacts
  <2>3. QED
    BY <1>1, <2>1, <2>2 DEF TypeOK
<1>4. QED
  BY <1>1, <1>2, <1>3, TypeAddAndSuspend DEF TypeOK, spawn, history

LEMMA TypeWait ==
    ASSUME TypeOK, NEW p \in Pid, wait(p) PROVE TypeOK'
<1>1. PICK who \in {Pid} \cup {{q} : q \in Pid}, writable \in BOOLEAN :
        LET exited == {d \in dead[p] : d[1] \in who}
            stored(code) == IF writable THEN [status EXCEPT ![p] = code] ELSE status
        IN
        \/ \E d \in exited :
              /\ dead' = DeadAfterWait(p, d)
              /\ status' = stored(d[2])
              /\ ctx' = [ctx EXCEPT ![p] = Returned(d[1])]
        \/ /\ exited = {}
           /\ Children(p) \cap who # {}
           /\ status' = stored(-1)
           /\ ctx' = [ctx EXCEPT ![p] = Returned(-2)]
           /\ UNCHANGED dead
        \/ /\ exited = {}
           /\ Children(p) \cap who = {}
           /\ ctx' = [ctx EXCEPT ![p] = Returned(-1)]
           /\ UNCHANGED <<dead, status>>
  BY DEF wait, CodeOf
<1>2. \A d \in dead[p] : d[1] \in Int /\ d[2] \in Codes
  BY DEF TypeOK
<1>3. ctx' \in [Pid -> Context]
  <2>1. PICK ret \in Int : ctx' = [ctx EXCEPT ![p] = Returned(ret)]
    BY <1>1, <1>2
  <2>2. QED
    BY <2>1, ContextFacts DEF TypeOK
<1>4. dead' \in [Pid -> SUBSET (Pid \X Codes)]
  <2>1. dead' = dead \/ \E d \in dead[p] : dead' = DeadAfterWait(p, d)
    BY <1>1
  <2>2. ASSUME NEW d, dead' = DeadAfterWait(p, d)
        PROVE  dead' \in [Pid -> SUBSET (Pid \X Codes)]
    BY <2>2 DEF TypeOK, DeadAfterWait
  <2>3. QED
    BY <2>1, <2>2 DEF TypeOK
<1>5. status' \in [Pid -> Codes \cup {-1, UserValue}]
  <2>1. status' = status \/ \E v \in Codes \cup {-1} : status' = [status EXCEPT ![p] = v]
    BY <1>1, <1>2
  <2>2. QED
    BY <2>1 DEF TypeOK
<1>6. QED
  BY <1>3, <1>4, <1>5, TypeSuspend DEF TypeOK, wait, history

LEMMA TypeNext == TypeOK /\ [Next]_vars => TypeOK'
<1> SUFFICES ASSUME TypeOK, [Next]_vars PROVE TypeOK'
  OBVIOUS
<1>1. CASE Dispatch
  BY <1>1, TypeDispatch
<1>2. CASE StrideOverflow
  BY <1>2 DEF TypeOK, StrideOverflow, schedVars, history
<1>3. CASE NoTask
  BY <1>3, TypeNoTask
<1>4. ASSUME NEW p \in Pid, Trap(p)
      PROVE  TypeOK'
  <2>1. CASE Exit(p) \/ Unsupported(p) \/ Fault(p)
    <3>1. PICK code \in Codes : End(p, code)
      BY <2>1 DEF Exit, Unsupported, Fault, Codes
    <3>2. QED
      BY <3>1, TypeEnd
  <2>2. QED
    BY <1>4, <2>1, TypeReturnOnly, TypeSetPriority, TypeFork, TypeSpawn,
       TypeExec, TypeWait DEF Trap
<1>5. CASE UNCHANGED vars
  BY <1>5 DEF TypeOK, vars, schedVars, procVars, history
<1>6. QED
  BY <1>1, <1>2, <1>3, <1>4, <1>5 DEF Next, Kernel, ShutDown

(* In every run of the kernel, each variable keeps the type it is declared *)
(* with in the source: stride is a natural number, a dead child's entry is *)
(* a pid with an exit code, and the queue holds pids.                      *)
THEOREM TypeCorrect == Spec => []TypeOK
<1>1. Init => TypeOK
  BY TypeInit
<1>2. TypeOK /\ [Next]_vars => TypeOK'
  BY TypeNext
<1>3. QED
  BY <1>1, <1>2, PTL DEF Spec

-----------------------------------------------------------------------------
(*                The ready queue and the spread of strides                *)

LEMMA SchedulerInit == Init => SchedulerInv
<1> SUFFICES ASSUME Init PROVE SchedulerInv
  OBVIOUS
<1>1. TypeOK
  BY TypeInit
<1>2. QueueExact
  BY NoProcNotPid DEF Init, QueueExact, InitPid
<1>3. PidsBorn
  BY DEF Init, PidsBorn, InitPid
<1>4. StrideGap
  BY DEF Init, StrideGap, InitPid
<1>5. QED
  BY <1>1, <1>2, <1>3, <1>4 DEF SchedulerInv

(* Between two dispatches every live process is queued, so the one that is *)
(* fetched has the least stride of all.                                    *)
LEMMA FetchedIsLeast ==
    ASSUME SchedulerInv, Dispatch
    PROVE  /\ MinIndex \in 1..Len(ready_queue)
           /\ Fetched \in tasks
           /\ \A q \in tasks : stride[Fetched] <= stride[q]
           /\ priority[Fetched] \in Priorities
<1>1. /\ MinIndex \in 1..Len(ready_queue)
      /\ Fetched \in Pid
      /\ stride[Fetched] <= UsizeMax =>
            \A j \in DOMAIN ready_queue :
               ready_queue[j] \in tasks => stride[Fetched] <= stride[ready_queue[j]]
  BY MinIndexFacts, StrideAssumption DEF SchedulerInv, TypeOK, Dispatch, fetch
<1>2. Fetched \in tasks /\ ~StrideOverflows /\ current = NoProc
  BY DEF Dispatch, Idle
<1>3. priority[Fetched] \in Priorities /\ stride[Fetched] \in Nat
  BY <1>1 DEF SchedulerInv, TypeOK
<1>4. stride[Fetched] <= UsizeMax
  <2> DEFINE s == stride[Fetched]
             d == Pass(priority[Fetched])
  <2>1. s \in Nat /\ UsizeMax \in Nat
    BY <1>3, StrideAssumption
  <2>2. d \in Nat
    BY <1>3, PassFacts
  <2>3. ~(s + d > UsizeMax)
    BY <1>2 DEF StrideOverflows
  <2> HIDE DEF s, d
  <2>4. s <= UsizeMax
    BY <2>1, <2>2, <2>3
  <2>5. QED
    BY <2>4 DEF s
<1>5. \A q \in tasks : \E j \in DOMAIN ready_queue : ready_queue[j] = q
  BY <1>2, NoProcNotPid DEF SchedulerInv, TypeOK, QueueExact
<1>6. QED
  BY <1>1, <1>2, <1>3, <1>4, <1>5

LEMMA QueueDispatch == SchedulerInv /\ Dispatch => QueueExact'
<1> SUFFICES ASSUME SchedulerInv, Dispatch PROVE QueueExact'
  OBVIOUS
<1> DEFINE n == Len(ready_queue)
           m == MinIndex
<1>1. m \in 1..n /\ Fetched \in tasks /\ Fetched = ready_queue[m]
  BY FetchedIsLeast DEF Fetched
<1>2. /\ ready_queue \in Seq(Pid)
      /\ n \in Nat
      /\ DOMAIN ready_queue = 1..n
  BY LenProperties DEF SchedulerInv, TypeOK
<1>3. /\ DOMAIN ready_queue' = 1..n - 1
      /\ \A j \in 1..n - 1 :
            ready_queue'[j] = IF j < m THEN ready_queue[j] ELSE ready_queue[j + 1]
  <2>1. ready_queue' = RemoveAt(ready_queue, m)
    BY DEF Dispatch, fetch
  <2>2. /\ RemoveAt(ready_queue, m) \in Seq(Pid)
        /\ Len(RemoveAt(ready_queue, m)) = n - 1
        /\ \A j \in 1..n - 1 :
              RemoveAt(ready_queue, m)[j] =
                 IF j < m THEN ready_queue[j] ELSE ready_queue[j + 1]
    BY <1>1, <1>2, RemoveAtFacts
  <2>3. QED
    BY <2>1, <2>2, LenProperties
<1>4. current' = Fetched /\ tasks' = tasks /\ current = NoProc
  BY DEF Dispatch, Idle
<1>5. /\ \A i, j \in 1..n : ready_queue[i] = ready_queue[j] => i = j
      /\ \A i \in 1..n : ready_queue[i] \in tasks
      /\ \A p \in tasks : \E i \in 1..n : ready_queue[i] = p
  <2>1. NoProc \notin tasks
    BY NoProcNotPid DEF SchedulerInv, TypeOK
  <2> HIDE DEF n
  <2>2. QED
    BY <1>2, <1>4, <2>1 DEF SchedulerInv, QueueExact
<1> HIDE DEF n, m
<1>6. \A i, j \in 1..n - 1 : ready_queue'[i] = ready_queue'[j] => i = j
  <2> SUFFICES ASSUME NEW i \in 1..n - 1, NEW j \in 1..n - 1,
                      ready_queue'[i] = ready_queue'[j]
               PROVE  i = j
    OBVIOUS
  <2> DEFINE a == IF i < m THEN i ELSE i + 1
             b == IF j < m THEN j ELSE j + 1
  <2>1. a \in 1..n /\ b \in 1..n
    BY <1>1, <1>2
  <2>2. ready_queue[a] = ready_queue[b]
    BY <1>3
  <2>3. a = b
    BY <1>5, <2>1, <2>2
  <2>4. QED
    BY <1>1, <1>2, <2>3
<1>7. \A j \in 1..n - 1 : ready_queue'[j] \in tasks \ {Fetched}
  <2> SUFFICES ASSUME NEW j \in 1..n - 1
               PROVE  ready_queue'[j] \in tasks \ {Fetched}
    OBVIOUS
  <2> DEFINE b == IF j < m THEN j ELSE j + 1
  <2>1. b \in 1..n /\ b # m
    BY <1>1, <1>2
  <2>2. ready_queue'[j] = ready_queue[b]
    BY <1>3
  <2> HIDE DEF b
  <2>3. QED
    BY <1>1, <1>5, <2>1, <2>2
<1>8. ASSUME NEW p \in tasks, p # Fetched
      PROVE  \E j \in 1..n - 1 : ready_queue'[j] = p
  <2>1. PICK i \in 1..n : ready_queue[i] = p
    BY <1>5
  <2>2. i # m
    BY <1>1, <1>8, <2>1
  <2>3. CASE i < m
    <3>1. i \in 1..n - 1
      BY <1>1, <1>2, <2>3
    <3>2. QED
      BY <1>3, <2>1, <2>3, <3>1
  <2>4. CASE i > m
    <3>1. i - 1 \in 1..n - 1 /\ ~(i - 1 < m) /\ (i - 1) + 1 = i
      BY <1>1, <1>2, <2>4
    <3>2. QED
      BY <1>3, <2>1, <3>1
  <2>5. QED
    BY <1>1, <1>2, <2>2, <2>3, <2>4
<1>9. QED
  BY <1>1, <1>3, <1>4, <1>6, <1>7, <1>8 DEF QueueExact

LEMMA QueueSuspend ==
    ASSUME SchedulerInv, NEW p \in Pid, current = p,
           MakeCurrentSuspend(p), tasks' = tasks
    PROVE  QueueExact'
<1> DEFINE n == Len(ready_queue)
<1>1. /\ ready_queue \in Seq(Pid)
      /\ n \in Nat
      /\ DOMAIN ready_queue = 1..n
  BY LenProperties DEF SchedulerInv, TypeOK
<1>2. /\ DOMAIN ready_queue' = 1..n + 1
      /\ \A i \in 1..n : ready_queue'[i] = ready_queue[i]
      /\ ready_queue'[n + 1] = p
  <2>1. ready_queue' = Append(ready_queue, p)
    BY DEF MakeCurrentSuspend, add
  <2>2. QED
    BY <1>1, <2>1, AppendProperties, LenProperties
<1>3. /\ \A i, j \in 1..n : ready_queue[i] = ready_queue[j] => i = j
      /\ \A i \in 1..n : ready_queue[i] \in tasks \ {p}
      /\ \A q \in tasks : q = p \/ \E i \in 1..n : ready_queue[i] = q
      /\ p \in tasks
  BY <1>1, NoProcNotPid DEF SchedulerInv, QueueExact
<1>4. current' = NoProc /\ NoProc \notin tasks
  BY NoProcNotPid DEF MakeCurrentSuspend, SchedulerInv, TypeOK
<1> HIDE DEF n
<1>5. \A i \in 1..n + 1 : i \in 1..n \/ i = n + 1
  BY <1>1
<1>6. \A i \in 1..n : i \in 1..n + 1
  BY <1>1
<1>7. n + 1 \in 1..n + 1
  BY <1>1
<1>8. QED
  BY <1>2, <1>3, <1>4, <1>5, <1>6, <1>7 DEF QueueExact

LEMMA QueueEnd ==
    ASSUME SchedulerInv, NEW p \in Pid, current = p, NEW code \in Codes, End(p, code)
    PROVE  QueueExact'
<1>1. tasks' = tasks \ {p} /\ current' = NoProc /\ ready_queue' = ready_queue
  BY DEF End, MakeCurrentExited, delete
<1>2. NoProc \notin tasks
  BY NoProcNotPid DEF SchedulerInv, TypeOK
<1>3. QED
  BY <1>1, <1>2 DEF SchedulerInv, QueueExact

LEMMA QueueAddAndSuspend ==
    ASSUME SchedulerInv, NEW p \in Pid, current = p,
           next_pid \in Pid, NEW prio \in Priorities,
           AddAndSuspend(next_pid, prio, p)
    PROVE  QueueExact'
<1> DEFINE n == Len(ready_queue)
           id == next_pid
<1>1. /\ ready_queue \in Seq(Pid)
      /\ n \in Nat
      /\ DOMAIN ready_queue = 1..n
  BY LenProperties DEF SchedulerInv, TypeOK
<1>2. /\ DOMAIN ready_queue' = 1..n + 2
      /\ \A i \in 1..n : ready_queue'[i] = ready_queue[i]
      /\ ready_queue'[n + 1] = id
      /\ ready_queue'[n + 2] = p
  <2> DEFINE two == <<id, p>>
  <2>1. two \in Seq(Pid) /\ Len(two) = 2 /\ two[1] = id /\ two[2] = p
    OBVIOUS
  <2>2. ready_queue' = ready_queue \o two
    BY DEF AddAndSuspend
  <2> HIDE DEF two
  <2>3. /\ ready_queue \o two \in Seq(Pid)
        /\ Len(ready_queue \o two) = n + Len(two)
        /\ \A i \in 1..n + Len(two) :
              (ready_queue \o two)[i] = IF i <= n THEN ready_queue[i] ELSE two[i - n]
    BY <1>1, <2>1, ConcatProperties
  <2>4. DOMAIN ready_queue' = 1..n + 2
    BY <2>1, <2>2, <2>3, LenProperties
  <2> HIDE DEF n
  <2>5. \A i \in 1..n + 2 :
           ready_queue'[i] = IF i <= n THEN ready_queue[i] ELSE two[i - n]
    BY <2>1, <2>2, <2>3
  <2>6. /\ \A i \in 1..n : i \in 1..n + 2 /\ i <= n
        /\ n + 1 \in 1..n + 2 /\ ~(n + 1 <= n) /\ (n + 1) - n = 1
        /\ n + 2 \in 1..n + 2 /\ ~(n + 2 <= n) /\ (n + 2) - n = 2
    BY <1>1
  <2>7. QED
    BY <2>1, <2>4, <2>5, <2>6
<1>3. /\ \A i, j \in 1..n : ready_queue[i] = ready_queue[j] => i = j
      /\ \A i \in 1..n : ready_queue[i] \in tasks \ {p}
      /\ \A q \in tasks : q = p \/ \E i \in 1..n : ready_queue[i] = q
      /\ p \in tasks
  BY <1>1, NoProcNotPid DEF SchedulerInv, QueueExact
<1>4. current' = NoProc /\ NoProc \notin tasks' /\ tasks' = tasks \cup {id}
  BY NoProcNotPid DEF AddAndSuspend, insert, SchedulerInv, TypeOK
<1>5. id \notin tasks
  BY DEF SchedulerInv, PidsBorn, TypeOK
<1> HIDE DEF n, id
<1>6. \A i \in 1..n + 2 : i \in 1..n \/ i = n + 1 \/ i = n + 2
  BY <1>1
<1>7. /\ \A i \in 1..n : i \in 1..n + 2
      /\ n + 1 \in 1..n + 2
      /\ n + 2 \in 1..n + 2
  BY <1>1
<1>8. \A i, j \in 1..n + 2 : ready_queue'[i] = ready_queue'[j] => i = j
  <2> SUFFICES ASSUME NEW i \in 1..n + 2, NEW j \in 1..n + 2,
                      ready_queue'[i] = ready_queue'[j]
               PROVE  i = j
    OBVIOUS
  <2>1. (i \in 1..n \/ i = n + 1 \/ i = n + 2) /\ (j \in 1..n \/ j = n + 1 \/ j = n + 2)
    BY <1>6
  <2>2. id # p
    BY <1>3, <1>5
  <2>3. QED
    BY <1>2, <1>3, <1>5, <2>1, <2>2
<1>9. \A i \in 1..n + 2 : ready_queue'[i] \in tasks' \ {current'}
  BY <1>2, <1>3, <1>4, <1>6
<1>10. \A q \in tasks' : \E i \in 1..n + 2 : ready_queue'[i] = q
  BY <1>2, <1>3, <1>4, <1>7
<1>11. QED
  BY <1>2, <1>4, <1>8, <1>9, <1>10 DEF QueueExact

LEMMA GapDispatch == SchedulerInv /\ Dispatch => StrideGap'
<1> SUFFICES ASSUME SchedulerInv, Dispatch,
                    NEW p \in tasks', NEW q \in tasks' \cap seen'[p]
             PROVE  stride'[p] <= stride'[q] + MaxPass
  BY DEF StrideGap
<1> DEFINE f == Fetched
           d == Pass(priority[f])
<1>1. /\ f \in tasks
      /\ \A r \in tasks : stride[f] <= stride[r]
      /\ d \in 0..MaxPass
      /\ MaxPass \in Nat
  BY FetchedIsLeast, PassFacts
<1>2. tasks' = tasks /\ p \in Pid /\ q \in Pid /\ f \in Pid
  BY <1>1 DEF Dispatch, SchedulerInv, TypeOK
<1>3. \A r \in Pid : stride[r] \in Nat
  BY DEF SchedulerInv, TypeOK
<1>4. /\ stride'[f] = stride[f] + d
      /\ \A r \in Pid \ {f} : stride'[r] = stride[r]
  BY <1>1, <1>2 DEF Dispatch, fetch, SchedulerInv, TypeOK
<1>5. \A r \in Pid \ {f} : seen'[r] = seen[r]
  BY DEF Dispatch, SchedulerInv, TypeOK
<1>6. p # f => stride[p] <= stride[q] + MaxPass
  BY <1>2, <1>5 DEF SchedulerInv, StrideGap
<1> HIDE DEF f, d
<1>7. CASE p = f /\ q = f
  BY <1>1, <1>2, <1>3, <1>4, <1>7
<1>8. CASE p = f /\ q # f
  <2>1. stride[f] <= stride[q]
    BY <1>1, <1>2
  <2>2. QED
    BY <1>1, <1>2, <1>3, <1>4, <1>8, <2>1
<1>9. CASE p # f /\ q = f
  BY <1>1, <1>2, <1>3, <1>4, <1>6, <1>9
<1>10. CASE p # f /\ q # f
  BY <1>2, <1>4, <1>6, <1>10
<1>11. QED
  BY <1>7, <1>8, <1>9, <1>10

LEMMA GapEnd ==
    ASSUME SchedulerInv, NEW p \in Pid, NEW code \in Codes, End(p, code)
    PROVE  StrideGap'
<1>1. /\ tasks' = tasks \ {p}
      /\ \A r \in Pid \ {p} : stride'[r] = stride[r]
      /\ \A r \in Pid \ {p} : seen'[r] \subseteq seen[r]
      /\ tasks \subseteq Pid
  BY DEF End, MakeCurrentExited, delete, SchedulerInv, TypeOK
<1> SUFFICES ASSUME NEW r \in tasks', NEW q \in tasks' \cap seen'[r]
             PROVE  stride'[r] <= stride'[q] + MaxPass
  BY DEF StrideGap
<1>2. /\ r \in tasks /\ q \in tasks /\ q \in seen[r]
      /\ stride'[r] = stride[r] /\ stride'[q] = stride[q]
  BY <1>1
<1>3. QED
  BY <1>2 DEF SchedulerInv, StrideGap

LEMMA GapAddAndSuspend ==
    ASSUME SchedulerInv, NEW p \in Pid, next_pid \in Pid, NEW prio \in Priorities,
           AddAndSuspend(next_pid, prio, p), seen' = seen
    PROVE  StrideGap'
<1>1. /\ tasks' = tasks \cup {next_pid}
      /\ stride'[next_pid] = 0
      /\ \A r \in Pid \ {next_pid} : stride'[r] = stride[r]
      /\ tasks \subseteq Pid
      /\ \A r \in Pid : stride[r] \in Nat
  BY DEF AddAndSuspend, insert, SchedulerInv, TypeOK
<1>2. next_pid \notin tasks /\ \A r \in Pid : next_pid \notin seen[r]
  BY DEF SchedulerInv, PidsBorn, TypeOK
<1>3. MaxPass \in Nat
  BY StrideAssumption, PassFacts
<1> SUFFICES ASSUME NEW r \in tasks', NEW q \in tasks' \cap seen[r]
             PROVE  stride'[r] <= stride'[q] + MaxPass
  BY DEF StrideGap
<1>4. q \in tasks /\ q # next_pid /\ stride'[q] = stride[q] /\ stride[q] \in Nat
  BY <1>1, <1>2
<1>5. CASE r = next_pid
  BY <1>1, <1>3, <1>4, <1>5
<1>6. CASE r # next_pid
  <2>1. r \in tasks /\ stride'[r] = stride[r]
    BY <1>1, <1>6
  <2>2. stride[r] <= stride[q] + MaxPass
    BY <1>4, <2>1 DEF SchedulerInv, StrideGap
  <2>3. QED
    BY <1>4, <2>1, <2>2
<1>7. QED
  BY <1>5, <1>6

(* A trap that suspends the process and creates none.                      *)
LEMMA PlainSuspend ==
    ASSUME SchedulerInv, NEW p \in Pid, Running(p), MakeCurrentSuspend(p),
           UNCHANGED <<tasks, stride, seen>>, next_pid' \in {next_pid, next_pid + 1},
           TypeOK'
    PROVE  SchedulerInv'
<1>1. QueueExact'
  BY QueueSuspend DEF Running
<1>2. PidsBorn'
  <2>1. next_pid \in Int /\ (next_pid' = next_pid \/ next_pid' = next_pid + 1)
    BY DEF SchedulerInv, TypeOK
  <2>2. ASSUME NEW k \in 0..next_pid - 1
        PROVE  k \in 0..next_pid' - 1
    <3>1. CASE next_pid' = next_pid
      BY <3>1
    <3>2. CASE next_pid' = next_pid + 1
      BY <2>1, <3>2
    <3>3. QED
      BY <2>1, <3>1, <3>2
  <2>3. QED
    BY <2>2 DEF SchedulerInv, PidsBorn
<1>3. StrideGap'
  BY DEF SchedulerInv, StrideGap
<1>4. QED
  BY <1>1, <1>2, <1>3 DEF SchedulerInv

LEMMA CreateAndSuspend ==
    ASSUME SchedulerInv, NEW p \in Pid, Running(p), next_pid \in Pid,
           NEW prio \in Priorities, AddAndSuspend(next_pid, prio, p),
           seen' = seen, next_pid' = next_pid + 1, TypeOK'
    PROVE  SchedulerInv'
<1>1. QueueExact'
  BY QueueAddAndSuspend DEF Running
<1>2. PidsBorn'
  BY DEF SchedulerInv, PidsBorn, TypeOK, AddAndSuspend, insert
<1>3. StrideGap'
  BY GapAddAndSuspend
<1>4. QED
  BY <1>1, <1>2, <1>3 DEF SchedulerInv

LEMMA SchedulerNext == SchedulerInv /\ [Next]_vars => SchedulerInv'
<1> SUFFICES ASSUME SchedulerInv, [Next]_vars PROVE SchedulerInv'
  OBVIOUS
<1>0. TypeOK /\ TypeOK'
  BY TypeNext DEF SchedulerInv
<1>1. CASE Dispatch
  <2>1. PidsBorn'
    BY <1>1 DEF SchedulerInv, PidsBorn, TypeOK, Dispatch
  <2>2. QED
    BY <1>0, <1>1, <2>1, QueueDispatch, GapDispatch DEF SchedulerInv
<1>2. CASE StrideOverflow
  BY <1>0, <1>2
     DEF SchedulerInv, QueueExact, PidsBorn, StrideGap, StrideOverflow, schedVars, history
<1>3. CASE NoTask
  <2>1. ready_queue = <<>>
    <3>1. ready_queue # <<>> => Fetched \in tasks
      <4>1. ready_queue # <<>> => MinIndex \in DOMAIN ready_queue
        BY <1>0, MinIndexFacts, LenProperties, StrideAssumption DEF TypeOK
      <4>2. QED
        BY <4>1 DEF Fetched, SchedulerInv, QueueExact
    <3>2. QED
      BY <1>3, <3>1 DEF NoTask
  <2>2. UNCHANGED <<tasks, ready_queue, current, stride, seen, next_pid>>
    BY <1>3, <2>1 DEF NoTask, history
  <2>3. QED
    BY <1>0, <2>2 DEF SchedulerInv, QueueExact, PidsBorn, StrideGap
<1>4. ASSUME NEW p \in Pid, Trap(p)
      PROVE  SchedulerInv'
  <2>1. CASE Exit(p) \/ Unsupported(p) \/ Fault(p)
    <3>1. PICK code \in Codes : End(p, code)
      BY <2>1 DEF Exit, Unsupported, Fault, Codes
    <3>2. current = p
      BY <2>1 DEF Exit, Unsupported, Fault, Running
    <3>3. PidsBorn'
      BY <3>1 DEF SchedulerInv, PidsBorn, End, MakeCurrentExited, delete
    <3>4. QED
      BY <1>0, <3>1, <3>2, <3>3, QueueEnd, GapEnd DEF SchedulerInv
  <2>2. CASE ReturnOnly(p)
    BY <1>0, <2>2, PlainSuspend DEF ReturnOnly, history
  <2>3. CASE set_priority(p)
    BY <1>0, <2>3, PlainSuspend DEF set_priority, history
  <2>4. CASE exec(p)
    BY <1>0, <2>4, PlainSuspend DEF exec, history
  <2>5. CASE wait(p)
    BY <1>0, <2>5, PlainSuspend DEF wait, CodeOf, history
  <2>6. CASE fork(p)
    <3>1. priority[p] \in Priorities
      BY <1>0 DEF TypeOK
    <3>2. QED
      BY <1>0, <2>6, <3>1, CreateAndSuspend DEF fork, history
  <2>7. CASE spawn(p)
    BY <1>0, <2>7, StrideAssumption, CreateAndSuspend DEF spawn, history
  <2>8. QED
    BY <1>4, <2>1, <2>2, <2>3, <2>4, <2>5, <2>6, <2>7 DEF Trap
<1>5. CASE UNCHANGED vars
  BY <1>0, <1>5
     DEF SchedulerInv, QueueExact, PidsBorn, StrideGap, vars, schedVars, procVars, history
<1>6. QED
  BY <1>1, <1>2, <1>3, <1>4, <1>5 DEF Next, Kernel, ShutDown

(* No process is lost or queued twice, whatever processes call, and        *)
(* however many there are: QueueExact holds in every run.                  *)
THEOREM QueueCorrect == Spec => []QueueExact
<1>1. SchedulerInv => QueueExact
  BY DEF SchedulerInv
<1>2. QED
  BY <1>1, SchedulerInit, SchedulerNext, PTL DEF Spec

(* In every run a process is at most one maximal pass ahead of any process *)
(* that was alive when it was last dispatched, for every BIG_STRIDE and    *)
(* every set of priorities from 2 up.                                      *)
THEOREM GapCorrect == Spec => []StrideGap
<1>1. SchedulerInv => StrideGap
  BY DEF SchedulerInv
<1>2. QED
  BY <1>1, SchedulerInit, SchedulerNext, PTL DEF Spec

-----------------------------------------------------------------------------
(*                     Parents, initproc and the shutdown                  *)

(* Following parents leads to smaller and smaller pids, so to initproc.    *)
LEMMA AncestryGivesInitLast == TypeOK /\ Ancestry => InitLast
<1> SUFFICES ASSUME TypeOK, Ancestry, InitPid \notin tasks, tasks # {}
             PROVE  FALSE
  BY DEF InitLast
<1>1. tasks \subseteq Nat
  BY DEF TypeOK
<1>2. PICK q \in tasks : \A r \in tasks : q <= r
  BY <1>1, LeastNatural
<1>3. parent[q] \in tasks /\ parent[q] < q
  BY <1>2 DEF Ancestry
<1>4. q \in Nat /\ parent[q] \in Nat /\ q <= parent[q]
  BY <1>1, <1>2, <1>3
<1> DEFINE a == parent[q]
<1> HIDE DEF a
<1>5. a \in Nat /\ q \in Nat /\ a < q /\ q <= a
  BY <1>3, <1>4 DEF a
<1>6. QED
  BY <1>5

LEMMA AncestryEnd ==
    ASSUME TypeOK, Ancestry, NEW p \in Pid, p \in tasks, MayEnd(p),
           NEW code \in Codes, End(p, code)
    PROVE  Ancestry'
<1>1. /\ tasks' = tasks \ {p}
      /\ \A q \in Pid \ {p} :
            parent'[q] = IF q \in Children(p) THEN InitPid ELSE parent[q]
      /\ tasks \subseteq Pid
  BY DEF End, MakeCurrentExited, Reparented, delete, TypeOK
<1>2. InitPid \in tasks
  BY AncestryGivesInitLast DEF InitLast
<1> SUFFICES ASSUME NEW q \in tasks \ {p}, q # InitPid
             PROVE  parent'[q] \in tasks \ {p} /\ parent'[q] < q
  BY <1>1 DEF Ancestry
<1>3. parent[q] \in tasks /\ parent[q] < q
  BY DEF Ancestry
<1>4. CASE parent[q] = p
  <2>1. q \in Children(p)
    BY <1>4 DEF Children
  <2>2. p # InitPid
    BY <2>1 DEF MayEnd
  <2>3. parent'[q] = InitPid
    BY <1>1, <2>1
  <2>4. 0 < q
    BY <1>1 DEF InitPid
  <2>5. QED
    BY <1>2, <2>2, <2>3, <2>4 DEF InitPid
<1>5. CASE parent[q] # p
  <2>1. parent'[q] = parent[q]
    BY <1>1, <1>5 DEF Children
  <2>2. QED
    BY <1>3, <1>5, <2>1
<1>6. QED
  BY <1>4, <1>5

LEMMA AncestryCreate ==
    ASSUME TypeOK, PidsBorn, Ancestry, NEW p \in Pid, p \in tasks,
           next_pid \in Pid, NEW prio \in Priorities, AddAndSuspend(next_pid, prio, p)
    PROVE  Ancestry'
<1>1. /\ tasks' = tasks \cup {next_pid}
      /\ parent'[next_pid] = p
      /\ \A q \in Pid \ {next_pid} : parent'[q] = parent[q]
      /\ tasks \subseteq Pid
  BY DEF AddAndSuspend, UnderCaller, insert, TypeOK
<1>2. p < next_pid
  BY DEF PidsBorn, TypeOK
<1>3. QED
  BY <1>1, <1>2 DEF Ancestry

ParentsInv == SchedulerInv /\ Ancestry /\ CleanShutdown

LEMMA ParentsNext == ParentsInv /\ [Next]_vars => ParentsInv'
<1> SUFFICES ASSUME ParentsInv, [Next]_vars PROVE ParentsInv'
  OBVIOUS
<1>1. SchedulerInv' /\ SchedulerInv /\ TypeOK /\ PidsBorn
  BY SchedulerNext DEF ParentsInv, SchedulerInv
<1>2. CASE Dispatch \/ StrideOverflow
  BY <1>1, <1>2
     DEF ParentsInv, Ancestry, CleanShutdown, Dispatch, StrideOverflow, Idle, schedVars
<1>3. CASE NoTask
  <2>1. tasks' = tasks /\ parent' = parent
    BY <1>3 DEF NoTask
  <2>2. tasks = {}
    <3>1. current = NoProc
      BY <1>3 DEF NoTask, Idle
    <3>2. NoProc \notin tasks
      BY <1>1, NoProcNotPid DEF TypeOK
    <3>3. ready_queue # <<>> => MinIndex \in DOMAIN ready_queue
      BY <1>1, MinIndexFacts, LenProperties, StrideAssumption DEF TypeOK
    <3>4. ready_queue = <<>>
      BY <1>1, <1>3, <3>3 DEF NoTask, Fetched, SchedulerInv, QueueExact
    <3>5. DOMAIN ready_queue = {}
      BY <3>4
    <3>6. QED
      BY <1>1, <3>1, <3>2, <3>5 DEF SchedulerInv, QueueExact
  <2>3. QED
    BY <1>1, <2>1, <2>2 DEF ParentsInv, Ancestry, CleanShutdown
<1>4. ASSUME NEW p \in Pid, Trap(p)
      PROVE  ParentsInv'
  <2>1. p \in tasks /\ halted = "no" /\ halted' = halted
    <3>1. current = p /\ halted = "no"
      BY <1>4 DEF Trap, Exit, Unsupported, Fault, ReturnOnly, set_priority, fork,
                  spawn, exec, wait, CodeOf, Running
    <3>2. halted' = halted
      BY <1>4 DEF Trap, Exit, Unsupported, Fault, End, ReturnOnly, set_priority,
                  fork, spawn, exec, wait
    <3>3. QED
      BY <1>1, <3>1, <3>2, NoProcNotPid DEF SchedulerInv, QueueExact
  <2>2. CleanShutdown'
    BY <2>1 DEF CleanShutdown
  <2>3. CASE Exit(p) \/ Unsupported(p) \/ Fault(p)
    <3>1. PICK code \in Codes : End(p, code)
      BY <2>3 DEF Exit, Unsupported, Fault, Codes
    <3>2. MayEnd(p)
      BY <2>3 DEF Exit, Unsupported, Fault, MayEnd
    <3>3. QED
      BY <1>1, <2>1, <2>2, <3>1, <3>2, AncestryEnd DEF ParentsInv
  <2>4. CASE ReturnOnly(p) \/ set_priority(p) \/ exec(p) \/ wait(p)
    <3>1. tasks' = tasks /\ parent' = parent
      BY <2>4 DEF ReturnOnly, set_priority, exec, wait
    <3>2. QED
      BY <1>1, <2>2, <3>1 DEF ParentsInv, Ancestry
  <2>5. CASE fork(p)
    <3>1. priority[p] \in Priorities
      BY <1>1 DEF TypeOK
    <3>2. QED
      BY <1>1, <2>1, <2>2, <2>5, <3>1, AncestryCreate DEF fork, ParentsInv
  <2>6. CASE spawn(p)
    BY <1>1, <2>1, <2>2, <2>6, StrideAssumption, AncestryCreate DEF spawn, ParentsInv
  <2>7. QED
    BY <1>4, <2>3, <2>4, <2>5, <2>6 DEF Trap
<1>5. CASE UNCHANGED vars
  BY <1>1, <1>5 DEF ParentsInv, Ancestry, CleanShutdown, vars, schedVars, procVars
<1>6. QED
  BY <1>2, <1>3, <1>4, <1>5 DEF Next, Kernel, ShutDown

LEMMA ParentsInvariant == Spec => []ParentsInv
<1>1. Init => ParentsInv
  BY SchedulerInit DEF Init, ParentsInv, Ancestry, CleanShutdown
<1>2. QED
  BY <1>1, ParentsNext, PTL DEF Spec

(* No orphans and no cycles: every live process but initproc has a live    *)
(* parent with a smaller pid, for any number of processes.                 *)
THEOREM AncestryCorrect == Spec => []Ancestry
<1>1. ParentsInv => Ancestry
  BY DEF ParentsInv
<1>2. QED
  BY <1>1, ParentsInvariant, PTL

(* initproc is always the last process to end.                             *)
THEOREM InitLastCorrect == Spec => []InitLast
<1>1. ParentsInv => InitLast
  BY AncestryGivesInitLast DEF ParentsInv, SchedulerInv
<1>2. QED
  BY <1>1, ParentsInvariant, PTL

(* The kernel shuts down with "no task" only when no process is left.      *)
THEOREM ShutdownCorrect == Spec => []CleanShutdown
<1>1. ParentsInv => CleanShutdown
  BY DEF ParentsInv
<1>2. QED
  BY <1>1, ParentsInvariant, PTL

-----------------------------------------------------------------------------
(*                    Exited processes and their codes                     *)

(* Only a pid that was handed out has an exit code, and only after its end. *)
EndedExact ==
    \A q \in Pid : exit_code[q] # NoCode => q < next_pid /\ q \notin tasks

(* The children of initproc's parent are never looked for: it has none.    *)
InitHasNoParent == InitPid \in tasks => parent[InitPid] = NoProc

(* What wait stores is never mistaken for what it stored before.           *)
StatusFresh == current # NoProc => status[current] = UserValue

DeathsInv ==
    /\ ParentsInv /\ DeadExact /\ EndedExact /\ InitHasNoParent
    /\ StatusFresh /\ ResumesAfterCall

(* A step that makes or ends no process and reports no end.                *)
LEMMA NoDeath ==
    ASSUME DeathsInv, UNCHANGED <<tasks, parent, dead, exit_code>>, next_pid' \in Nat,
           next_pid <= next_pid'
    PROVE  DeadExact' /\ EndedExact' /\ InitHasNoParent'
<1>1. next_pid \in Nat
  BY DEF DeathsInv, ParentsInv, SchedulerInv, TypeOK
<1>2. \A q \in Pid : q < next_pid => q < next_pid'
  BY <1>1
<1>3. QED
  BY <1>2 DEF DeathsInv, DeadExact, EndedExact, InitHasNoParent

LEMMA EndedFacts ==
    ASSUME TypeOK, DeadExact, EndedExact, NEW p \in Pid, NEW d \in dead[p]
    PROVE  /\ d = <<d[1], d[2]>> /\ d[1] \in Pid /\ d[2] \in Codes
           /\ p \in tasks /\ d[1] \notin tasks /\ d[2] = exit_code[d[1]]
           /\ exit_code[d[1]] # NoCode /\ d[1] < next_pid
<1>1. d \in Pid \X Codes
  BY DEF TypeOK
<1>2. d = <<d[1], d[2]>> /\ d[1] \in Pid /\ d[2] \in Codes
  BY <1>1
<1>3. NoCode \notin Codes
  <2>1. Codes \subseteq Int
    BY CodeAssumption DEF Codes
  <2>2. QED
    BY <2>1, CodeAssumption
<1>4. p \in tasks /\ d[1] \notin tasks /\ d[2] = exit_code[d[1]]
  BY DEF DeadExact
<1>5. exit_code[d[1]] # NoCode
  BY <1>2, <1>3, <1>4
<1>6. d[1] < next_pid
  BY <1>2, <1>5 DEF EndedExact
<1>7. QED
  BY <1>2, <1>4, <1>5, <1>6

(* exit, an unsupported call and a fault: the entry of p is made in the    *)
(* list of its parent, which is another process and goes on living.        *)
LEMMA DeathsEnd ==
    ASSUME DeathsInv, NEW p \in tasks, NEW code \in Codes, End(p, code)
    PROVE  DeadExact' /\ EndedExact' /\ InitHasNoParent'
<1>0. /\ TypeOK /\ Ancestry /\ PidsBorn /\ DeadExact /\ EndedExact /\ p \in Pid
      /\ code # NoCode
  BY CodeAssumption DEF DeathsInv, ParentsInv, SchedulerInv, TypeOK, Codes
<1>1. /\ tasks' = tasks \ {p} /\ next_pid' = next_pid
      /\ \A q \in Pid : dead'[q] = IF q = p THEN {}
                                   ELSE IF q = parent[p] THEN dead[q] \cup {<<p, code>>}
                                   ELSE dead[q]
      /\ \A q \in Pid : exit_code'[q] = IF q = p THEN code ELSE exit_code[q]
      /\ \A q \in Pid : parent'[q] = IF q = p THEN NoProc
                                     ELSE IF q \in Children(p) THEN InitPid ELSE parent[q]
  BY <1>0 DEF End, MakeCurrentExited, delete, Reparented, DeadAfterExit, TypeOK
<1>2. \A q \in Pid : q = parent[p] => q \in tasks \ {p}
  <2>1. CASE p = InitPid
    BY <2>1, NoProcNotPid DEF DeathsInv, InitHasNoParent
  <2>2. CASE p # InitPid
    BY <1>0, <2>2 DEF Ancestry
  <2>3. QED
    BY <2>1, <2>2
<1>3. ASSUME NEW q \in Pid, NEW d \in dead'[q]
      PROVE  /\ q \in tasks'
             /\ \/ d \in dead[q] /\ d[1] # p
                \/ d = <<p, code>> /\ q = parent[p]
  <2>1. d \in dead[q] => d[1] # p /\ q \in tasks
    BY <1>0, EndedFacts
  <2>2. q # p
    BY <1>1, <1>3
  <2>3. dead'[q] = IF q = parent[p] THEN dead[q] \cup {<<p, code>>} ELSE dead[q]
    BY <1>1, <2>2
  <2>4. d \in dead[q] \/ (d = <<p, code>> /\ q = parent[p])
    BY <1>3, <2>3
  <2>5. q \in tasks
    BY <1>2, <2>1, <2>4
  <2>6. q \in tasks'
    BY <1>1, <2>2, <2>5
  <2>7. QED
    BY <2>1, <2>4, <2>6
<1>4. DeadExact'
  <2>1. ASSUME NEW q \in Pid, NEW d \in dead'[q]
        PROVE  /\ q \in tasks' /\ d[1] \notin tasks' /\ d[2] = exit_code'[d[1]]
    <3>1. CASE d \in dead[q] /\ d[1] # p
      BY <1>0, <1>1, <1>3, <2>1, <3>1, EndedFacts
    <3>2. CASE d = <<p, code>>
      BY <1>0, <1>1, <1>3, <2>1, <3>2
    <3>3. QED
      BY <1>3, <2>1, <3>1, <3>2
  <2>2. ASSUME NEW q \in Pid, NEW d \in dead'[q], NEW r \in Pid, NEW e \in dead'[r], e[1] = d[1]
        PROVE  r = q
    <3>1. CASE d[1] = p
      BY <1>3, <2>2, <3>1
    <3>2. CASE d[1] # p
      <4>1. d \in dead[q] /\ e \in dead[r]
        BY <1>3, <2>2, <3>2
      <4>2. QED
        BY <1>0, <2>2, <4>1 DEF DeadExact
    <3>3. QED
      BY <3>1, <3>2
  <2>3. QED
    BY <2>1, <2>2 DEF DeadExact
<1>5. EndedExact'
  <2>1. p < next_pid
    BY <1>0 DEF PidsBorn, TypeOK
  <2>2. ASSUME NEW q \in Pid, exit_code'[q] # NoCode
        PROVE  q < next_pid /\ q \notin tasks \ {p}
    BY <1>0, <1>1, <2>1, <2>2 DEF EndedExact
  <2>3. QED
    BY <1>1, <2>2 DEF EndedExact
<1>6. InitHasNoParent'
  <2>1. SUFFICES ASSUME InitPid \in tasks'
                 PROVE  parent'[InitPid] = NoProc
    BY DEF InitHasNoParent
  <2>2. parent[InitPid] = NoProc /\ InitPid \in Pid
    BY <1>0, <1>1, <2>1 DEF DeathsInv, InitHasNoParent, TypeOK
  <2>3. InitPid \notin Children(p)
    BY <1>0, <2>2, NoProcNotPid DEF Children
  <2>4. QED
    BY <1>1, <2>1, <2>2, <2>3
<1>7. QED
  BY <1>4, <1>5, <1>6

(* fork and spawn: the pid is one no list and no exit code mentions.       *)
LEMMA DeathsCreate ==
    ASSUME DeathsInv, NEW p \in tasks, next_pid \in Pid, NEW prio,
           AddAndSuspend(next_pid, prio, p), UNCHANGED <<dead, exit_code>>,
           next_pid' = next_pid + 1
    PROVE  DeadExact' /\ EndedExact' /\ InitHasNoParent'
<1>0. TypeOK /\ PidsBorn /\ DeadExact /\ EndedExact /\ next_pid \in Nat \ {0}
  BY DEF DeathsInv, ParentsInv, SchedulerInv, TypeOK
<1>1. /\ tasks' = tasks \cup {next_pid}
      /\ \A q \in Pid : parent'[q] = IF q = next_pid THEN p ELSE parent[q]
  BY <1>0 DEF AddAndSuspend, UnderCaller, insert, TypeOK
<1>2. \A q \in Pid : \A d \in dead[q] : d[1] # next_pid
  <2>1. SUFFICES ASSUME NEW q \in Pid, NEW d \in dead[q]
                 PROVE  d[1] # next_pid
    OBVIOUS
  <2>2. d[1] \in Pid /\ d[1] < next_pid
    BY <1>0, EndedFacts
  <2>3. QED
    BY <1>0, <2>2
<1>3. DeadExact'
  BY <1>0, <1>1, <1>2 DEF DeadExact
<1>4. EndedExact'
  BY <1>0, <1>1 DEF EndedExact
<1>5. InitHasNoParent'
  BY <1>0, <1>1 DEF DeathsInv, InitHasNoParent, InitPid
<1>6. QED
  BY <1>3, <1>4, <1>5

(* wait takes one entry off the list of p, or none.                        *)
LEMMA WaitFacts ==
    ASSUME NEW p \in Pid, wait(p)
    PROVE  /\ current = p /\ current' = NoProc
           /\ UNCHANGED <<tasks, parent, next_pid, exit_code, halted>>
           /\ \/ \E d \in dead[p] :
                    /\ dead' = [dead EXCEPT ![p] = dead[p] \ {d}]
                    /\ status' = status \/ status' = [status EXCEPT ![p] = d[2]]
                    /\ ctx' = [ctx EXCEPT ![p] = Returned(d[1])]
              \/ /\ dead' = dead
                 /\ \E ret \in Int : ctx' = [ctx EXCEPT ![p] = Returned(ret)]
<1>1. current = p /\ current' = NoProc
  BY DEF wait, Running, MakeCurrentSuspend
<1>2. UNCHANGED <<tasks, parent, next_pid, exit_code, halted>>
  BY DEF wait, history
<1>3. PICK who \in {Pid} \cup {{q} : q \in Pid}, writable \in BOOLEAN :
        LET exited == {d \in dead[p] : d[1] \in who}
            stored(code) == IF writable THEN [status EXCEPT ![p] = code] ELSE status
        IN
        \/ \E d \in exited :
              /\ dead' = DeadAfterWait(p, d)
              /\ status' = stored(d[2])
              /\ ctx' = [ctx EXCEPT ![p] = Returned(d[1])]
        \/ /\ exited = {}
           /\ Children(p) \cap who # {}
           /\ status' = stored(-1)
           /\ ctx' = [ctx EXCEPT ![p] = Returned(-2)]
           /\ UNCHANGED dead
        \/ /\ exited = {}
           /\ Children(p) \cap who = {}
           /\ ctx' = [ctx EXCEPT ![p] = Returned(-1)]
           /\ UNCHANGED <<dead, status>>
  BY DEF wait, CodeOf
<1>4. \/ \E d \in dead[p] :
            /\ dead' = [dead EXCEPT ![p] = dead[p] \ {d}]
            /\ status' = status \/ status' = [status EXCEPT ![p] = d[2]]
            /\ ctx' = [ctx EXCEPT ![p] = Returned(d[1])]
      \/ /\ dead' = dead
         /\ \E ret \in Int : ctx' = [ctx EXCEPT ![p] = Returned(ret)]
  BY <1>3 DEF DeadAfterWait
<1>5. QED
  BY <1>1, <1>2, <1>4

LEMMA DeathsWait ==
    ASSUME DeathsInv, NEW p \in tasks, wait(p)
    PROVE  DeadExact' /\ EndedExact' /\ InitHasNoParent'
<1>1. TypeOK /\ p \in Pid
  BY DEF DeathsInv, ParentsInv, SchedulerInv, TypeOK
<1>2. UNCHANGED <<tasks, parent, next_pid, exit_code>>
  BY <1>1, WaitFacts
<1>3. \A q \in Pid : dead'[q] \subseteq dead[q]
  <2>1. dead' = dead \/ \E d : dead' = [dead EXCEPT ![p] = dead[p] \ {d}]
    BY <1>1, WaitFacts
  <2>2. dead = [q \in Pid |-> dead[q]]
    BY <1>1 DEF TypeOK
  <2>3. QED
    BY <2>1, <2>2
<1>4. QED
  BY <1>2, <1>3 DEF DeathsInv, DeadExact, EndedExact, InitHasNoParent

(* The program of a process that is not running goes on after its call.    *)
LEMMA ResumesStep ==
    ASSUME DeathsInv, NEW p \in tasks, current = p, current' = NoProc,
           tasks' \subseteq tasks \cup {next_pid},
           \A q \in tasks' : ctx'[q].pc # "ecall" \/ (q # p /\ q \in tasks /\ ctx'[q] = ctx[q])
    PROVE  ResumesAfterCall' /\ StatusFresh'
BY DEF DeathsInv, ResumesAfterCall, StatusFresh

(* A call of p after which p goes on after its ecall or at an entry.       *)
LEMMA SuspendResumes ==
    ASSUME DeathsInv, NEW p \in tasks, current = p, current' = NoProc, tasks' = tasks,
           NEW c, c.pc # "ecall", ctx' = [ctx EXCEPT ![p] = c]
    PROVE  ResumesAfterCall' /\ StatusFresh'
<1>1. /\ ctx \in [Pid -> Context] /\ tasks \subseteq Pid
  BY DEF DeathsInv, ParentsInv, SchedulerInv, TypeOK
<1>2. \A q \in tasks : ctx'[q] = IF q = p THEN c ELSE ctx[q]
  BY <1>1
<1>3. QED
  BY <1>2, ResumesStep

LEMMA CreateResumes ==
    ASSUME DeathsInv, NEW p \in tasks, current = p, next_pid \in Pid, NEW prio,
           AddAndSuspend(next_pid, prio, p), NEW c \in ReturnedThroughTask(p, next_pid),
           NEW d, d.pc # "ecall", ctx' = [ctx EXCEPT ![p] = c, ![next_pid] = d]
    PROVE  ResumesAfterCall' /\ StatusFresh'
<1>1. TypeOK /\ p \in Pid /\ ctx \in [Pid -> Context] /\ tasks \subseteq Pid
  BY DEF DeathsInv, ParentsInv, SchedulerInv, TypeOK
<1>2. c.pc # "ecall"
  BY <1>1, ReturnedThroughTaskFacts
<1>3. tasks' = tasks \cup {next_pid} /\ current' = NoProc
  BY DEF AddAndSuspend, insert
<1>4. \A q \in Pid : ctx'[q] = IF q = next_pid THEN d ELSE IF q = p THEN c ELSE ctx[q]
  BY <1>1
<1>5. \A q \in tasks' : ctx'[q].pc # "ecall" \/ (q # p /\ q \in tasks /\ ctx'[q] = ctx[q])
  BY <1>1, <1>2, <1>3, <1>4
<1>6. QED
  BY <1>3, <1>5, ResumesStep

LEMMA TrapFacts ==
    ASSUME ParentsInv, NEW p \in Pid, Trap(p)
    PROVE  current = p /\ p \in tasks
<1>1. current = p
  BY DEF Trap, Exit, Unsupported, Fault, ReturnOnly, set_priority, fork,
         spawn, exec, wait, CodeOf, Running
<1>2. QED
  BY <1>1, NoProcNotPid DEF ParentsInv, SchedulerInv, QueueExact

LEMMA ForkedFacts ==
    ASSUME TypeOK, NEW p \in Pid
    PROVE  ForkedContext(p) = Returned(0) /\ ForkedContext(p).pc # "ecall"
<1>1. ctx[p] \in Context
  BY DEF TypeOK
<1>2. ctx[p] = [pc |-> ctx[p].pc, a0 |-> ctx[p].a0]
  BY <1>1 DEF Context
<1>3. ClonedContext(p) = [pc |-> "after", a0 |-> ctx[p].a0]
  BY <1>2 DEF ClonedContext
<1>4. ForkedContext(p) = [pc |-> "after", a0 |-> 0]
  BY <1>3 DEF ForkedContext
<1>5. QED
  BY <1>4 DEF Returned

LEMMA DeathsNext ==
    ASSUME DeathsInv, [Next]_vars
    PROVE  DeathsInv'
<1>0. TypeOK /\ QueueExact /\ next_pid \in Nat /\ ParentsInv
  BY DEF DeathsInv, ParentsInv, SchedulerInv, TypeOK
<1>1. ParentsInv'
  BY ParentsNext DEF DeathsInv
<1>2. CASE Dispatch
  <2>1. DeadExact' /\ EndedExact' /\ InitHasNoParent'
    BY <1>0, <1>2, NoDeath DEF Dispatch
  <2>2. /\ Fetched \in Pid /\ current' = Fetched /\ tasks' = tasks /\ tasks \subseteq Pid
        /\ current = NoProc /\ NoProc \notin tasks
    BY <1>0, <1>2, NoProcNotPid DEF Dispatch, TypeOK, Idle
  <2>3. StatusFresh'
    BY <1>0, <1>2, <2>2 DEF Dispatch, StatusFresh, TypeOK
  <2>4. \A q \in tasks \ {Fetched} : ctx'[q] = ctx[q] /\ ctx[q].pc # "ecall"
    BY <1>0, <1>2, <2>2 DEF Dispatch, TypeOK, DeathsInv, ResumesAfterCall
  <2>5. ResumesAfterCall'
    BY <2>2, <2>4 DEF ResumesAfterCall
  <2>6. QED
    BY <1>1, <2>1, <2>3, <2>5 DEF DeathsInv
<1>3. CASE UNCHANGED <<tasks, parent, dead, exit_code, next_pid, current, ctx, status>>
  <2>1. DeadExact' /\ EndedExact' /\ InitHasNoParent'
    BY <1>0, <1>3, NoDeath
  <2>2. StatusFresh' /\ ResumesAfterCall'
    BY <1>3 DEF DeathsInv, StatusFresh, ResumesAfterCall
  <2>3. QED
    BY <1>1, <2>1, <2>2 DEF DeathsInv
<1>4. CASE StrideOverflow \/ NoTask
  BY <1>3, <1>4 DEF StrideOverflow, NoTask, schedVars, history
<1>5. ASSUME NEW p \in Pid, Trap(p)
      PROVE  DeathsInv'
  <2>0. current = p /\ p \in tasks
    BY <1>0, <1>5, TrapFacts
  <2>1. CASE Exit(p) \/ Unsupported(p) \/ Fault(p)
    <3>1. PICK code \in Codes : End(p, code)
      BY <2>1 DEF Exit, Unsupported, Fault, Codes
    <3>2. DeadExact' /\ EndedExact' /\ InitHasNoParent'
      BY <2>0, <3>1, DeathsEnd
    <3>3. current' = NoProc /\ tasks' = tasks \ {p}
          /\ \A q \in tasks' : q # p /\ q \in tasks /\ ctx'[q] = ctx[q]
      BY <1>0, <3>1 DEF End, MakeCurrentExited, delete, TypeOK
    <3>4. ResumesAfterCall' /\ StatusFresh'
      BY <2>0, <3>3, ResumesStep
    <3>5. QED
      BY <1>1, <3>2, <3>4 DEF DeathsInv
  <2>2. ASSUME UNCHANGED <<tasks, parent, dead, exit_code>>, next_pid' \in {next_pid, next_pid + 1},
               current' = NoProc, \E c \in Context : c.pc # "ecall" /\ ctx' = [ctx EXCEPT ![p] = c]
        PROVE  DeathsInv'
    <3>1. DeadExact' /\ EndedExact' /\ InitHasNoParent'
      BY <1>0, <2>2, NoDeath
    <3>2. ResumesAfterCall' /\ StatusFresh'
      BY <2>0, <2>2, SuspendResumes
    <3>3. QED
      BY <1>1, <3>1, <3>2 DEF DeathsInv
  <2>3. \A ret \in Int : Returned(ret) \in Context /\ Returned(ret).pc # "ecall"
    BY ContextFacts DEF Returned
  <2>4. CASE ReturnOnly(p)
    <3>1. \E c \in Context : c.pc # "ecall" /\ ctx' = [ctx EXCEPT ![p] = c]
      <4>1. PICK ret \in {0, -1} : ctx' = [ctx EXCEPT ![p] = Returned(ret)]
        BY <2>4 DEF ReturnOnly
      <4>2. ret \in Int
        OBVIOUS
      <4>3. QED
        BY <2>3, <4>1, <4>2
    <3>2. QED
      BY <2>2, <2>4, <3>1 DEF ReturnOnly, MakeCurrentSuspend, history
  <2>5. CASE set_priority(p)
    <3>1. \E c \in Context : c.pc # "ecall" /\ ctx' = [ctx EXCEPT ![p] = c]
      <4>1. PICK prio \in Priorities : ctx' = [ctx EXCEPT ![p] = Returned(prio)]
        BY <2>5 DEF set_priority
      <4>2. prio \in Int
        BY StrideAssumption
      <4>3. QED
        BY <2>3, <4>1, <4>2
    <3>2. QED
      BY <2>2, <2>5, <3>1 DEF set_priority, MakeCurrentSuspend, history
  <2>6. CASE exec(p)
    <3>1. Fresh \in Context /\ Fresh.pc # "ecall"
      BY ContextFacts DEF Fresh
    <3>2. QED
      BY <2>2, <2>6, <3>1 DEF exec, MakeCurrentSuspend, history
  <2>7. CASE wait(p)
    <3>1. DeadExact' /\ EndedExact' /\ InitHasNoParent'
      BY <2>0, <2>7, DeathsWait
    <3>2. current' = NoProc /\ tasks' = tasks
      BY <2>7, WaitFacts
    <3>3. PICK ret \in Int : ctx' = [ctx EXCEPT ![p] = Returned(ret)]
      <4>1. \A d \in dead[p] : d[1] \in Int
        BY <1>0 DEF TypeOK
      <4>2. QED
        BY <2>7, <4>1, WaitFacts
    <3>4. ResumesAfterCall' /\ StatusFresh'
      BY <2>0, <2>3, <3>2, <3>3, SuspendResumes
    <3>5. QED
      BY <1>1, <3>1, <3>4 DEF DeathsInv
  <2>8. CASE fork(p)
    <3>1. DeadExact' /\ EndedExact' /\ InitHasNoParent'
      BY <2>0, <2>8, DeathsCreate DEF fork, history
    <3>2. ForkedContext(p).pc # "ecall"
      BY <1>0, ForkedFacts
    <3>3. ResumesAfterCall' /\ StatusFresh'
      BY <2>0, <2>8, <3>2, CreateResumes DEF fork
    <3>4. QED
      BY <1>1, <3>1, <3>3 DEF DeathsInv
  <2>9. CASE spawn(p)
    <3>1. DeadExact' /\ EndedExact' /\ InitHasNoParent'
      BY <2>0, <2>9, DeathsCreate DEF spawn, history
    <3>2. Fresh.pc # "ecall"
      BY DEF Fresh
    <3>3. ResumesAfterCall' /\ StatusFresh'
      BY <2>0, <2>9, <3>2, CreateResumes DEF spawn
    <3>4. QED
      BY <1>1, <3>1, <3>3 DEF DeathsInv
  <2>10. QED
    BY <1>5, <2>1, <2>4, <2>5, <2>6, <2>7, <2>8, <2>9 DEF Trap
<1>6. QED
  BY <1>2, <1>3, <1>4, <1>5 DEF Next, Kernel, ShutDown, vars, schedVars, procVars, history

LEMMA DeathsInvariant == Spec => []DeathsInv
<1>1. Init => DeathsInv
  <2>1. Init => ParentsInv
    BY SchedulerInit DEF Init, ParentsInv, Ancestry, CleanShutdown
  <2>2. Init => DeadExact /\ EndedExact /\ InitHasNoParent /\ StatusFresh /\ ResumesAfterCall
    BY DEF Init, DeadExact, EndedExact, InitHasNoParent, StatusFresh, ResumesAfterCall,
           InitPid, Fresh
  <2>3. QED
    BY <2>1, <2>2 DEF DeathsInv
<1>2. DeathsInv /\ [Next]_vars => DeathsInv'
  BY DeathsNext
<1>3. QED
  BY <1>1, <1>2, PTL DEF Spec

(* Every dead child is in the list of one live process, with the code it   *)
(* exited with.                                                            *)
THEOREM DeadCorrect == Spec => []DeadExact
<1>1. DeathsInv => DeadExact
  BY DEF DeathsInv
<1>2. QED
  BY <1>1, DeathsInvariant, PTL

(* No process makes the call it is in a second time, neither the one that  *)
(* made it nor the child of a fork.                                        *)
THEOREM ResumesCorrect == Spec => []ResumesAfterCall
<1>1. DeathsInv => ResumesAfterCall
  BY DEF DeathsInv
<1>2. QED
  BY <1>1, DeathsInvariant, PTL

-----------------------------------------------------------------------------
(*                 What parent and child are told                          *)

(* Which steps make a process, take an entry off a list, or end one.       *)
LEMMA StepCases ==
    ASSUME DeathsInv, Next
    PROVE  \/ UNCHANGED <<tasks, parent, dead, exit_code>>
           \/ \E p \in tasks, code \in Codes : current = p /\ MayEnd(p) /\ End(p, code)
           \/ \E p \in tasks : wait(p)
           \/ \E p \in tasks : fork(p)
           \/ \E p \in tasks : spawn(p)
<1>1. CASE Kernel
  BY <1>1 DEF Kernel, Dispatch, StrideOverflow, NoTask, ShutDown, vars, schedVars,
              procVars, history
<1>2. ASSUME NEW p \in Pid, Trap(p)
      PROVE  \/ UNCHANGED <<tasks, parent, dead, exit_code>>
             \/ \E code \in Codes : MayEnd(p) /\ End(p, code)
             \/ wait(p) \/ fork(p) \/ spawn(p)
  <2>1. CASE Exit(p) \/ Unsupported(p) \/ Fault(p)
    BY <2>1 DEF Exit, Unsupported, Fault, Codes, MayEnd
  <2>2. CASE ReturnOnly(p) \/ set_priority(p) \/ exec(p)
    BY <2>2 DEF ReturnOnly, set_priority, exec, history
  <2>3. QED
    BY <1>2, <2>1, <2>2 DEF Trap
<1>3. ASSUME NEW p \in Pid, Trap(p)
      PROVE  current = p /\ p \in tasks
  BY <1>3, TrapFacts DEF DeathsInv
<1>4. QED
  BY <1>1, <1>2, <1>3 DEF Next

LEMMA EndEffect ==
    ASSUME TypeOK, NEW p \in Pid, NEW code, End(p, code)
    PROVE  /\ tasks' = tasks \ {p}
           /\ \A q \in Pid : dead'[q] = IF q = p THEN {}
                                        ELSE IF q = parent[p] THEN dead[q] \cup {<<p, code>>}
                                        ELSE dead[q]
           /\ \A q \in Pid : exit_code'[q] = IF q = p THEN code ELSE exit_code[q]
           /\ exit_code' = [exit_code EXCEPT ![p] = code]
           /\ \A q \in Pid : parent'[q] = IF q = p THEN NoProc
                                          ELSE IF q \in Children(p) THEN InitPid ELSE parent[q]
BY DEF End, MakeCurrentExited, delete, Reparented, DeadAfterExit, TypeOK

LEMMA CreateEffect ==
    ASSUME TypeOK, NEW p \in Pid, fork(p) \/ spawn(p)
    PROVE  /\ current = p /\ next_pid \in Pid
           /\ tasks' = tasks \cup {next_pid} /\ UNCHANGED <<dead, exit_code>>
           /\ \A q \in Pid : parent'[q] = IF q = next_pid THEN p ELSE parent[q]
           /\ \E c \in ReturnedThroughTask(p, next_pid), d \in {Returned(0), Fresh} :
                 ctx' = [ctx EXCEPT ![p] = c, ![next_pid] = d]
<1>1. ForkedContext(p) = Returned(0)
  BY ForkedFacts
<1>2. CASE fork(p)
  BY <1>1, <1>2 DEF fork, Running, AddAndSuspend, UnderCaller, insert, history, TypeOK
<1>3. CASE spawn(p)
  BY <1>3 DEF spawn, Running, AddAndSuspend, UnderCaller, insert, history, TypeOK
<1>4. QED
  BY <1>2, <1>3

(* A new pid is in no list, has no exit code, and is not alive.            *)
LEMMA NextPidNew ==
    ASSUME DeathsInv, next_pid \in Pid
    PROVE  /\ next_pid \notin tasks /\ exit_code[next_pid] = NoCode
           /\ \A q \in Pid : \A d \in dead[q] : d[1] # next_pid
<1>1. TypeOK /\ PidsBorn /\ DeadExact /\ EndedExact
  BY DEF DeathsInv, ParentsInv, SchedulerInv
<1>2. next_pid \notin tasks
  BY <1>1 DEF PidsBorn
<1>3. exit_code[next_pid] = NoCode
  BY <1>1 DEF EndedExact
<1>4. QED
  BY <1>1, <1>2, <1>3, EndedFacts

(* A child starts with 0 at the instruction after the fork, or at an       *)
(* entry; it has a pid nobody had, and its parent is told that pid.        *)
THEOREM ForkCorrect == Spec => ForkReturnsTwice
<1> DEFINE Told(c) ==
              /\ \A p \in Pid : c \notin DeadChildren(p)
              /\ exit_code[c] = NoCode
              /\ ctx'[c] \in {Returned(0), Fresh}
              /\ parent'[c] = current
              /\ ~MayMove(current) => ctx'[current] = Returned(c)
<1>1. ASSUME DeathsInv, Next, NEW c \in Pid, Newborn(c)
      PROVE  Told(c)
  <2>0. TypeOK /\ tasks \subseteq Pid
    BY <1>1 DEF DeathsInv, ParentsInv, SchedulerInv, TypeOK
  <2>1. PICK p \in tasks : fork(p) \/ spawn(p)
    <3>1. ~UNCHANGED <<tasks, parent, dead, exit_code>>
      BY <1>1 DEF Newborn
    <3>2. ASSUME NEW p \in tasks, NEW code, End(p, code)
          PROVE  FALSE
      BY <1>1, <2>0, <3>2, EndEffect DEF Newborn
    <3>3. ASSUME NEW p \in tasks, wait(p)
          PROVE  FALSE
      BY <1>1, <2>0, <3>3, WaitFacts DEF Newborn
    <3>4. QED
      BY <1>1, <3>1, <3>2, <3>3, StepCases
  <2>2. p \in Pid
    BY <2>0
  <2>3. /\ current = p /\ next_pid \in Pid
        /\ tasks' = tasks \cup {next_pid}
        /\ parent'[next_pid] = p
    BY <2>0, <2>1, <2>2, CreateEffect
  <2>4. c = next_pid
    BY <1>1, <2>3 DEF Newborn
  <2>5. PICK r \in ReturnedThroughTask(p, next_pid), d \in {Returned(0), Fresh} :
           ctx' = [ctx EXCEPT ![p] = r, ![next_pid] = d]
    BY <2>0, <2>1, <2>2, CreateEffect
  <2>6. /\ next_pid \notin tasks /\ exit_code[next_pid] = NoCode
        /\ \A q \in Pid : next_pid \notin DeadChildren(q)
    BY <1>1, <2>3, NextPidNew DEF DeadChildren
  <2>7. ctx'[next_pid] = d /\ ctx'[p] = r
    BY <2>0, <2>2, <2>3, <2>5, <2>6 DEF TypeOK
  <2>8. ~MayMove(p) => r = Returned(next_pid)
    BY <2>5 DEF ReturnedThroughTask
  <2>9. QED
    BY <2>3, <2>4, <2>5, <2>6, <2>7, <2>8
<1>2. ASSUME DeathsInv, [Next]_vars
      PROVE  [\A c \in Pid : Newborn(c) => Told(c)]_vars
  BY <1>1, <1>2
<1>3. QED
  BY <1>2, DeathsInvariant, PTL DEF Spec, ForkReturnsTwice

(* An exited process leaves the list of a live parent only in a wait that  *)
(* answers with its pid and, where it stores a code, stores its code.      *)
THEOREM WaitCorrect == Spec => WaitTellsTheCode
<1> DEFINE Gone(p, q) == q \in DeadChildren(p) /\ q \notin DeadChildren(p)' /\ p \in tasks'
           Told(p, q) ==
              /\ current = p
              /\ ctx'[p] = Returned(q)
              /\ status'[p] \in {exit_code[q], UserValue}
              /\ dead'[p] = dead[p] \ {<<q, exit_code[q]>>}
<1>1. ASSUME DeathsInv, Next, NEW p \in Pid, NEW q \in Pid, Gone(p, q)
      PROVE  Told(p, q)
  <2>0. TypeOK /\ tasks \subseteq Pid /\ DeadExact /\ EndedExact
    BY <1>1 DEF DeathsInv, ParentsInv, SchedulerInv, TypeOK
  <2>1. PICK d \in dead[p] : d[1] = q /\ d \notin dead'[p]
    BY <1>1 DEF DeadChildren
  <2>2. d = <<q, exit_code[q]>>
    BY <2>0, <2>1, EndedFacts
  <2>3. PICK w \in tasks : wait(w)
    <3>1. ~UNCHANGED <<tasks, parent, dead, exit_code>>
      BY <2>1
    <3>2. ASSUME NEW w \in tasks, NEW code, End(w, code)
          PROVE  FALSE
      <4>1. p # w /\ w \in Pid
        BY <1>1, <2>0, <3>2, EndEffect
      <4>2. dead'[p] = IF p = parent[w] THEN dead[p] \cup {<<w, code>>} ELSE dead[p]
        BY <2>0, <3>2, <4>1, EndEffect
      <4>3. QED
        BY <2>1, <4>2
    <3>3. ASSUME NEW w \in tasks, fork(w) \/ spawn(w)
          PROVE  FALSE
      BY <2>0, <2>1, <3>3, CreateEffect
    <3>4. QED
      BY <1>1, <3>1, <3>2, <3>3, StepCases
  <2>4. w \in Pid /\ current = w
    BY <2>0, <2>3, WaitFacts
  <2>5. PICK e \in dead[w] : /\ dead' = [dead EXCEPT ![w] = dead[w] \ {e}]
                             /\ status' = status \/ status' = [status EXCEPT ![w] = e[2]]
                             /\ ctx' = [ctx EXCEPT ![w] = Returned(e[1])]
    BY <2>1, <2>3, <2>4, WaitFacts
  <2>6. w = p /\ e = d
    BY <2>0, <2>1, <2>4, <2>5 DEF TypeOK
  <2>7. status[p] = UserValue
    BY <1>1, <2>4, <2>6, NoProcNotPid DEF DeathsInv, StatusFresh
  <2>8. /\ ctx'[p] = Returned(q) /\ dead'[p] = dead[p] \ {d}
        /\ status'[p] \in {exit_code[q], UserValue}
    BY <2>0, <2>1, <2>2, <2>5, <2>6, <2>7 DEF TypeOK
  <2>9. QED
    BY <2>2, <2>4, <2>6, <2>8
<1>2. ASSUME DeathsInv, [Next]_vars
      PROVE  [\A p, q \in Pid : Gone(p, q) => Told(p, q)]_vars
  BY <1>1, <1>2
<1>3. QED
  BY <1>2, DeathsInvariant, PTL DEF Spec, WaitTellsTheCode

-----------------------------------------------------------------------------
(*             The kernel implements ProcessLifecycle                      *)

Held(q) == \E p \in Pid : q \in DeadChildren(p)

(* What ProcessLifecycle sees of a process, by where the kernel keeps it.  *)
BarsExact ==
    \A q \in Pid :
        /\ q \in tasks => lifeBar[q] = "live" /\ ownerBar[q] = parent[q]
        /\ q \notin tasks /\ exit_code[q] = NoCode =>
              lifeBar[q] = "unborn" /\ ownerBar[q] = NoProc
        /\ \A p \in Pid : q \in DeadChildren(p) =>
              /\ lifeBar[q] = "zombie" /\ ownerBar[q] = p
              /\ q \notin tasks /\ exit_code[q] # NoCode /\ p \in tasks
        /\ q \notin tasks /\ exit_code[q] # NoCode /\ ~Held(q) =>
              lifeBar[q] = "gone" /\ ownerBar[q] = NoProc

LEMMA BarFacts == DeathsInv => BarsExact
<1>1. SUFFICES ASSUME DeathsInv, NEW q \in Pid
               PROVE  /\ q \in tasks => lifeBar[q] = "live" /\ ownerBar[q] = parent[q]
                      /\ q \notin tasks /\ exit_code[q] = NoCode =>
                            lifeBar[q] = "unborn" /\ ownerBar[q] = NoProc
                      /\ \A p \in Pid : q \in DeadChildren(p) =>
                            /\ lifeBar[q] = "zombie" /\ ownerBar[q] = p
                            /\ q \notin tasks /\ exit_code[q] # NoCode /\ p \in tasks
                      /\ q \notin tasks /\ exit_code[q] # NoCode /\ ~Held(q) =>
                            lifeBar[q] = "gone" /\ ownerBar[q] = NoProc
  BY DEF BarsExact
<1>2. ASSUME NEW p \in Pid, q \in DeadChildren(p)
      PROVE  q \notin tasks /\ exit_code[q] # NoCode /\ p \in tasks /\ Holders(q) = {p}
  <2>0. TypeOK /\ DeadExact /\ EndedExact
    BY <1>1 DEF DeathsInv, ParentsInv, SchedulerInv
  <2>1. PICK d \in dead[p] : d[1] = q
    BY <1>2 DEF DeadChildren
  <2>2. q \notin tasks /\ exit_code[q] # NoCode /\ p \in tasks
    BY <2>0, <2>1, EndedFacts
  <2>3. \A r \in Holders(q) : r = p
    BY <2>0, <2>1 DEF Holders, DeadChildren, DeadExact
  <2>4. QED
    BY <1>2, <2>2, <2>3 DEF Holders
<1>3. ~Held(q) <=> Holders(q) = {}
  BY DEF Held, Holders
<1>4. q \in tasks => lifeBar[q] = "live" /\ ownerBar[q] = parent[q]
  BY DEF lifeBar, ownerBar
<1>5. ASSUME q \notin tasks
      PROVE  /\ lifeBar[q] = IF exit_code[q] = NoCode THEN "unborn"
                             ELSE IF Holders(q) # {} THEN "zombie" ELSE "gone"
             /\ Holders(q) = {} => ownerBar[q] = NoProc
             /\ \A p : Holders(q) = {p} => ownerBar[q] = p
  BY <1>5 DEF lifeBar, ownerBar
<1>6. exit_code[q] = NoCode => Holders(q) = {}
  BY <1>2 DEF Holders
<1>7. QED
  BY <1>2, <1>3, <1>4, <1>5, <1>6

(* The two sides of a step.                                                *)
LEMMA BarsNext == DeathsInv /\ [Next]_vars => BarsExact /\ BarsExact'
<1>1. DeathsInv => BarsExact
  BY BarFacts
<1>2. DeathsInv' => BarsExact'
  BY <1>1, PTL
<1>3. QED
  BY <1>1, <1>2, DeathsNext

LEMMA BarFunctions ==
    /\ lifeBar = [q \in Pid |-> lifeBar[q]] /\ lifeBar' = [q \in Pid |-> lifeBar'[q]]
    /\ ownerBar = [q \in Pid |-> ownerBar[q]] /\ ownerBar' = [q \in Pid |-> ownerBar'[q]]
  BY DEF lifeBar, ownerBar

(* What no step of the kernel about other processes changes of this one.   *)
LEMMA BarSame ==
    ASSUME BarsExact, BarsExact', NEW q \in Pid,
           q \in tasks <=> q \in tasks', parent'[q] = parent[q] \/ q \notin tasks,
           exit_code'[q] = exit_code[q],
           \A p \in Pid : q \in DeadChildren(p) <=> q \in DeadChildren(p)'
    PROVE  lifeBar'[q] = lifeBar[q] /\ ownerBar'[q] = ownerBar[q]
<1>1. CASE q \in tasks
  BY <1>1 DEF BarsExact
<1>2. CASE q \notin tasks /\ exit_code[q] = NoCode
  BY <1>2 DEF BarsExact
<1>3. ASSUME NEW p \in Pid, q \in DeadChildren(p)
      PROVE  lifeBar'[q] = lifeBar[q] /\ ownerBar'[q] = ownerBar[q]
  BY <1>3 DEF BarsExact
<1>4. CASE q \notin tasks /\ exit_code[q] # NoCode /\ ~Held(q)
  BY <1>4 DEF BarsExact, Held
<1>5. QED
  BY <1>1, <1>2, <1>3, <1>4 DEF Held

(* fork and spawn are a birth.                                             *)
LEMMA BirthStep ==
    ASSUME DeathsInv, BarsExact, BarsExact', NEW p \in tasks, fork(p) \/ spawn(p)
    PROVE  Lifecycle!Birth(p, next_pid)
<1>0. TypeOK /\ p \in Pid
  BY DEF DeathsInv, ParentsInv, SchedulerInv, TypeOK
<1>1. /\ next_pid \in Pid
      /\ tasks' = tasks \cup {next_pid} /\ UNCHANGED <<dead, exit_code>>
      /\ \A q \in Pid : parent'[q] = IF q = next_pid THEN p ELSE parent[q]
  BY <1>0, CreateEffect
<1>2. next_pid \notin tasks /\ exit_code[next_pid] = NoCode
  BY <1>1, NextPidNew
<1>3. lifeBar[p] = "live" /\ lifeBar[next_pid] = "unborn"
  BY <1>0, <1>1, <1>2 DEF BarsExact
<1>4. lifeBar'[next_pid] = "live" /\ ownerBar'[next_pid] = p
  BY <1>1 DEF BarsExact
<1>5. ASSUME NEW q \in Pid, q # next_pid
      PROVE  lifeBar'[q] = lifeBar[q] /\ ownerBar'[q] = ownerBar[q]
  <2>1. /\ q \in tasks <=> q \in tasks'
        /\ parent'[q] = parent[q] /\ exit_code'[q] = exit_code[q]
        /\ \A r \in Pid : q \in DeadChildren(r) <=> q \in DeadChildren(r)'
    BY <1>1, <1>5 DEF DeadChildren
  <2>2. QED
    BY <2>1, BarSame
<1>6. lifeBar' = [lifeBar EXCEPT ![next_pid] = "live"]
  BY <1>1, <1>4, <1>5, BarFunctions
<1>7. ownerBar' = [ownerBar EXCEPT ![next_pid] = p]
  BY <1>1, <1>4, <1>5, BarFunctions
<1>8. QED
  BY <1>1, <1>3, <1>6, <1>7 DEF Lifecycle!Birth

(* The entry wait takes off the list is the only one of that process.      *)
LEMMA ReapStep ==
    ASSUME DeathsInv, BarsExact, BarsExact', NEW p \in tasks, wait(p),
           NEW d \in dead[p], dead' = [dead EXCEPT ![p] = dead[p] \ {d}]
    PROVE  Lifecycle!Reap(p, d[1])
<1>0. TypeOK /\ DeadExact /\ EndedExact /\ p \in Pid
  BY DEF DeathsInv, ParentsInv, SchedulerInv, TypeOK
<1>1. UNCHANGED <<tasks, parent, exit_code>>
  BY <1>0, WaitFacts
<1>2. d[1] \in Pid /\ d[1] \in DeadChildren(p)
  BY <1>0, EndedFacts DEF DeadChildren
<1>3. \A q \in Pid : dead'[q] = IF q = p THEN dead[p] \ {d} ELSE dead[q]
  BY <1>0 DEF TypeOK
<1>4. lifeBar[p] = "live" /\ lifeBar[d[1]] = "zombie" /\ ownerBar[d[1]] = p
  BY <1>0, <1>2 DEF BarsExact
<1>5. lifeBar'[d[1]] = "gone" /\ ownerBar'[d[1]] = NoProc
  <2>1. d[1] \notin tasks' /\ exit_code'[d[1]] # NoCode
    BY <1>0, <1>1, EndedFacts
  <2>2. ASSUME NEW r \in Pid, NEW e \in dead'[r]
        PROVE  e[1] # d[1]
    <3>1. e \in dead[r]
      BY <1>3, <2>2
    <3>2. CASE r = p
      <4>1. e = <<e[1], exit_code[e[1]]>> /\ d = <<d[1], exit_code[d[1]]>>
        BY <1>0, <3>1, <3>2, EndedFacts
      <4>2. e # d
        BY <1>0, <1>3, <2>2, <3>2
      <4>3. QED
        BY <4>1, <4>2
    <3>3. CASE r # p
      BY <1>0, <3>1, <3>3 DEF DeadExact
    <3>4. QED
      BY <3>2, <3>3
  <2>3. ~Held(d[1])'
    BY <2>2 DEF Held, DeadChildren
  <2>4. QED
    BY <1>2, <2>1, <2>3 DEF BarsExact
<1>6. ASSUME NEW q \in Pid, q # d[1]
      PROVE  lifeBar'[q] = lifeBar[q] /\ ownerBar'[q] = ownerBar[q]
  <2>1. ASSUME NEW r \in Pid
        PROVE  q \in DeadChildren(r) <=> q \in DeadChildren(r)'
    BY <1>0, <1>3, <1>6 DEF DeadChildren
  <2>2. QED
    BY <1>1, <2>1, BarSame
<1>7. lifeBar' = [lifeBar EXCEPT ![d[1]] = "gone"]
  BY <1>2, <1>5, <1>6, BarFunctions
<1>8. ownerBar' = [ownerBar EXCEPT ![d[1]] = NoProc]
  BY <1>2, <1>5, <1>6, BarFunctions
<1>9. d[1] \in Lifecycle!Owned(p, {"zombie"})
  BY <1>2, <1>4 DEF Lifecycle!Owned
<1>10. QED
  BY <1>1, <1>4, <1>7, <1>8, <1>9 DEF Lifecycle!Reap

(* The processes of which p is the owner: its live children, and those it  *)
(* has not waited for.                                                     *)
LEMMA OwnedFacts ==
    ASSUME DeathsInv, BarsExact, NEW p \in tasks
    PROVE  /\ Lifecycle!Owned(p, {"live"}) = {q \in Pid : q \in Children(p)}
           /\ Lifecycle!Owned(p, {"zombie"}) = {q \in Pid : q \in DeadChildren(p)}
           /\ Lifecycle!Owned(p, {"live", "zombie"}) =
                 {q \in Pid : q \in Children(p) \/ q \in DeadChildren(p)}
<1>0. p \in Pid /\ NoProc # p
  BY NoProcNotPid DEF DeathsInv, ParentsInv, SchedulerInv, TypeOK
<1>1. ASSUME NEW q \in Pid
      PROVE  /\ lifeBar[q] = "live" /\ ownerBar[q] = p <=> q \in Children(p)
             /\ lifeBar[q] = "zombie" /\ ownerBar[q] = p <=> q \in DeadChildren(p)
  <2>1. CASE q \in tasks
    BY <1>0, <2>1 DEF BarsExact, Children
  <2>2. CASE q \notin tasks /\ exit_code[q] = NoCode
    BY <1>0, <2>2 DEF BarsExact, Children
  <2>3. ASSUME NEW r \in Pid, q \in DeadChildren(r)
        PROVE  /\ lifeBar[q] = "live" /\ ownerBar[q] = p <=> q \in Children(p)
               /\ lifeBar[q] = "zombie" /\ ownerBar[q] = p <=> q \in DeadChildren(p)
    <3>1. lifeBar[q] = "zombie" /\ ownerBar[q] = r /\ q \notin tasks
      BY <2>3 DEF BarsExact
    <3>2. q \in DeadChildren(p) => ownerBar[q] = p
      BY <1>0 DEF BarsExact
    <3>3. QED
      BY <2>3, <3>1, <3>2 DEF Children
  <2>4. CASE q \notin tasks /\ exit_code[q] # NoCode /\ ~Held(q)
    BY <1>0, <2>4 DEF BarsExact, Children, Held
  <2>5. QED
    BY <2>1, <2>2, <2>3, <2>4 DEF Held
<1>2. QED
  BY <1>1 DEF Lifecycle!Owned

(* An end: the exit code goes to a live parent, live children to initproc, *)
(* and the children p did not wait for are forgotten.                      *)
LEMMA FinishStep ==
    ASSUME DeathsInv, BarsExact, BarsExact', NEW p \in tasks, NEW code \in Codes,
           MayEnd(p), End(p, code)
    PROVE  Lifecycle!Finish(p, code)
<1>0. /\ TypeOK /\ DeadExact /\ EndedExact /\ Ancestry /\ InitHasNoParent
      /\ p \in Pid /\ InitPid \in Pid
  BY DEF DeathsInv, ParentsInv, SchedulerInv, TypeOK, InitPid
<1>1. /\ tasks' = tasks \ {p}
      /\ \A q \in Pid : dead'[q] = IF q = p THEN {}
                                   ELSE IF q = parent[p] THEN dead[q] \cup {<<p, code>>}
                                   ELSE dead[q]
      /\ \A q \in Pid : exit_code'[q] = IF q = p THEN code ELSE exit_code[q]
      /\ exit_code' = [exit_code EXCEPT ![p] = code]
      /\ \A q \in Pid : parent'[q] = IF q = p THEN NoProc
                                     ELSE IF q \in Children(p) THEN InitPid ELSE parent[q]
  BY <1>0, EndEffect
<1>2. code # NoCode
  BY CodeAssumption DEF Codes
<1>3. ASSUME NEW q \in Pid, NEW r \in Pid
      PROVE  q \in DeadChildren(r)' <=> /\ r # p
                                        /\ \/ q \in DeadChildren(r)
                                           \/ q = p /\ r = parent[p]
  <2>1. CASE r = p
    BY <1>1, <2>1 DEF DeadChildren
  <2>2. CASE r # p /\ r = parent[p]
    <3>1. dead'[r] = dead[r] \cup {<<p, code>>}
      BY <1>1, <2>2
    <3>2. q = p => q \in DeadChildren(r)'
      <4>1. <<p, code>> \in dead'[r] /\ <<p, code>>[1] = p
        BY <3>1
      <4>2. QED
        BY <4>1 DEF DeadChildren
    <3>3. q \in DeadChildren(r) => q \in DeadChildren(r)'
      BY <3>1 DEF DeadChildren
    <3>4. q \in DeadChildren(r)' => q \in DeadChildren(r) \/ q = p
      BY <3>1 DEF DeadChildren
    <3>5. QED
      BY <2>2, <3>2, <3>3, <3>4
  <2>3. CASE r # p /\ r # parent[p]
    BY <1>1, <2>3 DEF DeadChildren
  <2>4. QED
    BY <2>1, <2>2, <2>3
<1>4. lifeBar[p] = "live" /\ ownerBar[p] = parent[p]
  BY <1>0 DEF BarsExact
<1>5. p = InitPid => Lifecycle!Owned(p, {"live", "zombie"}) = {}
  <2>1. SUFFICES ASSUME p = InitPid
                 PROVE  Lifecycle!Owned(p, {"live", "zombie"}) = {}
    OBVIOUS
  <2>2. Children(p) = {} /\ DeadChildren(p) = {}
    BY <2>1 DEF MayEnd, DeadChildren
  <2>3. QED
    BY <2>2, OwnedFacts
<1>6. p \notin Children(p) /\ \A r \in Pid : p \notin DeadChildren(r)
  <2>1. parent[p] # p
    BY <1>0, NoProcNotPid DEF Ancestry, InitHasNoParent
  <2>2. \A r \in Pid : p \notin DeadChildren(r)
    BY <1>0 DEF BarsExact
  <2>3. QED
    BY <2>1, <2>2 DEF Children
<1>7. ASSUME p = InitPid
      PROVE  lifeBar'[p] = "gone" /\ ownerBar'[p] = parent[p]
  <2>1. parent[p] = NoProc
    BY <1>0, <1>7 DEF InitHasNoParent
  <2>2. ~Held(p)'
    <3>1. \A r \in Pid : r # parent[p]
      BY <2>1, NoProcNotPid
    <3>2. \A r \in Pid : ~(p \in DeadChildren(r)')
      BY <1>0, <1>3, <1>6, <3>1
    <3>3. QED
      BY <3>2 DEF Held
  <2>3. lifeBar'[p] = "gone" /\ ownerBar'[p] = NoProc
    BY <1>0, <1>1, <1>2, <2>2 DEF BarsExact
  <2>4. QED
    BY <2>1, <2>3
<1>8. ASSUME p # InitPid
      PROVE  lifeBar'[p] = "zombie" /\ ownerBar'[p] = parent[p]
  <2>1. parent[p] \in Pid /\ parent[p] # p
    <3>1. parent[p] \in tasks /\ parent[p] < p
      BY <1>0, <1>8 DEF Ancestry
    <3>2. parent[p] \in Pid
      BY <1>0, <3>1 DEF TypeOK
    <3>3. QED
      BY <1>0, <3>1, <3>2
  <2>2. PICK x \in Pid : x = parent[p]
    BY <2>1
  <2>3. p \in DeadChildren(x)'
    BY <1>0, <1>3, <2>1, <2>2
  <2>4. QED
    BY <1>0, <2>2, <2>3 DEF BarsExact
<1>9. ASSUME NEW r \in Pid, r # p, r \in Children(p)
      PROVE  lifeBar'[r] = lifeBar[r] /\ ownerBar'[r] = InitPid
  BY <1>1, <1>9 DEF BarsExact, Children
<1>10. ASSUME NEW r \in Pid, r # p, r \in DeadChildren(p)
       PROVE  lifeBar'[r] = "gone" /\ ownerBar'[r] = NoProc
  <2>1. r \notin tasks' /\ exit_code'[r] # NoCode
    BY <1>0, <1>1, <1>10 DEF BarsExact
  <2>2. ASSUME NEW x \in Pid, r \in DeadChildren(x)
        PROVE  x = p
    BY <1>0, <1>10, <2>2 DEF BarsExact
  <2>3. ~Held(r)'
    BY <1>3, <1>10, <2>2 DEF Held
  <2>4. QED
    BY <2>1, <2>3 DEF BarsExact
<1>11. ASSUME NEW r \in Pid, r # p, r \notin Children(p), r \notin DeadChildren(p)
       PROVE  lifeBar'[r] = lifeBar[r] /\ ownerBar'[r] = ownerBar[r]
  <2>1. /\ r \in tasks <=> r \in tasks'
        /\ parent'[r] = parent[r] /\ exit_code'[r] = exit_code[r]
    BY <1>1, <1>11
  <2>2. \A x \in Pid : r \in DeadChildren(x) <=> r \in DeadChildren(x)'
    BY <1>3, <1>11
  <2>3. QED
    BY <2>1, <2>2, BarSame
<1>12. /\ Lifecycle!Owned(p, {"live"}) = {q \in Pid : q \in Children(p)}
       /\ Lifecycle!Owned(p, {"zombie"}) = {q \in Pid : q \in DeadChildren(p)}
  BY OwnedFacts
<1>13. \A r \in Pid : ~(r \in Children(p) /\ r \in DeadChildren(p))
  BY <1>0 DEF BarsExact, Children
<1>14. lifeBar' = [r \in Pid |->
                     IF r = p THEN IF p = InitPid THEN "gone" ELSE "zombie"
                     ELSE IF r \in Lifecycle!Owned(p, {"zombie"}) THEN "gone"
                     ELSE lifeBar[r]]
  <2>1. ASSUME NEW r \in Pid
        PROVE  lifeBar'[r] = IF r = p THEN IF p = InitPid THEN "gone" ELSE "zombie"
                             ELSE IF r \in Lifecycle!Owned(p, {"zombie"}) THEN "gone"
                             ELSE lifeBar[r]
    BY <1>7, <1>8, <1>9, <1>10, <1>11, <1>12, <1>13
  <2>2. QED
    BY <2>1, BarFunctions
<1>15. ownerBar' = [r \in Pid |->
                      IF r \in Lifecycle!Owned(p, {"live"}) THEN InitPid
                      ELSE IF r \in Lifecycle!Owned(p, {"zombie"}) THEN NoProc
                      ELSE ownerBar[r]]
  <2>1. ASSUME NEW r \in Pid
        PROVE  ownerBar'[r] = IF r \in Lifecycle!Owned(p, {"live"}) THEN InitPid
                              ELSE IF r \in Lifecycle!Owned(p, {"zombie"}) THEN NoProc
                              ELSE ownerBar[r]
    BY <1>0, <1>4, <1>6, <1>7, <1>8, <1>9, <1>10, <1>11, <1>12, <1>13
  <2>2. QED
    BY <2>1, BarFunctions
<1>16. QED
  BY <1>1, <1>4, <1>5, <1>14, <1>15 DEF Lifecycle!Finish

(* Every behaviour of the kernel is one of ProcessLifecycle: a process is  *)
(* born once, ends once, and is reported once, to the parent it then has.  *)
THEOREM LifecycleCorrect == Spec => LifecycleSpec
<1>1. Init => Lifecycle!Init
  <2>1. SUFFICES ASSUME Init
                 PROVE  Lifecycle!Init
    OBVIOUS
  <2>2. ASSUME NEW q \in Pid
        PROVE  /\ lifeBar[q] = IF q = InitPid THEN "live" ELSE "unborn"
               /\ ownerBar[q] = NoProc
    <3>1. Holders(q) = {}
      BY <2>1 DEF Init, Holders, DeadChildren
    <3>2. tasks = {InitPid} /\ parent[q] = NoProc /\ exit_code[q] = NoCode
      BY <2>1 DEF Init
    <3>3. QED
      BY <3>1, <3>2 DEF lifeBar, ownerBar
  <2>3. exit_code = [q \in Pid |-> NoCode]
    BY <2>1 DEF Init
  <2>4. QED
    BY <2>2, <2>3, BarFunctions DEF Lifecycle!Init
<1>2. DeathsInv /\ [Next]_vars => [Lifecycle!Next]_(Lifecycle!vars)
  <2>1. SUFFICES ASSUME DeathsInv, [Next]_vars
                 PROVE  [Lifecycle!Next]_(Lifecycle!vars)
    OBVIOUS
  <2>2. BarsExact /\ BarsExact' /\ tasks \subseteq Pid /\ TypeOK /\ DeadExact /\ EndedExact
    BY <2>1, BarsNext DEF DeathsInv, ParentsInv, SchedulerInv, TypeOK
  <2>3. CASE UNCHANGED <<tasks, parent, dead, exit_code>>
    <3>1. ASSUME NEW q \in Pid
          PROVE  lifeBar'[q] = lifeBar[q] /\ ownerBar'[q] = ownerBar[q]
      BY <2>2, <2>3, BarSame DEF DeadChildren
    <3>2. lifeBar' = lifeBar /\ ownerBar' = ownerBar
      BY <3>1, BarFunctions
    <3>3. QED
      BY <2>3, <3>2 DEF Lifecycle!vars
  <2>4. ASSUME NEW p \in tasks, NEW code \in Codes, MayEnd(p), End(p, code)
        PROVE  Lifecycle!Next
    BY <2>1, <2>2, <2>4, FinishStep DEF Lifecycle!Next
  <2>5. ASSUME NEW p \in tasks, fork(p) \/ spawn(p)
        PROVE  Lifecycle!Next
    BY <2>1, <2>2, <2>5, BirthStep, CreateEffect DEF Lifecycle!Next
  <2>6. ASSUME NEW p \in tasks, wait(p)
        PROVE  Lifecycle!Next \/ UNCHANGED <<tasks, parent, dead, exit_code>>
    <3>1. CASE dead' = dead
      BY <2>2, <2>6, <3>1, WaitFacts
    <3>2. ASSUME NEW d \in dead[p], dead' = [dead EXCEPT ![p] = dead[p] \ {d}]
          PROVE  Lifecycle!Next
      <4>1. Lifecycle!Reap(p, d[1])
        BY <2>1, <2>2, <2>6, <3>2, ReapStep
      <4>2. d[1] \in Pid /\ p \in Pid
        BY <2>2, <3>2, EndedFacts
      <4>3. QED
        BY <4>1, <4>2 DEF Lifecycle!Next
    <3>3. QED
      BY <2>2, <2>6, <3>1, <3>2, WaitFacts
  <2>7. CASE Next
    BY <2>1, <2>3, <2>4, <2>5, <2>6, <2>7, StepCases
  <2>8. QED
    BY <2>1, <2>3, <2>7 DEF vars, schedVars, procVars, history
<1>3. QED
  BY <1>1, <1>2, DeathsInvariant, PTL DEF Spec, LifecycleSpec, Lifecycle!Spec
=============================================================================
