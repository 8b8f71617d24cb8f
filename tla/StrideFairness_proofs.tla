------------------------- MODULE StrideFairness_proofs -------------------------
(***************************************************************************)
(* Proof that the strides of processes that live together never drift      *)
(* apart, for any number of processes, BIG_STRIDE and set of priorities.   *)
(* Relative strides are at most MaxPass, so that fetch sees all of them as *)
(* long as a pass fits a usize.                                            *)
(***************************************************************************)
EXTENDS StrideFairness, SequenceFacts

USE PidAssumption DEF Pid

-----------------------------------------------------------------------------
(*                        What fetch takes, and a pass                     *)

(* The scan of fetch picks a position of the queue, and no queued task has *)
(* a smaller stride than the one there, provided a dispatch of it does not *)
(* overflow.                                                               *)
LEMMA MinIndexFacts ==
    ASSUME stride \in [Pid -> Nat], ready_queue \in Seq(Pid), ready_queue # <<>>, UsizeMax \in Nat
    PROVE  /\ MinIndex \in 1..Len(ready_queue)
           /\ Fetched \in Pid
           /\ stride[Fetched] <= UsizeMax =>
                 \A j \in DOMAIN ready_queue :
                    ready_queue[j] \in tasks => stride[Fetched] <= stride[ready_queue[j]]
<1>1. Candidates = Below(ready_queue, stride, tasks, UsizeMax)
  BY DEF Candidates, Below
<1>2. MinIndex = IF Candidates = {} THEN 1 ELSE FirstLeast(ready_queue, stride, Candidates)
  BY DEF MinIndex, FirstLeast, Precedes
<1>3. QED
  BY <1>1, <1>2, LeastScanned DEF Fetched

(* A pass is a natural number, and none is larger than MaxPass: a priority *)
(* is at least 2.                                                          *)
LEMMA PassFacts ==
    ASSUME NEW prio \in Priorities
    PROVE  Pass(prio) \in 0..MaxPass /\ MaxPass \in Nat
<1>1. prio \in Nat /\ prio >= 2 /\ BIG_STRIDE \in Nat
  BY StrideAssumption
<1>2. QED
  BY <1>1, Z3 DEF Pass, MaxPass

-----------------------------------------------------------------------------
FairTypes ==
    /\ tasks = Pid
    /\ stride \in [Pid -> 0..MaxPass]
    /\ priority \in [Pid -> Priorities]
    /\ ready_queue \in Seq(Pid)
    /\ current \in Pid \cup {NoProc}

(* Between two dispatches everyone is queued, so everyone is compared.     *)
AllQueued == \A p \in Pid : p = current \/ \E i \in DOMAIN ready_queue : ready_queue[i] = p

FairInv == FairTypes /\ AllQueued /\ StridesTogether

LEMMA NobodyCurrent == NoProc \notin Pid
<1>1. Pid \subseteq Nat
  OBVIOUS
<1> HIDE DEF Pid
<1>2. QED
  BY <1>1, NoProcAssumption

LEMMA PassNatural == MaxPass \in Nat
  BY PassFacts, StrideAssumption

LEMMA FairInit == Init => FairInv
<1> SUFFICES ASSUME Init PROVE FairInv
  OBVIOUS
<1>1. stride \in [Pid -> 0..MaxPass] /\ StridesTogether
  BY PassNatural DEF Init, StridesTogether
<1>2. /\ ready_queue \in [1..MaxPid + 1 -> Pid]
      /\ \A p \in Pid : p + 1 \in 1..MaxPid + 1 /\ ready_queue[p + 1] = p
  BY DEF Init
<1>3. ready_queue \in Seq(Pid)
  <2>1. MaxPid + 1 \in Nat
    OBVIOUS
  <2>2. QED
    BY <1>2, <2>1, SeqDef
<1>4. AllQueued
  BY <1>2 DEF AllQueued
<1>5. QED
  BY <1>1, <1>3, <1>4, StrideAssumption DEF Init, FairInv, FairTypes

(* A call: who was current is queued behind the others.                    *)
LEMMA FairSuspend ==
    ASSUME FairInv, Suspend, UNCHANGED <<tasks, stride>>, priority' \in [Pid -> Priorities]
    PROVE  FairInv'
<1>1. /\ current \in Pid /\ current' = NoProc
      /\ ready_queue \in Seq(Pid) /\ ready_queue' = Append(ready_queue, current)
  BY DEF FairInv, FairTypes, Suspend, add
<1>2. /\ ready_queue' \in Seq(Pid)
      /\ Len(ready_queue') = Len(ready_queue) + 1
      /\ \A i \in 1..Len(ready_queue) : ready_queue'[i] = ready_queue[i]
      /\ ready_queue'[Len(ready_queue) + 1] = current
  BY <1>1, AppendProperties
<1>3. /\ DOMAIN ready_queue = 1..Len(ready_queue) /\ Len(ready_queue) \in Nat
      /\ DOMAIN ready_queue' = 1..Len(ready_queue) + 1
  BY <1>1, <1>2, LenProperties
<1>4. AllQueued'
  <2>1. SUFFICES ASSUME NEW p \in Pid
                 PROVE  \E i \in DOMAIN ready_queue' : ready_queue'[i] = p
    BY DEF AllQueued
  <2>2. CASE p = current
    BY <1>2, <1>3, <2>2
  <2>3. CASE p # current
    <3>1. PICK i \in DOMAIN ready_queue : ready_queue[i] = p
      BY <2>3 DEF FairInv, AllQueued
    <3>2. i \in DOMAIN ready_queue' /\ ready_queue'[i] = p
      BY <1>2, <1>3, <3>1
    <3>3. QED
      BY <3>2
  <2>4. QED
    BY <2>2, <2>3
<1>5. QED
  BY <1>1, <1>2, <1>4 DEF FairInv, FairTypes, StridesTogether

(* What is taken off the queue is nobody else's place in it.               *)
LEMMA FairQueue ==
    ASSUME FairInv, Dispatch, MinIndex \in 1..Len(ready_queue)
    PROVE  ready_queue' \in Seq(Pid) /\ AllQueued'
<1> DEFINE n == Len(ready_queue)
           m == MinIndex
<1>1. /\ ready_queue \in Seq(Pid) /\ n \in Nat /\ DOMAIN ready_queue = 1..n
      /\ ready_queue' = RemoveAt(ready_queue, m)
      /\ m \in 1..n
  BY LenProperties DEF FairInv, FairTypes, Dispatch
<1>2. /\ ready_queue' \in Seq(Pid)
      /\ DOMAIN ready_queue' = 1..n - 1
      /\ \A j \in 1..n - 1 : ready_queue'[j] = IF j < m THEN ready_queue[j] ELSE ready_queue[j + 1]
  <2>1. /\ RemoveAt(ready_queue, m) \in Seq(Pid)
        /\ Len(RemoveAt(ready_queue, m)) = n - 1
        /\ \A j \in 1..n - 1 :
              RemoveAt(ready_queue, m)[j] = IF j < m THEN ready_queue[j] ELSE ready_queue[j + 1]
    BY <1>1, RemoveAtFacts
  <2>2. QED
    BY <1>1, <2>1, LenProperties
<1>3. current = NoProc /\ current' = ready_queue[m]
  BY DEF Dispatch, Fetched
<1> HIDE DEF n, m
<1>4. ASSUME NEW p \in Pid, p # current'
      PROVE  \E j \in DOMAIN ready_queue' : ready_queue'[j] = p
  <2>1. p # current
    BY <1>3, NobodyCurrent
  <2>2. PICK i \in DOMAIN ready_queue : ready_queue[i] = p
    BY <2>1 DEF FairInv, AllQueued
  <2>3. i \in 1..n /\ i # m
    BY <1>1, <1>3, <1>4, <2>2
  <2>4. CASE i < m
    <3>1. i \in 1..n - 1
      BY <1>1, <2>3, <2>4
    <3>2. QED
      BY <1>2, <2>2, <2>4, <3>1
  <2>5. CASE i > m
    <3>1. i - 1 \in 1..n - 1 /\ ~(i - 1 < m) /\ (i - 1) + 1 = i
      BY <1>1, <2>3, <2>5
    <3>2. QED
      BY <1>2, <2>2, <3>1
  <2>6. QED
    BY <1>1, <2>3, <2>4, <2>5
<1>5. QED
  BY <1>2, <1>4 DEF AllQueued

(* Taking the least from every stride leaves them as far apart as before.  *)
LEMMA RelativeFacts ==
    ASSUME NEW s \in [Pid -> Nat]
    PROVE  \E m \in Nat : /\ \A p \in Pid : m <= s[p] /\ Relative(s)[p] = s[p] - m
                          /\ \E q \in Pid : m = s[q]
                          /\ Relative(s) = [p \in Pid |-> Relative(s)[p]]
<1> DEFINE S == {s[q] : q \in Pid}
<1>1. S \subseteq Nat
  OBVIOUS
<1>2. S # {}
  <2>1. 0 \in Pid
    OBVIOUS
  <2>2. QED
    BY <2>1
<1>3. \E x \in S : \A y \in S : x <= y
  <2> HIDE DEF S
  <2>1. QED
    BY <1>1, <1>2, LeastNatural
<1>4. Min(S) \in S /\ \A y \in S : Min(S) <= y
  <2>1. Min(S) = CHOOSE x \in S : \A y \in S : x <= y
    BY DEF Min
  <2> HIDE DEF S
  <2>2. QED
    BY <1>3, <2>1
<1>5. Relative(s) = [p \in Pid |-> s[p] - Min(S)]
  BY DEF Relative
<1>6. PICK m \in Nat : m = Min(S)
  <2> HIDE DEF S
  <2>1. QED
    BY <1>1, <1>4
<1>7. \A p \in Pid : m <= s[p]
  BY <1>4, <1>6
<1>8. \E q \in Pid : m = s[q]
  BY <1>4, <1>6
<1>9. Relative(s) = [p \in Pid |-> s[p] - m]
  BY <1>5, <1>6
<1> HIDE DEF S
<1>10. \A p \in Pid : Relative(s)[p] = s[p] - m
  BY <1>9
<1>11. QED
  BY <1>7, <1>8, <1>9, <1>10

(* fetch takes the least stride, and adds at most one maximal pass to it.  *)
LEMMA FairDispatch ==
    ASSUME FairInv, Dispatch, MaxPass <= UsizeMax
    PROVE  FairInv'
<1> DEFINE f == Fetched
           d == Pass(priority[f])
           s == [stride EXCEPT ![f] = stride[f] + d]
<1>1. /\ FairTypes /\ StridesTogether /\ AllQueued /\ current = NoProc
      /\ ready_queue # <<>> /\ MaxPass \in Nat /\ UsizeMax \in Nat
      /\ stride \in [Pid -> Nat]
  BY PassNatural, StrideAssumption DEF FairInv, FairTypes, Dispatch
<1>2. /\ MinIndex \in 1..Len(ready_queue)
      /\ f \in Pid
      /\ stride[f] <= UsizeMax =>
            \A j \in DOMAIN ready_queue :
               ready_queue[j] \in tasks => stride[f] <= stride[ready_queue[j]]
  BY <1>1, MinIndexFacts DEF FairTypes
<1>3. \A p \in Pid : stride[p] \in Nat /\ stride[p] <= MaxPass
  BY <1>1 DEF FairTypes
<1>4. ASSUME NEW p \in Pid
      PROVE  stride[f] <= stride[p]
  <2>1. stride[f] <= UsizeMax
    <3> HIDE DEF f
    <3>1. stride[f] \in Nat /\ stride[f] <= MaxPass
      BY <1>2, <1>3
    <3>2. QED
      BY <1>1, <3>1
  <2>2. PICK j \in DOMAIN ready_queue : ready_queue[j] = p
    BY <1>1, NobodyCurrent DEF AllQueued
  <2>3. p \in tasks
    BY <1>1 DEF FairTypes
  <2>4. QED
    BY <1>2, <2>1, <2>2, <2>3
<1>5. d \in Nat /\ d <= MaxPass
  <2>1. priority[f] \in Priorities
    BY <1>1, <1>2 DEF FairTypes
  <2>2. QED
    BY <1>1, <2>1, PassFacts
<1>6. stride' = Relative(s) /\ current' = f /\ UNCHANGED <<tasks, priority>>
  BY DEF Dispatch
<1> HIDE DEF f, d
<1>7. s \in [Pid -> Nat] /\ \A p \in Pid : s[p] = IF p = f THEN stride[f] + d ELSE stride[p]
  BY <1>1, <1>2, <1>5
<1>8. \A p, q \in Pid : s[p] - s[q] <= MaxPass
  <2>1. SUFFICES ASSUME NEW p \in Pid, NEW q \in Pid
                 PROVE  s[p] - s[q] <= MaxPass
    OBVIOUS
  <2>2. /\ stride[f] \in Nat /\ stride[p] \in Nat /\ stride[q] \in Nat
        /\ stride[f] <= stride[p] /\ stride[f] <= stride[q]
        /\ stride[p] - stride[q] <= MaxPass /\ stride[p] <= MaxPass
    BY <1>1, <1>2, <1>3, <1>4 DEF StridesTogether
  <2>3. stride[p] - stride[f] <= MaxPass
    BY <1>1, <1>2 DEF StridesTogether
  <2>4. /\ s[p] = IF p = f THEN stride[f] + d ELSE stride[p]
        /\ s[q] = IF q = f THEN stride[f] + d ELSE stride[q]
    BY <1>7
  <2> HIDE DEF s
  <2>5. CASE p = f
    <3>1. s[p] = stride[f] + d /\ s[q] >= stride[f] /\ s[q] \in Nat
      BY <1>5, <2>2, <2>4, <2>5
    <3>2. QED
      BY <1>1, <1>5, <2>2, <3>1
  <2>6. CASE p # f
    <3>1. s[p] = stride[p]
      BY <2>4, <2>6
    <3>2. CASE q = f
      <4>1. s[q] = stride[f] + d
        BY <2>4, <3>2
      <4>2. QED
        BY <1>1, <1>5, <2>2, <2>3, <3>1, <4>1
    <3>3. CASE q # f
      BY <2>2, <2>4, <3>1, <3>3
    <3>4. QED
      BY <3>2, <3>3
  <2>7. QED
    BY <2>5, <2>6
<1> HIDE DEF s
<1>9. PICK m \in Nat : /\ \A p \in Pid : m <= s[p] /\ stride'[p] = s[p] - m
                       /\ \E q \in Pid : m = s[q]
                       /\ stride' = [p \in Pid |-> stride'[p]]
  BY <1>6, <1>7, RelativeFacts
<1>10. \A p \in Pid : stride'[p] \in 0..MaxPass
  <2>1. PICK q \in Pid : m = s[q]
    BY <1>9
  <2>2. SUFFICES ASSUME NEW p \in Pid
                 PROVE  stride'[p] \in 0..MaxPass
    OBVIOUS
  <2>3. /\ m <= s[p] /\ stride'[p] = s[p] - m
        /\ s[p] - s[q] <= MaxPass /\ s[p] \in Nat /\ s[q] \in Nat
    BY <1>7, <1>8, <1>9
  <2>4. QED
    BY <1>1, <2>1, <2>3
<1>11. StridesTogether'
  <2>1. SUFFICES ASSUME NEW p \in Pid, NEW q \in Pid
                 PROVE  stride'[p] - stride'[q] <= MaxPass
    BY DEF StridesTogether, MaxPass
  <2>2. /\ stride'[p] = s[p] - m /\ stride'[q] = s[q] - m
        /\ s[p] - s[q] <= MaxPass /\ s[p] \in Nat /\ s[q] \in Nat
    BY <1>7, <1>8, <1>9
  <2>3. QED
    BY <1>1, <2>2
<1>12. stride' \in [Pid -> 0..MaxPass]
  <2>1. stride' = [p \in Pid |-> stride'[p]]
    BY <1>9
  <2>2. QED
    BY <1>10, <2>1
<1>13. ready_queue' \in Seq(Pid) /\ AllQueued'
  BY <1>2, FairQueue
<1>14. QED
  BY <1>1, <1>2, <1>6, <1>11, <1>12, <1>13 DEF FairInv, FairTypes, MaxPass

(* The scheduler's state cannot drift: whatever priorities processes give  *)
(* themselves and however often, strides stay within one maximal pass.     *)
THEOREM TogetherCorrect ==
    ASSUME MaxPass <= UsizeMax
    PROVE  FairSpec => []StridesTogether
<1>1. FairInv /\ [Next]_vars => FairInv'
  <2>1. SUFFICES ASSUME FairInv, [Next]_vars PROVE FairInv'
    OBVIOUS
  <2>2. CASE Dispatch
    BY <2>1, <2>2, FairDispatch
  <2>3. CASE Call
    <3>1. priority' \in [Pid -> Priorities]
      BY <2>1, <2>3 DEF Call, FairInv, FairTypes
    <3>2. QED
      BY <2>1, <2>3, <3>1, FairSuspend DEF Call
  <2>4. CASE SetPriority
    <3>1. priority' \in [Pid -> Priorities]
      BY <2>1, <2>4 DEF SetPriority, Suspend, FairInv, FairTypes
    <3>2. QED
      BY <2>1, <2>4, <3>1, FairSuspend DEF SetPriority
  <2>5. CASE UNCHANGED vars
    BY <2>1, <2>5 DEF vars, schedVars, FairInv, FairTypes, AllQueued, StridesTogether
  <2>6. QED
    BY <2>1, <2>2, <2>3, <2>4, <2>5 DEF Next
<1>2. FairInv => StridesTogether
  BY DEF FairInv
<1>3. QED
  BY <1>1, <1>2, FairInit, PTL DEF FairSpec
=============================================================================
