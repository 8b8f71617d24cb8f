--------------------------- MODULE ThreadTests_proofs ---------------------------
(***************************************************************************)
(* Proof that every test program with threads passes, under any schedule   *)
(* and for any number of adders, rounds, philosophers, slots, producers    *)
(* and numbers: what main and the threads of each test have in common at   *)
(* every moment, so that main never ends with an assertion that fails.     *)
(***************************************************************************)
EXTENDS UserPrograms_proofs

-----------------------------------------------------------------------------
(*                     How the threads' tests end                          *)

(* What a thread that ends at op exits with: a panic exits with 1.         *)
EndCode(op) == IF op[1] = "exit" THEN op[2] ELSE 1

EndCodes == \A u \in exited : exit_code[u] = EndCode(Instruction(u))

(* t ends, or nobody does.                                                 *)
LEMMA EndStep ==
    ASSUME ThreadsPlaced, exit_code \in [Thread -> -1..3], NEW t \in Thread, ThreadStep(t)
    PROVE  \/ UNCHANGED <<exited, exit_code>>
           \/ /\ exited' = exited \cup {t} /\ at' = at /\ EndsThread(Instruction(t))
              /\ exit_code'[t] = EndCode(Instruction(t))
              /\ \A u \in Thread \ {t} : exit_code'[u] = exit_code[u]
<1>1. ASSUME ThreadExits(t, EndCode(Instruction(t))), EndsThread(Instruction(t))
      PROVE  /\ exited' = exited \cup {t} /\ at' = at /\ EndsThread(Instruction(t))
             /\ exit_code'[t] = EndCode(Instruction(t))
             /\ \A u \in Thread \ {t} : exit_code'[u] = exit_code[u]
  BY <1>1 DEF ThreadExits
<1>2. CASE thread_exit(t)
  <2>1. Instruction(t)[1] = "exit" /\ ThreadExits(t, Instruction(t)[2])
    BY <1>2 DEF thread_exit, Performs
  <2>2. ThreadExits(t, EndCode(Instruction(t))) /\ EndsThread(Instruction(t))
    BY <2>1 DEF EndCode, EndsThread
  <2>3. QED
    BY <1>1, <2>2
<1>3. CASE thread_assert(t)
  <2>1. Instruction(t)[1] = "assert" /\ (ThreadExits(t, 1) \/ UNCHANGED <<exited, exit_code>>)
    BY <1>3 DEF thread_assert, Performs, AdvanceOrPanic
  <2>2. ThreadExits(t, 1) => ThreadExits(t, EndCode(Instruction(t))) /\ EndsThread(Instruction(t))
    BY <2>1 DEF EndCode, EndsThread
  <2>3. QED
    BY <1>1, <2>1, <2>2
<1>4. CASE down(t)
  <2>1. /\ Instruction(t)[1] = "down"
        /\ \/ ThreadExits(t, 1) /\ Instruction(t)[3] = 0
           \/ UNCHANGED <<exited, exit_code>>
    BY <1>4 DEF down, Performs, AdvanceOrPanic
  <2>2. ThreadExits(t, 1) /\ Instruction(t)[3] = 0 =>
            ThreadExits(t, EndCode(Instruction(t))) /\ EndsThread(Instruction(t))
    BY <2>1 DEF EndCode, EndsThread
  <2>3. QED
    BY <1>1, <2>1, <2>2
<1>5. CASE ~(thread_exit(t) \/ thread_assert(t) \/ down(t))
  <2>1. UNCHANGED <<exited, exit_code>>
    BY <1>5 DEF ThreadStep, thread_create, waittid, sleep, create, up, condvar_wait, condvar_signal,
       eat, work, test_A, read_A, write_A, store, front, print, tail, Access
  <2>2. QED
    BY <2>1
<1>6. QED
  BY <1>2, <1>3, <1>4, <1>5

(* A thread that has exited does not move.                                 *)
LEMMA ExitedStay ==
    ASSUME ThreadsPlaced, WaitersPlaced, NEW t \in Thread, ThreadStep(t), NEW u \in exited
    PROVE  u \in Thread /\ u # t /\ at'[u] = at[u] /\ Instruction(u)' = Instruction(u)
<1>1. /\ at[t] > 0 /\ t \notin exited /\ test' = test
      /\ Goes(t) \/ Ends(t) \/ Stops(t) \/ Gives(t) \/ StartsOne(t)
  BY StepKinds
<1>2. u \in Thread /\ u \notin blocked /\ at[u] > 0 /\ u # t
  BY <1>1 DEF WaitersPlaced
<1>3. at \in [Thread -> Nat]
  BY DEF ThreadsPlaced
<1>4. at'[u] = at[u]
  <2>1. CASE Goes(t)
    BY <1>2, <1>3, <2>1 DEF Goes, Advance
  <2>2. CASE Ends(t)
    BY <2>2 DEF Ends, ThreadExits
  <2>3. CASE Stops(t)
    BY <2>3 DEF Stops
  <2>4. CASE Gives(t)
    <3>1. ASSUME NEW n, Advance(t, n) PROVE at'[u] = at[u]
      BY <1>2, <1>3, <3>1 DEF Advance
    <3>2. ASSUME NEW n, NEW w \in blocked, Hands(t, n, w) PROVE at'[u] = at[u]
      BY <1>2, <1>3, <3>2 DEF Hands
    <3>3. QED
      BY <2>4, <3>1, <3>2, Zenon DEF Gives
  <2>5. CASE StartsOne(t)
    <3>1. at[Instruction(t)[2]] = 0
      BY <1>1, <2>5, StartFacts DEF StartsOne
    <3>2. QED
      BY <1>2, <1>3, <2>5, <3>1 DEF StartsOne
  <2>6. QED
    BY <1>1, <2>1, <2>2, <2>3, <2>4, <2>5
<1>5. Instruction(u)' = Instruction(u)
  BY <1>1, <1>4, SameInstruction
<1>6. QED
  BY <1>2, <1>4, <1>5

LEMMA EndCodesKept ==
    ASSUME ThreadsPlaced, WaitersPlaced, exit_code \in [Thread -> -1..3], EndCodes,
           NEW t \in Thread, ThreadStep(t)
    PROVE  EndCodes'
<1>1. \A u \in exited : /\ u \in Thread /\ u # t /\ Instruction(u)' = Instruction(u)
                        /\ exit_code[u] = EndCode(Instruction(u))
  BY ExitedStay DEF EndCodes
<1>2. CASE UNCHANGED <<exited, exit_code>>
  BY <1>1, <1>2 DEF EndCodes, EndCode
<1>3. CASE /\ exited' = exited \cup {t} /\ at' = at
           /\ exit_code'[t] = EndCode(Instruction(t))
           /\ \A u \in Thread \ {t} : exit_code'[u] = exit_code[u]
  <2>1. test' = test /\ at'[t] = at[t]
    BY <1>3, StepKinds
  <2>2. Instruction(t)' = Instruction(t)
    BY <2>1, SameInstruction
  <2>3. ASSUME NEW u \in exited' PROVE exit_code'[u] = EndCode(Instruction(u)')
    BY <1>1, <1>3, <2>2, <2>3
  <2>4. QED
    BY <2>3 DEF EndCodes, EndCode
<1>4. QED
  BY <1>2, <1>3, EndStep

(* Main ends with exit(0), or has an assertion or a refusal to fear.       *)
MainFine == 0 \in exited => Instruction(0) = Exit(0)

MainUnhurt ==
    \/ Instruction(0)[1] = "assert" /\ ThreadClaim(Instruction(0)[2])
    \/ Instruction(0)[1] = "down" /\ Free(Instruction(0)[2]) > 0
    \/ Instruction(0) = Exit(0)

LEMMA MainFineKept ==
    ASSUME ThreadsPlaced, WaitersPlaced, exit_code \in [Thread -> -1..3], MainFine,
           NEW t \in Thread, ThreadStep(t),
           t = 0 /\ EndsThread(Instruction(0)) => MainUnhurt
    PROVE  MainFine'
<1>1. 0 \in exited => Instruction(0)' = Exit(0)
  BY ExitedStay DEF MainFine
<1>2. CASE t # 0
  <2>1. 0 \in exited' => 0 \in exited
    BY <1>2, EndStep
  <2>2. QED
    BY <1>1, <2>1 DEF MainFine
<1>3. CASE t = 0
  <2>1. SUFFICES ASSUME 0 \in exited' PROVE Instruction(0)' = Exit(0)
    BY DEF MainFine
  <2>2. 0 \notin exited /\ test' = test
    BY <1>3, StepKinds
  <2>3. at' = at /\ EndsThread(Instruction(0))
    BY <1>3, <2>1, <2>2, EndStep
  <2>4. MainUnhurt /\ ThreadStep(0)
    BY <1>3, <2>3
  <2>5. at'[0] = at[0]
    BY <2>3
  <2>6. Instruction(0)' = Instruction(0)
    BY <2>2, <2>5, SameInstruction
  <2>7. at \in [Thread -> Nat] /\ 0 \in Thread
    BY DEF ThreadsPlaced, Thread
  <2>8. CASE Instruction(0)[1] = "assert" /\ ThreadClaim(Instruction(0)[2])
    <3>1. thread_assert(0)
      BY <2>4, <2>7, <2>8, ActionOf
    <3>2. exited' = exited
      BY <2>8, <3>1 DEF thread_assert, AdvanceOrPanic
    <3>3. QED
      BY <2>1, <2>2, <3>2
  <2>9. CASE Instruction(0)[1] = "down" /\ Free(Instruction(0)[2]) > 0
    <3>1. down(0)
      BY <2>4, <2>7, <2>9, ActionOf
    <3>2. ~(Free(Instruction(0)[2]) = 0)
      BY <2>9
    <3>3. exited' = exited
      BY <3>1, <3>2 DEF down
    <3>4. QED
      BY <2>1, <2>2, <3>3
  <2>10. QED
    BY <2>4, <2>6, <2>8, <2>9 DEF MainUnhurt
<1>4. QED
  BY <1>2, <1>3

-----------------------------------------------------------------------------
(*                  Who holds what, while locks are watched                *)

Kinds == 0 .. N + 3

Holdings == [Thread -> [Kinds -> Nat]]

HeldTyped == held \in Holdings

LEMMA LessOne ==
    ASSUME NEW n \in Nat
    PROVE  Max({n - 1, 0}) = IF n > 0 THEN n - 1 ELSE 0
<1> DEFINE m == IF n > 0 THEN n - 1 ELSE 0
           S == {n - 1, 0}
<1>1. m \in S /\ \A y \in S : m >= y
  OBVIOUS
<1>2. \A x \in S : (\A y \in S : x >= y) => x = m
  <2>1. S \subseteq Int /\ m \in Int
    OBVIOUS
  <2>2. \A x \in Int : x >= m /\ m >= x => x = m
    BY <2>1
  <2> HIDE DEF S, m
  <2>3. QED
    BY <1>1, <2>1, <2>2
<1> HIDE DEF S, m
<1>3. Max(S) = m
  BY <1>1, <1>2 DEF Max
<1>4. QED
  BY <1>3 DEF S, m

(* One entry of held changes: to d, by one more, by one less.              *)
EntrySets(h, g, t, r, d) == g = [h EXCEPT ![t][r] = d]

Gains(h, g, t, r) == g = [h EXCEPT ![t][r] = @ + 1]

Loses(h, g, t, r) == g = [h EXCEPT ![t][r] = Max({@ - 1, 0})]

HeldBut(h, g, t, r) ==
    \A s \in Thread, q \in Kinds : <<s, q>> # <<t, r>> => g[s][q] = h[s][q]

LEMMA EntrySet ==
    ASSUME NEW h \in Holdings, NEW t \in Thread, NEW r, NEW d, r \in Kinds => d \in Nat,
           NEW g, EntrySets(h, g, t, r, d)
    PROVE  g \in Holdings /\ HeldBut(h, g, t, r) /\ (r \in Kinds => g[t][r] = d)
<1> DEFINE row == [h[t] EXCEPT ![r] = d]
<1>1. h[t] \in [Kinds -> Nat] /\ g = [h EXCEPT ![t] = row]
  BY DEF Holdings, EntrySets
<1>2. /\ row \in [Kinds -> Nat] /\ (r \in Kinds => row[r] = d)
      /\ \A q \in Kinds : q # r => row[q] = h[t][q]
  <2>1. r \in Kinds => d \in Nat
    OBVIOUS
  <2>2. QED
    BY <1>1, <2>1
<1> HIDE DEF row
<1>3. h \in [Thread -> [Kinds -> Nat]]
  BY DEF Holdings
<1>4. /\ g \in [Thread -> [Kinds -> Nat]] /\ g[t] = row
      /\ \A s \in Thread : s # t => g[s] = h[s]
  BY <1>1, <1>2, <1>3
<1>5. HeldBut(h, g, t, r)
  <2> SUFFICES ASSUME NEW s \in Thread, NEW q \in Kinds, <<s, q>> # <<t, r>>
               PROVE  g[s][q] = h[s][q]
    BY DEF HeldBut
  <2>1. CASE s # t
    BY <1>4, <2>1
  <2>2. CASE s = t
    <3>1. q # r
      BY <2>2
    <3>2. QED
      BY <1>2, <1>4, <2>2, <3>1
  <2>3. QED
    BY <2>1, <2>2
<1>6. QED
  BY <1>2, <1>4, <1>5 DEF Holdings

LEMMA GainsOne ==
    ASSUME NEW h \in Holdings, NEW t \in Thread, NEW r, NEW g, Gains(h, g, t, r)
    PROVE  /\ g \in Holdings /\ HeldBut(h, g, t, r)
           /\ r \in Kinds => h[t][r] \in Nat /\ g[t][r] = h[t][r] + 1
<1> DEFINE d == h[t][r] + 1
<1>1. r \in Kinds => h[t][r] \in Nat /\ d \in Nat
  <2>1. h[t] \in [Kinds -> Nat]
    BY DEF Holdings
  <2>2. QED
    BY <2>1
<1>2. EntrySets(h, g, t, r, d)
  BY DEF Gains, EntrySets
<1>3. d = h[t][r] + 1
  OBVIOUS
<1> HIDE DEF d
<1>4. g \in Holdings /\ HeldBut(h, g, t, r) /\ (r \in Kinds => g[t][r] = d)
  BY <1>1, <1>2, EntrySet
<1>5. QED
  BY <1>1, <1>3, <1>4

LEMMA LosesOne ==
    ASSUME NEW h \in Holdings, NEW t \in Thread, NEW r, NEW g, Loses(h, g, t, r)
    PROVE  /\ g \in Holdings /\ HeldBut(h, g, t, r)
           /\ r \in Kinds => /\ h[t][r] \in Nat
                              /\ g[t][r] = IF h[t][r] > 0 THEN h[t][r] - 1 ELSE 0
<1> DEFINE n == h[t][r]
           d == Max({n - 1, 0})
<1>1. r \in Kinds => n \in Nat
  <2>1. h[t] \in [Kinds -> Nat]
    BY DEF Holdings
  <2>2. QED
    BY <2>1
<1>2. EntrySets(h, g, t, r, d)
  BY DEF Loses, EntrySets
<1> HIDE DEF n
<1>3. r \in Kinds => d = IF n > 0 THEN n - 1 ELSE 0
  BY <1>1, LessOne
<1> HIDE DEF d
<1>4. r \in Kinds => d \in Nat
  BY <1>1, <1>3
<1>5. g \in Holdings /\ HeldBut(h, g, t, r) /\ (r \in Kinds => g[t][r] = d)
  BY <1>2, <1>4, EntrySet
<1>6. QED
  BY <1>1, <1>3, <1>5 DEF n

LEMMA HeldStep ==
    ASSUME WaitersPlaced, HeldTyped, NEW t \in Thread, ThreadStep(t)
    PROVE  HeldTyped'
<1>1. CASE down(t)
  <2>1. held' = held \/ Gains(held, held', t, Instruction(t)[2])
    BY <1>1 DEF down, Locks, Gains
  <2>2. QED
    BY <2>1, GainsOne DEF HeldTyped
<1>2. ASSUME NEW r, NEW n, GiveBack(t, r, n) PROVE HeldTyped'
  <2> DEFINE less == [held EXCEPT ![t][r] = Max({@ - 1, 0})]
  <2>1. held' = less \/ \E u \in blocked : Gains(less, held', u, r)
    BY <1>2 DEF GiveBack, Gains
  <2>2. Loses(held, less, t, r)
    BY DEF Loses
  <2> HIDE DEF less
  <2>3. less \in Holdings
    BY <2>2, LosesOne DEF HeldTyped
  <2>4. blocked \subseteq Thread
    BY DEF WaitersPlaced
  <2>5. QED
    BY <2>1, <2>3, <2>4, GainsOne DEF HeldTyped
<1>3. CASE up(t)
  BY <1>2, <1>3, Zenon DEF up
<1>4. CASE condvar_wait(t)
  BY <1>2, <1>4, Zenon DEF condvar_wait
<1>5. CASE ~(down(t) \/ up(t) \/ condvar_wait(t))
  <2>1. held' = held
    BY <1>5 DEF ThreadStep, thread_exit, thread_assert, thread_create, waittid, sleep, create,
       condvar_signal, eat, work, test_A, read_A, write_A, store, front, print, tail, Access, Locks
  <2>2. QED
    BY <2>1 DEF HeldTyped
<1>6. QED
  BY <1>1, <1>3, <1>4, <1>5

-----------------------------------------------------------------------------
(*                  What one call on a lock may do                         *)

UnitsBy(r, d) ==
    /\ Len(units') = Len(units) /\ units'[r + 1] = units[r + 1] + d
    /\ \A q \in Nat : q < Len(units) /\ q # r => units'[q + 1] = units[q + 1]

GoesBy(t, n) == at'[t] = at[t] + n /\ \A s \in Thread \ {t} : at'[s] = at[s]

Grabs(t, r) ==
    /\ Free(r) > 0 /\ UnitsBy(r, -1) /\ GoesBy(t, 1)
    /\ HeldBut(held, held', t, r) /\ held[t][r] \in Nat /\ held'[t][r] = held[t][r] + 1
    /\ UNCHANGED <<exited, exit_code, blocked>>

Waits(t, r) ==
    /\ Free(r) = 0 /\ ~Deadlocks(t) /\ blocked' = blocked \cup {t}
    /\ UNCHANGED <<at, exited, exit_code, units, held>>

Refuses(t, r, n) ==
    /\ Free(r) = 0 /\ Deadlocks(t)
    /\ IF n # 0 THEN GoesBy(t, n) /\ UNCHANGED <<exited, exit_code>> ELSE ThreadExits(t, 1)
    /\ UNCHANGED <<units, held, blocked>>

Lowered(t, r) ==
    held[t][r] \in Nat /\ held'[t][r] = IF held[t][r] > 0 THEN held[t][r] - 1 ELSE 0

Returns(t, r) ==
    /\ \A u \in blocked : Instruction(u)[2] # r
    /\ UnitsBy(r, 1) /\ GoesBy(t, 1)
    /\ HeldBut(held, held', t, r) /\ Lowered(t, r)
    /\ UNCHANGED <<exited, exit_code, blocked>>

Delivers(t, r, u) ==
    /\ u \in blocked /\ u \in Thread /\ u # t /\ at[u] > 0
    /\ Instruction(u)[1] = "down" /\ Instruction(u)[2] = r
    /\ blocked' = blocked \ {u}
    /\ at'[t] = at[t] + 1 /\ at'[u] = at[u] + 1 /\ \A s \in Thread \ {t, u} : at'[s] = at[s]
    /\ Lowered(t, r) /\ held[u][r] \in Nat /\ held'[u][r] = held[u][r] + 1
    /\ \A s \in Thread, q \in Kinds :
          <<s, q>> # <<t, r>> /\ <<s, q>> # <<u, r>> => held'[s][q] = held[s][q]
    /\ UNCHANGED <<exited, exit_code, units>>

LEMMA UnitsByOne ==
    ASSUME units \in Seq(Nat), NEW r \in Nat, r < Len(units)
    PROVE  /\ units' = [units EXCEPT ![r + 1] = @ - 1] => UnitsBy(r, -1)
           /\ units' = [units EXCEPT ![r + 1] = @ + 1] => UnitsBy(r, 1)
<1> DEFINE d == units[r + 1]
<1>1. /\ d \in Nat
      /\ \A c \in Int : units' = [units EXCEPT ![r + 1] = c] =>
             /\ units'[r + 1] = c /\ Len(units') = Len(units)
             /\ \A q \in Nat : q < Len(units) /\ q # r => units'[q + 1] = units[q + 1]
  BY UnitsAfter
<1>2. d - 1 \in Int /\ d + 1 \in Int /\ d - 1 = d + (-1)
  BY <1>1
<1>3. ASSUME units' = [units EXCEPT ![r + 1] = @ - 1] PROVE UnitsBy(r, -1)
  <2>1. units' = [units EXCEPT ![r + 1] = d - 1]
    BY <1>3
  <2>2. /\ units'[r + 1] = d - 1 /\ Len(units') = Len(units)
        /\ \A q \in Nat : q < Len(units) /\ q # r => units'[q + 1] = units[q + 1]
    BY <1>1, <1>2, <2>1
  <2>3. QED
    BY <1>2, <2>2 DEF UnitsBy
<1>4. ASSUME units' = [units EXCEPT ![r + 1] = @ + 1] PROVE UnitsBy(r, 1)
  <2>1. units' = [units EXCEPT ![r + 1] = d + 1]
    BY <1>4
  <2>2. /\ units'[r + 1] = d + 1 /\ Len(units') = Len(units)
        /\ \A q \in Nat : q < Len(units) /\ q # r => units'[q + 1] = units[q + 1]
    BY <1>1, <1>2, <2>1
  <2>3. QED
    BY <2>2 DEF UnitsBy
<1>5. QED
  BY <1>3, <1>4

LEMMA WatchedDown ==
    ASSUME units \in Seq(Nat), at \in [Thread -> Nat], HeldTyped, NEW t \in Thread, ThreadStep(t),
           NEW r \in Kinds \cap Nat, r < Len(units), NEW n \in Nat,
           Instruction(t) = <<"down", r, n>>
    PROVE  (Grabs(t, r) \/ Waits(t, r) \/ Refuses(t, r, n)) /\ UNCHANGED <<test, asleep, Shared>>
<1>1. Instruction(t)[1] = "down" /\ Instruction(t)[2] = r /\ Instruction(t)[3] = n
  OBVIOUS
<1>2. down(t)
  BY <1>1, ActionOf
<1>3. ASSUME NEW m \in Nat, Advance(t, m) PROVE GoesBy(t, m)
  BY <1>3 DEF Advance, GoesBy
<1>4. CASE /\ Free(r) > 0
           /\ units' = [units EXCEPT ![r + 1] = @ - 1]
           /\ held' = [held EXCEPT ![t][r] = @ + 1]
           /\ Advance(t, 1)
           /\ UNCHANGED <<exited, exit_code, blocked>>
  <2>1. Gains(held, held', t, r)
    BY <1>4 DEF Gains
  <2>2. HeldBut(held, held', t, r) /\ held[t][r] \in Nat /\ held'[t][r] = held[t][r] + 1
    BY <2>1, GainsOne DEF HeldTyped
  <2>3. UnitsBy(r, -1)
    BY <1>4, UnitsByOne
  <2>4. GoesBy(t, 1)
    BY <1>3, <1>4
  <2>5. QED
    BY <1>2, <1>4, <2>2, <2>3, <2>4 DEF Grabs, down
<1>5. CASE /\ Free(r) = 0 /\ ~Deadlocks(t)
           /\ blocked' = blocked \cup {t}
           /\ UNCHANGED <<at, exited, exit_code, units, held>>
  BY <1>2, <1>5 DEF Waits, down
<1>6. CASE /\ Free(r) = 0 /\ Deadlocks(t)
           /\ AdvanceOrPanic(t, n # 0, n)
           /\ UNCHANGED Locks
  <2>1. IF n # 0 THEN Advance(t, n) /\ UNCHANGED <<exited, exit_code>> ELSE ThreadExits(t, 1)
    BY <1>6 DEF AdvanceOrPanic
  <2>2. UNCHANGED <<units, held, blocked>>
    BY <1>6 DEF Locks
  <2>3. QED
    BY <1>2, <1>3, <1>6, <2>1, <2>2 DEF Refuses, down
<1>7. QED
  BY <1>1, <1>2, <1>4, <1>5, <1>6 DEF down

LEMMA WatchedUp ==
    ASSUME units \in Seq(Nat), at \in [Thread -> Nat], HeldTyped, WaitersPlaced,
           NEW t \in Thread, t \notin blocked, ThreadStep(t),
           NEW r \in Kinds \cap Nat, r < Len(units), Instruction(t) = Up(r)
    PROVE  /\ Returns(t, r) \/ \E u \in blocked : Delivers(t, r, u)
           /\ UNCHANGED <<test, asleep, Shared>>
<1>1. Instruction(t)[1] = "up" /\ Instruction(t)[2] = r
  BY DEF Up
<1>2. up(t)
  BY <1>1, ActionOf
<1>3. GiveBack(t, r, 1) /\ UNCHANGED <<test, exited, exit_code, asleep, Shared>>
  BY <1>1, <1>2 DEF up
<1> DEFINE less == [held EXCEPT ![t][r] = Max({@ - 1, 0})]
<1>4. Loses(held, less, t, r)
  BY DEF Loses
<1>5. CASE /\ \A u \in blocked : Instruction(u)[2] # r
           /\ units' = [units EXCEPT ![r + 1] = @ + 1]
           /\ held' = less
           /\ Advance(t, 1)
           /\ UNCHANGED blocked
  <2>1. Loses(held, held', t, r)
    BY <1>4, <1>5
  <2>2. HeldBut(held, held', t, r) /\ Lowered(t, r)
    BY <2>1, LosesOne DEF HeldTyped, Lowered
  <2>3. UnitsBy(r, 1)
    BY <1>5, UnitsByOne
  <2>4. GoesBy(t, 1)
    BY <1>5 DEF Advance, GoesBy
  <2>5. QED
    BY <1>3, <1>5, <2>2, <2>3, <2>4 DEF Returns
<1>6. ASSUME NEW u \in blocked,
             Instruction(u)[2] = r,
             held' = [less EXCEPT ![u][r] = @ + 1],
             blocked' = blocked \ {u},
             at' = [at EXCEPT ![t] = @ + 1, ![u] = @ + 1],
             UNCHANGED units
      PROVE  Delivers(t, r, u)
  <2>1. Gains(less, held', u, r)
    BY <1>6 DEF Gains
  <2> HIDE DEF less
  <2>2. u \in Thread /\ u # t /\ at[u] > 0 /\ Instruction(u)[1] = "down"
    BY DEF WaitersPlaced
  <2>3. /\ less \in Holdings /\ HeldBut(held, less, t, r) /\ held[t][r] \in Nat
        /\ less[t][r] = IF held[t][r] > 0 THEN held[t][r] - 1 ELSE 0
    BY <1>4, LosesOne DEF HeldTyped
  <2>4. HeldBut(less, held', u, r) /\ held'[u][r] = less[u][r] + 1 /\ less[u][r] \in Nat
    BY <2>1, <2>2, <2>3, GainsOne
  <2>5. less[u][r] = held[u][r] /\ held'[t][r] = less[t][r]
    BY <2>2, <2>3, <2>4 DEF HeldBut
  <2>6. \A s \in Thread, q \in Kinds :
            <<s, q>> # <<t, r>> /\ <<s, q>> # <<u, r>> => held'[s][q] = held[s][q]
    BY <2>3, <2>4 DEF HeldBut
  <2>7. at'[t] = at[t] + 1 /\ at'[u] = at[u] + 1 /\ \A s \in Thread \ {t, u} : at'[s] = at[s]
    BY <1>6, <2>2
  <2>8. Lowered(t, r)
    BY <2>3, <2>5 DEF Lowered
  <2>9. held[u][r] \in Nat /\ held'[u][r] = held[u][r] + 1
    BY <2>4, <2>5
  <2>10. QED
    BY <1>3, <1>6, <2>2, <2>6, <2>7, <2>8, <2>9 DEF Delivers
<1>7. QED
  BY <1>3, <1>5, <1>6 DEF GiveBack

(* Only a wait goes back.                                                  *)
LEMMA StepOnward ==
    ASSUME ThreadsPlaced, WaitersPlaced, NEW t \in Thread, ThreadStep(t),
           Instruction(t)[1] # "wait", NEW u \in Thread
    PROVE  at[u] \in Nat /\ at'[u] \in Nat /\ at'[u] >= at[u]
<1>1. /\ at[t] > 0 /\ test' = test
      /\ Goes(t) \/ Ends(t) \/ Stops(t) \/ Gives(t) \/ StartsOne(t)
  BY StepKinds
<1>2. at \in [Thread -> Nat] /\ at[u] \in Nat /\ at[t] \in Nat
  BY DEF ThreadsPlaced
<1>3. ASSUME NEW n \in Offsets(Instruction(t)) PROVE n \in Int /\ n >= 1
  <2>1. n \in Int /\ Instruction(t) \in TeamOps \cup MainOps
    BY <1>1, CurrentOp
  <2>2. QED
    BY <2>1, OffsetsOnward
<1>4. ASSUME NEW n \in Offsets(Instruction(t)), Advance(t, n)
      PROVE  at'[u] \in Nat /\ at'[u] >= at[u]
  <2>1. n \in Int /\ n >= 1
    BY <1>3
  <2>2. at'[u] = at[u] + n \/ at'[u] = at[u]
    BY <1>2, <1>4 DEF Advance
  <2>3. QED
    BY <1>2, <2>1, <2>2
<1>5. ASSUME NEW n \in Offsets(Instruction(t)), NEW w \in blocked, Hands(t, n, w)
      PROVE  at'[u] \in Nat /\ at'[u] >= at[u]
  <2>1. n \in Int /\ n >= 1
    BY <1>3
  <2>2. w \in Thread /\ w # t
    BY StepKinds DEF WaitersPlaced
  <2>3. at'[u] = at[u] + n \/ at'[u] = at[u] \/ at'[u] = at[u] + 1
    BY <1>2, <1>5, <2>2 DEF Hands
  <2>4. QED
    BY <1>2, <2>1, <2>3
<1>6. CASE StartsOne(t)
  <2>1. t = 0 /\ Instruction(t)[2] \in 1..8 /\ at[Instruction(t)[2]] = 0
    BY <1>1, <1>6, StartFacts DEF StartsOne
  <2>2. at'[u] = at[u] + 1 \/ at'[u] = at[u] \/ (at'[u] = 1 /\ at[u] = 0)
    BY <1>2, <1>6, <2>1 DEF StartsOne
  <2>3. QED
    BY <1>2, <2>2
<1>7. CASE at' = at
  BY <1>2, <1>7
<1>8. CASE Gives(t)
  <2>1. PICK n \in Offsets(Instruction(t)) : Advance(t, n) \/ \E w \in blocked : Hands(t, n, w)
    BY <1>8, Zenon DEF Gives
  <2>2. at'[u] \in Nat /\ at'[u] >= at[u]
    BY <1>4, <1>5, <2>1
  <2>3. QED
    BY <1>2, <2>2
<1>9. CASE Goes(t)
  <2>1. PICK n \in Offsets(Instruction(t)) : Advance(t, n)
    BY <1>9 DEF Goes
  <2>2. QED
    BY <1>2, <1>4, <2>1
<1>10. Ends(t) \/ Stops(t) => at' = at
  BY DEF Ends, Stops, ThreadExits
<1>11. QED
  BY <1>1, <1>2, <1>6, <1>7, <1>8, <1>9, <1>10

-----------------------------------------------------------------------------
(*              Mains that end only where they are done                    *)

EndsDone(text) == \A k \in 1..Len(text) : EndsThread(text[k]) => text[k] = Exit(0)

LEMMA SpreadEnds ==
    ASSUME NEW text, NEW s \in Seq(Plain), NEW m \in 1..8,
           MainSpread(text, s, m, <<Exit(0)>>), \A k \in 1..Len(s) : ~EndsThread(s[k])
    PROVE  EndsDone(text)
<1> DEFINE last == <<Exit(0)>>
           p == Len(s)
<1>1. Len(last) = 1 /\ last[1] = Exit(0) /\ p \in Nat
  OBVIOUS
<1> HIDE DEF last
<1>2. /\ Len(text) = p + m + (m + 1)
      /\ \A k \in 1..p : text[k] = s[k]
      /\ \A k \in 1..m : text[p + k] = Start(k)
      /\ \A k \in 1..m : text[p + m + k] = Join(k)
      /\ text[p + m + (m + 1)] = Exit(0)
  BY <1>1 DEF MainSpread, last
<1>3. \A k \in 1..p : ~EndsThread(s[k])
  OBVIOUS
<1> HIDE DEF p
<1>4. ASSUME NEW k \in 1..Len(text), EndsThread(text[k]) PROVE text[k] = Exit(0)
  <2>1. k \in 1..p \/ k - p \in 1..m \/ k - p - m \in 1..m \/ k = p + m + (m + 1)
    <3>1. k \in 1 .. p + m + (m + 1)
      BY <1>2
    <3>2. p \in Nat /\ m \in Nat
      BY <1>1
    <3>3. k \in Nat /\ 1 <= k /\ k <= p + m + (m + 1)
      BY <3>1, <3>2
    <3>4. QED
      BY <3>2, <3>3
  <2>2. CASE k \in 1..p
    BY <1>2, <1>3, <1>4, <2>2
  <2>3. CASE k - p \in 1..m
    <3>1. p + (k - p) = k
      BY <1>1, <1>2
    <3>2. text[k] = Start(k - p)
      BY <1>2, <2>3, <3>1
    <3>3. QED
      BY <1>4, <3>2 DEF Start, EndsThread
  <2>4. CASE k - p - m \in 1..m
    <3>1. p + m + (k - p - m) = k
      BY <1>1, <1>2
    <3>2. text[k] = Join(k - p - m)
      BY <1>2, <2>4, <3>1
    <3>3. QED
      BY <1>4, <3>2 DEF Join, EndsThread
  <2>5. QED
    BY <1>2, <2>1, <2>2, <2>3, <2>4
<1>5. QED
  BY <1>4 DEF EndsDone

DoneTests ==
    {"phil_din_mutex", "sync_sem", "test_condvar", "mpsc_sem", "threads", "threads_arg"}

LEMMA DoneMains ==
    ASSUME ThreadsPlaced, test \in DoneTests, EndsThread(Instruction(0))
    PROVE  Instruction(0) = Exit(0)
<1>1. at[0] \in 1..Len(TextOf(0)) /\ Instruction(0) = TextOf(0)[at[0]]
  BY DEF ThreadsPlaced, Instruction, TextOf
<1>2. SUFFICES EndsDone(TextOf(0))
  BY <1>1 DEF EndsDone
<1> DEFINE none == <<>>
           first == <<Create(1), Create(BUFFER_SIZE), Create(0)>>
<1>3. none \in Seq(Plain) /\ \A k \in 1..Len(none) : ~EndsThread(none[k])
  BY EmptySeq
<1>4. first \in Seq(Plain) /\ \A k \in 1..Len(first) : ~EndsThread(first[k])
  <2>1. first \in Seq(Plain)
    BY PlainFacts, ThreadCounts
  <2>2. Len(first) = 3 /\ \A k \in 1..3 : first[k][1] = "create"
    BY DEF Create
  <2>3. QED
    BY <2>1, <2>2 DEF EndsThread
<1> HIDE DEF none, first
<1>5. CASE test = "phil_din_mutex"
  <2>1. ForksMain(TextOf(0))
    BY <1>5, ForksMainText DEF TextOf, ThreadTest
  <2>2. ASSUME NEW k \in 1..Len(TextOf(0)), EndsThread(TextOf(0)[k]) PROVE TextOf(0)[k] = Exit(0)
    <3>1. k > 2 * N
      BY <2>1, <2>2, ForksPlace DEF EndsThread, Create, Start
    <3>2. k - 2 * N \in 1..N \/ k = 3 * N + 1
      BY <2>1, <3>1, ThreadCounts DEF ForksMain
    <3>3. ASSUME k - 2 * N \in 1..N PROVE FALSE
      <4>1. 2 * N + (k - 2 * N) = k
        BY ThreadCounts
      <4>2. TextOf(0)[k] = Join(k - 2 * N)
        BY <2>1, <3>3, <4>1 DEF ForksMain
      <4>3. QED
        BY <2>2, <4>2 DEF Join, EndsThread
    <3>4. QED
      BY <2>1, <3>2, <3>3 DEF ForksMain
  <2>3. QED
    BY <2>2 DEF EndsDone
<1>6. CASE test \in {"sync_sem", "test_condvar"}
  <2> DEFINE n == IF test = "sync_sem" THEN 0 ELSE 1
             text == <<Create(n), Start(1), Start(2), Join(1), Join(2), Exit(0)>>
  <2>1. TextOf(0) = text
    BY <1>6 DEF TextOf, ThreadTest, sync_sem, test_condvar, Thread
  <2>2. /\ Len(text) = 6
        /\ text[1][1] = "create" /\ text[2][1] = "thread" /\ text[3][1] = "thread"
        /\ text[4][1] = "join" /\ text[5][1] = "join" /\ text[6] = Exit(0)
    BY DEF Create, Start, Join
  <2> HIDE DEF text
  <2>3. \A k \in 1..6 : k = 6 \/ ~EndsThread(text[k])
    <3>1. \A k \in 1..6 : k = 1 \/ k = 2 \/ k = 3 \/ k = 4 \/ k = 5 \/ k = 6
      OBVIOUS
    <3>2. QED
      BY <2>2, <3>1 DEF EndsThread
  <2>4. QED
    BY <2>1, <2>2, <2>3 DEF EndsDone
<1>7. CASE test = "mpsc_sem"
  <2>1. MainSpread(TextOf(0), first, PRODUCER_COUNT + 1, <<Exit(0)>>)
    BY <1>7, RingTexts DEF TextOf, ThreadTest, first
  <2>2. QED
    BY <1>4, <2>1, ThreadCounts, SpreadEnds
<1>8. CASE test \in {"threads", "threads_arg"}
  <2>1. \/ MainSpread(TextOf(0), none, 8, <<Exit(0)>>)
        \/ MainSpread(TextOf(0), none, 3, <<Exit(0)>>)
    BY <1>8, ThreadsTexts DEF TextOf, ThreadTest, none
  <2>2. 8 \in 1..8 /\ 3 \in 1..8
    OBVIOUS
  <2>3. QED
    BY <1>3, <2>1, <2>2, SpreadEnds
<1>9. QED
  BY <1>5, <1>6, <1>7, <1>8 DEF DoneTests

-----------------------------------------------------------------------------
(*                 The race adder: rounds of four                          *)

Racing == test = "race_adder"

AdderTurn(i) == IF i = 0 THEN 1 ELSE ((i - 1) % 4) + 1

(* How often a thread at i has written A.                                  *)
Added(i) == IF i = 0 THEN 0 ELSE i \div 4

LEMMA AdderFacts ==
    /\ AdderTurn(0) = 1 /\ AdderTurn(1) = 1 /\ Added(0) = 0 /\ Added(1) = 0
    /\ \A i \in Nat : AdderTurn(i) \in 1..4 /\ Added(i) \in Nat
    /\ \A i \in Nat \ {0} :
          /\ AdderTurn(i + 1) = IF AdderTurn(i) = 4 THEN 1 ELSE AdderTurn(i) + 1
          /\ Added(i + 1) = Added(i) + (IF AdderTurn(i) = 3 THEN 1 ELSE 0)
    /\ \A n \in Nat : Added(n * 4 + 1) = n
<1>1. AdderTurn(0) = 1 /\ AdderTurn(1) = 1 /\ Added(0) = 0 /\ Added(1) = 0
  BY DEF AdderTurn, Added
<1>2. \A i \in Nat : AdderTurn(i) \in 1..4 /\ Added(i) \in Nat
  BY DEF AdderTurn, Added
<1>3. ASSUME NEW i \in Nat \ {0}
      PROVE  /\ AdderTurn(i + 1) = IF AdderTurn(i) = 4 THEN 1 ELSE AdderTurn(i) + 1
             /\ Added(i + 1) = Added(i) + (IF AdderTurn(i) = 3 THEN 1 ELSE 0)
  <2> DEFINE r == (i - 1) \div 4
             m == (i - 1) % 4
  <2>1. r \in Nat /\ m \in 0..3 /\ i = 4 * r + m + 1
    OBVIOUS
  <2>2. AdderTurn(i) = m + 1 /\ AdderTurn(i + 1) = (i % 4) + 1
    BY DEF AdderTurn
  <2>3. Added(i) = i \div 4 /\ Added(i + 1) = (i + 1) \div 4
    BY DEF Added
  <2> HIDE DEF r, m
  <2>4. m = 0 \/ m = 1 \/ m = 2 \/ m = 3
    BY <2>1
  <2>5. /\ i % 4 = (IF m = 3 THEN 0 ELSE m + 1)
        /\ i \div 4 = (IF m = 3 THEN r + 1 ELSE r)
        /\ (i + 1) \div 4 = (IF m \in 2..3 THEN r + 1 ELSE r)
    BY <2>1, <2>4
  <2>6. QED
    BY <2>1, <2>2, <2>3, <2>4, <2>5
<1>4. \A n \in Nat : Added(n * 4 + 1) = n
  BY DEF Added
<1>5. QED
  BY <1>1, <1>2, <1>3, <1>4

LEMMA AdderPlace ==
    ASSUME NEW s, NEW row, NEW n \in Nat, NEW last, Rounds(s, row, n, 4, last),
           NEW i \in 1..Len(s)
    PROVE  (i = n * 4 + 1 /\ s[i] = last) \/ s[i] = row[AdderTurn(i)]
<1>1. Len(s) = n * 4 + 1 /\ i \in Nat
  BY DEF Rounds
<1>2. CASE i = n * 4 + 1
  BY <1>2 DEF Rounds
<1>3. CASE i # n * 4 + 1
  <2> DEFINE k == (i - 1) \div 4 + 1
             j == AdderTurn(i)
  <2>1. i < n * 4 + 1 /\ i >= 1
    BY <1>1, <1>3
  <2>2. k \in 1..n /\ j \in 1..4 /\ i = (k - 1) * 4 + j
    BY <1>1, <2>1 DEF AdderTurn
  <2> HIDE DEF k, j
  <2>3. s[(k - 1) * 4 + j] = row[j]
    BY <2>2 DEF Rounds
  <2>4. QED
    BY <2>2, <2>3 DEF j
<1>4. QED
  BY <1>2, <1>3

Sum8(f) == f[1] + f[2] + f[3] + f[4] + f[5] + f[6] + f[7] + f[8]

Adding(a) == [t \in 1..8 |-> Added(a[t])]

LEMMA AddingMoves ==
    ASSUME NEW a \in [Thread -> Nat], NEW b \in [Thread -> Nat], NEW t \in 1..8, NEW d \in {0, 1},
           Added(b[t]) = Added(a[t]) + d, \A s \in 1..8 \ {t} : Added(b[s]) = Added(a[s])
    PROVE  Sum8(Adding(b)) = Sum8(Adding(a)) + d /\ Sum8(Adding(a)) \in Nat
<1> DEFINE f == Adding(a)
           g == Adding(b)
<1>1. f \in [1..8 -> Nat] /\ g \in [1..8 -> Nat]
  <2>1. \A s \in 1..8 : a[s] \in Nat /\ b[s] \in Nat
    BY DEF Thread
  <2>2. \A s \in 1..8 : Added(a[s]) \in Nat /\ Added(b[s]) \in Nat
    BY <2>1, AdderFacts
  <2>3. QED
    BY <2>2 DEF Adding
<1>2. g[t] = f[t] + d /\ \A s \in 1..8 : s # t => g[s] = f[s]
  BY DEF Adding
<1> HIDE DEF f, g
<1>3. /\ f[1] \in Nat /\ f[2] \in Nat /\ f[3] \in Nat /\ f[4] \in Nat /\ f[5] \in Nat
      /\ f[6] \in Nat /\ f[7] \in Nat /\ f[8] \in Nat
  BY <1>1
<1>4. t = 1 \/ t = 2 \/ t = 3 \/ t = 4 \/ t = 5 \/ t = 6 \/ t = 7 \/ t = 8
  OBVIOUS
<1>5. Sum8(g) = Sum8(f) + d
  BY <1>2, <1>3, <1>4 DEF Sum8
<1>6. Sum8(f) \in Nat
  BY <1>3 DEF Sum8
<1>7. QED
  BY <1>5, <1>6 DEF f, g

LEMMA AddingSame ==
    ASSUME NEW a, NEW b, \A s \in 1..8 : Added(b[s]) = Added(a[s])
    PROVE  Sum8(Adding(b)) = Sum8(Adding(a))
<1>1. \A s \in 1..8 : Adding(b)[s] = Adding(a)[s]
  BY DEF Adding
<1>2. QED
  BY <1>1 DEF Sum8

LEMMA RaceMainAt ==
    ASSUME ThreadsPlaced, Racing
    PROVE  /\ at[0] \in 1..2 * THREAD_COUNT + 3 /\ at[0] \in Nat /\ THREAD_COUNT \in 1..8
           /\ at[0] = 1 => Instruction(0) = Create(1)
           /\ at[0] \in 2..THREAD_COUNT + 1 =>
                 at[0] - 1 \in 1..THREAD_COUNT /\ Instruction(0) = Start(at[0] - 1)
           /\ at[0] \in THREAD_COUNT + 2 .. 2 * THREAD_COUNT + 1 =>
                 /\ at[0] - THREAD_COUNT - 1 \in 1..THREAD_COUNT
                 /\ Instruction(0) = Join(at[0] - THREAD_COUNT - 1)
           /\ at[0] = 2 * THREAD_COUNT + 2 => Instruction(0) = Check("total", 0)
           /\ at[0] = 2 * THREAD_COUNT + 3 => Instruction(0) = Exit(0)
           /\ \A t \in 1..8 : at[t] > 0 => t \in 1..THREAD_COUNT /\ at[0] > t + 1
<1> DEFINE text == TextOf(0)
           m == THREAD_COUNT
           first == <<Create(1)>>
           last == <<Check("total", 0), Exit(0)>>
<1>1. MainSpread(text, first, m, last)
  BY RaceTexts DEF TextOf, ThreadTest, Racing
<1>2. m \in 1..8
  BY ThreadCounts
<1>3. Len(first) = 1 /\ first[1] = Create(1)
  OBVIOUS
<1>4. Len(last) = 2 /\ last[1] = Check("total", 0) /\ last[2] = Exit(0)
  OBVIOUS
<1> HIDE DEF first, last, m, text
<1>5. /\ Len(text) = 1 + m + (m + 2) /\ text[1] = Create(1)
      /\ \A k \in 1..m : text[1 + k] = Start(k)
      /\ \A k \in 1..m : text[1 + m + k] = Join(k)
      /\ text[1 + m + (m + 1)] = Check("total", 0)
      /\ text[1 + m + (m + 2)] = Exit(0)
  <2>1. 1 \in 1..2 /\ 2 \in 1..2 /\ 1 \in 1..1
    OBVIOUS
  <2>2. /\ Len(text) = Len(first) + m + (m + Len(last))
        /\ \A k \in 1..Len(first) : text[k] = first[k]
        /\ \A k \in 1..m : text[Len(first) + k] = Start(k)
        /\ \A k \in 1..m : text[Len(first) + m + k] = Join(k)
        /\ \A k \in 1..Len(last) : text[Len(first) + m + (m + k)] = last[k]
    BY <1>1 DEF MainSpread
  <2>3. QED
    BY <1>3, <1>4, <2>1, <2>2
<1>6. at[0] \in 1..Len(text) /\ Instruction(0) = text[at[0]]
  BY DEF ThreadsPlaced, Instruction, TextOf, text
<1>7. at[0] \in 1..2 * m + 3 /\ at[0] \in Nat
  <2>1. at[0] \in 1..1 + m + (m + 2)
    BY <1>5, <1>6
  <2>2. QED
    BY <1>2, <2>1
<1>8. at[0] = 1 => Instruction(0) = Create(1)
  BY <1>5, <1>6
<1>9. ASSUME at[0] \in 2..m + 1
      PROVE  at[0] - 1 \in 1..m /\ Instruction(0) = Start(at[0] - 1)
  <2>1. at[0] - 1 \in 1..m /\ 1 + (at[0] - 1) = at[0]
    BY <1>2, <1>9
  <2>2. QED
    BY <1>5, <1>6, <2>1
<1>10. ASSUME at[0] \in m + 2 .. 2 * m + 1
       PROVE  at[0] - m - 1 \in 1..m /\ Instruction(0) = Join(at[0] - m - 1)
  <2>1. at[0] - m - 1 \in 1..m /\ 1 + m + (at[0] - m - 1) = at[0]
    BY <1>2, <1>10
  <2>2. QED
    BY <1>5, <1>6, <2>1
<1>11. /\ at[0] = 2 * m + 2 => Instruction(0) = Check("total", 0)
       /\ at[0] = 2 * m + 3 => Instruction(0) = Exit(0)
  <2>1. 1 + m + (m + 1) = 2 * m + 2 /\ 1 + m + (m + 2) = 2 * m + 3
    BY <1>2
  <2>2. QED
    BY <1>5, <1>6, <2>1
<1>12. ASSUME NEW t \in 1..8, at[t] > 0
       PROVE  t \in 1..m /\ at[0] > t + 1
  <2>1. PICK j \in 1 .. at[0] - 1 : text[j] = Start(t)
    BY <1>12 DEF ThreadsPlaced, text
  <2>2. j \in Nat /\ j >= 1 /\ j < at[0] /\ j < 2 * m + 3
    BY <1>2, <1>7, <2>1
  <2>3. text[j][1] = "thread" /\ text[j][2] = t
    BY <2>1 DEF Start
  <2>4. j # 1
    BY <1>5, <2>3 DEF Create
  <2>5. j - 1 \in 1..m \/ j - m - 1 \in 1..m \/ j = 1 + m + (m + 1)
    BY <1>2, <2>2, <2>4
  <2>6. ASSUME j - m - 1 \in 1..m PROVE FALSE
    <3>1. 1 + m + (j - m - 1) = j
      BY <1>2, <2>2
    <3>2. text[j] = Join(j - m - 1)
      BY <1>5, <2>6, <3>1
    <3>3. QED
      BY <2>3, <3>2 DEF Join
  <2>7. j # 1 + m + (m + 1)
    BY <1>5, <2>3 DEF Check
  <2>8. j - 1 \in 1..m /\ 1 + (j - 1) = j
    BY <2>2, <2>5, <2>6, <2>7
  <2>9. text[j] = Start(j - 1)
    BY <1>5, <2>8
  <2>10. t = j - 1
    BY <2>3, <2>9 DEF Start
  <2>11. QED
    BY <1>7, <2>2, <2>8, <2>10
<1>13. QED
  BY <1>2, <1>7, <1>8, <1>9, <1>10, <1>11, <1>12 DEF m

LEMMA RaceAt ==
    ASSUME ThreadsPlaced, Racing, NEW t \in 1..8, at[t] > 0
    PROVE  /\ t \in 1..THREAD_COUNT /\ at[t] \in Nat \ {0} /\ t \in Thread /\ t # 0
           /\ AdderTurn(at[t]) \in 1..4
           /\ \/ at[t] = PER_THREAD * 4 + 1 /\ Instruction(t) = Exit(1)
              \/ Instruction(t) = AdderRow[AdderTurn(at[t])]
<1>1. t \in 1..THREAD_COUNT /\ t \in Thread /\ t # 0
  BY RaceMainAt DEF Thread
<1>2. at[t] \in 1..Len(TextOf(t)) /\ Instruction(t) = TextOf(t)[at[t]] /\ at[t] \in Nat \ {0}
  <2>1. at[t] \in 1..Len(TextOf(t)) /\ Len(TextOf(t)) \in Nat /\ Instruction(t) = TextOf(t)[at[t]]
    BY <1>1, CurrentOp
  <2>2. QED
    BY <2>1
<1>3. Rounds(TextOf(t), AdderRow, PER_THREAD, 4, Exit(1))
  BY RaceTexts DEF Racing, TextOf, ThreadTest
<1>4. PER_THREAD \in Nat
  BY ThreadCounts
<1>5. \/ at[t] = PER_THREAD * 4 + 1 /\ TextOf(t)[at[t]] = Exit(1)
      \/ TextOf(t)[at[t]] = AdderRow[AdderTurn(at[t])]
  BY <1>2, <1>3, <1>4, AdderPlace
<1>6. AdderTurn(at[t]) \in 1..4
  BY <1>2, AdderFacts
<1>7. QED
  BY <1>1, <1>2, <1>5, <1>6

(* A thread that has exited has added all it has to.                       *)
LEMMA RaceExited ==
    ASSUME ThreadsPlaced, WaitersPlaced, Racing, NEW t \in exited \ {0}
    PROVE  t \in 1..8 /\ Added(at[t]) = PER_THREAD
<1>1. t \in 1..8 /\ at[t] > 0 /\ EndsThread(Instruction(t))
  BY DEF WaitersPlaced, Thread
<1> DEFINE j == AdderTurn(at[t])
<1>2. /\ j \in 1..4
      /\ \/ at[t] = PER_THREAD * 4 + 1 /\ Instruction(t) = Exit(1)
         \/ Instruction(t) = AdderRow[j]
  BY <1>1, RaceAt
<1> HIDE DEF j
<1>3. Instruction(t) # AdderRow[j]
  <2>1. j = 1 \/ j = 2 \/ j = 3 \/ j = 4
    BY <1>2
  <2>2. /\ AdderRow[1] = <<"down", 0, 1>> /\ AdderRow[2] = <<"read">> /\ AdderRow[3] = <<"write">>
        /\ AdderRow[4] = <<"up", 0>>
    BY DEF AdderRow, Down, Up, Do
  <2>3. ~EndsThread(AdderRow[j])
    BY <2>1, <2>2 DEF EndsThread
  <2>4. QED
    BY <1>1, <2>3
<1>4. PER_THREAD \in Nat
  BY ThreadCounts
<1>5. QED
  BY <1>1, <1>2, <1>3, <1>4, AdderFacts

(* All have: nothing is lost.                                              *)
LEMMA RaceTotal ==
    ASSUME ThreadsPlaced, WaitersPlaced, Racing, \A k \in 1..THREAD_COUNT : k \in exited
    PROVE  Sum8(Adding(at)) = PER_THREAD * THREAD_COUNT
<1> DEFINE f == Adding(at)
           p == PER_THREAD
           m == THREAD_COUNT
<1>1. m \in 1..8 /\ p \in Nat
  BY ThreadCounts
<1>2. \A k \in 1..m : f[k] = p
  BY <1>1, RaceExited DEF Adding
<1>3. \A k \in 1..8 : k > m => f[k] = 0
  <2> SUFFICES ASSUME NEW k \in 1..8, k > m PROVE f[k] = 0
    OBVIOUS
  <2>1. ~(at[k] > 0)
    BY <1>1, RaceMainAt
  <2>2. at[k] \in Nat
    <3>1. k \in Thread
      BY DEF Thread
    <3>2. QED
      BY <3>1 DEF ThreadsPlaced
  <2>3. at[k] = 0
    BY <2>1, <2>2
  <2>4. QED
    BY <2>3, AdderFacts DEF Adding
<1> HIDE DEF f, p, m
<1>4. m = 1 \/ m = 2 \/ m = 3 \/ m = 4 \/ m = 5 \/ m = 6 \/ m = 7 \/ m = 8
  BY <1>1
<1>5. Sum8(f) = p * m
  BY <1>1, <1>2, <1>3, <1>4 DEF Sum8
<1>6. QED
  BY <1>5 DEF f, p, m

(* Inside the mutex.                                                       *)
Adder(i) == {r \in {0} : AdderTurn(i) \in 2..4}

Adders(a) == [t \in 1..8 |-> Adder(a[t])]

(* A is the number of writes, who is about to write has read it all, and   *)
(* main has joined whom it has passed the join of.                         *)
RaceInv ==
    /\ at[0] = 1 => Len(units) = 0
    /\ at[0] > 1 => Len(units) = 1 /\ Exclusive(Adders(at), units, {0})
    /\ A = Sum8(Adding(at))
    /\ \A t \in 1..8 : AdderTurn(at[t]) = 3 => cur[t] = A
    /\ \A k \in 1..THREAD_COUNT : at[0] > 1 + THREAD_COUNT + k => k \in exited

LEMMA AdderIn ==
    \A i \in Nat : Adder(i) = IF AdderTurn(i) = 1 THEN {} ELSE {0}
BY AdderFacts DEF Adder

LEMMA RaceKept ==
    ASSUME RaceInv, at[0] \in Nat, at[0] > 1, at'[0] = at[0], exited \subseteq exited',
           Len(units') = 1, Exclusive(Adders(at'), units', {0}), A' = Sum8(Adding(at')),
           \A t \in 1..8 : AdderTurn(at'[t]) = 3 => cur'[t] = A'
    PROVE  RaceInv'
<1>1. \A k \in 1..THREAD_COUNT : at'[0] > 1 + THREAD_COUNT + k => k \in exited'
  BY DEF RaceInv
<1>2. ~(at'[0] = 1)
  OBVIOUS
<1>3. QED
  BY <1>1, <1>2 DEF RaceInv

LEMMA RaceMainStep ==
    ASSUME ThreadsPlaced, WaitersPlaced, Racing, RaceInv, units \in Seq(Nat), ThreadStep(0)
    PROVE  /\ RaceInv'
           /\ EndsThread(Instruction(0)) => MainUnhurt
<1> DEFINE m == THREAD_COUNT
<1>1. /\ at[0] \in 1..2 * m + 3 /\ at[0] \in Nat /\ m \in 1..8
      /\ at[0] = 1 => Instruction(0) = Create(1)
      /\ at[0] \in 2..m + 1 => at[0] - 1 \in 1..m /\ Instruction(0) = Start(at[0] - 1)
      /\ at[0] \in m + 2 .. 2 * m + 1 =>
            at[0] - m - 1 \in 1..m /\ Instruction(0) = Join(at[0] - m - 1)
      /\ at[0] = 2 * m + 2 => Instruction(0) = Check("total", 0)
      /\ at[0] = 2 * m + 3 => Instruction(0) = Exit(0)
      /\ \A t \in 1..8 : at[t] > 0 => t \in 1..m /\ at[0] > t + 1
  BY RaceMainAt
<1>2. 0 \in Thread /\ at \in [Thread -> Nat] /\ \A t \in 1..8 : t \in Thread /\ t # 0
  BY DEF ThreadsPlaced, Thread
<1>3. m = THREAD_COUNT /\ m \in Nat
  BY <1>1
<1>a. at[0] \in Nat
  BY <1>1
<1>b. \A t \in 1..8 : at[t] \in Nat /\ (at[t] > 0 => at[0] > t + 1)
  BY <1>1, <1>2
<1>c. m \in 1..8
  BY <1>1
<1> HIDE DEF m
<1>4. CASE at[0] = 1
  <2>1. Instruction(0)[1] = "create" /\ Instruction(0)[2] = 1
    BY <1>1, <1>4 DEF Create
  <2>2. create(0)
    BY <1>2, <2>1, ActionOf
  <2>3. units' = Append(units, 1) /\ Advance(0, 1) /\ UNCHANGED <<A, cur, exited>>
    BY <2>1, <2>2 DEF create, Shared
  <2>4. at'[0] = 2 /\ \A t \in 1..8 : at'[t] = at[t]
    BY <1>2, <1>4, <2>3 DEF Advance
  <2>5. Len(units') = 1 /\ units'[1] = 1
    <3>1. Len(units) = 0
      BY <1>4 DEF RaceInv
    <3>2. QED
      BY <2>3, <3>1
  <2>6. \A t \in 1..8 : at'[t] = 0
    <3> SUFFICES ASSUME NEW t \in 1..8 PROVE at'[t] = 0
      OBVIOUS
    <3>1. at[t] \in Nat /\ ~(at[t] > 0)
      BY <1>b, <1>4
    <3>2. QED
      BY <2>4, <3>1
  <2>7. \A t \in 1..8 : AdderTurn(at'[t]) = 1 /\ Adders(at')[t] = {}
    BY <2>6, AdderFacts, AdderIn DEF Adders
  <2>8. Exclusive(Adders(at'), units', {0})
    <3> DEFINE h == Adders(at')
    <3>1. \A t \in 1..8 : 0 \notin h[t]
      BY <2>7
    <3>2. units'[0 + 1] \in {0, 1}
      BY <2>5
    <3> HIDE DEF h
    <3>3. Exclusive(h, units', {0})
      BY <3>1, <3>2 DEF Exclusive
    <3>4. QED
      BY <3>3 DEF h
  <2>9. A' = Sum8(Adding(at'))
    <3>1. Sum8(Adding(at')) = Sum8(Adding(at))
      BY <2>4, AddingSame
    <3>2. QED
      BY <2>3, <3>1 DEF RaceInv
  <2>10. \A k \in 1..m : ~(at'[0] > 1 + m + k)
    BY <1>3, <2>4
  <2>11. RaceInv'
    BY <1>3, <2>4, <2>5, <2>7, <2>8, <2>9, <2>10 DEF RaceInv
  <2>12. QED
    BY <2>1, <2>11 DEF EndsThread
<1>5. ASSUME at[0] > 1, at'[0] \in Nat, at'[0] > 1, UNCHANGED <<A, cur, units>>,
             \A t \in 1..8 : at'[t] = at[t] \/ (at[t] = 0 /\ at'[t] = 1),
             \A k \in 1..m : at'[0] > 1 + m + k => k \in exited'
      PROVE  RaceInv'
  <2>1. \A t \in 1..8 : AdderTurn(at'[t]) = AdderTurn(at[t]) /\ Added(at'[t]) = Added(at[t])
    BY <1>5, AdderFacts
  <2>2. Adders(at') = Adders(at)
    BY <2>1 DEF Adders, Adder
  <2>3. Sum8(Adding(at')) = Sum8(Adding(at))
    BY <2>1, AddingSame
  <2>4. QED
    BY <1>3, <1>5, <2>1, <2>2, <2>3 DEF RaceInv
<1>6. CASE at[0] \in 2..m + 1
  <2> DEFINE k == at[0] - 1
  <2>a. k \in 1..m /\ Instruction(0) = Start(k)
    BY <1>1, <1>6
  <2>b. k \in 1..8
    <3>1. 1..m \subseteq 1..8
      BY <1>c
    <3>2. QED
      BY <2>a, <3>1, Zenon
  <2> HIDE DEF k
  <2>1. Instruction(0)[1] = "thread" /\ Instruction(0)[2] = k /\ k \in 1..m /\ k \in 1..8
    BY <2>a, <2>b DEF Start
  <2>2. thread_create(0)
    BY <1>2, <2>1, ActionOf
  <2>3. /\ at' = [at EXCEPT ![0] = @ + 1, ![k] = 1]
        /\ UNCHANGED <<A, cur, units, exited>>
    BY <2>1, <2>2 DEF thread_create, Shared, Locks
  <2>4. at[k] = 0
    BY <1>2, <2>1, StartFacts, StepKinds
  <2>5. at'[0] = at[0] + 1 /\ \A t \in 1..8 : at'[t] = at[t] \/ (at[t] = 0 /\ at'[t] = 1)
    BY <1>2, <2>1, <2>3, <2>4
  <2>6. at[0] > 1 /\ at'[0] \in Nat /\ at'[0] > 1 /\ \A j \in 1..m : ~(at'[0] > 1 + m + j)
    BY <1>a, <1>c, <1>6, <2>5
  <2>7. RaceInv'
    BY <1>5, <2>3, <2>5, <2>6
  <2>8. QED
    BY <2>1, <2>7 DEF EndsThread
<1>7. ASSUME Advance(0, 1), UNCHANGED <<A, cur, units>>, at[0] > 1, exited \subseteq exited',
             \A k \in 1..m : at[0] = 1 + m + k => k \in exited
      PROVE  RaceInv'
  <2>1. at'[0] = at[0] + 1 /\ \A t \in 1..8 : at'[t] = at[t]
    BY <1>2, <1>7 DEF Advance
  <2>2. ASSUME NEW k \in 1..m, at'[0] > 1 + m + k PROVE k \in exited'
    <3>a. k \in Nat /\ at'[0] = at[0] + 1
      BY <1>c, <2>1
    <3>b. m \in Nat
      BY <1>c
    <3>1. at[0] > 1 + m + k \/ at[0] = 1 + m + k
      BY <1>a, <3>a, <3>b, <2>2
    <3>2. QED
      BY <1>3, <1>7, <3>1 DEF RaceInv
  <2>3. at'[0] \in Nat /\ at'[0] > 1
    <3> DEFINE a == at[0]
               b == at'[0]
    <3>1. a \in Nat /\ a > 1 /\ b = a + 1
      BY <1>a, <1>7, <2>1
    <3> HIDE DEF a, b
    <3>2. b \in Nat /\ b > 1
      BY <3>1
    <3>3. QED
      BY <3>2 DEF b
  <2>4. QED
    BY <1>5, <1>7, <2>1, <2>2, <2>3
<1>8. CASE at[0] \in m + 2 .. 2 * m + 1
  <2> DEFINE k == at[0] - m - 1
  <2>a. Instruction(0) = Join(k)
    BY <1>1, <1>8
  <2>b. \A j : Join(j)[1] = "join" /\ Join(j)[2] = j
    BY DEF Join
  <2>1. Instruction(0)[1] = "join" /\ Instruction(0)[2] = k
    BY <2>a, <2>b, Zenon
  <2>2. waittid(0)
    BY <1>2, <2>1, ActionOf
  <2>3. k \in exited /\ Advance(0, 1) /\ UNCHANGED <<A, cur, units, exited>>
    BY <2>1, <2>2 DEF waittid, Shared, Locks
  <2>4. \A j \in 1..m : at[0] = 1 + m + j => j = k
    BY <1>a, <1>c
  <2>5. at[0] > 1
    BY <1>3, <1>8
  <2>6. RaceInv'
    BY <1>7, <2>3, <2>4, <2>5
  <2>7. QED
    BY <2>1, <2>6 DEF EndsThread
<1>9. CASE at[0] = 2 * m + 2
  <2>1. Instruction(0)[1] = "assert" /\ Instruction(0)[2] = "total"
    BY <1>1, <1>9 DEF Check
  <2>2. thread_assert(0)
    BY <1>2, <2>1, ActionOf
  <2>3. \A k \in 1..THREAD_COUNT : k \in exited
    BY <1>3, <1>9 DEF RaceInv
  <2>4. A = PER_THREAD * THREAD_COUNT
    BY <2>3, RaceTotal DEF RaceInv
  <2>5. ThreadClaim(Instruction(0)[2])
    BY <2>1, <2>4 DEF ThreadClaim
  <2>6. Advance(0, 1) /\ UNCHANGED <<A, cur, units, exited>>
    BY <2>2, <2>5 DEF thread_assert, AdvanceOrPanic, Shared, Locks
  <2>7. at[0] > 1 /\ \A k \in 1..m : k \in exited
    BY <1>3, <1>9, <2>3
  <2>8. RaceInv'
    BY <1>7, <2>6, <2>7
  <2>9. QED
    BY <2>1, <2>5, <2>8 DEF MainUnhurt
<1>10. CASE at[0] = 2 * m + 3
  <2>1. Instruction(0) = Exit(0) /\ Instruction(0)[1] = "exit"
    BY <1>1, <1>10 DEF Exit
  <2>2. thread_exit(0)
    BY <1>2, <2>1, ActionOf
  <2>3. at' = at /\ UNCHANGED <<A, cur, units>> /\ exited \subseteq exited'
    BY <2>2 DEF thread_exit, ThreadExits, Shared, Locks
  <2>4. at[0] > 1
    BY <1>3, <1>10
  <2>5. \A k \in 1..m : at'[0] > 1 + m + k => k \in exited'
    BY <1>3, <2>3 DEF RaceInv
  <2>6. at'[0] \in Nat /\ at'[0] > 1 /\ \A t \in 1..8 : at'[t] = at[t]
    BY <1>1, <2>3, <2>4
  <2>7. RaceInv'
    BY <1>5, <2>3, <2>4, <2>5, <2>6
  <2>8. QED
    BY <2>1, <2>7 DEF MainUnhurt
<1>11. QED
  <2>1. \/ at[0] = 1 \/ at[0] \in 2..m + 1 \/ at[0] \in m + 2 .. 2 * m + 1
        \/ at[0] = 2 * m + 2 \/ at[0] = 2 * m + 3
    <3> DEFINE a == at[0]
    <3>1. a \in 1..2 * m + 3 /\ m \in 1..8
      BY <1>1, <1>c
    <3> HIDE DEF a
    <3>2. \/ a = 1 \/ a \in 2..m + 1 \/ a \in m + 2 .. 2 * m + 1
          \/ a = 2 * m + 2 \/ a = 2 * m + 3
      BY <3>1
    <3>3. QED
      BY <3>2 DEF a
  <2>2. QED
    BY <2>1, <1>4, <1>6, <1>8, <1>9, <1>10

LEMMA RaceTeamStep ==
    ASSUME ThreadsPlaced, WaitersPlaced, Racing, RaceInv, units \in Seq(Nat),
           cur \in [Thread -> Nat], NEW t \in 1..8, ThreadStep(t)
    PROVE  RaceInv'
<1>0. t \in Thread /\ t # 0
  BY DEF Thread
<1>1. at[t] > 0 /\ t \in Thread /\ t # 0 /\ t \notin blocked
  BY <1>0, StepKinds
<1>2. /\ at[t] \in Nat \ {0} /\ at[0] > t + 1
      /\ AdderTurn(at[t]) \in 1..4
      /\ \/ at[t] = PER_THREAD * 4 + 1 /\ Instruction(t) = Exit(1)
         \/ Instruction(t) = AdderRow[AdderTurn(at[t])]
  BY <1>1, RaceAt, RaceMainAt
<1>3. at \in [Thread -> Nat] /\ at[0] \in Nat /\ 0 \in Thread
      /\ \A s \in 1..8 : s \in Thread /\ s # 0 /\ at[s] \in Nat
  BY DEF ThreadsPlaced, Thread
<1>4. at[0] > 1
  <2>1. at[0] > t + 1 /\ at[0] \in Nat /\ t \in Nat /\ t >= 1
    <3>1. at[0] > t + 1
      BY <1>2
    <3>2. at[0] \in Nat
      BY <1>3
    <3>3. QED
      BY <3>1, <3>2
  <2>2. QED
    BY <2>1
<1>5. /\ AdderTurn(at[t] + 1) = IF AdderTurn(at[t]) = 4 THEN 1 ELSE AdderTurn(at[t]) + 1
      /\ Added(at[t] + 1) = Added(at[t]) + (IF AdderTurn(at[t]) = 3 THEN 1 ELSE 0)
      /\ Added(at[t]) \in Nat
  BY <1>2, AdderFacts
<1>6. /\ Len(units) = 1 /\ Exclusive(Adders(at), units, {0}) /\ A = Sum8(Adding(at))
      /\ \A s \in 1..8 : AdderTurn(at[s]) = 3 => cur[s] = A
  BY <1>4 DEF RaceInv
<1>7. 0 \in Nat /\ 0 < Len(units) /\ units[0 + 1] \in Nat /\ {0} \in SUBSET Nat /\ 0 \in {0}
  <2>1. Len(units) = 1
    BY <1>6
  <2>2. 1 \in 1..Len(units) /\ 0 + 1 = 1 /\ 0 < Len(units)
    BY <2>1
  <2>3. units[1] \in Nat
    BY <2>2, ElementOfSeq
  <2>4. QED
    BY <2>2, <2>3
<1>8. \A s \in 1..8 : Adders(at)[s] = Adder(at[s]) /\ Adders(at')[s] = Adder(at'[s])
  BY DEF Adders
<1>a. /\ AdderTurn(at[t]) = 1 => Adder(at[t]) = {} /\ Adder(at[t] + 1) = {0}
      /\ AdderTurn(at[t]) \in 2..3 => Adder(at[t]) = {0} /\ Adder(at[t] + 1) = {0}
      /\ AdderTurn(at[t]) = 4 => Adder(at[t]) = {0} /\ Adder(at[t] + 1) = {}
  <2>1. AdderTurn(at[t] + 1) = IF AdderTurn(at[t]) = 4 THEN 1 ELSE AdderTurn(at[t]) + 1
    BY <1>5
  <2>2. AdderTurn(at[t]) \in 1..4
    BY <1>2
  <2>3. QED
    BY <2>1, <2>2 DEF Adder
<1>9. ASSUME Moves(t)
      PROVE  /\ at' \in [Thread -> Nat] /\ at'[0] = at[0] /\ at'[t] = at[t] + 1
             /\ \A s \in 1..8 : s # t => at'[s] = at[s]
  <2>1. at' = [at EXCEPT ![t] = at[t] + 1] /\ at[t] + 1 \in Nat
    BY <1>2, <1>9 DEF Moves, Advance
  <2>2. QED
    BY <1>1, <1>3, <2>1
<1>b. ASSUME NEW s \in 1..8, NEW x, at'[s] = x, Added(x) = Added(at[s]), AdderTurn(x) # 3
      PROVE  Added(at'[s]) = Added(at[s]) /\ AdderTurn(at'[s]) # 3
  BY <1>b
<1>c. ASSUME NEW s \in 1..8, at'[s] = at[s]
      PROVE  /\ Added(at'[s]) = Added(at[s])
             /\ AdderTurn(at'[s]) = 3 => AdderTurn(at[s]) = 3
  BY <1>c
(* Nothing of the mutex and of A changes.                                  *)
<1>10. ASSUME at' = at, UNCHANGED <<A, cur, units>>, exited \subseteq exited'
       PROVE  RaceInv'
  BY <1>3, <1>4, <1>6, <1>10, RaceKept
(* A and what was read of it stay, and no write is done.                   *)
<1>11. ASSUME at' \in [Thread -> Nat], at'[0] = at[0], UNCHANGED <<A, cur, exited>>,
              Len(units') = 1, Relocks(Adders(at), units, Adders(at'), units', t, 0),
              \A s \in 1..8 : Added(at'[s]) = Added(at[s]),
              \A s \in 1..8 : AdderTurn(at'[s]) = 3 => AdderTurn(at[s]) = 3
       PROVE  RaceInv'
  <2>1. Exclusive(Adders(at'), units', {0})
    <3>1. \A r \in {0} \ {0} : units'[r + 1] = units[r + 1]
      OBVIOUS
    <3>2. QED
      BY <1>6, <1>7, <1>11, <3>1, LockKept
  <2>2. A' = Sum8(Adding(at'))
    BY <1>6, <1>11, AddingSame
  <2>3. \A s \in 1..8 : AdderTurn(at'[s]) = 3 => cur'[s] = A'
    BY <1>6, <1>11
  <2>4. QED
    BY <1>3, <1>4, <1>11, <2>1, <2>2, <2>3, RaceKept
<1>12. CASE Instruction(t) = Exit(1)
  <2>1. thread_exit(t)
    BY <1>1, <1>12, ActionOf DEF Exit
  <2>2. at' = at /\ UNCHANGED <<A, cur, units>> /\ exited \subseteq exited'
    BY <2>1 DEF thread_exit, ThreadExits, Locks, Shared
  <2>3. QED
    BY <1>10, <2>2
<1>13. CASE AdderTurn(at[t]) = 1 /\ Instruction(t) = Down(0)
  <2>1. ~Detecting
    BY DEF Racing, Detecting
  <2>2. /\ Takes(t, 0) \/ (at' = at /\ UNCHANGED units)
        /\ UNCHANGED <<A, cur, exited>>
    BY <1>1, <1>13, <2>1, DownStep DEF Shared
  <2>3. CASE Takes(t, 0)
    <3>1. Moves(t) /\ units[0 + 1] > 0 /\ units' = [units EXCEPT ![0 + 1] = units[0 + 1] - 1]
      BY <2>3 DEF Takes, Free
    <3>2. units[0 + 1] - 1 \in Int
      BY <1>7
    <3>3. units'[0 + 1] = units[0 + 1] - 1 /\ Len(units') = 1
      BY <1>6, <1>7, <3>1, <3>2, UnitsAfter
    <3>4. /\ at' \in [Thread -> Nat] /\ at'[0] = at[0] /\ at'[t] = at[t] + 1
          /\ \A s \in 1..8 : s # t => at'[s] = at[s]
      BY <1>9, <3>1
    <3>5. Adders(at')[t] = Adders(at)[t] \cup {0}
      <4>1. Adders(at)[t] = {}
        BY <1>8, <1>a, <1>13
      <4>2. Adders(at')[t] = {0}
        BY <1>8, <1>a, <1>13, <3>4
      <4>3. QED
        BY <4>1, <4>2
    <3>6. \A s \in 1..8 : s # t => Adders(at')[s] = Adders(at)[s]
      BY <1>8, <3>4
    <3>7. Relocks(Adders(at), units, Adders(at'), units', t, 0)
      BY <3>1, <3>3, <3>5, <3>6 DEF Relocks
    <3>8. Added(at[t] + 1) = Added(at[t]) /\ AdderTurn(at[t] + 1) = 2
      BY <1>5, <1>13
    <3>9. \A s \in 1..8 : s = t \/ at'[s] = at[s]
      BY <3>4
    <3>10. /\ \A s \in 1..8 : Added(at'[s]) = Added(at[s])
           /\ \A s \in 1..8 : AdderTurn(at'[s]) = 3 => AdderTurn(at[s]) = 3
      <4> SUFFICES ASSUME NEW s \in 1..8
                   PROVE  /\ Added(at'[s]) = Added(at[s])
                          /\ AdderTurn(at'[s]) = 3 => AdderTurn(at[s]) = 3
        BY Zenon
      <4>1. CASE s = t
        <5>1. at'[s] = at[t] + 1
          BY <3>4, <4>1
        <5>2. AdderTurn(at[t] + 1) # 3 /\ Added(at[t] + 1) = Added(at[s])
          BY <3>8, <4>1
        <5>3. QED
          BY <1>b, <5>1, <5>2
      <4>2. CASE at'[s] = at[s]
        BY <1>c, <4>2
      <4>3. QED
        BY <3>9, <4>1, <4>2
    <3>11. QED
      BY <1>11, <2>2, <3>3, <3>4, <3>7, <3>10
  <2>4. QED
    BY <1>10, <2>2, <2>3
<1>14. CASE AdderTurn(at[t]) = 2 /\ Instruction(t) = Do("read")
  <2>1. read_A(t)
    BY <1>1, <1>14, ActionOf DEF Do
  <2>2. Moves(t) /\ cur' = [cur EXCEPT ![t] = A] /\ UNCHANGED <<A, units, exited>>
    BY <2>1 DEF read_A, Access, Moves, Locks
  <2>3. cur'[t] = A /\ \A s \in 1..8 : s # t => cur'[s] = cur[s]
    BY <1>1, <1>3, <2>2
  <2>4. /\ at' \in [Thread -> Nat] /\ at'[0] = at[0] /\ at'[t] = at[t] + 1
        /\ \A s \in 1..8 : s # t => at'[s] = at[s]
    BY <1>9, <2>2
  <2>5. Added(at[t] + 1) = Added(at[t]) /\ AdderTurn(at[t] + 1) = 3
    BY <1>5, <1>14
  <2>6. \A s \in 1..8 : Adders(at')[s] = Adders(at)[s]
    <3>1. Adder(at[t] + 1) = Adder(at[t])
      <4>1. AdderTurn(at[t]) \in 2..3
        BY <1>14
      <4>2. QED
        BY <1>a, <4>1
    <3>2. \A s \in 1..8 : s = t \/ at'[s] = at[s]
      BY <2>4
    <3>3. QED
      BY <1>8, <2>4, <3>1, <3>2
  <2>7. Exclusive(Adders(at'), units', {0})
    BY <1>6, <2>2, <2>6 DEF Exclusive
  <2>8. A' = Sum8(Adding(at'))
    <3>1. \A s \in 1..8 : Added(at'[s]) = Added(at[s])
      BY <2>4, <2>5
    <3>2. QED
      BY <1>6, <2>2, <3>1, AddingSame
  <2>9. \A s \in 1..8 : AdderTurn(at'[s]) = 3 => cur'[s] = A'
    BY <1>6, <2>2, <2>3, <2>4
  <2>10. Len(units') = 1 /\ exited \subseteq exited'
    BY <1>6, <2>2
  <2>11. QED
    BY <1>3, <1>4, <2>4, <2>7, <2>8, <2>9, <2>10, RaceKept
<1>15. CASE AdderTurn(at[t]) = 3 /\ Instruction(t) = Do("write")
  <2>1. write_A(t)
    BY <1>1, <1>15, ActionOf DEF Do
  <2>2. /\ Moves(t) /\ A' = cur[t] + 1 /\ cur' = [cur EXCEPT ![t] = 0]
        /\ UNCHANGED <<units, exited>>
    BY <2>1 DEF write_A, Access, Moves, Locks
  <2>3. A' = A + 1
    BY <1>6, <1>15, <2>2
  <2>4. /\ at' \in [Thread -> Nat] /\ at'[0] = at[0] /\ at'[t] = at[t] + 1
        /\ \A s \in 1..8 : s # t => at'[s] = at[s]
    BY <1>9, <2>2
  <2>5. Added(at[t] + 1) = Added(at[t]) + 1 /\ AdderTurn(at[t] + 1) = 4
    BY <1>5, <1>15
  <2>6. \A s \in 1..8 : Adders(at')[s] = Adders(at)[s]
    <3>1. Adder(at[t] + 1) = Adder(at[t])
      <4>1. AdderTurn(at[t]) \in 2..3
        BY <1>15
      <4>2. QED
        BY <1>a, <4>1
    <3>2. \A s \in 1..8 : s = t \/ at'[s] = at[s]
      BY <2>4
    <3>3. QED
      BY <1>8, <2>4, <3>1, <3>2
  <2>7. Exclusive(Adders(at'), units', {0})
    BY <1>6, <2>2, <2>6 DEF Exclusive
  <2>8. A' = Sum8(Adding(at'))
    <3>1. Added(at'[t]) = Added(at[t]) + 1 /\ \A s \in 1..8 \ {t} : Added(at'[s]) = Added(at[s])
      BY <2>4, <2>5
    <3>2. Sum8(Adding(at')) = Sum8(Adding(at)) + 1
      BY <1>3, <2>4, <3>1, AddingMoves
    <3>3. QED
      BY <1>6, <2>3, <3>2
  (* Nobody else has read it: t holds the mutex.                           *)
  <2>9. ASSUME NEW s \in 1..8, AdderTurn(at'[s]) = 3 PROVE FALSE
    <3>1. s # t
      BY <2>4, <2>5, <2>9
    <3>2. AdderTurn(at[s]) = 3
      BY <2>4, <2>9, <3>1
    <3>3. 0 \in Adders(at)[s] /\ 0 \in Adders(at)[t]
      <4>1. 0 \in Adder(at[s]) /\ 0 \in Adder(at[t])
        BY <1>15, <3>2 DEF Adder
      <4>2. QED
        BY <1>8, <4>1
    <3>4. QED
      BY <1>6, <3>1, <3>3 DEF Exclusive
  <2>10. Len(units') = 1 /\ exited \subseteq exited'
    BY <1>6, <2>2
  <2>11. QED
    BY <1>3, <1>4, <2>4, <2>7, <2>8, <2>9, <2>10, RaceKept
<1>16. CASE AdderTurn(at[t]) = 4 /\ Instruction(t) = Up(0)
  <2>1. /\ Frees(t, 0) \/ \E u \in Thread : Passes(t, 0, u)
        /\ UNCHANGED <<A, cur, exited>>
    BY <1>1, <1>16, UpStep DEF Shared
  <2>2. Added(at[t] + 1) = Added(at[t]) /\ AdderTurn(at[t] + 1) = 1 /\ 0 \in Adders(at)[t]
    <3>1. Added(at[t] + 1) = Added(at[t]) /\ AdderTurn(at[t] + 1) = 1
      BY <1>5, <1>16
    <3>2. 0 \in Adders(at)[t]
      BY <1>8, <1>a, <1>16
    <3>3. QED
      BY <3>1, <3>2
  <2>3. CASE Frees(t, 0)
    <3>1. Moves(t) /\ units' = [units EXCEPT ![0 + 1] = units[0 + 1] + 1]
      BY <2>3 DEF Frees
    <3>2. units[0 + 1] + 1 \in Int
      BY <1>7
    <3>3. units'[0 + 1] = units[0 + 1] + 1 /\ Len(units') = 1
      BY <1>6, <1>7, <3>1, <3>2, UnitsAfter
    <3>4. /\ at' \in [Thread -> Nat] /\ at'[0] = at[0] /\ at'[t] = at[t] + 1
          /\ \A s \in 1..8 : s # t => at'[s] = at[s]
      BY <1>9, <3>1
    <3>5. Adders(at')[t] = Adders(at)[t] \ {0}
      BY <1>8, <1>a, <1>16, <3>4
    <3>6. \A s \in 1..8 : s # t => Adders(at')[s] = Adders(at)[s]
      BY <1>8, <3>4
    <3>7. Relocks(Adders(at), units, Adders(at'), units', t, 0)
      BY <2>2, <3>3, <3>5, <3>6 DEF Relocks
    <3>8. \A s \in 1..8 : s = t \/ at'[s] = at[s]
      BY <3>4
    <3>9. /\ \A s \in 1..8 : Added(at'[s]) = Added(at[s])
          /\ \A s \in 1..8 : AdderTurn(at'[s]) = 3 => AdderTurn(at[s]) = 3
      <4> SUFFICES ASSUME NEW s \in 1..8
                   PROVE  /\ Added(at'[s]) = Added(at[s])
                          /\ AdderTurn(at'[s]) = 3 => AdderTurn(at[s]) = 3
        BY Zenon
      <4>1. CASE s = t
        <5>1. at'[s] = at[t] + 1
          BY <3>4, <4>1
        <5>2. AdderTurn(at[t] + 1) # 3 /\ Added(at[t] + 1) = Added(at[s])
          BY <2>2, <4>1
        <5>3. QED
          BY <1>b, <5>1, <5>2
      <4>2. CASE at'[s] = at[s]
        BY <1>c, <4>2
      <4>3. QED
        BY <3>8, <4>1, <4>2
    <3>10. QED
      BY <1>11, <2>1, <3>3, <3>4, <3>7, <3>9
  <2>4. ASSUME NEW u \in Thread, Passes(t, 0, u) PROVE RaceInv'
    <3>1. /\ u \in Thread \ {t} /\ at[u] > 0 /\ units' = units
          /\ Instruction(u)[1] = "down"
          /\ at' = [at EXCEPT ![t] = @ + 1, ![u] = @ + 1]
      BY <2>4 DEF Passes
    <3>2. u # 0
      <4>1. Instruction(0)[1] # "down"
        <5>1. \/ Instruction(0) = Create(1) \/ Instruction(0) = Start(at[0] - 1)
              \/ Instruction(0) = Join(at[0] - THREAD_COUNT - 1)
              \/ Instruction(0) = Check("total", 0) \/ Instruction(0) = Exit(0)
          <6> DEFINE m == THREAD_COUNT
          <6>1. /\ at[0] \in 1..2 * m + 3 /\ m \in 1..8
                /\ at[0] = 1 => Instruction(0) = Create(1)
                /\ at[0] \in 2..m + 1 => Instruction(0) = Start(at[0] - 1)
                /\ at[0] \in m + 2 .. 2 * m + 1 => Instruction(0) = Join(at[0] - m - 1)
                /\ at[0] = 2 * m + 2 => Instruction(0) = Check("total", 0)
                /\ at[0] = 2 * m + 3 => Instruction(0) = Exit(0)
            BY RaceMainAt
          <6> HIDE DEF m
          <6>2. \/ at[0] = 1 \/ at[0] \in 2..m + 1 \/ at[0] \in m + 2 .. 2 * m + 1
                \/ at[0] = 2 * m + 2 \/ at[0] = 2 * m + 3
            BY <6>1
          <6>3. QED
            BY <6>1, <6>2 DEF m
        <5>2. QED
          BY <5>1 DEF Create, Start, Join, Check, Exit
      <4>2. QED
        BY <3>1, <4>1
    <3>3. u \in 1..8
      BY <3>1, <3>2 DEF Thread
    <3>4. AdderTurn(at[u]) = 1 /\ at[u] \in Nat \ {0}
      <4>1. /\ at[u] \in Nat \ {0} /\ AdderTurn(at[u]) \in 1..4
            /\ Instruction(u) = Exit(1) \/ Instruction(u) = AdderRow[AdderTurn(at[u])]
        BY <3>1, <3>3, RaceAt
      <4>2. Instruction(u) = AdderRow[AdderTurn(at[u])]
        BY <3>1, <4>1 DEF Exit
      <4>3. AdderRow[2][1] # "down" /\ AdderRow[3][1] # "down" /\ AdderRow[4][1] # "down"
        BY DEF AdderRow, Up, Do
      <4>4. QED
        BY <3>1, <4>1, <4>2, <4>3
    <3>5. Added(at[u] + 1) = Added(at[u]) /\ AdderTurn(at[u] + 1) = 2
      <4>1. Added(at[u]) \in Nat
        BY <3>4, AdderFacts
      <4>2. /\ AdderTurn(at[u] + 1) = IF AdderTurn(at[u]) = 4 THEN 1 ELSE AdderTurn(at[u]) + 1
            /\ Added(at[u] + 1) = Added(at[u]) + (IF AdderTurn(at[u]) = 3 THEN 1 ELSE 0)
        BY <3>4, AdderFacts
      <4>3. QED
        BY <3>4, <4>1, <4>2
    <3>6. /\ at' \in [Thread -> Nat] /\ at'[0] = at[0] /\ at'[t] = at[t] + 1
          /\ at'[u] = at[u] + 1 /\ \A s \in 1..8 : s # t /\ s # u => at'[s] = at[s]
      <4>1. at' = [at EXCEPT ![t] = at[t] + 1, ![u] = at[u] + 1]
        BY <3>1
      <4>2. at[t] + 1 \in Nat /\ at[u] + 1 \in Nat
        BY <1>2, <3>4
      <4>3. QED
        BY <1>1, <1>3, <3>1, <3>2, <4>1, <4>2
    <3>7. /\ Adders(at')[t] = Adders(at)[t] \ {0} /\ Adders(at')[u] = Adders(at)[u] \cup {0}
          /\ \A s \in 1..8 : s # t /\ s # u => Adders(at')[s] = Adders(at)[s]
      <4>1. Adders(at')[t] = Adders(at)[t] \ {0}
        BY <1>8, <1>a, <1>16, <3>6
      <4>2. Adders(at')[u] = Adders(at)[u] \cup {0}
        <5>1. Adder(at[u]) = {} /\ Adder(at[u] + 1) = {0}
          BY <3>4, <3>5 DEF Adder
        <5>2. QED
          BY <1>8, <3>3, <3>6, <5>1
      <4>3. \A s \in 1..8 : s # t /\ s # u => Adders(at')[s] = Adders(at)[s]
        BY <1>8, <3>6
      <4>4. QED
        BY <4>1, <4>2, <4>3
    <3>8. Relocks(Adders(at), units, Adders(at'), units', t, 0)
      <4>1. u \in 1..8 \ {t}
        BY <3>1, <3>3
      <4>2. QED
        BY <2>2, <3>1, <3>7, <4>1 DEF Relocks
    <3>9. /\ \A s \in 1..8 : Added(at'[s]) = Added(at[s])
          /\ \A s \in 1..8 : AdderTurn(at'[s]) = 3 => AdderTurn(at[s]) = 3
      <4> SUFFICES ASSUME NEW s \in 1..8
                   PROVE  /\ Added(at'[s]) = Added(at[s])
                          /\ AdderTurn(at'[s]) = 3 => AdderTurn(at[s]) = 3
        BY Zenon
      <4>1. CASE s = t
        <5>1. at'[s] = at[t] + 1
          BY <3>6, <4>1
        <5>2. AdderTurn(at[t] + 1) # 3 /\ Added(at[t] + 1) = Added(at[s])
          BY <2>2, <4>1
        <5>3. QED
          BY <1>b, <5>1, <5>2
      <4>2. CASE s = u
        <5>1. at'[s] = at[u] + 1
          BY <3>6, <4>2
        <5>2. AdderTurn(at[u] + 1) # 3 /\ Added(at[u] + 1) = Added(at[s])
          BY <3>5, <4>2
        <5>3. QED
          BY <1>b, <5>1, <5>2
      <4>3. CASE s # t /\ s # u
        <5>1. at'[s] = at[s]
          BY <3>6, <4>3
        <5>2. QED
          BY <1>c, <5>1
      <4>4. QED
        BY <4>1, <4>2, <4>3
    <3>10. Len(units') = 1
      BY <1>6, <3>1
    <3>11. QED
      BY <1>11, <2>1, <3>6, <3>8, <3>9, <3>10
  <2>5. QED
    BY <2>1, <2>3, <2>4
<1>17. QED
  <2>1. \/ AdderTurn(at[t]) = 1 \/ AdderTurn(at[t]) = 2
        \/ AdderTurn(at[t]) = 3 \/ AdderTurn(at[t]) = 4
    BY <1>2
  <2>2. /\ AdderRow[1] = Down(0) /\ AdderRow[2] = Do("read") /\ AdderRow[3] = Do("write")
        /\ AdderRow[4] = Up(0)
    BY DEF AdderRow
  <2>3. QED
    BY <1>2, <2>1, <2>2, <1>12, <1>13, <1>14, <1>15, <1>16

-----------------------------------------------------------------------------
(*         ch8_deadlock_mutex1: the second lock is refused                 *)

Relocking == test = "deadlock_mutex1"

MutexInv ==
    /\ at[0] = 1 => Len(units) = 0
    /\ at[0] = 2 => Len(units) = 1 /\ units[1] = 1
    /\ at[0] = 3 => Len(units) = 1 /\ units[1] = 0
    /\ at[0] # 4

LEMMA MutexAt ==
    ASSUME ThreadsPlaced, Relocking
    PROVE  /\ at[0] \in 1..6 /\ \A t \in 1..8 : at[t] = 0
           /\ at[0] = 1 => Instruction(0) = Create(1)
           /\ at[0] = 2 => Instruction(0) = <<"down", 0, 0>>
           /\ at[0] = 3 => Instruction(0) = <<"down", 0, 2>>
           /\ at[0] = 4 => Instruction(0) = Exit(1)
           /\ at[0] = 5 => Instruction(0) = Up(0)
           /\ at[0] = 6 => Instruction(0) = Exit(0)
<1> DEFINE text == <<Create(1), DownOk(0), TryDown(0, 2), Exit(1), Up(0), Exit(0)>>
<1>1. TextOf(0) = text
  BY DEF TextOf, Relocking, ThreadTest, deadlock_mutex1, Thread
<1>2. /\ Len(text) = 6 /\ text[1] = Create(1) /\ text[2] = <<"down", 0, 0>>
      /\ text[3] = <<"down", 0, 2>> /\ text[4] = Exit(1) /\ text[5] = Up(0) /\ text[6] = Exit(0)
  BY DEF DownOk, TryDown
<1> HIDE DEF text
<1>3. at[0] \in 1..6 /\ Instruction(0) = text[at[0]]
  BY <1>1, <1>2 DEF ThreadsPlaced, Instruction, TextOf
<1>4. ASSUME NEW t \in 1..8 PROVE at[t] = 0
  <2>1. \A j \in 1..6 : text[j][1] # "thread"
    <3>1. \A j \in 1..6 : j = 1 \/ j = 2 \/ j = 3 \/ j = 4 \/ j = 5 \/ j = 6
      OBVIOUS
    <3>2. QED
      BY <1>2, <3>1 DEF Create, Exit, Up
  <2>2. ASSUME at[t] > 0 PROVE FALSE
    <3>1. PICK j \in 1 .. at[0] - 1 : text[j] = Start(t)
      BY <1>1, <2>2 DEF ThreadsPlaced
    <3>2. j \in 1..6
      BY <1>3, <3>1
    <3>3. QED
      BY <2>1, <3>1, <3>2 DEF Start
  <2>3. at[t] \in Nat
    <3>1. t \in Thread
      BY DEF Thread
    <3>2. QED
      BY <3>1 DEF ThreadsPlaced
  <2>4. QED
    BY <2>2, <2>3
<1>5. QED
  BY <1>2, <1>3, <1>4

LEMMA MutexStep ==
    ASSUME ThreadsPlaced, WaitersPlaced, HeldTyped, Relocking, MutexInv, units \in Seq(Nat),
           NEW t \in Thread, ThreadStep(t)
    PROVE  /\ t = 0 /\ MutexInv'
           /\ EndsThread(Instruction(0)) => MainUnhurt
<1>1. t = 0
  <2>1. t \in 1..8 => at[t] > 0
    BY Acting
  <2>2. QED
    BY <2>1, MutexAt DEF Thread
<1>2. 0 \in Thread /\ at \in [Thread -> Nat] /\ ThreadStep(0) /\ 0 \notin blocked
  <2>1. 0 \in Thread /\ at \in [Thread -> Nat] /\ ThreadStep(0)
    BY <1>1 DEF ThreadsPlaced, Thread
  <2>2. 0 \notin exited \cup blocked \cup asleep
    BY <2>1, StepKinds
  <2>3. QED
    BY <2>1, <2>2
<1>3. 0 \in Kinds \cap Nat
  BY ThreadCounts DEF Kinds
<1>4. CASE at[0] = 1
  <2>1. Instruction(0)[1] = "create" /\ Instruction(0)[2] = 1
    BY <1>4, MutexAt DEF Create
  <2>2. create(0)
    BY <1>2, <2>1, ActionOf
  <2>3. units' = Append(units, 1) /\ Advance(0, 1)
    BY <2>1, <2>2 DEF create
  <2>4. at'[0] = 2
    BY <1>2, <1>4, <2>3 DEF Advance
  <2>5. Len(units') = 1 /\ units'[1] = 1
    <3>1. Len(units) = 0
      BY <1>4 DEF MutexInv
    <3>2. QED
      BY <2>3, <3>1
  <2>6. QED
    BY <1>1, <2>1, <2>4, <2>5 DEF MutexInv, EndsThread
<1>5. CASE at[0] = 2
  <2>1. Instruction(0) = <<"down", 0, 0>> /\ Len(units) = 1 /\ units[1] = 1
    BY <1>5, MutexAt DEF MutexInv
  <2>2. Free(0) = 1
    BY <2>1 DEF Free
  <2>3. Grabs(0, 0) \/ Waits(0, 0) \/ Refuses(0, 0, 0)
    BY <1>2, <1>3, <2>1, WatchedDown
  <2>4. Grabs(0, 0)
    BY <2>2, <2>3 DEF Waits, Refuses
  <2>5. at'[0] = 3 /\ Len(units') = 1 /\ units'[1] = 0
    <3>1. GoesBy(0, 1) /\ UnitsBy(0, -1)
      BY <2>4 DEF Grabs
    <3>2. at'[0] = at[0] + 1
      BY <3>1 DEF GoesBy
    <3>3. Len(units') = Len(units) /\ units'[1] = units[1] + (-1)
      BY <3>1 DEF UnitsBy
    <3>4. QED
      BY <1>5, <2>1, <3>2, <3>3
  <2>6. MainUnhurt
    <3>1. Instruction(0)[1] = "down" /\ Free(Instruction(0)[2]) > 0
      BY <2>1, <2>2
    <3>2. QED
      BY <3>1 DEF MainUnhurt
  <2>7. QED
    BY <1>1, <2>5, <2>6 DEF MutexInv
<1>6. CASE at[0] = 3
  <2>1. Instruction(0) = <<"down", 0, 2>> /\ Len(units) = 1 /\ units[1] = 0
    BY <1>6, MutexAt DEF MutexInv
  <2>2. Grabs(0, 0) \/ Waits(0, 0) \/ Refuses(0, 0, 2)
    BY <1>2, <1>3, <2>1, WatchedDown
  <2>3. ~(Free(0) > 0)
    BY <2>1 DEF Free
  <2>4. ASSUME Waits(0, 0) PROVE MutexInv'
    BY <1>6, <2>1, <2>4 DEF Waits, MutexInv
  <2>5. ASSUME Refuses(0, 0, 2) PROVE MutexInv'
    <3>1. at'[0] = at[0] + 2
      BY <2>5 DEF Refuses, GoesBy
    <3>2. at'[0] = 5
      BY <1>6, <3>1
    <3>3. QED
      BY <3>2 DEF MutexInv
  <2>6. MutexInv'
    BY <2>2, <2>3, <2>4, <2>5 DEF Grabs
  <2>7. ~EndsThread(Instruction(0))
    BY <2>1 DEF EndsThread
  <2>8. QED
    BY <1>1, <2>6, <2>7
<1>7. CASE at[0] = 5
  <2>1. Instruction(0) = Up(0)
    BY <1>7, MutexAt
  <2>2. Frees(0, 0) \/ \E u \in Thread : Passes(0, 0, u)
    BY <1>2, <2>1, UpStep
  <2>3. ASSUME NEW u \in Thread, Passes(0, 0, u) PROVE at'[0] = 6
    BY <1>2, <1>7, <2>3 DEF Passes
  <2>4. Frees(0, 0) => at'[0] = 6
    BY <1>2, <1>7 DEF Frees, Moves, Advance
  <2>5. MutexInv'
    BY <2>2, <2>3, <2>4 DEF MutexInv
  <2>6. ~EndsThread(Instruction(0))
    BY <2>1 DEF EndsThread, Up
  <2>7. QED
    BY <1>1, <2>5, <2>6
<1>8. CASE at[0] = 6
  <2>1. Instruction(0) = Exit(0) /\ Instruction(0)[1] = "exit"
    BY <1>8, MutexAt DEF Exit
  <2>2. thread_exit(0)
    BY <1>2, <2>1, ActionOf
  <2>3. at'[0] = 6
    BY <1>8, <2>2 DEF thread_exit, ThreadExits
  <2>4. QED
    BY <1>1, <2>1, <2>3 DEF MutexInv, MainUnhurt
<1>9. QED
  BY <1>4, <1>5, <1>6, <1>7, <1>8, MutexAt DEF MutexInv

-----------------------------------------------------------------------------
(*           The semaphore tests, instruction by instruction               *)

(* part is a piece of text, from off + 1 on.                               *)
PartOf(text, off, part) ==
    off + Len(part) <= Len(text) /\ \A k \in 1..Len(part) : text[off + k] = part[k]

(* t behind the m instructions of s.                                       *)
Extends(x, s, m, t, S) ==
    /\ x \in Seq(S) /\ Len(x) = m + Len(t)
    /\ PartOf(x, m, t) /\ PartOf(x, 0, s)
    /\ \A off \in Nat, p \in Seq(S) : PartOf(s, off, p) => PartOf(x, off, p)

LEMMA PartOfConcat ==
    ASSUME NEW S, NEW s \in Seq(S), NEW t \in Seq(S)
    PROVE  Extends(s \o t, s, Len(s), t, S)
<1> DEFINE x == s \o t
           n == Len(t)
           m == Len(s)
<1>1. /\ x \in Seq(S) /\ Len(x) = m + n
      /\ \A k \in 1..m : x[k] = s[k]
      /\ \A k \in 1..n : x[m + k] = t[k]
  BY ConcatAt
<1>2. m \in Nat /\ n \in Nat
  OBVIOUS
<1>a. m = Len(s)
  OBVIOUS
<1> HIDE DEF x, m
<1>3. PartOf(x, m, t)
  BY <1>1, <1>2 DEF PartOf
<1>4. ASSUME NEW off \in Nat, NEW p \in Seq(S), PartOf(s, off, p) PROVE PartOf(x, off, p)
  <2> DEFINE l == Len(p)
  <2>1. l \in Nat /\ off + l <= m /\ \A k \in 1..l : s[off + k] = p[k]
    BY <1>4, <1>a DEF PartOf
  <2> HIDE DEF l
  <2>2. \A k \in 1..l : off + k \in 1..m
    BY <1>2, <2>1
  <2>3. \A k \in 1..l : x[off + k] = p[k]
    BY <1>1, <2>1, <2>2
  <2>4. off + l <= m + n
    BY <1>2, <2>1
  <2>5. QED
    BY <1>1, <2>3, <2>4 DEF PartOf, l
<1>5. PartOf(x, 0, s)
  <2>1. \A k \in 1..m : 0 + k = k
    BY <1>2
  <2>2. 0 + m <= m + n
    BY <1>2
  <2>3. QED
    BY <1>1, <1>a, <2>1, <2>2 DEF PartOf
<1>6. QED
  BY <1>1, <1>3, <1>4, <1>5 DEF x, m, n, Extends

LEMMA TimesPlaces ==
    ASSUME NEW S, NEW n \in Nat, NEW op \in S
    PROVE  /\ Times(n, <<op>>) \in Seq(S) /\ Len(Times(n, <<op>>)) = n
           /\ \A k \in 1..n : Times(n, <<op>>)[k] = op
<1> DEFINE row == <<op>>
           seqs == [i \in 1..n |-> row]
           s == Times(n, row)
<1>1. row \in Seq(S) /\ Len(row) = 1 /\ row[1] = op
  OBVIOUS
<1> HIDE DEF row
<1>2. seqs \in [1..n -> Row(S, 1)] /\ \A k \in 1..n : seqs[k] = row
  BY <1>1 DEF Row
<1>3. s = FlattenSeq(seqs)
  BY DEF Times
<1> HIDE DEF seqs
<1>4. 1 \in Nat
  OBVIOUS
<1>5. HasRows(s, seqs, n, 1)
  BY <1>2, <1>3, <1>4, FlattenRows
<1>6. s \in Seq(S)
  BY <1>1, TimesTyped
<1> HIDE DEF s
<1>7. Len(s) = n * 1 /\ \A k \in 1..n, j \in 1..1 : s[(k - 1) * 1 + j] = seqs[k][j]
  BY <1>5 DEF HasRows
<1>8. Len(s) = n
  BY <1>7
<1>9. ASSUME NEW k \in 1..n PROVE s[k] = op
  <2>1. s[(k - 1) * 1 + 1] = seqs[k][1] /\ (k - 1) * 1 + 1 = k
    BY <1>7
  <2>2. QED
    BY <1>1, <1>2, <2>1
<1>10. QED
  BY <1>6, <1>8, <1>9 DEF s, row

DeadlockPlaces(text, n, resources, p, last) ==
    /\ Len(text) = 2 + 4 * n + p + Len(last)
    /\ text[1] = Create(n)
    /\ \A k \in 1..n : text[1 + k] = Down(0)
    /\ \A k \in 1..p : text[1 + n + k] = resources[k]
    /\ \A k \in 1..n : text[1 + n + p + k] = Start(k)
    /\ text[2 + 2 * n + p] = Outlast(1..n)
    /\ \A k \in 1..n : text[2 + 2 * n + p + k] = Up(0)
    /\ \A k \in 1..n : text[2 + 3 * n + p + k] = Join(k)
    /\ \A k \in 1..Len(last) : text[2 + 4 * n + p + k] = last[k]

LEMMA DeadlockMainPlaces ==
    ASSUME NEW n \in 1..8, NEW resources \in Seq(Plain), NEW last \in Seq(Plain)
    PROVE  DeadlockPlaces(deadlock_main(n, resources) \o last, n, resources, Len(resources), last)
<1> DEFINE S == Plain \cup Starts
           c == <<Create(n)>>
           d == Times(n, <<Down(0)>>)
           st == StartAll(n)
           w == <<Outlast(1..n)>>
           u == Times(n, <<Up(0)>>)
           j == JoinAll(n)
           p == Len(resources)
           r == Len(last)
           x1 == c \o d
           x2 == x1 \o resources
           x3 == x2 \o st
           x4 == x3 \o w
           x5 == x4 \o u
           x6 == x5 \o j
           x7 == x6 \o last
<1>1. deadlock_main(n, resources) \o last = x7
  BY DEF deadlock_main
<1>2. n \in Nat /\ p \in Nat /\ r \in Nat
  OBVIOUS
<1>3. c \in Seq(S) /\ Len(c) = 1 /\ c[1] = Create(n)
  BY PlainFacts
<1>4. d \in Seq(S) /\ Len(d) = n /\ \A k \in 1..n : d[k] = Down(0)
  <2>1. Down(0) \in S
    BY PlainFacts
  <2> HIDE DEF S
  <2>2. QED
    BY <1>2, <2>1, TimesPlaces
<1>5. u \in Seq(S) /\ Len(u) = n /\ \A k \in 1..n : u[k] = Up(0)
  <2>1. Up(0) \in S
    BY PlainFacts
  <2> HIDE DEF S
  <2>2. QED
    BY <1>2, <2>1, TimesPlaces
<1>6. st \in Seq(S) /\ Len(st) = n /\ \A k \in 1..n : st[k] = Start(k)
  <2>1. \A k \in 1..n : Start(k) \in S
    BY PlainFacts
  <2>2. QED
    BY <1>2, <2>1 DEF StartAll
<1>7. w \in Seq(S) /\ Len(w) = 1 /\ w[1] = Outlast(1..n)
  <2>1. 1..n \in SUBSET Thread
    BY DEF Thread
  <2>2. Outlast(1..n) \in S
    BY <2>1, PlainFacts
  <2>3. QED
    BY <2>2
<1>8. j \in Seq(S) /\ Len(j) = n /\ \A k \in 1..n : j[k] = Join(k)
  <2>1. \A k \in 1..n : Join(k) \in S
    BY PlainFacts DEF Thread
  <2>2. QED
    BY <1>2, <2>1 DEF JoinAll
<1>9. resources \in Seq(S) /\ last \in Seq(S)
  OBVIOUS
<1> HIDE DEF S, c, d, st, w, u, j, p, r
<1>10. Extends(x1, c, 1, d, S) /\ x1 \in Seq(S) /\ Len(x1) = 1 + n
  <2>1. Extends(x1, c, Len(c), d, S)
    BY <1>3, <1>4, PartOfConcat
  <2>2. Len(c) = 1 /\ Len(d) = n
    BY <1>3, <1>4
  <2>3. QED
    BY <2>1, <2>2 DEF Extends
<1> HIDE DEF x1
<1>11. Extends(x2, x1, 1 + n, resources, S) /\ x2 \in Seq(S) /\ Len(x2) = 1 + n + p
  <2>1. Extends(x2, x1, Len(x1), resources, S)
    BY <1>10, <1>9, PartOfConcat
  <2>2. Len(x1) = 1 + n /\ Len(resources) = p
    BY <1>10, <1>9 DEF p
  <2>3. QED
    BY <2>1, <2>2 DEF Extends
<1> HIDE DEF x2
<1>12. Extends(x3, x2, 1 + n + p, st, S) /\ x3 \in Seq(S) /\ Len(x3) = 1 + n + p + n
  <2>1. Extends(x3, x2, Len(x2), st, S)
    BY <1>11, <1>6, PartOfConcat
  <2>2. Len(x2) = 1 + n + p /\ Len(st) = n
    BY <1>11, <1>6
  <2>3. QED
    BY <2>1, <2>2 DEF Extends
<1> HIDE DEF x3
<1>13. Extends(x4, x3, 1 + n + p + n, w, S) /\ x4 \in Seq(S) /\ Len(x4) = 1 + n + p + n + 1
  <2>1. Extends(x4, x3, Len(x3), w, S)
    BY <1>12, <1>7, PartOfConcat
  <2>2. Len(x3) = 1 + n + p + n /\ Len(w) = 1
    BY <1>12, <1>7
  <2>3. QED
    BY <2>1, <2>2 DEF Extends
<1> HIDE DEF x4
<1>14. Extends(x5, x4, 1 + n + p + n + 1, u, S) /\ x5 \in Seq(S) /\ Len(x5) = 1 + n + p + n + 1 + n
  <2>1. Extends(x5, x4, Len(x4), u, S)
    BY <1>13, <1>5, PartOfConcat
  <2>2. Len(x4) = 1 + n + p + n + 1 /\ Len(u) = n
    BY <1>13, <1>5
  <2>3. QED
    BY <2>1, <2>2 DEF Extends
<1> HIDE DEF x5
<1>15. Extends(x6, x5, 1 + n + p + n + 1 + n, j, S) /\ x6 \in Seq(S) /\ Len(x6) = 1 + n + p + n + 1 + n + n
  <2>1. Extends(x6, x5, Len(x5), j, S)
    BY <1>14, <1>8, PartOfConcat
  <2>2. Len(x5) = 1 + n + p + n + 1 + n /\ Len(j) = n
    BY <1>14, <1>8
  <2>3. QED
    BY <2>1, <2>2 DEF Extends
<1> HIDE DEF x6
<1>16. Extends(x7, x6, 1 + n + p + n + 1 + n + n, last, S) /\ x7 \in Seq(S) /\ Len(x7) = 1 + n + p + n + 1 + n + n + r
  <2>1. Extends(x7, x6, Len(x6), last, S)
    BY <1>15, <1>9, PartOfConcat
  <2>2. Len(x6) = 1 + n + p + n + 1 + n + n /\ Len(last) = r
    BY <1>15, <1>9 DEF r
  <2>3. QED
    BY <2>1, <2>2 DEF Extends
<1> HIDE DEF x7
<1>17. /\ 1 + n \in Nat /\ 1 + n + p \in Nat /\ 1 + n + p + n \in Nat /\ 0 \in Nat /\ 1 \in Nat
       /\ 1 + n + p + n + 1 \in Nat /\ 1 + n + p + n + 1 + n \in Nat
  BY <1>2
<1>18. PartOf(x7, 0, c) /\ PartOf(x7, 1, d)
  BY <1>3, <1>4, <1>10, <1>11, <1>12, <1>13, <1>14, <1>15, <1>16, <1>17, Zenon DEF Extends
<1>19. PartOf(x7, 1 + n, resources) /\ PartOf(x7, 1 + n + p, st)
  BY <1>6, <1>9, <1>11, <1>12, <1>13, <1>14, <1>15, <1>16, <1>17, Zenon DEF Extends
<1>20. PartOf(x7, 1 + n + p + n, w) /\ PartOf(x7, 1 + n + p + n + 1, u)
  BY <1>5, <1>7, <1>13, <1>14, <1>15, <1>16, <1>17, Zenon DEF Extends
<1>21. PartOf(x7, 1 + n + p + n + 1 + n, j)
  BY <1>8, <1>15, <1>16, <1>17, Zenon DEF Extends
<1>22. /\ 1 + n + p + n + 1 = 2 + 2 * n + p /\ 1 + n + p + n + 1 + n = 2 + 3 * n + p
       /\ 1 + n + p + n + 1 + n + n = 2 + 4 * n + p
       /\ 1 + n + p + n + 1 + n + n + r = 2 + 4 * n + p + r
  BY <1>2
<1>23. x7[1] = Create(n) /\ x7[2 + 2 * n + p] = Outlast(1..n)
  <2>1. 1 \in 1..1 /\ 0 + 1 = 1
    OBVIOUS
  <2>2. x7[1] = Create(n)
    BY <1>3, <1>18, <2>1 DEF PartOf
  <2>3. x7[1 + n + p + n + 1] = Outlast(1..n)
    BY <1>7, <1>20, <2>1 DEF PartOf
  <2>4. QED
    BY <1>22, <2>2, <2>3
<1>24. /\ \A k \in 1..n : x7[1 + k] = Down(0)
       /\ \A k \in 1..p : x7[1 + n + k] = resources[k]
       /\ \A k \in 1..n : x7[1 + n + p + k] = Start(k)
  BY <1>4, <1>6, <1>18, <1>19 DEF PartOf, p
<1>25. /\ \A k \in 1..n : x7[2 + 2 * n + p + k] = Up(0)
       /\ \A k \in 1..n : x7[2 + 3 * n + p + k] = Join(k)
       /\ \A k \in 1..r : x7[2 + 4 * n + p + k] = last[k]
  BY <1>5, <1>8, <1>16, <1>20, <1>21, <1>22 DEF PartOf, Extends, r
<1>26. Len(x7) = 2 + 4 * n + p + r
  BY <1>16, <1>22
<1>27. QED
  BY <1>1, <1>23, <1>24, <1>25, <1>26 DEF DeadlockPlaces, p, r

(* A thread of sem1 that holds the units h, l of them, and asks for r.     *)
Test1Places(s, h, l, r) ==
    /\ Len(s) = 3 * l + 7
    /\ \A k \in 1..l : s[k] = DownOk(h[k])
    /\ s[l + 1] = Down(0) /\ s[l + 2] = TryDown(r, l + 4) /\ s[l + 3] = Up(r) /\ s[l + 4] = Up(0)
    /\ \A k \in 1..l : s[l + 4 + k] = Up(h[k])
    /\ s[2 * l + 5] = Exit(0) /\ s[2 * l + 6] = Up(0)
    /\ \A k \in 1..l : s[2 * l + 6 + k] = Up(h[k])
    /\ s[3 * l + 7] = Exit(-1)

LEMMA Test1Text ==
    ASSUME NEW t \in 1..3, Sem1Alloc[t] \in Seq(Nat), Sem1Request[t] \in Nat
    PROVE  Test1Places(deadlock_test1(t), Sem1Alloc[t], Len(Sem1Alloc[t]), Sem1Request[t])
<1> DEFINE S == Plain \cup Tries
           h == Sem1Alloc[t]
           l == Len(h)
           r == Sem1Request[t]
           a == [i \in 1..l |-> DownOk(h[i])]
           b == <<Down(0)>>
           o == <<TryDown(r, l + 4)>>
           u == <<Up(r)>>
           z == <<Up(0)>>
           v == [i \in 1..l |-> Up(h[i])]
           d == z \o v
           e == <<Exit(0)>>
           f == <<Exit(-1)>>
           x1 == a \o b
           x2 == x1 \o o
           x3 == x2 \o u
           x4 == x3 \o d
           x5 == x4 \o e
           x6 == x5 \o d
           x7 == x6 \o f
<1>1. l \in Nat /\ r \in Nat /\ \A k \in 1..l : h[k] \in Nat
  OBVIOUS
<1>2. a \in Seq(S) /\ Len(a) = l /\ \A k \in 1..l : a[k] = DownOk(h[k])
  <2>1. \A k \in 1..l : DownOk(h[k]) \in S
    BY <1>1, PlainFacts
  <2> HIDE DEF h, S
  <2>2. QED
    BY <1>1, <2>1
<1>3. v \in Seq(S) /\ Len(v) = l /\ \A k \in 1..l : v[k] = Up(h[k])
  <2>1. \A k \in 1..l : Up(h[k]) \in S
    BY <1>1, PlainFacts
  <2> HIDE DEF h, S
  <2>2. QED
    BY <1>1, <2>1
<1>4. b \in Seq(S) /\ Len(b) = 1 /\ b[1] = Down(0)
  BY PlainFacts
<1>5. o \in Seq(S) /\ Len(o) = 1 /\ o[1] = TryDown(r, l + 4)
  <2>1. TryDown(r, l + 4) \in S
    BY <1>1, PlainFacts
  <2> HIDE DEF S
  <2>2. QED
    BY <2>1
<1>6. u \in Seq(S) /\ Len(u) = 1 /\ u[1] = Up(r)
  <2>1. Up(r) \in S
    BY <1>1, PlainFacts
  <2> HIDE DEF S
  <2>2. QED
    BY <2>1
<1>7. z \in Seq(S) /\ Len(z) = 1 /\ z[1] = Up(0)
  BY PlainFacts
<1>8. e \in Seq(S) /\ Len(e) = 1 /\ e[1] = Exit(0)
  BY PlainFacts
<1>9. f \in Seq(S) /\ Len(f) = 1 /\ f[1] = Exit(-1)
  BY PlainFacts
<1>a. sem_alloc(t) = x1 /\ sem_dealloc(t) = d
  BY DEF sem_alloc, sem_dealloc
<1> HIDE DEF S, h, a, b, u, z, v, e, f
<1>b. d \in Seq(S) /\ Len(d) = 1 + l /\ PartOf(d, 1, v) /\ PartOf(d, 0, z)
  <2>1. Extends(d, z, Len(z), v, S)
    BY <1>3, <1>7, PartOfConcat
  <2>2. QED
    BY <1>3, <1>7, <2>1 DEF Extends
<1> HIDE DEF d
<1>c. deadlock_test1(t) = x7
  <2>1. Len(d) + 3 = l + 4
    BY <1>1, <1>b
  <2>2. QED
    BY <1>a, <2>1 DEF deadlock_test1, h, u, e, f
<1> HIDE DEF o, l, r
<1>10. Extends(x1, a, l, b, S) /\ x1 \in Seq(S) /\ Len(x1) = l + 1
  <2>1. Extends(x1, a, Len(a), b, S)
    BY <1>2, <1>4, PartOfConcat
  <2>2. Len(a) = l /\ Len(b) = 1
    BY <1>2, <1>4
  <2>3. QED
    BY <2>1, <2>2 DEF Extends
<1> HIDE DEF x1
<1>11. Extends(x2, x1, l + 1, o, S) /\ x2 \in Seq(S) /\ Len(x2) = l + 1 + 1
  <2>1. Extends(x2, x1, Len(x1), o, S)
    BY <1>10, <1>5, PartOfConcat
  <2>2. Len(x1) = l + 1 /\ Len(o) = 1
    BY <1>10, <1>5
  <2>3. QED
    BY <2>1, <2>2 DEF Extends
<1> HIDE DEF x2
<1>12. Extends(x3, x2, l + 1 + 1, u, S) /\ x3 \in Seq(S) /\ Len(x3) = l + 1 + 1 + 1
  <2>1. Extends(x3, x2, Len(x2), u, S)
    BY <1>11, <1>6, PartOfConcat
  <2>2. Len(x2) = l + 1 + 1 /\ Len(u) = 1
    BY <1>11, <1>6
  <2>3. QED
    BY <2>1, <2>2 DEF Extends
<1> HIDE DEF x3
<1>13. Extends(x4, x3, l + 1 + 1 + 1, d, S) /\ x4 \in Seq(S) /\ Len(x4) = l + 1 + 1 + 1 + (1 + l)
  <2>1. Extends(x4, x3, Len(x3), d, S)
    BY <1>12, <1>b, PartOfConcat
  <2>2. Len(x3) = l + 1 + 1 + 1 /\ Len(d) = (1 + l)
    BY <1>12, <1>b
  <2>3. QED
    BY <2>1, <2>2 DEF Extends
<1> HIDE DEF x4
<1>14. Extends(x5, x4, l + 1 + 1 + 1 + (1 + l), e, S) /\ x5 \in Seq(S) /\ Len(x5) = l + 1 + 1 + 1 + (1 + l) + 1
  <2>1. Extends(x5, x4, Len(x4), e, S)
    BY <1>13, <1>8, PartOfConcat
  <2>2. Len(x4) = l + 1 + 1 + 1 + (1 + l) /\ Len(e) = 1
    BY <1>13, <1>8
  <2>3. QED
    BY <2>1, <2>2 DEF Extends
<1> HIDE DEF x5
<1>15. Extends(x6, x5, l + 1 + 1 + 1 + (1 + l) + 1, d, S) /\ x6 \in Seq(S) /\ Len(x6) = l + 1 + 1 + 1 + (1 + l) + 1 + (1 + l)
  <2>1. Extends(x6, x5, Len(x5), d, S)
    BY <1>14, <1>b, PartOfConcat
  <2>2. Len(x5) = l + 1 + 1 + 1 + (1 + l) + 1 /\ Len(d) = (1 + l)
    BY <1>14, <1>b
  <2>3. QED
    BY <2>1, <2>2 DEF Extends
<1> HIDE DEF x6
<1>16. Extends(x7, x6, l + 1 + 1 + 1 + (1 + l) + 1 + (1 + l), f, S) /\ x7 \in Seq(S) /\ Len(x7) = l + 1 + 1 + 1 + (1 + l) + 1 + (1 + l) + 1
  <2>1. Extends(x7, x6, Len(x6), f, S)
    BY <1>15, <1>9, PartOfConcat
  <2>2. Len(x6) = l + 1 + 1 + 1 + (1 + l) + 1 + (1 + l) /\ Len(f) = 1
    BY <1>15, <1>9
  <2>3. QED
    BY <2>1, <2>2 DEF Extends
<1> HIDE DEF x7
<1> DEFINE p1 == l + 1
           p2 == l + 1 + 1
           p3 == l + 1 + 1 + 1
           p4 == l + 1 + 1 + 1 + (1 + l)
           p5 == l + 1 + 1 + 1 + (1 + l) + 1
           p6 == l + 1 + 1 + 1 + (1 + l) + 1 + (1 + l)
<1>17. l \in Nat /\ 0 \in Nat /\ p1 \in Nat /\ p2 \in Nat /\ p3 \in Nat /\ p4 \in Nat /\ p5 \in Nat
  BY <1>1
<1>18. PartOf(x7, 0, a) /\ PartOf(x7, l, b) /\ PartOf(x7, p1, o)
  BY <1>2, <1>4, <1>5, <1>10, <1>11, <1>12, <1>13, <1>14, <1>15, <1>16, <1>17, Zenon DEF Extends
<1>19. PartOf(x7, p2, u) /\ PartOf(x7, p3, d) /\ PartOf(x7, p4, e)
  BY <1>6, <1>8, <1>b, <1>12, <1>13, <1>14, <1>15, <1>16, <1>17, Zenon DEF Extends
<1>20. PartOf(x7, p5, d) /\ PartOf(x7, p6, f)
  BY <1>b, <1>15, <1>16, <1>17, Zenon DEF Extends
<1>21. /\ p1 = l + 1 /\ p2 = l + 2 /\ p3 = l + 3 /\ p4 = 2 * l + 4 /\ p5 = 2 * l + 5
       /\ p6 = 3 * l + 6 /\ Len(x7) = 3 * l + 7
  BY <1>1, <1>16
<1> HIDE DEF p1, p2, p3, p4, p5, p6
<1>22. 1 \in 1..1 /\ 1 \in 1 .. 1 + l /\ 0 + 1 = 1
  BY <1>1
<1>23. ASSUME NEW k \in 1..l PROVE 0 + k = k /\ 1 + k \in 1 .. 1 + l /\ d[1 + k] = Up(h[k])
  <2>1. 0 + k = k /\ 1 + k \in 1 .. 1 + l
    BY <1>1
  <2>2. QED
    BY <1>3, <1>b, <2>1 DEF PartOf
<1>24. \A k \in 1..l : x7[k] = DownOk(h[k])
  <2>1. \A k \in 1..l : x7[0 + k] = a[k]
    BY <1>2, <1>18 DEF PartOf
  <2>2. QED
    BY <1>2, <1>23, <2>1
<1>25. x7[l + 1] = Down(0) /\ x7[p1 + 1] = TryDown(r, l + 4)
  BY <1>4, <1>5, <1>18, <1>22 DEF PartOf
<1>26. x7[p2 + 1] = Up(r) /\ x7[p4 + 1] = Exit(0) /\ x7[p6 + 1] = Exit(-1)
  BY <1>6, <1>8, <1>9, <1>19, <1>20, <1>22 DEF PartOf
<1>27. d[1] = Up(0)
  <2>1. d[0 + 1] = z[1]
    BY <1>7, <1>22, <1>b DEF PartOf
  <2>2. QED
    BY <1>7, <1>22, <2>1
<1>28. x7[p3 + 1] = Up(0) /\ x7[p5 + 1] = Up(0)
  BY <1>19, <1>20, <1>22, <1>27, <1>b DEF PartOf
<1>29. \A k \in 1..l : x7[p3 + (1 + k)] = Up(h[k]) /\ x7[p5 + (1 + k)] = Up(h[k])
  BY <1>19, <1>20, <1>23, <1>b DEF PartOf
<1>30. \A k \in 1..l : x7[l + 4 + k] = Up(h[k]) /\ x7[2 * l + 6 + k] = Up(h[k])
  <2>1. \A k \in 1..l : p3 + (1 + k) = l + 4 + k /\ p5 + (1 + k) = 2 * l + 6 + k
    BY <1>1, <1>21
  <2>2. QED
    BY <1>29, <2>1
<1>31. /\ x7[l + 2] = TryDown(r, l + 4) /\ x7[l + 3] = Up(r) /\ x7[l + 4] = Up(0)
       /\ x7[2 * l + 5] = Exit(0) /\ x7[2 * l + 6] = Up(0) /\ x7[3 * l + 7] = Exit(-1)
  <2>1. /\ p1 + 1 = l + 2 /\ p2 + 1 = l + 3 /\ p3 + 1 = l + 4 /\ p4 + 1 = 2 * l + 5
        /\ p5 + 1 = 2 * l + 6 /\ p6 + 1 = 3 * l + 7
    BY <1>1, <1>21
  <2>2. QED
    BY <1>25, <1>26, <1>28, <2>1
<1>32. QED
  BY <1>c, <1>21, <1>24, <1>25, <1>30, <1>31 DEF Test1Places, h, l, r

(* A thread of sem2 that holds h and, unless r is 0, asks for r.           *)
Test2Places(s, h, r) ==
    /\ s[1] = DownOk(h) /\ s[2] = Down(0)
    /\ IF r = 0
       THEN /\ Len(s) = 6 /\ s[3] = Up(h) /\ s[4] = Exit(0) /\ s[5] = Up(h) /\ s[6] = Exit(-1)
       ELSE /\ Len(s) = 8 /\ s[3] = TryDown(r, 4) /\ s[4] = Up(r)
            /\ s[5] = Up(h) /\ s[6] = Exit(0) /\ s[7] = Up(h) /\ s[8] = Exit(-1)

LEMMA Test2Text ==
    ASSUME NEW t \in 1..4, Sem2Alloc[t] \in Nat, Sem2Request[t] \in Nat
    PROVE  Test2Places(deadlock_test2(t), Sem2Alloc[t], Sem2Request[t])
<1> DEFINE S == Plain \cup Tries
           h == Sem2Alloc[t]
           r == Sem2Request[t]
           first == <<DownOk(h), Down(0)>>
           mid == IF r = 0 THEN <<>> ELSE <<TryDown(r, 4), Up(r)>>
           last == <<Up(h), Exit(0), Up(h), Exit(-1)>>
           x == first \o mid
           y == x \o last
           m == IF r = 0 THEN 0 ELSE 2
<1>1. /\ first \in Seq(S) /\ Len(first) = 2 /\ first[1] = DownOk(h) /\ first[2] = Down(0)
  <2>1. DownOk(h) \in S /\ Down(0) \in S
    BY PlainFacts
  <2> HIDE DEF S
  <2>2. QED
    BY <2>1
<1>2. /\ last \in Seq(S) /\ Len(last) = 4 /\ last[1] = Up(h) /\ last[2] = Exit(0)
      /\ last[3] = Up(h) /\ last[4] = Exit(-1)
  <2>1. Up(h) \in S /\ Exit(0) \in S /\ Exit(-1) \in S
    BY PlainFacts
  <2> HIDE DEF S
  <2>2. QED
    BY <2>1
<1>3. /\ mid \in Seq(S) /\ Len(mid) = m
      /\ r # 0 => mid[1] = TryDown(r, 4) /\ mid[2] = Up(r)
  <2>1. TryDown(r, 4) \in S /\ Up(r) \in S
    BY PlainFacts
  <2> HIDE DEF S
  <2>2. QED
    BY <2>1
<1>4. deadlock_test2(t) = y
  BY DEF deadlock_test2
<1> HIDE DEF S, h, r, first, mid, last
<1>5. Extends(x, first, 2, mid, S) /\ x \in Seq(S) /\ Len(x) = 2 + m
  <2>1. Extends(x, first, Len(first), mid, S)
    BY <1>1, <1>3, PartOfConcat
  <2>2. QED
    BY <1>1, <1>3, <2>1 DEF Extends
<1> HIDE DEF x, m
<1>6. Extends(y, x, 2 + m, last, S) /\ Len(y) = 2 + m + 4
  <2>1. Extends(y, x, Len(x), last, S)
    BY <1>2, <1>5, PartOfConcat
  <2>2. QED
    BY <1>2, <1>5, <2>1 DEF Extends
<1> HIDE DEF y
<1>7. 0 \in Nat /\ 2 \in Nat
  OBVIOUS
<1>8. PartOf(y, 0, first) /\ PartOf(y, 2, mid) /\ PartOf(y, 2 + m, last)
  BY <1>1, <1>3, <1>5, <1>6, <1>7, Zenon DEF Extends
<1>9. y[1] = DownOk(h) /\ y[2] = Down(0)
  <2>1. 1 \in 1..2 /\ 2 \in 1..2 /\ 0 + 1 = 1 /\ 0 + 2 = 2
    OBVIOUS
  <2>2. y[0 + 1] = DownOk(h) /\ y[0 + 2] = Down(0)
    BY <1>1, <1>8, <2>1 DEF PartOf
  <2>3. QED
    BY <2>1, <2>2
<1>10. /\ y[2 + m + 1] = Up(h) /\ y[2 + m + 2] = Exit(0)
       /\ y[2 + m + 3] = Up(h) /\ y[2 + m + 4] = Exit(-1)
  <2>1. 1 \in 1..4 /\ 2 \in 1..4 /\ 3 \in 1..4 /\ 4 \in 1..4
    OBVIOUS
  <2>2. QED
    BY <1>2, <1>8, <2>1 DEF PartOf
<1>11. CASE r = 0
  <2>1. m = 0
    BY <1>11 DEF m
  <2>2. QED
    BY <1>4, <1>6, <1>9, <1>10, <1>11, <2>1 DEF Test2Places, h, r
<1>12. CASE r # 0
  <2>1. m = 2
    BY <1>12 DEF m
  <2>2. y[2 + 1] = TryDown(r, 4) /\ y[2 + 2] = Up(r)
    <3>1. 1 \in 1..2 /\ 2 \in 1..2
      OBVIOUS
    <3>2. QED
      BY <1>3, <1>8, <1>12, <2>1, <3>1 DEF PartOf
  <2>3. QED
    BY <1>4, <1>6, <1>9, <1>10, <1>12, <2>1, <2>2 DEF Test2Places, h, r
<1>13. QED
  BY <1>11, <1>12

InSem1 == test = "deadlock_sem1"

InSem2 == test = "deadlock_sem2"

(* The two tests have a barrier, semaphore 0, and their resources.         *)
LEMMA Sem1Main ==
    ASSUME ThreadsPlaced, InSem1
    PROVE  /\ at[0] \in 1..19
           /\ at[0] = 1 => Instruction(0) = Create(3)
           /\ at[0] \in 2..4 => Instruction(0) = Down(0)
           /\ at[0] = 5 => Instruction(0) = Create(1)
           /\ at[0] = 6 => Instruction(0) = Create(2)
           /\ at[0] = 7 => Instruction(0) = Create(1)
           /\ at[0] \in 8..10 => Instruction(0) = Start(at[0] - 7)
           /\ at[0] = 11 => Instruction(0) = Outlast(1..3)
           /\ at[0] \in 12..14 => Instruction(0) = Up(0)
           /\ at[0] \in 15..17 => Instruction(0) = Join(at[0] - 14)
           /\ at[0] = 18 => Instruction(0) = Check("some_failed", 0)
           /\ at[0] = 19 => Instruction(0) = Exit(0)
           /\ \A t \in 1..8 : at[t] > 0 => t \in 1..3 /\ at[0] > 7 + t
<1> DEFINE text == TextOf(0)
           resources == <<Create(1), Create(2), Create(1)>>
           last == <<Check("some_failed", 0), Exit(0)>>
<1>1. text = deadlock_main(3, resources) \o last
  BY DEF InSem1, TextOf, ThreadTest, deadlock_sem1, Thread
<1>2. /\ resources \in Seq(Plain) /\ Len(resources) = 3
      /\ resources[1] = Create(1)
      /\ resources[2] = Create(2)
      /\ resources[3] = Create(1)
  BY PlainFacts
<1>3. last \in Seq(Plain) /\ Len(last) = 2 /\ last[1] = Check("some_failed", 0) /\ last[2] = Exit(0)
  BY PlainFacts
<1> HIDE DEF text, resources, last
<1>4. 3 \in 1..8
  OBVIOUS
<1>5. DeadlockPlaces(text, 3, resources, 3, last)
  BY <1>1, <1>2, <1>3, <1>4, DeadlockMainPlaces
<1>6. /\ Len(text) = 2 + 4 * 3 + 3 + 2 /\ text[1] = Create(3)
      /\ \A k \in 1..3 : text[1 + k] = Down(0)
      /\ \A k \in 1..3 : text[1 + 3 + k] = resources[k]
      /\ \A k \in 1..3 : text[1 + 3 + 3 + k] = Start(k)
      /\ text[2 + 2 * 3 + 3] = Outlast(1..3)
      /\ \A k \in 1..3 : text[2 + 2 * 3 + 3 + k] = Up(0)
      /\ \A k \in 1..3 : text[2 + 3 * 3 + 3 + k] = Join(k)
      /\ \A k \in 1..2 : text[2 + 4 * 3 + 3 + k] = last[k]
  BY <1>3, <1>5 DEF DeadlockPlaces
<1>7. Len(text) = 19 /\ text[1] = Create(3) /\ text[11] = Outlast(1..3)
  BY <1>6
<1>8. text[2] = Down(0) /\ text[3] = Down(0) /\ text[4] = Down(0)
  BY <1>6
<1>9. text[5] = Create(1) /\ text[6] = Create(2) /\ text[7] = Create(1)
  BY <1>2, <1>6
<1>10. text[8] = Start(1) /\ text[9] = Start(2) /\ text[10] = Start(3)
  BY <1>6
<1>11. text[12] = Up(0) /\ text[13] = Up(0) /\ text[14] = Up(0)
  BY <1>6
<1>12. text[15] = Join(1) /\ text[16] = Join(2) /\ text[17] = Join(3)
  BY <1>6
<1>13. text[18] = Check("some_failed", 0) /\ text[19] = Exit(0)
  BY <1>3, <1>6
<1>14. at[0] \in 1..19 /\ Instruction(0) = text[at[0]]
  BY <1>7 DEF ThreadsPlaced, Instruction, TextOf, text
<1>15. ASSUME NEW t \in 1..8, at[t] > 0 PROVE t \in 1..3 /\ at[0] > 7 + t
  <2>1. PICK j \in 1 .. at[0] - 1 : text[j] = Start(t)
    BY <1>15 DEF ThreadsPlaced, text
  <2>2. text[j][1] = "thread" /\ text[j][2] = t /\ j \in 1..19 /\ j < at[0]
    BY <1>14, <2>1 DEF Start
  <2>3. j # 1 /\ j # 2 /\ j # 3 /\ j # 4 /\ j # 5 /\ j # 6 /\ j # 7
    BY <1>7, <1>8, <1>9, <2>2 DEF Create, Down
  <2>4. j # 11 /\ j # 12 /\ j # 13 /\ j # 14 /\ j # 15 /\ j # 16 /\ j # 17
    BY <1>7, <1>11, <1>12, <2>2 DEF Outlast, Up, Join
  <2>5. j # 18 /\ j # 19
    BY <1>13, <2>2 DEF Check, Exit
  <2>6. j = 8 \/ j = 9 \/ j = 10
    BY <2>2, <2>3, <2>4, <2>5
  <2>7. (j = 8 => t = 1) /\ (j = 9 => t = 2) /\ (j = 10 => t = 3)
    BY <1>10, <2>2 DEF Start
  <2>8. QED
    BY <1>14, <2>2, <2>6, <2>7
<1>16. /\ at[0] \in 8..10 => Instruction(0) = Start(at[0] - 7)
       /\ at[0] \in 15..17 => Instruction(0) = Join(at[0] - 14)
  <2>1. at[0] \in 8..10 => at[0] = 8 \/ at[0] = 9 \/ at[0] = 10
    BY <1>14
  <2>2. at[0] \in 15..17 => at[0] = 15 \/ at[0] = 16 \/ at[0] = 17
    BY <1>14
  <2>3. QED
    BY <1>10, <1>12, <1>14, <2>1, <2>2
<1>17. /\ at[0] \in 2..4 => Instruction(0) = Down(0)
       /\ at[0] \in 12..14 => Instruction(0) = Up(0)
  <2>1. at[0] \in 2..4 => at[0] = 2 \/ at[0] = 3 \/ at[0] = 4
    BY <1>14
  <2>2. at[0] \in 12..14 => at[0] = 12 \/ at[0] = 13 \/ at[0] = 14
    BY <1>14
  <2>3. QED
    BY <1>8, <1>11, <1>14, <2>1, <2>2
<1>18. QED
  BY <1>7, <1>9, <1>13, <1>14, <1>15, <1>16, <1>17

LEMMA Sem2Main ==
    ASSUME ThreadsPlaced, InSem2
    PROVE  /\ at[0] \in 1..22
           /\ at[0] = 1 => Instruction(0) = Create(4)
           /\ at[0] \in 2..5 => Instruction(0) = Down(0)
           /\ at[0] = 6 => Instruction(0) = Create(2)
           /\ at[0] = 7 => Instruction(0) = Create(2)
           /\ at[0] \in 8..11 => Instruction(0) = Start(at[0] - 7)
           /\ at[0] = 12 => Instruction(0) = Outlast(1..4)
           /\ at[0] \in 13..16 => Instruction(0) = Up(0)
           /\ at[0] \in 17..20 => Instruction(0) = Join(at[0] - 16)
           /\ at[0] = 21 => Instruction(0) = Check("none_failed", 0)
           /\ at[0] = 22 => Instruction(0) = Exit(0)
           /\ \A t \in 1..8 : at[t] > 0 => t \in 1..4 /\ at[0] > 7 + t
<1> DEFINE text == TextOf(0)
           resources == <<Create(2), Create(2)>>
           last == <<Check("none_failed", 0), Exit(0)>>
<1>1. text = deadlock_main(4, resources) \o last
  BY DEF InSem2, TextOf, ThreadTest, deadlock_sem2, Thread
<1>2. /\ resources \in Seq(Plain) /\ Len(resources) = 2
      /\ resources[1] = Create(2)
      /\ resources[2] = Create(2)
  BY PlainFacts
<1>3. last \in Seq(Plain) /\ Len(last) = 2 /\ last[1] = Check("none_failed", 0) /\ last[2] = Exit(0)
  BY PlainFacts
<1> HIDE DEF text, resources, last
<1>4. 4 \in 1..8
  OBVIOUS
<1>5. DeadlockPlaces(text, 4, resources, 2, last)
  BY <1>1, <1>2, <1>3, <1>4, DeadlockMainPlaces
<1>6. /\ Len(text) = 2 + 4 * 4 + 2 + 2 /\ text[1] = Create(4)
      /\ \A k \in 1..4 : text[1 + k] = Down(0)
      /\ \A k \in 1..2 : text[1 + 4 + k] = resources[k]
      /\ \A k \in 1..4 : text[1 + 4 + 2 + k] = Start(k)
      /\ text[2 + 2 * 4 + 2] = Outlast(1..4)
      /\ \A k \in 1..4 : text[2 + 2 * 4 + 2 + k] = Up(0)
      /\ \A k \in 1..4 : text[2 + 3 * 4 + 2 + k] = Join(k)
      /\ \A k \in 1..2 : text[2 + 4 * 4 + 2 + k] = last[k]
  BY <1>3, <1>5 DEF DeadlockPlaces
<1>7. Len(text) = 22 /\ text[1] = Create(4) /\ text[12] = Outlast(1..4)
  BY <1>6
<1>8. text[2] = Down(0) /\ text[3] = Down(0) /\ text[4] = Down(0) /\ text[5] = Down(0)
  BY <1>6
<1>9. text[6] = Create(2) /\ text[7] = Create(2)
  BY <1>2, <1>6
<1>10. text[8] = Start(1) /\ text[9] = Start(2) /\ text[10] = Start(3) /\ text[11] = Start(4)
  BY <1>6
<1>11. text[13] = Up(0) /\ text[14] = Up(0) /\ text[15] = Up(0) /\ text[16] = Up(0)
  BY <1>6
<1>12. text[17] = Join(1) /\ text[18] = Join(2) /\ text[19] = Join(3) /\ text[20] = Join(4)
  BY <1>6
<1>13. text[21] = Check("none_failed", 0) /\ text[22] = Exit(0)
  BY <1>3, <1>6
<1>14. at[0] \in 1..22 /\ Instruction(0) = text[at[0]]
  BY <1>7 DEF ThreadsPlaced, Instruction, TextOf, text
<1>15. ASSUME NEW t \in 1..8, at[t] > 0 PROVE t \in 1..4 /\ at[0] > 7 + t
  <2>1. PICK j \in 1 .. at[0] - 1 : text[j] = Start(t)
    BY <1>15 DEF ThreadsPlaced, text
  <2>2. text[j][1] = "thread" /\ text[j][2] = t /\ j \in 1..22 /\ j < at[0]
    BY <1>14, <2>1 DEF Start
  <2>3. j # 1 /\ j # 2 /\ j # 3 /\ j # 4 /\ j # 5 /\ j # 6 /\ j # 7
    BY <1>7, <1>8, <1>9, <2>2 DEF Create, Down
  <2>4. j # 12 /\ j # 13 /\ j # 14 /\ j # 15 /\ j # 16 /\ j # 17 /\ j # 18 /\ j # 19 /\ j # 20
    BY <1>7, <1>11, <1>12, <2>2 DEF Outlast, Up, Join
  <2>5. j # 21 /\ j # 22
    BY <1>13, <2>2 DEF Check, Exit
  <2>6. j = 8 \/ j = 9 \/ j = 10 \/ j = 11
    BY <2>2, <2>3, <2>4, <2>5
  <2>7. (j = 8 => t = 1) /\ (j = 9 => t = 2) /\ (j = 10 => t = 3) /\ (j = 11 => t = 4)
    BY <1>10, <2>2 DEF Start
  <2>8. QED
    BY <1>14, <2>2, <2>6, <2>7
<1>16. /\ at[0] \in 8..11 => Instruction(0) = Start(at[0] - 7)
       /\ at[0] \in 17..20 => Instruction(0) = Join(at[0] - 16)
  <2>1. at[0] \in 8..11 => at[0] = 8 \/ at[0] = 9 \/ at[0] = 10 \/ at[0] = 11
    BY <1>14
  <2>2. at[0] \in 17..20 => at[0] = 17 \/ at[0] = 18 \/ at[0] = 19 \/ at[0] = 20
    BY <1>14
  <2>3. QED
    BY <1>10, <1>12, <1>14, <2>1, <2>2
<1>17. /\ at[0] \in 2..5 => Instruction(0) = Down(0)
       /\ at[0] \in 13..16 => Instruction(0) = Up(0)
  <2>1. at[0] \in 2..5 => at[0] = 2 \/ at[0] = 3 \/ at[0] = 4 \/ at[0] = 5
    BY <1>14
  <2>2. at[0] \in 13..16 => at[0] = 13 \/ at[0] = 14 \/ at[0] = 15 \/ at[0] = 16
    BY <1>14
  <2>3. QED
    BY <1>8, <1>11, <1>14, <2>1, <2>2
<1>18. QED
  BY <1>7, <1>9, <1>13, <1>14, <1>15, <1>16, <1>17

(* Thread t of sem1 waits at the barrier at Barrier(t); refused what it    *)
(* asks for next, it is at Late(t).                                        *)
Barrier(t) == IF t = 2 THEN 3 ELSE 2

Late(t) == IF t = 2 THEN 10 ELSE 8

Calls == {"down", "up", "exit"}

LEMMA Sem1Texts ==
    ASSUME InSem1, NEW t \in 1..3
    PROVE  /\ \A i \in 1..Len(TextOf(t)) : TextOf(t)[i][1] \in Calls
           /\ \A i \in 1..Barrier(t) - 1 : TextOf(t)[i] = DownOk(Sem1Alloc[t][i])
           /\ TextOf(t)[Barrier(t)] = Down(0)
           /\ TextOf(t)[Barrier(t) + 1] = TryDown(Sem1Request[t], Late(t) - Barrier(t) - 1)
           /\ \A i \in 1..Len(TextOf(t)) :
                 i >= Late(t) /\ EndsThread(TextOf(t)[i]) => TextOf(t)[i] = Exit(-1)
<1> DEFINE s == TextOf(t)
           h == Sem1Alloc[t]
           r == Sem1Request[t]
           l == IF t = 2 THEN 2 ELSE 1
<1>0. t = 1 \/ t = 2 \/ t = 3
  OBVIOUS
<1>1. h \in Seq(Nat) /\ Len(h) = l /\ r \in Nat
  <2> DEFINE a1 == <<2>>
             a2 == <<1, 2>>
             a3 == <<3>>
  <2>1. /\ a1 \in Seq(Nat) /\ a2 \in Seq(Nat) /\ a3 \in Seq(Nat)
        /\ Len(a1) = 1 /\ Len(a2) = 2 /\ Len(a3) = 1
    OBVIOUS
  <2>2. /\ Sem1Alloc[1] = a1 /\ Sem1Alloc[2] = a2 /\ Sem1Alloc[3] = a3
        /\ Sem1Request[1] = 1 /\ Sem1Request[2] = 3 /\ Sem1Request[3] = 2
    BY DEF Sem1Alloc, Sem1Request
  <2> HIDE DEF a1, a2, a3
  <2>3. CASE t = 1
    BY <2>1, <2>2, <2>3
  <2>4. CASE t = 2
    BY <2>1, <2>2, <2>4
  <2>5. CASE t = 3
    BY <2>1, <2>2, <2>5
  <2>6. QED
    BY <1>0, <2>3, <2>4, <2>5
<1>2. s = deadlock_test1(t)
  BY DEF InSem1, TextOf, ThreadTest, deadlock_sem1, Thread
<1>3. Test1Places(s, h, l, r)
  BY <1>1, <1>2, Test1Text
<1>4. Barrier(t) = l + 1 /\ Late(t) = 2 * l + 6 /\ Late(t) - Barrier(t) - 1 = l + 4
  BY DEF Barrier, Late
<1>5. l = 1 \/ l = 2
  OBVIOUS
<1> HIDE DEF s, h, r, l
<1>6. /\ Len(s) = 3 * l + 7
      /\ \A k \in 1..l : s[k] = DownOk(h[k])
      /\ s[l + 1] = Down(0) /\ s[l + 2] = TryDown(r, l + 4) /\ s[l + 3] = Up(r) /\ s[l + 4] = Up(0)
      /\ \A k \in 1..l : s[l + 4 + k] = Up(h[k])
      /\ s[2 * l + 5] = Exit(0) /\ s[2 * l + 6] = Up(0)
      /\ \A k \in 1..l : s[2 * l + 6 + k] = Up(h[k])
      /\ s[3 * l + 7] = Exit(-1)
  BY <1>3 DEF Test1Places
<1>7. ASSUME NEW i \in 1..Len(s) PROVE s[i][1] \in Calls
  <2>1. \/ i \in 1..l \/ i = l + 1 \/ i = l + 2 \/ i = l + 3 \/ i = l + 4
        \/ \E k \in 1..l : i = l + 4 + k
        \/ i = 2 * l + 5 \/ i = 2 * l + 6 \/ \E k \in 1..l : i = 2 * l + 6 + k
        \/ i = 3 * l + 7
    <3>1. i \in 1..3 * l + 7
      BY <1>6
    <3>2. CASE l = 1
      <4>1. 1 \in 1..l /\ i \in 1..10
        BY <3>1, <3>2
      <4>2. \/ i \in 1..l \/ i = l + 1 \/ i = l + 2 \/ i = l + 3 \/ i = l + 4 \/ i = l + 4 + 1
            \/ i = 2 * l + 5 \/ i = 2 * l + 6 \/ i = 2 * l + 6 + 1 \/ i = 3 * l + 7
        BY <3>2, <4>1
      <4>3. QED
        BY <4>1, <4>2
    <3>3. CASE l = 2
      <4>1. 1 \in 1..l /\ 2 \in 1..l /\ i \in 1..13
        BY <3>1, <3>3
      <4>2. \/ i \in 1..l \/ i = l + 1 \/ i = l + 2 \/ i = l + 3 \/ i = l + 4 \/ i = l + 4 + 1
            \/ i = l + 4 + 2 \/ i = 2 * l + 5 \/ i = 2 * l + 6 \/ i = 2 * l + 6 + 1
            \/ i = 2 * l + 6 + 2 \/ i = 3 * l + 7
        BY <3>3, <4>1
      <4>3. QED
        BY <4>1, <4>2
    <3>4. QED
      BY <1>5, <3>2, <3>3
  <2>2. CASE i \in 1..l
    BY <1>6, <2>2 DEF DownOk, Calls
  <2>3. CASE i = l + 1 \/ i = l + 2 \/ i = l + 3 \/ i = l + 4 \/ i = 2 * l + 5 \/ i = 2 * l + 6 \/ i = 3 * l + 7
    BY <1>6, <2>3 DEF Down, TryDown, Up, Exit, Calls
  <2>4. ASSUME NEW k \in 1..l, i = l + 4 + k \/ i = 2 * l + 6 + k PROVE s[i][1] \in Calls
    <3>1. s[i] = Up(h[k])
      BY <1>6, <2>4
    <3>2. QED
      BY <3>1 DEF Up, Calls
  <2>5. (\E k \in 1..l : i = l + 4 + k) \/ (\E k \in 1..l : i = 2 * l + 6 + k) => s[i][1] \in Calls
    BY <2>4
  <2>6. QED
    BY <2>1, <2>2, <2>3, <2>4, <2>5
<1>8. ASSUME NEW i \in 1..Len(s), i >= 2 * l + 6, EndsThread(s[i]) PROVE s[i] = Exit(-1)
  <2>1. i = 2 * l + 6 \/ (\E k \in 1..l : i = 2 * l + 6 + k) \/ i = 3 * l + 7
    <3>1. i \in 1..3 * l + 7
      BY <1>6
    <3>2. CASE l = 1
      <4>1. 1 \in 1..l /\ i \in 8..10
        BY <1>8, <3>1, <3>2
      <4>2. i = 2 * l + 6 \/ i = 2 * l + 6 + 1 \/ i = 3 * l + 7
        BY <3>2, <4>1
      <4>3. QED
        BY <4>1, <4>2
    <3>3. CASE l = 2
      <4>1. 1 \in 1..l /\ 2 \in 1..l /\ i \in 10..13
        BY <1>8, <3>1, <3>3
      <4>2. i = 2 * l + 6 \/ i = 2 * l + 6 + 1 \/ i = 2 * l + 6 + 2 \/ i = 3 * l + 7
        BY <3>3, <4>1
      <4>3. QED
        BY <4>1, <4>2
    <3>4. QED
      BY <1>5, <3>2, <3>3
  <2>2. CASE i = 2 * l + 6
    BY <1>6, <1>8, <2>2 DEF Up, EndsThread
  <2>3. ASSUME NEW k \in 1..l, i = 2 * l + 6 + k PROVE FALSE
    <3>1. s[i] = Up(h[k])
      BY <1>6, <2>3
    <3>2. QED
      BY <1>8, <3>1 DEF Up, EndsThread
  <2>4. QED
    BY <1>6, <2>1, <2>2, <2>3
<1>9. l + 1 - 1 = l /\ l + 1 + 1 = l + 2
  BY <1>5
<1>10. /\ \A i \in 1..Barrier(t) - 1 : s[i] = DownOk(h[i])
       /\ s[Barrier(t)] = Down(0)
       /\ s[Barrier(t) + 1] = TryDown(r, Late(t) - Barrier(t) - 1)
  <2>1. Barrier(t) - 1 = l /\ Barrier(t) + 1 = l + 2
    BY <1>4, <1>5
  <2>2. QED
    BY <1>4, <1>6, <2>1
<1>11. \A i \in 1..Len(s) : i >= Late(t) /\ EndsThread(s[i]) => s[i] = Exit(-1)
  BY <1>4, <1>8
<1>12. QED
  BY <1>7, <1>10, <1>11 DEF s, h, r

LEMMA Sem1At ==
    ASSUME ThreadsPlaced, InSem1, NEW t \in 1..8, at[t] > 0
    PROVE  /\ t \in 1..3 /\ at[0] > 7 + t /\ at[t] \in Nat \ {0} /\ t \in Thread
           /\ Instruction(t)[1] \in Calls
           /\ at[t] < Barrier(t) => Instruction(t) = <<"down", Sem1Alloc[t][at[t]], 0>>
           /\ at[t] = Barrier(t) => Instruction(t) = <<"down", 0, 1>>
           /\ at[t] = Barrier(t) + 1 =>
                 Instruction(t) = <<"down", Sem1Request[t], Late(t) - Barrier(t) - 1>>
           /\ at[t] >= Late(t) /\ EndsThread(Instruction(t)) => Instruction(t) = Exit(-1)
<1>1. t \in 1..3 /\ at[0] > 7 + t
  BY Sem1Main
<1>2. t \in Thread
  BY DEF Thread
<1>3. at[t] \in 1..Len(TextOf(t)) /\ Instruction(t) = TextOf(t)[at[t]]
  BY <1>2, CurrentOp
<1>4. at[t] \in Nat \ {0} /\ Barrier(t) \in 1..3 /\ Late(t) \in Nat
  BY <1>3 DEF Barrier, Late
<1>5. at[t] < Barrier(t) => at[t] \in 1..Barrier(t) - 1
  BY <1>4
<1>6. QED
  BY <1>1, <1>2, <1>3, <1>4, <1>5, Sem1Texts DEF DownOk, Down, TryDown

(* Where thread t of sem2 exits.                                           *)
EndOf(t) == IF t \in {1, 3} THEN 6 ELSE 4

LEMMA Sem2Texts ==
    ASSUME InSem2, NEW t \in 1..4
    PROVE  /\ Test2Places(TextOf(t), Sem2Alloc[t], Sem2Request[t])
           /\ \A i \in 1..Len(TextOf(t)) : TextOf(t)[i][1] \in Calls
<1> DEFINE s == TextOf(t)
           h == Sem2Alloc[t]
           r == Sem2Request[t]
<1>1. h \in Nat /\ r \in Nat
  <2>1. t = 1 \/ t = 2 \/ t = 3 \/ t = 4
    OBVIOUS
  <2>2. QED
    BY <2>1 DEF Sem2Alloc, Sem2Request
<1>2. s = deadlock_test2(t)
  BY DEF InSem2, TextOf, ThreadTest, deadlock_sem2, Thread
<1>3. Test2Places(s, h, r)
  BY <1>1, <1>2, Test2Text
<1> HIDE DEF s, h, r
<1>4. ASSUME NEW i \in 1..Len(s) PROVE s[i][1] \in Calls
  <2>1. CASE r = 0
    <3>1. /\ Len(s) = 6 /\ s[1] = DownOk(h) /\ s[2] = Down(0) /\ s[3] = Up(h) /\ s[4] = Exit(0)
          /\ s[5] = Up(h) /\ s[6] = Exit(-1)
      BY <1>3, <2>1 DEF Test2Places
    <3>2. i = 1 \/ i = 2 \/ i = 3 \/ i = 4 \/ i = 5 \/ i = 6
      BY <3>1
    <3>3. QED
      BY <3>1, <3>2 DEF Calls, DownOk, Down, Up, Exit
  <2>2. CASE r # 0
    <3>1. /\ Len(s) = 8 /\ s[1] = DownOk(h) /\ s[2] = Down(0) /\ s[3] = TryDown(r, 4) /\ s[4] = Up(r)
          /\ s[5] = Up(h) /\ s[6] = Exit(0) /\ s[7] = Up(h) /\ s[8] = Exit(-1)
      BY <1>3, <2>2 DEF Test2Places
    <3>2. i = 1 \/ i = 2 \/ i = 3 \/ i = 4 \/ i = 5 \/ i = 6 \/ i = 7 \/ i = 8
      BY <3>1
    <3>3. QED
      BY <3>1, <3>2 DEF Calls, DownOk, Down, TryDown, Up, Exit
  <2>3. QED
    BY <2>1, <2>2
<1>5. QED
  BY <1>3, <1>4 DEF s, h, r

LEMMA Sem2At ==
    ASSUME ThreadsPlaced, InSem2, NEW t \in 1..8, at[t] > 0
    PROVE  /\ t \in 1..4 /\ at[0] > 7 + t /\ at[t] \in Nat \ {0} /\ t \in Thread
           /\ Instruction(t)[1] \in Calls
           /\ at[t] = 1 => Instruction(t) = <<"down", Sem2Alloc[t], 0>>
           /\ at[t] = 2 => Instruction(t) = <<"down", 0, 1>>
           /\ t \in {1, 3} =>
                 /\ at[t] = 3 => Instruction(t) = <<"down", Sem2Request[t], 4>>
                 /\ at[t] = 4 => Instruction(t) = Up(Sem2Request[t])
           /\ at[t] = EndOf(t) - 1 => Instruction(t) = Up(Sem2Alloc[t])
           /\ at[t] = EndOf(t) => Instruction(t) = Exit(0)
<1>1. t \in 1..4 /\ at[0] > 7 + t
  BY Sem2Main
<1>2. t \in Thread
  BY DEF Thread
<1>3. at[t] \in 1..Len(TextOf(t)) /\ Instruction(t) = TextOf(t)[at[t]]
  BY <1>2, CurrentOp
<1>4. at[t] \in Nat \ {0}
  BY <1>3
<1>5. Test2Places(TextOf(t), Sem2Alloc[t], Sem2Request[t]) /\ Instruction(t)[1] \in Calls
  BY <1>1, <1>3, Sem2Texts
<1>6. Sem2Request[t] = 0 <=> t \in {2, 4}
  <2>1. t = 1 \/ t = 2 \/ t = 3 \/ t = 4
    BY <1>1
  <2>2. QED
    BY <2>1 DEF Sem2Request
<1>7. TextOf(t)[1] = DownOk(Sem2Alloc[t]) /\ TextOf(t)[2] = Down(0)
  BY <1>5 DEF Test2Places
<1>8. CASE t \in {1, 3}
  <2>1. /\ TextOf(t)[3] = TryDown(Sem2Request[t], 4) /\ TextOf(t)[4] = Up(Sem2Request[t])
        /\ TextOf(t)[5] = Up(Sem2Alloc[t]) /\ TextOf(t)[6] = Exit(0)
    BY <1>5, <1>6, <1>8 DEF Test2Places
  <2>2. EndOf(t) = 6 /\ EndOf(t) - 1 = 5
    BY <1>8 DEF EndOf
  <2>3. QED
    BY <1>1, <1>2, <1>3, <1>4, <1>5, <1>7, <2>1, <2>2 DEF DownOk, Down, TryDown
<1>9. CASE t \in {2, 4}
  <2>1. TextOf(t)[3] = Up(Sem2Alloc[t]) /\ TextOf(t)[4] = Exit(0)
    BY <1>5, <1>6, <1>9 DEF Test2Places
  <2>2. EndOf(t) = 4 /\ EndOf(t) - 1 = 3 /\ t \notin {1, 3}
    BY <1>9 DEF EndOf
  <2>3. QED
    BY <1>1, <1>2, <1>3, <1>4, <1>5, <1>7, <2>1, <2>2 DEF DownOk, Down, TryDown
<1>10. QED
  BY <1>1, <1>8, <1>9

(* Nobody sleeps, and only main is at a join.                              *)
LEMMA SemAwake ==
    ASSUME ThreadsPlaced, WaitersPlaced, InSem1 \/ InSem2
    PROVE  asleep = {} /\ \A t \in 1..8 : at[t] > 0 => Instruction(t)[1] \in Calls
<1>1. \A t \in 1..8 : at[t] > 0 => Instruction(t)[1] \in Calls
  BY Sem1At, Sem2At
<1>2. ASSUME NEW u \in asleep PROVE FALSE
  <2>1. at[u] > 0 /\ u \in Thread
    BY DEF WaitersPlaced
  <2>2. PICK i \in 1..Len(TextOf(u)) : TextOf(u)[i][1] = "wait"
    BY DEF WaitersPlaced
  <2>3. CASE u = 0
    <3>1. test \in ThreadTests /\ 0 \in Thread
      BY DEF ThreadsPlaced, Thread
    <3>2. TextOf(0) \in Seq(MainOps)
      BY <3>1, TextFacts DEF MainText, Wholes, Blocks
    <3>3. TextOf(0)[i] \in MainOps
      BY <2>2, <2>3, <3>2
    <3>4. TextOf(0)[i][1] # "wait"
      <4>1. TextOf(0)[i] \in Starts => TextOf(0)[i][1] = "thread"
        BY DEF Starts
      <4>2. QED
        BY <3>3, <4>1, PlainShape DEF MainOps
    <3>5. QED
      BY <2>2, <2>3, <3>4
  <2>4. CASE u # 0
    <3>1. u \in 1..8
      BY <2>1, <2>4 DEF Thread
    <3>2. (InSem1 /\ u \in 1..3) \/ (InSem2 /\ u \in 1..4)
      BY <2>1, <3>1, Sem1At, Sem2At
    <3>3. TextOf(u)[i][1] \in Calls
      BY <2>2, <3>2, Sem1Texts, Sem2Texts
    <3>4. QED
      BY <2>2, <3>3 DEF Calls
  <2>5. QED
    BY <2>3, <2>4
<1>3. QED
  BY <1>1, <1>2

-----------------------------------------------------------------------------
(*        ch8_deadlock_sem1: a circle of three, one of which fails         *)

(* Main, which is never refused an instruction it waits for, goes on by    *)
(* one.                                                                    *)
LEMMA MainByOne ==
    ASSUME ThreadsPlaced, WaitersPlaced, InSem1 \/ InSem2, NEW t \in Thread, ThreadStep(t)
    PROVE  /\ at[0] \in Nat
           /\ at'[0] = at[0] \/ at'[0] = at[0] + 1
           /\ at'[0] # at[0] => t = 0 \/ Instruction(0)[1] = "down"
           /\ Instruction(t)[1] # "wait"
<1>1. /\ at[t] > 0 /\ t \notin blocked
      /\ Goes(t) \/ Ends(t) \/ Stops(t) \/ Gives(t) \/ StartsOne(t)
  BY StepKinds
<1>2. at \in [Thread -> Nat] /\ 0 \in Thread /\ at[0] \in 1..Len(TextOf(0)) /\ at[0] > 0
  <2>1. at \in [Thread -> Nat] /\ 0 \in Thread /\ at[0] \in 1..Len(TextOf(0))
    BY DEF ThreadsPlaced, Thread
  <2> DEFINE a == at[0]
             n == Len(TextOf(0))
  <2>2. a \in 1..n
    BY <2>1
  <2> HIDE DEF a, n
  <2>3. a > 0
    BY <2>2
  <2>4. QED
    BY <2>1, <2>3 DEF a
<1>3. Instruction(t)[1] # "wait"
  <2>1. CASE t = 0
    BY <1>1, <2>1, CurrentOp
  <2>2. CASE t # 0
    <3>1. t \in 1..8
      BY <2>2 DEF Thread
    <3>2. Instruction(t)[1] \in Calls
      BY <1>1, <3>1, SemAwake
    <3>3. QED
      BY <3>2 DEF Calls
  <2>3. QED
    BY <2>1, <2>2
<1>4. Instruction(0) \in Plain \cup Starts
  <2>1. \A n \in Nat : Create(n) \in Plain
    BY PlainFacts
  <2>2. \A r \in Nat : Down(r) \in Plain /\ Up(r) \in Plain
    BY PlainFacts
  <2>3. Outlast(1..3) \in Plain /\ Outlast(1..4) \in Plain
    <3>1. 1..3 \in SUBSET Thread /\ 1..4 \in SUBSET Thread
      BY DEF Thread
    <3>2. QED
      BY <3>1, PlainFacts
  <2>4. Check("some_failed", 0) \in Plain /\ Check("none_failed", 0) \in Plain /\ Exit(0) \in Plain
    BY PlainFacts
  <2>5. (\A k \in 1..8 : Start(k) \in Starts) /\ (\A k \in 1..8 : Join(k) \in Plain)
    BY PlainFacts DEF Thread
  <2>6. CASE InSem1
    <3>1. CASE at[0] \in 1..7
      <4>1. at[0] = 1 \/ at[0] \in 2..4 \/ at[0] = 5 \/ at[0] = 6 \/ at[0] = 7
        BY <3>1
      <4>2. QED
        BY <2>1, <2>2, <2>6, <4>1, Sem1Main
    <3>2. CASE at[0] \in 8..10
      <4>1. at[0] - 7 \in 1..8
        BY <3>2
      <4>2. QED
        BY <2>5, <2>6, <3>2, <4>1, Sem1Main
    <3>3. CASE at[0] \in 11..14
      <4>1. at[0] = 11 \/ at[0] \in 12..14
        BY <3>3
      <4>2. QED
        BY <2>2, <2>3, <2>6, <4>1, Sem1Main
    <3>4. CASE at[0] \in 15..17
      <4>1. at[0] - 14 \in 1..8
        BY <3>4
      <4>2. QED
        BY <2>5, <2>6, <3>4, <4>1, Sem1Main
    <3>5. CASE at[0] = 18 \/ at[0] = 19
      BY <2>4, <2>6, <3>5, Sem1Main
    <3>6. at[0] \in 1..19
      BY <2>6, Sem1Main
    <3>7. QED
      BY <3>1, <3>2, <3>3, <3>4, <3>5, <3>6
  <2>7. CASE InSem2
    <3>1. CASE at[0] \in 1..7
      <4>1. at[0] = 1 \/ at[0] \in 2..5 \/ at[0] = 6 \/ at[0] = 7
        BY <3>1
      <4>2. QED
        BY <2>1, <2>2, <2>7, <4>1, Sem2Main
    <3>2. CASE at[0] \in 8..11
      <4>1. at[0] - 7 \in 1..8
        BY <3>2
      <4>2. QED
        BY <2>5, <2>7, <3>2, <4>1, Sem2Main
    <3>3. CASE at[0] \in 12..16
      <4>1. at[0] = 12 \/ at[0] \in 13..16
        BY <3>3
      <4>2. QED
        BY <2>2, <2>3, <2>7, <4>1, Sem2Main
    <3>4. CASE at[0] \in 17..20
      <4>1. at[0] - 16 \in 1..8
        BY <3>4
      <4>2. QED
        BY <2>5, <2>7, <3>4, <4>1, Sem2Main
    <3>5. CASE at[0] = 21 \/ at[0] = 22
      BY <2>4, <2>7, <3>5, Sem2Main
    <3>6. at[0] \in 1..22
      BY <2>7, Sem2Main
    <3>7. QED
      BY <3>1, <3>2, <3>3, <3>4, <3>5, <3>6
  <2>8. QED
    BY <2>6, <2>7
<1>5. Offsets(Instruction(0)) \subseteq {1}
  BY <1>4, PlainShape
<1>6. ASSUME NEW n, Advance(t, n), t = 0 => n = 1
      PROVE  (at'[0] = at[0] \/ at'[0] = at[0] + 1) /\ (at'[0] # at[0] => t = 0)
  BY <1>2, <1>6 DEF Advance
<1>7. ASSUME NEW n, NEW u \in blocked, Hands(t, n, u), t = 0 => n = 1
      PROVE  /\ at'[0] = at[0] \/ at'[0] = at[0] + 1
             /\ at'[0] # at[0] => t = 0 \/ Instruction(0)[1] = "down"
  <2>1. u \in Thread /\ u # t /\ Instruction(u)[1] = "down"
    BY <1>1 DEF WaitersPlaced
  <2>2. at' = [at EXCEPT ![t] = @ + n, ![u] = @ + 1]
    BY <1>7 DEF Hands
  <2>3. CASE t = 0
    BY <1>2, <1>7, <2>1, <2>2, <2>3
  <2>4. CASE t # 0 /\ u = 0
    BY <1>2, <2>1, <2>2, <2>4
  <2>5. CASE t # 0 /\ u # 0
    BY <1>2, <2>1, <2>2, <2>5
  <2>6. QED
    BY <2>3, <2>4, <2>5
<1>8. ASSUME NEW n \in Offsets(Instruction(t)), t = 0 PROVE n = 1
  BY <1>5, <1>8
<1>9. CASE Goes(t)
  <2>1. PICK n \in Offsets(Instruction(t)) : Advance(t, n)
    BY <1>9 DEF Goes
  <2>2. QED
    BY <1>2, <1>3, <1>6, <1>8, <2>1
<1>10. CASE Ends(t) \/ Stops(t)
  BY <1>2, <1>3, <1>10 DEF Ends, Stops, ThreadExits
<1>11. CASE Gives(t)
  <2>1. PICK n \in Offsets(Instruction(t)) : Advance(t, n) \/ \E w \in blocked : Hands(t, n, w)
    BY <1>3, <1>11, Zenon DEF Gives
  <2>2. t = 0 => n = 1
    BY <1>8
  <2>3. QED
    BY <1>2, <1>3, <1>6, <1>7, <2>1, <2>2
<1>12. CASE StartsOne(t)
  <2>1. t = 0 /\ Instruction(t)[2] \in 1..8
    BY <1>1, <1>12, StartFacts DEF StartsOne
  <2>2. QED
    BY <1>2, <1>3, <1>12, <2>1 DEF StartsOne
<1>13. QED
  BY <1>1, <1>9, <1>10, <1>11, <1>12

(* A thread of sem1 has been refused, or has panicked.                     *)
Failing == \E u \in 1..3 : at[u] >= Late(u) \/ (u \in exited /\ exit_code[u] # 0)

LEMMA StaysFailing ==
    ASSUME ThreadsPlaced, WaitersPlaced, exit_code \in [Thread -> -1..3], InSem1, Failing,
           NEW t \in Thread, ThreadStep(t)
    PROVE  Failing'
<1>1. PICK u \in 1..3 : at[u] >= Late(u) \/ (u \in exited /\ exit_code[u] # 0)
  BY DEF Failing
<1>2. u \in Thread
  BY DEF Thread
<1>3. CASE at[u] >= Late(u)
  <2>1. Instruction(t)[1] # "wait"
    BY MainByOne
  <2>2. at[u] \in Nat /\ at'[u] \in Nat /\ at'[u] >= at[u]
    BY <1>2, <2>1, StepOnward
  <2>3. Late(u) \in Nat
    BY DEF Late
  <2>4. at'[u] >= Late(u)
    BY <1>3, <2>2, <2>3
  <2>5. QED
    BY <2>4 DEF Failing
<1>4. CASE u \in exited /\ exit_code[u] # 0
  <2>1. u # t
    BY <1>4, ExitedStay
  <2>2. u \in exited' /\ exit_code'[u] = exit_code[u]
    BY <1>2, <1>4, <2>1, EndStep
  <2>3. QED
    BY <1>4, <2>2 DEF Failing
<1>5. QED
  BY <1>1, <1>3, <1>4

(* What main does between its calls on the barrier.                        *)
Apart == UNCHANGED <<exited, exit_code, held, blocked>>

LEMMA MainCreates ==
    ASSUME ThreadsPlaced, units \in Seq(Nat), ThreadStep(0), NEW n \in Nat, Instruction(0) = Create(n)
    PROVE  /\ GoesBy(0, 1) /\ Apart
           /\ Len(units') = Len(units) + 1 /\ units'[Len(units) + 1] = n
           /\ \A i \in 1..Len(units) : units'[i] = units[i]
<1>1. 0 \in Thread /\ at \in [Thread -> Nat]
  BY DEF ThreadsPlaced, Thread
<1>2. Instruction(0)[1] = "create" /\ Instruction(0)[2] = n
  BY DEF Create
<1>3. create(0)
  BY <1>1, <1>2, ActionOf
<1>4. units' = Append(units, n) /\ Advance(0, 1) /\ Apart
  BY <1>2, <1>3 DEF create, Apart
<1>5. QED
  BY <1>1, <1>4 DEF Advance, GoesBy

LEMMA MainStarts ==
    ASSUME ThreadsPlaced, ThreadStep(0), NEW k \in 1..8, Instruction(0) = Start(k)
    PROVE  /\ at[k] = 0 /\ at'[k] = 1 /\ at'[0] = at[0] + 1
           /\ \A s \in 1..8 : s # k => at'[s] = at[s]
           /\ Apart /\ units' = units
<1>1. 0 \in Thread /\ at \in [Thread -> Nat] /\ 1..8 \subseteq Thread
  BY DEF ThreadsPlaced, Thread
<1>2. Instruction(0)[1] = "thread" /\ Instruction(0)[2] = k
  BY DEF Start
<1>3. thread_create(0) /\ at[0] > 0
  BY <1>1, <1>2, ActionOf, StepKinds
<1>4. at[k] = 0
  BY <1>1, <1>2, <1>3, StartFacts
<1>5. at' = [at EXCEPT ![0] = @ + 1, ![k] = 1]
  BY <1>2, <1>3 DEF thread_create
<1>6. Apart /\ units' = units
  BY <1>3 DEF thread_create, Apart, Locks
<1>7. k # 0 /\ at[0] + 1 \in Nat
  BY <1>1
<1>8. at'[k] = 1 /\ at'[0] = at[0] + 1 /\ \A s \in 1..8 : s # k => at'[s] = at[s]
  BY <1>1, <1>5, <1>7
<1>9. QED
  BY <1>4, <1>6, <1>8

LEMMA MainSleeps ==
    ASSUME ThreadsPlaced, ThreadStep(0), NEW S, Instruction(0) = Outlast(S)
    PROVE  GoesBy(0, 1) /\ Apart /\ units' = units /\ \A u \in S : Settled(u)
<1>1. 0 \in Thread /\ at \in [Thread -> Nat]
  BY DEF ThreadsPlaced, Thread
<1>2. Instruction(0)[1] = "sleep" /\ Instruction(0)[2] = S
  BY DEF Outlast
<1>3. sleep(0)
  BY <1>1, <1>2, ActionOf
<1>4. Advance(0, 1) /\ Apart /\ units' = units /\ \A u \in S : Settled(u)
  BY <1>2, <1>3 DEF sleep, Apart, Locks
<1>5. QED
  BY <1>1, <1>4 DEF Advance, GoesBy

LEMMA MainJoins ==
    ASSUME ThreadsPlaced, ThreadStep(0), NEW k, Instruction(0) = Join(k)
    PROVE  GoesBy(0, 1) /\ Apart /\ units' = units /\ k \in exited
<1>1. 0 \in Thread /\ at \in [Thread -> Nat]
  BY DEF ThreadsPlaced, Thread
<1>2. Instruction(0)[1] = "join" /\ Instruction(0)[2] = k
  BY DEF Join
<1>3. waittid(0)
  BY <1>1, <1>2, ActionOf
<1>4. Advance(0, 1) /\ Apart /\ units' = units /\ k \in exited
  BY <1>2, <1>3 DEF waittid, Apart, Locks
<1>5. QED
  BY <1>1, <1>4 DEF Advance, GoesBy

(* An assertion that holds, and the exit.                                  *)
LEMMA MainFinishes ==
    ASSUME ThreadsPlaced, ThreadStep(0),
           NEW name, Instruction(0) = Check(name, 0) \/ Instruction(0) = Exit(0)
    PROVE  /\ at'[0] = at[0] \/ at'[0] = at[0] + 1
           /\ \A s \in 1..8 : at'[s] = at[s]
           /\ UNCHANGED <<units, held, blocked>>
<1>1. 0 \in Thread /\ at \in [Thread -> Nat] /\ 1..8 \subseteq Thread
  BY DEF ThreadsPlaced, Thread
<1>2. Advance(0, 1) \/ at' = at =>
          /\ at'[0] = at[0] \/ at'[0] = at[0] + 1
          /\ \A s \in 1..8 : at'[s] = at[s]
  <2>1. \A s \in 1..8 : s # 0
    OBVIOUS
  <2>2. QED
    BY <1>1, <2>1 DEF Advance
<1>3. CASE Instruction(0) = Check(name, 0)
  <2>1. Instruction(0)[1] = "assert"
    BY <1>3 DEF Check
  <2>2. thread_assert(0)
    BY <1>1, <2>1, ActionOf
  <2>3. (Advance(0, 1) \/ at' = at) /\ UNCHANGED <<units, held, blocked>>
    BY <2>2 DEF thread_assert, AdvanceOrPanic, ThreadExits, Locks
  <2>4. QED
    BY <1>2, <2>3
<1>4. CASE Instruction(0) = Exit(0)
  <2>1. Instruction(0)[1] = "exit"
    BY <1>4 DEF Exit
  <2>2. thread_exit(0)
    BY <1>1, <2>1, ActionOf
  <2>3. at' = at /\ UNCHANGED <<units, held, blocked>>
    BY <2>2 DEF thread_exit, ThreadExits, Locks
  <2>4. QED
    BY <1>2, <2>3
<1>5. QED
  BY <1>3, <1>4

Once(b) == IF b THEN 1 ELSE 0

(* What is left of the resources while the threads take their shares.      *)
Shares ==
    /\ Len(units) = 4 /\ units[1] = 0
    /\ units[2] = 1 - Once(at[2] >= 2)
    /\ units[3] = 2 - Once(at[1] >= 2) - Once(at[2] >= 3)
    /\ units[4] = 1 - Once(at[3] >= 2)

Made1 ==
    \/ at[0] = 1 /\ Len(units) = 0
    \/ at[0] \in 2..5 /\ Len(units) = 1 /\ units[1] = 5 - at[0]
    \/ at[0] = 6 /\ Len(units) = 2 /\ units[1] = 0 /\ units[2] = 1
    \/ at[0] = 7 /\ Len(units) = 3 /\ units[1] = 0 /\ units[2] = 1 /\ units[3] = 2
    \/ at[0] \in 8..11 /\ Shares

(* Before main wakes up no thread is past the barrier, which main holds.   *)
Sharing ==
    /\ Made1 /\ 0 \notin blocked
    /\ at[0] > 2 => held[0][0] > 0
    /\ \A t \in 1..3 : at[t] <= Barrier(t) /\ (t \in blocked => at[t] = Barrier(t))

(* Afterwards every thread has its share, and waits for another's.         *)
Circle ==
    /\ at[0] >= 12 /\ Len(units) = 4 /\ units[2] = 0 /\ units[3] = 0 /\ units[4] = 0
    /\ \A t \in 1..3 : at[t] = Barrier(t) \/ at[t] = Barrier(t) + 1

Joined == \A k \in 1..3 : at[0] > 14 + k => k \in exited

Sem1Inv == (Failing \/ Sharing \/ Circle) /\ Joined

LEMMA JoinedStep ==
    ASSUME ThreadsPlaced, WaitersPlaced, exit_code \in [Thread -> -1..3], InSem1, Joined,
           NEW t \in Thread, ThreadStep(t)
    PROVE  Joined'
<1> SUFFICES ASSUME NEW k \in 1..3, at'[0] > 14 + k PROVE k \in exited'
  BY DEF Joined
<1>1. exited \subseteq exited'
  BY EndStep
<1>2. /\ at[0] \in Nat
      /\ at'[0] = at[0] \/ at'[0] = at[0] + 1
      /\ at'[0] # at[0] => t = 0 \/ Instruction(0)[1] = "down"
  BY MainByOne
<1>3. CASE at[0] > 14 + k
  BY <1>1, <1>3 DEF Joined
<1>4. CASE ~(at[0] > 14 + k)
  <2>1. at[0] = 14 + k /\ at'[0] # at[0]
    BY <1>2, <1>4
  <2>2. at[0] \in 15..17 /\ at[0] - 14 = k
    BY <2>1
  <2>3. Instruction(0) = Join(k)
    BY <2>2, Sem1Main
  <2>4. Instruction(0)[1] # "down"
    BY <2>3 DEF Join
  <2>5. t = 0
    BY <1>2, <2>1, <2>4
  <2>6. ThreadStep(0)
    BY <2>5
  <2>7. k \in exited
    BY <2>3, <2>6, MainJoins
  <2>8. QED
    BY <1>1, <2>7
<1>5. QED
  BY <1>3, <1>4

LEMMA OnceFacts ==
    ASSUME NEW b \in BOOLEAN
    PROVE  (b => Once(b) = 1) /\ (~b => Once(b) = 0) /\ Once(b) \in 0..1
BY DEF Once

LEMMA Sem1Kinds == 0 \in Kinds \cap Nat /\ 1 \in Kinds \cap Nat /\ 2 \in Kinds \cap Nat /\ 3 \in Kinds \cap Nat
<1>1. N \in Nat
  BY ThreadCounts
<1>2. QED
  BY <1>1 DEF Kinds

(* A thread takes a unit of its share: there always is one.                *)
LEMMA ShareThere ==
    ASSUME ThreadsPlaced, InSem1, Shares, NEW t \in 1..3, at[t] > 0, at[t] < Barrier(t),
           NEW r, r = Sem1Alloc[t][at[t]]
    PROVE  /\ r \in Kinds \cap Nat /\ r \in 1..3 /\ r < Len(units) /\ Free(r) > 0
           /\ UnitsBy(r, -1) /\ GoesBy(t, 1) => Shares'
<1>1. at[1] \in Nat /\ at[2] \in Nat /\ at[3] \in Nat /\ {1, 2, 3} \subseteq Thread
  BY DEF ThreadsPlaced, Thread
<1>2. /\ Once(at[2] >= 2) \in 0..1 /\ Once(at[1] >= 2) \in 0..1 /\ Once(at[2] >= 3) \in 0..1
      /\ Once(at[3] >= 2) \in 0..1
  BY DEF Once
<1>3. Len(units) = 4 /\ units[1] = 0
  BY DEF Shares
<1>4. ASSUME UnitsBy(r, -1), GoesBy(t, 1), r \in 1..3
      PROVE  /\ Len(units') = 4 /\ units'[1] = 0 /\ units'[r + 1] = units[r + 1] - 1
             /\ \A q \in 1..3 : q # r => units'[q + 1] = units[q + 1]
             /\ at'[t] = at[t] + 1 /\ \A s \in 1..3 : s # t => at'[s] = at[s]
  <2>1. at'[t] = at[t] + 1 /\ \A s \in 1..3 : s # t => at'[s] = at[s]
    BY <1>4 DEF GoesBy, Thread
  <2>2. /\ Len(units') = Len(units) /\ units'[r + 1] = units[r + 1] + (-1)
        /\ \A q \in Nat : q < Len(units) /\ q # r => units'[q + 1] = units[q + 1]
    BY <1>4 DEF UnitsBy
  <2>3. units'[0 + 1] = units[0 + 1]
    BY <1>3, <1>4, <2>2
  <2>4. \A q \in 1..3 : q # r => units'[q + 1] = units[q + 1]
    BY <1>3, <2>2
  <2>5. units[r + 1] \in Int
    <3>1. r = 1 \/ r = 2 \/ r = 3
      BY <1>4
    <3>2. QED
      BY <1>2, <3>1 DEF Shares
  <2>6. units'[r + 1] = units[r + 1] - 1
    BY <2>2, <2>5
  <2>7. QED
    BY <1>3, <2>1, <2>2, <2>3, <2>4, <2>6
<1>5. CASE t = 1
  <2>1. at[1] = 1 /\ r = 2
    BY <1>1, <1>5 DEF Barrier, Sem1Alloc
  <2>2. Once(at[1] >= 2) = 0
    BY <2>1 DEF Once
  <2>3. units[3] = 2 - 0 - Once(at[2] >= 3) /\ units[3] > 0
    BY <1>2, <2>2 DEF Shares
  <2>4. Free(r) > 0
    BY <2>1, <2>3 DEF Free
  <2>5. ASSUME UnitsBy(r, -1), GoesBy(t, 1) PROVE Shares'
    <3>1. /\ Len(units') = 4 /\ units'[1] = 0 /\ units'[2 + 1] = units[2 + 1] - 1
          /\ units'[1 + 1] = units[1 + 1] /\ units'[3 + 1] = units[3 + 1]
          /\ at'[1] = 2 /\ at'[2] = at[2] /\ at'[3] = at[3]
      BY <1>4, <1>5, <2>1, <2>5
    <3>2. Once(at'[1] >= 2) = 1
      BY <3>1 DEF Once
    <3>3. units'[3] = 2 - Once(at'[1] >= 2) - Once(at'[2] >= 3)
      BY <1>2, <2>3, <3>1, <3>2
    <3>4. QED
      BY <3>1, <3>3 DEF Shares
  <2>6. QED
    BY <1>3, <2>1, <2>4, <2>5, Sem1Kinds
<1>6. CASE t = 3
  <2>1. at[3] = 1 /\ r = 3
    BY <1>1, <1>6 DEF Barrier, Sem1Alloc
  <2>2. Once(at[3] >= 2) = 0
    BY <2>1 DEF Once
  <2>3. units[4] = 1
    BY <2>2 DEF Shares
  <2>4. Free(r) > 0
    BY <2>1, <2>3 DEF Free
  <2>5. ASSUME UnitsBy(r, -1), GoesBy(t, 1) PROVE Shares'
    <3>1. /\ Len(units') = 4 /\ units'[1] = 0 /\ units'[3 + 1] = units[3 + 1] - 1
          /\ units'[1 + 1] = units[1 + 1] /\ units'[2 + 1] = units[2 + 1]
          /\ at'[3] = 2 /\ at'[2] = at[2] /\ at'[1] = at[1]
      BY <1>4, <1>6, <2>1, <2>5
    <3>2. Once(at'[3] >= 2) = 1
      BY <3>1 DEF Once
    <3>3. units'[4] = 1 - Once(at'[3] >= 2)
      BY <2>3, <3>1, <3>2
    <3>4. QED
      BY <3>1, <3>3 DEF Shares
  <2>6. QED
    BY <1>3, <2>1, <2>4, <2>5, Sem1Kinds
<1>7. CASE t = 2 /\ at[2] = 1
  <2>1. r = 1
    BY <1>7 DEF Sem1Alloc
  <2>2. Once(at[2] >= 2) = 0 /\ Once(at[2] >= 3) = 0
    BY <1>7 DEF Once
  <2>3. units[2] = 1
    BY <2>2 DEF Shares
  <2>4. Free(r) > 0
    BY <2>1, <2>3 DEF Free
  <2>5. ASSUME UnitsBy(r, -1), GoesBy(t, 1) PROVE Shares'
    <3>1. /\ Len(units') = 4 /\ units'[1] = 0 /\ units'[1 + 1] = units[1 + 1] - 1
          /\ units'[2 + 1] = units[2 + 1] /\ units'[3 + 1] = units[3 + 1]
          /\ at'[2] = 2 /\ at'[1] = at[1] /\ at'[3] = at[3]
      BY <1>4, <1>7, <2>1, <2>5
    <3>2. Once(at'[2] >= 2) = 1 /\ Once(at'[2] >= 3) = 0
      BY <3>1 DEF Once
    <3>3. units'[2] = 1 - Once(at'[2] >= 2)
      BY <2>3, <3>1, <3>2
    <3>4. units'[3] = 2 - Once(at'[1] >= 2) - Once(at'[2] >= 3)
      BY <2>2, <3>1, <3>2 DEF Shares
    <3>5. units'[4] = 1 - Once(at'[3] >= 2)
      BY <3>1 DEF Shares
    <3>6. QED
      BY <3>1, <3>3, <3>4, <3>5 DEF Shares
  <2>6. QED
    BY <1>3, <1>7, <2>1, <2>4, <2>5, Sem1Kinds
<1>8. CASE t = 2 /\ at[2] = 2
  <2>1. r = 2
    BY <1>8 DEF Sem1Alloc
  <2>2. Once(at[2] >= 2) = 1 /\ Once(at[2] >= 3) = 0
    BY <1>8 DEF Once
  <2>3. units[3] = 2 - Once(at[1] >= 2) - 0 /\ units[3] > 0
    BY <1>2, <2>2 DEF Shares
  <2>4. Free(r) > 0
    BY <2>1, <2>3 DEF Free
  <2>5. ASSUME UnitsBy(r, -1), GoesBy(t, 1) PROVE Shares'
    <3>1. /\ Len(units') = 4 /\ units'[1] = 0 /\ units'[2 + 1] = units[2 + 1] - 1
          /\ units'[1 + 1] = units[1 + 1] /\ units'[3 + 1] = units[3 + 1]
          /\ at'[2] = 3 /\ at'[1] = at[1] /\ at'[3] = at[3]
      BY <1>4, <1>8, <2>1, <2>5
    <3>2. Once(at'[2] >= 2) = 1 /\ Once(at'[2] >= 3) = 1
      BY <3>1 DEF Once
    <3>3. units'[2] = 1 - Once(at'[2] >= 2)
      BY <2>2, <3>1, <3>2 DEF Shares
    <3>4. units'[3] = 2 - Once(at'[1] >= 2) - Once(at'[2] >= 3)
      BY <1>2, <2>3, <3>1, <3>2
    <3>5. units'[4] = 1 - Once(at'[3] >= 2)
      BY <3>1 DEF Shares
    <3>6. QED
      BY <3>1, <3>3, <3>4, <3>5 DEF Shares
  <2>6. QED
    BY <1>3, <1>8, <2>1, <2>4, <2>5, Sem1Kinds
<1>9. t = 2 => at[2] = 1 \/ at[2] = 2
  BY <1>1 DEF Barrier
<1>10. QED
  BY <1>5, <1>6, <1>7, <1>8, <1>9

LEMMA Sem1Team ==
    ASSUME ThreadsPlaced, WaitersPlaced, InSem1, NEW t \in 1..8, ThreadStep(t)
    PROVE  /\ t \in 1..3 /\ t \in Thread /\ t \notin blocked /\ at[t] \in Nat \ {0} /\ t # 0
           /\ at[0] \in 8..19 /\ at'[0] = at[0] /\ test' = test
           /\ Barrier(t) \in 2..3 /\ Late(t) - Barrier(t) - 1 \in Nat \ {0}
           /\ Late(t) = Barrier(t) + 1 + (Late(t) - Barrier(t) - 1)
<1>1. t \in Thread /\ t # 0
  BY DEF Thread
<1>2. at[t] > 0 /\ t \notin blocked /\ test' = test
  BY <1>1, StepKinds
<1>3. t \in 1..3 /\ at[0] > 7 + t /\ at[t] \in Nat \ {0}
  BY <1>2, Sem1At
<1>4. at[0] \in 8..19
  BY <1>3, Sem1Main
<1>5. Instruction(0)[1] # "down"
  <2>1. at[0] \in 8..10 \/ at[0] = 11 \/ at[0] \in 12..14 \/ at[0] \in 15..17 \/ at[0] = 18 \/ at[0] = 19
    BY <1>4
  <2>2. QED
    BY <2>1, Sem1Main DEF Start, Outlast, Up, Join, Check, Exit
<1>6. at'[0] = at[0]
  BY <1>1, <1>5, MainByOne
<1>7. /\ Barrier(t) \in 2..3 /\ Late(t) - Barrier(t) - 1 \in Nat \ {0}
      /\ Late(t) = Barrier(t) + 1 + (Late(t) - Barrier(t) - 1)
  BY DEF Barrier, Late
<1>8. QED
  BY <1>1, <1>2, <1>3, <1>4, <1>6, <1>7

LEMMA CircleTeam ==
    ASSUME ThreadsPlaced, WaitersPlaced, HeldTyped, InSem1, Circle, units \in Seq(Nat),
           NEW t \in 1..8, ThreadStep(t)
    PROVE  Failing' \/ Circle'
<1>1. /\ t \in 1..3 /\ t \in Thread /\ t \notin blocked /\ at[t] \in Nat \ {0} /\ t # 0
      /\ at'[0] = at[0] /\ Barrier(t) \in 2..3
  BY Sem1Team
<1>2. at \in [Thread -> Nat]
  BY DEF ThreadsPlaced
<1>3. /\ at[0] >= 12 /\ Len(units) = 4 /\ units[2] = 0 /\ units[3] = 0 /\ units[4] = 0
      /\ \A s \in 1..3 : at[s] = Barrier(s) \/ at[s] = Barrier(s) + 1
  BY DEF Circle
<1>4. ASSUME at'[t] = Barrier(t) \/ at'[t] = Barrier(t) + 1,
             \A s \in Thread \ {t} : at'[s] = at[s],
             Len(units') = 4, \A q \in 1..3 : units'[q + 1] = units[q + 1]
      PROVE  Circle'
  <2>1. \A s \in 1..3 : s # t => at'[s] = at[s]
    BY <1>4 DEF Thread
  <2>2. \A s \in 1..3 : at'[s] = Barrier(s) \/ at'[s] = Barrier(s) + 1
    BY <1>3, <1>4, <2>1
  <2>3. units'[1 + 1] = units[1 + 1] /\ units'[2 + 1] = units[2 + 1] /\ units'[3 + 1] = units[3 + 1]
    BY <1>4
  <2>4. QED
    BY <1>1, <1>3, <1>4, <2>2, <2>3 DEF Circle, Barrier
<1>5. CASE at[t] = Barrier(t)
  <2>1. Instruction(t) = <<"down", 0, 1>>
    BY <1>1, <1>5, Sem1At
  <2>2. Grabs(t, 0) \/ Waits(t, 0) \/ Refuses(t, 0, 1)
    <3>1. 0 \in Kinds \cap Nat /\ 0 < Len(units) /\ 1 \in Nat
      BY <1>3, Sem1Kinds
    <3>2. QED
      BY <1>1, <1>2, <2>1, <3>1, WatchedDown
  <2>3. CASE Grabs(t, 0)
    <3>1. UnitsBy(0, -1) /\ GoesBy(t, 1)
      BY <2>3 DEF Grabs
    <3>2. at'[t] = Barrier(t) + 1 /\ \A s \in Thread \ {t} : at'[s] = at[s]
      BY <1>5, <3>1 DEF GoesBy
    <3>3. Len(units') = 4 /\ \A q \in 1..3 : units'[q + 1] = units[q + 1]
      <4>1. Len(units') = Len(units) /\ \A q \in Nat : q < Len(units) /\ q # 0 => units'[q + 1] = units[q + 1]
        BY <3>1 DEF UnitsBy
      <4>2. Len(units) = 4
        BY <1>3
      <4>3. ASSUME NEW q \in 1..3 PROVE units'[q + 1] = units[q + 1]
        BY <4>1, <4>2
      <4>4. QED
        BY <4>1, <4>2, <4>3
    <3>4. QED
      BY <1>4, <3>2, <3>3
  <2>4. CASE Waits(t, 0)
    BY <1>3, <1>4, <1>5, <2>4 DEF Waits
  <2>5. CASE Refuses(t, 0, 1)
    <3>1. GoesBy(t, 1) /\ units' = units
      BY <2>5 DEF Refuses
    <3>2. at'[t] = Barrier(t) + 1 /\ \A s \in Thread \ {t} : at'[s] = at[s]
      BY <1>5, <3>1 DEF GoesBy
    <3>3. QED
      BY <1>3, <1>4, <3>1, <3>2
  <2>6. QED
    BY <2>2, <2>3, <2>4, <2>5
<1>6. CASE at[t] = Barrier(t) + 1
  <2> DEFINE r == Sem1Request[t]
             n == Late(t) - Barrier(t) - 1
  <2>1. Instruction(t) = <<"down", r, n>>
    BY <1>1, <1>6, Sem1At
  <2>2. r \in 1..3 /\ r \in Kinds \cap Nat
    <3>1. r = 1 \/ r = 2 \/ r = 3
      BY <1>1 DEF Sem1Request
    <3>2. QED
      BY <3>1, Sem1Kinds
  <2>3. n \in Nat \ {0} /\ Late(t) = Barrier(t) + 1 + n
    BY Sem1Team
  <2> HIDE DEF r, n
  <2>4. r < Len(units) /\ ~(Free(r) > 0)
    <3>1. r = 1 \/ r = 2 \/ r = 3
      BY <2>2
    <3>2. QED
      BY <1>3, <3>1 DEF Free
  <2>5. Grabs(t, r) \/ Waits(t, r) \/ Refuses(t, r, n)
    BY <1>1, <1>2, <2>1, <2>2, <2>3, <2>4, WatchedDown
  <2>6. CASE Waits(t, r)
    BY <1>3, <1>4, <1>6, <2>6 DEF Waits
  <2>7. CASE Refuses(t, r, n)
    <3>1. at'[t] = at[t] + n
      BY <2>3, <2>7 DEF Refuses, GoesBy
    <3>2. at'[t] = Late(t)
      BY <1>6, <2>3, <3>1
    <3>3. at'[t] >= Late(t)
      BY <3>2 DEF Late
    <3>4. QED
      BY <1>1, <3>3 DEF Failing, Late
  <2>8. QED
    BY <2>4, <2>5, <2>6, <2>7 DEF Grabs
<1>7. QED
  BY <1>1, <1>3, <1>5, <1>6

LEMMA SharingTeam ==
    ASSUME ThreadsPlaced, WaitersPlaced, HeldTyped, InSem1, Sharing, units \in Seq(Nat),
           NEW t \in 1..8, ThreadStep(t)
    PROVE  Sharing'
<1>1. /\ t \in 1..3 /\ t \in Thread /\ t \notin blocked /\ at[t] \in Nat \ {0} /\ t # 0
      /\ at[0] \in 8..19 /\ at'[0] = at[0] /\ Barrier(t) \in 2..3
  BY Sem1Team
<1>2. at \in [Thread -> Nat]
  BY DEF ThreadsPlaced
<1>3. /\ Made1 /\ 0 \notin blocked /\ (at[0] > 2 => held[0][0] > 0)
      /\ \A s \in 1..3 : at[s] <= Barrier(s) /\ (s \in blocked => at[s] = Barrier(s))
  BY DEF Sharing
<1>4. at[0] \in 8..11 /\ Shares /\ held[0][0] > 0
  <2>1. at[0] > 2 /\ at[0] # 1 /\ at[0] \notin 2..5 /\ at[0] # 6 /\ at[0] # 7
    <3> DEFINE a == at[0]
    <3>1. a \in 8..19
      BY <1>1
    <3> HIDE DEF a
    <3>2. a > 2 /\ a # 1 /\ a \notin 2..5 /\ a # 6 /\ a # 7
      BY <3>1
    <3>3. QED
      BY <3>2 DEF a
  <2>2. QED
    BY <1>3, <2>1 DEF Made1
<1>5. Len(units) = 4 /\ units[1] = 0
  BY <1>4 DEF Shares
<1>6. ASSUME Shares', held'[0][0] = held[0][0], at'[t] <= Barrier(t),
             \A s \in Thread \ {t} : at'[s] = at[s],
             blocked' = blocked \/ (blocked' = blocked \cup {t} /\ at'[t] = Barrier(t))
      PROVE  Sharing'
  <2>1. Made1'
    BY <1>1, <1>4, <1>6 DEF Made1
  <2>2. 0 \notin blocked' /\ held'[0][0] > 0
    BY <1>1, <1>3, <1>4, <1>6
  <2>3. \A s \in 1..3 : s # t => at'[s] = at[s]
    BY <1>6 DEF Thread
  <2>4. \A s \in 1..3 : at'[s] <= Barrier(s) /\ (s \in blocked' => at'[s] = Barrier(s))
    BY <1>1, <1>3, <1>6, <2>3
  <2>5. QED
    BY <2>1, <2>2, <2>4 DEF Sharing, Barrier
<1>7. CASE at[t] < Barrier(t)
  <2> DEFINE r == Sem1Alloc[t][at[t]]
  <2>1. Instruction(t) = <<"down", r, 0>>
    BY <1>1, <1>7, Sem1At
  <2>2. /\ r \in Kinds \cap Nat /\ r \in 1..3 /\ r < Len(units) /\ Free(r) > 0
        /\ UnitsBy(r, -1) /\ GoesBy(t, 1) => Shares'
    BY <1>1, <1>4, <1>7, ShareThere
  <2> HIDE DEF r
  <2>3. Grabs(t, r) \/ Waits(t, r) \/ Refuses(t, r, 0)
    BY <1>1, <1>2, <2>1, <2>2, WatchedDown
  <2>4. Free(r) # 0
    BY <2>2
  <2>5. Grabs(t, r)
    BY <2>3, <2>4 DEF Waits, Refuses
  <2>6. UnitsBy(r, -1) /\ GoesBy(t, 1) /\ HeldBut(held, held', t, r) /\ blocked' = blocked
    BY <2>5 DEF Grabs
  <2>7. held'[0][0] = held[0][0]
    <3>1. 0 \in Thread /\ 0 \in Kinds /\ <<0, 0>> # <<t, r>>
      BY <1>1, Sem1Kinds DEF Thread
    <3>2. QED
      BY <2>6, <3>1 DEF HeldBut
  <2>8. at'[t] = at[t] + 1 /\ \A s \in Thread \ {t} : at'[s] = at[s]
    BY <2>6 DEF GoesBy
  <2>9. at'[t] <= Barrier(t)
    BY <1>1, <1>7, <2>8
  <2>10. QED
    BY <1>6, <2>2, <2>6, <2>7, <2>8, <2>9
<1>8. CASE at[t] = Barrier(t)
  <2>1. Instruction(t) = <<"down", 0, 1>> /\ Instruction(t)[2] = 0
    BY <1>1, <1>8, Sem1At
  <2>2. Grabs(t, 0) \/ Waits(t, 0) \/ Refuses(t, 0, 1)
    BY <1>1, <1>2, <1>5, <2>1, WatchedDown, Sem1Kinds
  <2>3. ~(Free(0) > 0)
    BY <1>5 DEF Free
  <2>4. ~Deadlocks(t)
    <3>1. SUFFICES ASSUME NEW D \in SUBSET (blocked \cup {t}), t \in D,
                          \A h \in Thread : held[h][Instruction(t)[2]] > 0 => h \in D
                   PROVE  FALSE
      BY DEF Deadlocks
    <3>2. 0 \in D
      BY <1>4, <2>1, <3>1 DEF Thread
    <3>3. QED
      BY <1>1, <1>3, <3>2
  <2>5. Waits(t, 0)
    BY <2>2, <2>3, <2>4 DEF Grabs, Refuses
  <2>6. UNCHANGED <<at, units, held>> /\ blocked' = blocked \cup {t}
    BY <2>5 DEF Waits
  <2>7. Shares'
    BY <1>4, <2>6 DEF Shares
  <2>8. at'[t] <= Barrier(t)
    BY <1>1, <1>8, <2>6
  <2>9. QED
    BY <1>6, <1>8, <2>6, <2>7, <2>8
<1>9. QED
  BY <1>1, <1>3, <1>7, <1>8

(* No thread ends while it can still take part in the circle, except by a  *)
(* panic.                                                                  *)
LEMMA Sem1Ends ==
    ASSUME ThreadsPlaced, WaitersPlaced, EndCodes, InSem1, NEW u \in 1..3, u \in exited
    PROVE  /\ at[u] \in Nat \ {0} /\ at[u] # Barrier(u) /\ at[u] # Barrier(u) + 1
           /\ at[u] < Barrier(u) => exit_code[u] # 0
           /\ at[u] >= Late(u) => exit_code[u] # 0
<1>1. at[u] > 0 /\ EndsThread(Instruction(u)) /\ u \in 1..8
  BY DEF WaitersPlaced
<1>2. at[u] \in Nat \ {0} /\ exit_code[u] = EndCode(Instruction(u))
  BY <1>1, Sem1At DEF EndCodes
<1>3. at[u] # Barrier(u)
  <2>1. at[u] = Barrier(u) => Instruction(u) = <<"down", 0, 1>>
    BY <1>1, Sem1At
  <2>2. QED
    BY <1>1, <2>1 DEF EndsThread
<1>4. at[u] # Barrier(u) + 1
  <2> DEFINE n == Late(u) - Barrier(u) - 1
  <2>1. at[u] = Barrier(u) + 1 => Instruction(u) = <<"down", Sem1Request[u], n>>
    BY <1>1, Sem1At
  <2>2. n # 0
    BY DEF Late, Barrier
  <2> HIDE DEF n
  <2>3. QED
    BY <1>1, <2>1, <2>2 DEF EndsThread
<1>5. at[u] < Barrier(u) => exit_code[u] # 0
  <2>1. at[u] < Barrier(u) => Instruction(u) = <<"down", Sem1Alloc[u][at[u]], 0>>
    BY <1>1, Sem1At
  <2>2. QED
    BY <1>2, <2>1 DEF EndCode
<1>6. at[u] >= Late(u) => exit_code[u] # 0
  <2>1. at[u] >= Late(u) => Instruction(u) = <<"exit", -1>>
    BY <1>1, Sem1At DEF Exit
  <2>2. QED
    BY <1>2, <2>1 DEF EndCode
<1>7. QED
  BY <1>2, <1>3, <1>4, <1>5, <1>6

(* When main looks at the exit codes, one of them is not 0.                *)
LEMMA Sem1Unhurt ==
    ASSUME ThreadsPlaced, WaitersPlaced, EndCodes, InSem1, Sem1Inv, EndsThread(Instruction(0))
    PROVE  MainUnhurt
<1>1. at[0] \in 1..19
  BY Sem1Main
<1>2. at[0] = 18 \/ at[0] = 19
  <2>1. CASE at[0] \in 1..7
    <3>1. at[0] = 1 \/ at[0] \in 2..4 \/ at[0] = 5 \/ at[0] = 6 \/ at[0] = 7
      BY <2>1
    <3>2. QED
      BY <3>1, Sem1Main DEF EndsThread, Create, Down
  <2>2. CASE at[0] \in 8..17
    <3>1. at[0] \in 8..10 \/ at[0] = 11 \/ at[0] \in 12..14 \/ at[0] \in 15..17
      BY <2>2
    <3>2. QED
      BY <3>1, Sem1Main DEF EndsThread, Start, Outlast, Up, Join
  <2>3. QED
    BY <1>1, <2>1, <2>2
<1>3. CASE at[0] = 19
  BY <1>3, Sem1Main DEF MainUnhurt
<1>4. CASE at[0] = 18
  <2>1. Instruction(0)[1] = "assert" /\ Instruction(0)[2] = "some_failed"
    BY <1>4, Sem1Main DEF Check
  <2>2. ASSUME NEW k \in 1..3 PROVE k \in exited
    <3>1. at[0] > 14 + k
      BY <1>4
    <3>2. QED
      BY <3>1 DEF Sem1Inv, Joined
  <2>3. \E u \in exited : exit_code[u] # 0
    <3>1. CASE Failing
      <4>1. PICK u \in 1..3 : at[u] >= Late(u) \/ (u \in exited /\ exit_code[u] # 0)
        BY <3>1 DEF Failing
      <4>2. u \in exited /\ exit_code[u] # 0
        BY <2>2, <4>1, Sem1Ends
      <4>3. QED
        BY <4>2
    <3>2. 1 \in 1..3 /\ 1 \in exited
      BY <2>2
    <3>3. CASE Sharing
      <4>1. at[1] <= Barrier(1) /\ at[1] # Barrier(1) /\ at[1] \in Nat
        BY <3>2, <3>3, Sem1Ends DEF Sharing
      <4>2. at[1] < Barrier(1)
        BY <4>1 DEF Barrier
      <4>3. QED
        BY <3>2, <4>2, Sem1Ends
    <3>4. CASE Circle
      <4>1. at[1] = Barrier(1) \/ at[1] = Barrier(1) + 1
        BY <3>2, <3>4 DEF Circle
      <4>2. QED
        BY <3>2, <4>1, Sem1Ends
    <3>5. QED
      BY <3>1, <3>3, <3>4 DEF Sem1Inv
  <2>4. QED
    BY <2>1, <2>3 DEF MainUnhurt, ThreadClaim
<1>5. QED
  BY <1>2, <1>3, <1>4

LEMMA CircleMain ==
    ASSUME ThreadsPlaced, WaitersPlaced, HeldTyped, InSem1, Circle, units \in Seq(Nat), ThreadStep(0)
    PROVE  Circle'
<1>1. 0 \in Thread /\ at \in [Thread -> Nat] /\ 0 \notin blocked
  <2>1. 0 \in Thread /\ at \in [Thread -> Nat]
    BY DEF ThreadsPlaced, Thread
  <2>2. QED
    BY <2>1, StepKinds
<1>2. /\ at[0] >= 12 /\ Len(units) = 4 /\ units[2] = 0 /\ units[3] = 0 /\ units[4] = 0
      /\ \A s \in 1..3 : at[s] = Barrier(s) \/ at[s] = Barrier(s) + 1
  BY DEF Circle
<1>3. at'[0] >= 12
  <2>1. at[0] \in Nat
    BY MainByOne, <1>1
  <2>2. at'[0] = at[0] \/ at'[0] = at[0] + 1
    BY MainByOne, <1>1
  <2>3. QED
    BY <1>2, <2>1, <2>2
<1>4. at[0] \in 12..19
  <2>1. at[0] \in 1..19
    BY Sem1Main
  <2>2. QED
    BY <1>2, <2>1
<1>5. ASSUME units' = units, \A s \in 1..3 : at'[s] = at[s] PROVE Circle'
  BY <1>2, <1>3, <1>5 DEF Circle, Barrier
<1>6. ASSUME GoesBy(0, 1) PROVE \A s \in 1..3 : at'[s] = at[s]
  <2>1. \A s \in 1..3 : s \in Thread \ {0}
    BY DEF Thread
  <2>2. QED
    BY <1>6, <2>1 DEF GoesBy
<1>7. CASE at[0] \in 12..14
  <2>1. Instruction(0) = Up(0)
    BY <1>7, Sem1Main
  <2>2. 0 \in Kinds \cap Nat /\ 0 < Len(units)
    BY <1>2, Sem1Kinds
  <2>3. Returns(0, 0) \/ \E u \in blocked : Delivers(0, 0, u)
    BY <1>1, <2>1, <2>2, WatchedUp
  <2>4. CASE Returns(0, 0)
    <3>1. UnitsBy(0, 1) /\ GoesBy(0, 1)
      BY <2>4 DEF Returns
    <3>2. Len(units') = Len(units) /\ \A q \in Nat : q < Len(units) /\ q # 0 => units'[q + 1] = units[q + 1]
      BY <3>1 DEF UnitsBy
    <3>3. Len(units') = 4 /\ units'[1 + 1] = units[1 + 1] /\ units'[2 + 1] = units[2 + 1] /\ units'[3 + 1] = units[3 + 1]
      <4>1. Len(units) = 4
        BY <1>2
      <4>2. \A q \in {1, 2, 3} : q \in Nat /\ q < Len(units) /\ q # 0
        BY <4>1
      <4>3. \A q \in {1, 2, 3} : units'[q + 1] = units[q + 1]
        BY <3>2, <4>2
      <4>4. QED
        BY <3>2, <4>1, <4>3
    <3>4. units'[2] = 0 /\ units'[3] = 0 /\ units'[4] = 0
      BY <1>2, <3>3
    <3>5. \A s \in 1..3 : at'[s] = at[s]
      BY <1>6, <3>1
    <3>6. QED
      BY <1>2, <1>3, <3>3, <3>4, <3>5 DEF Circle, Barrier
  <2>5. ASSUME NEW u \in blocked, Delivers(0, 0, u) PROVE Circle'
    <3>1. /\ u \in Thread /\ u # 0 /\ at[u] > 0 /\ Instruction(u)[2] = 0 /\ units' = units
          /\ at'[u] = at[u] + 1 /\ \A s \in Thread \ {0, u} : at'[s] = at[s]
      BY <2>5 DEF Delivers
    <3>2. u \in 1..8
      BY <3>1 DEF Thread
    <3>3. u \in 1..3
      BY <3>1, <3>2, Sem1At
    <3>4. at[u] = Barrier(u)
      <4> DEFINE n == Late(u) - Barrier(u) - 1
      <4>1. at[u] = Barrier(u) + 1 => Instruction(u) = <<"down", Sem1Request[u], n>>
        BY <3>1, <3>2, Sem1At
      <4>2. Sem1Request[u] # 0
        <5>1. u = 1 \/ u = 2 \/ u = 3
          BY <3>3
        <5>2. QED
          BY <5>1 DEF Sem1Request
      <4> HIDE DEF n
      <4>3. at[u] # Barrier(u) + 1
        BY <3>1, <4>1, <4>2
      <4>4. QED
        BY <1>2, <3>3, <4>3
    <3>5. at'[u] = Barrier(u) + 1
      BY <3>1, <3>4
    <3>6. \A s \in 1..3 : s # u => at'[s] = at[s]
      BY <3>1 DEF Thread
    <3>7. \A s \in 1..3 : at'[s] = Barrier(s) \/ at'[s] = Barrier(s) + 1
      BY <1>2, <3>5, <3>6
    <3>8. QED
      BY <1>2, <1>3, <3>1, <3>7 DEF Circle, Barrier
  <2>6. QED
    BY <2>3, <2>4, <2>5
<1>8. CASE at[0] \in 15..17
  <2>1. Instruction(0) = Join(at[0] - 14)
    BY <1>8, Sem1Main
  <2>2. GoesBy(0, 1) /\ units' = units
    BY <2>1, MainJoins
  <2>3. QED
    BY <1>5, <1>6, <2>2
<1>9. CASE at[0] = 18 \/ at[0] = 19
  <2>1. Instruction(0) = Check("some_failed", 0) \/ Instruction(0) = Exit(0)
    BY <1>9, Sem1Main
  <2>2. (\A s \in 1..8 : at'[s] = at[s]) /\ units' = units
    BY <2>1, MainFinishes
  <2>3. QED
    BY <1>5, <2>2
<1>10. QED
  BY <1>4, <1>7, <1>8, <1>9

(* Main wakes up once every thread has its share or has failed.            *)
LEMMA Sem1Wakes ==
    ASSUME ThreadsPlaced, WaitersPlaced, EndCodes, InSem1, Sharing, at[0] = 11, ThreadStep(0)
    PROVE  Failing' \/ Circle'
<1>1. Instruction(0) = Outlast(1..3)
  BY Sem1Main
<1>2. GoesBy(0, 1) /\ Apart /\ units' = units /\ \A u \in 1..3 : Settled(u)
  BY <1>1, MainSleeps
<1>3. \A s \in 1..3 : at'[s] = at[s]
  <2>1. \A s \in 1..3 : s \in Thread \ {0}
    BY DEF Thread
  <2>2. QED
    BY <1>2, <2>1 DEF GoesBy
<1>4. \A u \in 1..3 : u \in exited \/ u \in blocked
  <2> SUFFICES ASSUME NEW u \in 1..3 PROVE u \in exited \/ u \in blocked
    OBVIOUS
  <2>1. u \in exited \cup blocked \cup asleep \/ (at[u] > 0 /\ Instruction(u)[1] = "join")
    BY <1>2 DEF Settled
  <2>2. asleep = {} /\ (at[u] > 0 => Instruction(u)[1] \in Calls)
    BY SemAwake
  <2>3. QED
    BY <2>1, <2>2 DEF Calls
<1>5. CASE \E u \in 1..3 : u \in exited
  <2>1. PICK u \in 1..3 : u \in exited
    BY <1>5
  <2>2. at[u] \in Nat /\ at[u] <= Barrier(u) /\ at[u] # Barrier(u)
    BY <2>1, Sem1Ends DEF Sharing
  <2>3. at[u] < Barrier(u)
    BY <2>2 DEF Barrier
  <2>4. exit_code[u] # 0
    BY <2>1, <2>3, Sem1Ends
  <2>5. exited' = exited /\ exit_code' = exit_code
    BY <1>2 DEF Apart
  <2>6. QED
    BY <2>1, <2>4, <2>5 DEF Failing
<1>6. CASE \A u \in 1..3 : u \notin exited
  <2>1. \A u \in 1..3 : at[u] = Barrier(u)
    BY <1>4, <1>6 DEF Sharing
  <2>2. at[1] = 2 /\ at[2] = 3 /\ at[3] = 2
    BY <2>1 DEF Barrier
  <2>3. Shares
    BY DEF Sharing, Made1
  <2>4. Once(at[2] >= 2) = 1 /\ Once(at[1] >= 2) = 1 /\ Once(at[2] >= 3) = 1 /\ Once(at[3] >= 2) = 1
    BY <2>2 DEF Once
  <2>5. Len(units) = 4 /\ units[2] = 0 /\ units[3] = 0 /\ units[4] = 0
    BY <2>3, <2>4 DEF Shares
  <2>6. at'[0] = 12
    BY <1>2 DEF GoesBy
  <2>7. \A u \in 1..3 : at'[u] = Barrier(u)
    BY <1>3, <2>1
  <2>8. QED
    BY <1>2, <2>5, <2>6, <2>7 DEF Circle, Barrier
<1>7. QED
  BY <1>5, <1>6

LEMMA SharingMain ==
    ASSUME ThreadsPlaced, WaitersPlaced, HeldTyped, InSem1, Sharing, at[0] < 11,
           units \in Seq(Nat), ThreadStep(0)
    PROVE  Sharing'
<1>1. 0 \in Thread /\ at \in [Thread -> Nat]
  BY DEF ThreadsPlaced, Thread
<1>2. /\ Made1 /\ 0 \notin blocked /\ (at[0] > 2 => held[0][0] > 0)
      /\ \A s \in 1..3 : at[s] <= Barrier(s) /\ (s \in blocked => at[s] = Barrier(s))
  BY DEF Sharing
<1>3. at[0] \in 1..10
  <2>1. at[0] \in 1..19
    BY Sem1Main
  <2>2. QED
    BY <2>1
<1>4. \A s \in 1..3 : at[s] \in Nat /\ (~(at[0] > 7 + s) => at[s] = 0)
  <2> SUFFICES ASSUME NEW s \in 1..3 PROVE at[s] \in Nat /\ (~(at[0] > 7 + s) => at[s] = 0)
    OBVIOUS
  <2>1. s \in Thread /\ s \in 1..8
    BY DEF Thread
  <2>2. at[s] \in Nat
    BY <1>1, <2>1
  <2>3. at[s] > 0 => at[0] > 7 + s
    BY <2>1, Sem1Main
  <2>4. QED
    BY <2>2, <2>3
<1>5. ASSUME GoesBy(0, 1) PROVE at'[0] = at[0] + 1 /\ \A s \in 1..3 : at'[s] = at[s]
  <2>1. \A s \in 1..3 : s \in Thread \ {0}
    BY DEF Thread
  <2>2. QED
    BY <1>5, <2>1 DEF GoesBy
<1>6. ASSUME Made1', GoesBy(0, 1), blocked' = blocked, at[0] >= 2 => held'[0][0] > 0
      PROVE  Sharing'
  <2>1. at'[0] > 2 => held'[0][0] > 0
    BY <1>3, <1>5, <1>6
  <2>2. \A s \in 1..3 : at'[s] <= Barrier(s) /\ (s \in blocked' => at'[s] = Barrier(s))
    BY <1>2, <1>5, <1>6
  <2>3. QED
    BY <1>2, <1>6, <2>1, <2>2 DEF Sharing, Barrier
<1>7. CASE at[0] = 1
  <2>1. Instruction(0) = Create(3) /\ 3 \in Nat
    BY <1>7, Sem1Main
  <2>2. /\ GoesBy(0, 1) /\ Apart
        /\ Len(units') = Len(units) + 1 /\ units'[Len(units) + 1] = 3
    BY <2>1, MainCreates
  <2>3. Len(units) = 0
    BY <1>2, <1>7 DEF Made1
  <2>4. Len(units') = 1 /\ units'[1] = 3 /\ at'[0] = 2
    BY <1>5, <1>7, <2>2, <2>3
  <2>5. Made1'
    BY <2>4 DEF Made1
  <2>6. ~(at[0] >= 2) /\ blocked' = blocked
    BY <1>7, <2>2 DEF Apart
  <2>7. QED
    BY <1>6, <2>2, <2>5, <2>6
<1>8. CASE at[0] \in 2..4
  <2>1. Instruction(0) = <<"down", 0, 1>>
    BY <1>8, Sem1Main DEF Down
  <2>2. Len(units) = 1 /\ units[1] = 5 - at[0]
    <3>1. at[0] = 2 \/ at[0] = 3 \/ at[0] = 4
      BY <1>8
    <3>2. QED
      BY <1>2, <3>1 DEF Made1
  <2>3. 0 \in Kinds \cap Nat /\ 0 < Len(units) /\ 1 \in Nat
    BY <2>2, Sem1Kinds
  <2>4. Grabs(0, 0) \/ Waits(0, 0) \/ Refuses(0, 0, 1)
    BY <1>1, <2>1, <2>3, WatchedDown
  <2>5. Free(0) # 0
    BY <1>8, <2>2 DEF Free
  <2>6. Grabs(0, 0)
    BY <2>4, <2>5 DEF Waits, Refuses
  <2>7. /\ UnitsBy(0, -1) /\ GoesBy(0, 1) /\ held[0][0] \in Nat /\ held'[0][0] = held[0][0] + 1
        /\ blocked' = blocked
    BY <2>6 DEF Grabs
  <2>8. Len(units') = 1 /\ units'[1] = units[1] + (-1)
    BY <2>2, <2>7 DEF UnitsBy
  <2>9. at'[0] = at[0] + 1
    BY <1>5, <2>7
  <2>10. at'[0] \in 2..5 /\ units'[1] = 5 - at'[0]
    BY <1>8, <2>2, <2>8, <2>9
  <2>11. Made1'
    BY <2>8, <2>10 DEF Made1
  <2>12. held'[0][0] > 0
    BY <2>7
  <2>13. QED
    BY <1>6, <2>7, <2>11, <2>12
<1>9. ASSUME at[0] \in 5..10 PROVE held[0][0] > 0
  BY <1>2, <1>9
<1>10. CASE at[0] = 5
  <2>1. Instruction(0) = Create(1) /\ 1 \in Nat
    BY <1>10, Sem1Main
  <2>2. /\ GoesBy(0, 1) /\ Apart
        /\ Len(units') = Len(units) + 1 /\ units'[Len(units) + 1] = 1
        /\ \A i \in 1..Len(units) : units'[i] = units[i]
    BY <2>1, MainCreates
  <2>3. Len(units) = 1 /\ units[1] = 0
    BY <1>2, <1>10 DEF Made1
  <2>4. Len(units') = 2 /\ units'[1] = 0 /\ units'[2] = 1 /\ at'[0] = 6
    BY <1>5, <1>10, <2>2, <2>3
  <2>5. Made1'
    BY <2>4 DEF Made1
  <2>6. held'[0][0] > 0 /\ blocked' = blocked
    BY <1>9, <1>10, <2>2 DEF Apart
  <2>7. QED
    BY <1>6, <2>2, <2>5, <2>6
<1>11. CASE at[0] = 6
  <2>1. Instruction(0) = Create(2) /\ 2 \in Nat
    BY <1>11, Sem1Main
  <2>2. /\ GoesBy(0, 1) /\ Apart
        /\ Len(units') = Len(units) + 1 /\ units'[Len(units) + 1] = 2
        /\ \A i \in 1..Len(units) : units'[i] = units[i]
    BY <2>1, MainCreates
  <2>3. Len(units) = 2 /\ units[1] = 0 /\ units[2] = 1
    BY <1>2, <1>11 DEF Made1
  <2>4. Len(units') = 3 /\ units'[1] = 0 /\ units'[2] = 1 /\ units'[3] = 2 /\ at'[0] = 7
    BY <1>5, <1>11, <2>2, <2>3
  <2>5. Made1'
    BY <2>4 DEF Made1
  <2>6. held'[0][0] > 0 /\ blocked' = blocked
    BY <1>9, <1>11, <2>2 DEF Apart
  <2>7. QED
    BY <1>6, <2>2, <2>5, <2>6
<1>12. CASE at[0] = 7
  <2>1. Instruction(0) = Create(1) /\ 1 \in Nat
    BY <1>12, Sem1Main
  <2>2. /\ GoesBy(0, 1) /\ Apart
        /\ Len(units') = Len(units) + 1 /\ units'[Len(units) + 1] = 1
        /\ \A i \in 1..Len(units) : units'[i] = units[i]
    BY <2>1, MainCreates
  <2>3. Len(units) = 3 /\ units[1] = 0 /\ units[2] = 1 /\ units[3] = 2
    BY <1>2, <1>12 DEF Made1
  <2>4. /\ Len(units') = 4 /\ units'[1] = 0 /\ units'[2] = 1 /\ units'[3] = 2 /\ units'[4] = 1
        /\ at'[0] = 8
    BY <1>5, <1>12, <2>2, <2>3
  <2>5. at'[1] = 0 /\ at'[2] = 0 /\ at'[3] = 0
    BY <1>4, <1>5, <1>12, <2>2
  <2>6. Shares'
    <3>1. Once(at'[2] >= 2) = 0 /\ Once(at'[1] >= 2) = 0 /\ Once(at'[2] >= 3) = 0 /\ Once(at'[3] >= 2) = 0
      BY <2>5 DEF Once
    <3>2. QED
      BY <2>4, <3>1 DEF Shares
  <2>7. Made1'
    BY <2>4, <2>6 DEF Made1
  <2>8. held'[0][0] > 0 /\ blocked' = blocked
    BY <1>9, <1>12, <2>2 DEF Apart
  <2>9. QED
    BY <1>6, <2>2, <2>7, <2>8
<1>13. CASE at[0] \in 8..10
  <2> DEFINE k == at[0] - 7
  <2>1. k \in 1..3 /\ k \in 1..8
    BY <1>13
  <2>2. Instruction(0) = Start(k)
    BY <1>13, Sem1Main
  <2> HIDE DEF k
  <2>3. /\ at[k] = 0 /\ at'[k] = 1 /\ at'[0] = at[0] + 1
        /\ \A s \in 1..8 : s # k => at'[s] = at[s]
        /\ Apart /\ units' = units
    BY <2>1, <2>2, MainStarts
  <2>4. Shares
    <3> DEFINE a == at[0]
    <3>1. a \in 8..10
      BY <1>13
    <3> HIDE DEF a
    <3>2. a # 1 /\ a \notin 2..5 /\ a # 6 /\ a # 7
      BY <3>1
    <3>3. QED
      BY <1>2, <3>2 DEF Made1, a
  <2>5. \A s \in 1..3 : at'[s] = at[s] \/ (at[s] = 0 /\ at'[s] = 1)
    BY <2>1, <2>3
  <2>6. \A s \in 1..3 : (at'[s] >= 2) = (at[s] >= 2) /\ (at'[s] >= 3) = (at[s] >= 3)
    BY <1>4, <2>5
  <2>7. Shares'
    BY <2>3, <2>4, <2>6 DEF Shares
  <2>8. at'[0] \in 8..11
    BY <1>13, <2>3
  <2>9. Made1'
    BY <2>7, <2>8 DEF Made1
  <2>10. held'[0][0] > 0 /\ blocked' = blocked
    <3>1. at[0] \in 5..10
      BY <1>13
    <3>2. QED
      BY <1>9, <2>3, <3>1 DEF Apart
  <2>11. \A s \in 1..3 : at'[s] <= Barrier(s) /\ (s \in blocked' => at'[s] = Barrier(s))
    <3> SUFFICES ASSUME NEW s \in 1..3
                 PROVE  at'[s] <= Barrier(s) /\ (s \in blocked' => at'[s] = Barrier(s))
      OBVIOUS
    <3>1. Barrier(s) \in 2..3
      BY DEF Barrier
    <3>2. QED
      BY <1>2, <2>5, <2>10, <3>1
  <2>12. QED
    BY <1>2, <2>9, <2>10, <2>11 DEF Sharing, Barrier
<1>14. at[0] = 1 \/ at[0] \in 2..4 \/ at[0] = 5 \/ at[0] = 6 \/ at[0] = 7 \/ at[0] \in 8..10
  BY <1>3
<1>15. QED
  BY <1>7, <1>8, <1>10, <1>11, <1>12, <1>13, <1>14

LEMMA Sem1Step ==
    ASSUME ThreadsPlaced, WaitersPlaced, HeldTyped, EndCodes, exit_code \in [Thread -> -1..3],
           units \in Seq(Nat), InSem1, Sem1Inv, NEW t \in Thread, ThreadStep(t)
    PROVE  Sem1Inv'
<1>1. Joined'
  BY JoinedStep DEF Sem1Inv
<1>2. t = 0 \/ t \in 1..8
  BY DEF Thread
<1>3. CASE Failing
  BY <1>1, <1>3, StaysFailing DEF Sem1Inv
<1>4. CASE Circle
  <2>1. CASE t = 0
    BY <1>1, <1>4, <2>1, CircleMain DEF Sem1Inv
  <2>2. CASE t \in 1..8
    BY <1>1, <1>4, <2>2, CircleTeam DEF Sem1Inv
  <2>3. QED
    BY <1>2, <2>1, <2>2
<1>5. CASE Sharing
  <2>1. CASE t = 0
    <3>1. at[0] < 11 \/ at[0] = 11
      <4>1. at[0] \in 1..19
        BY Sem1Main
      <4>2. Made1 => at[0] < 11 \/ at[0] = 11
        BY <4>1 DEF Made1
      <4>3. QED
        BY <1>5, <4>2 DEF Sharing
    <3>2. ThreadStep(0)
      BY <2>1
    <3>3. QED
      BY <1>1, <1>5, <3>1, <3>2, SharingMain, Sem1Wakes DEF Sem1Inv
  <2>2. CASE t \in 1..8
    BY <1>1, <1>5, <2>2, SharingTeam DEF Sem1Inv
  <2>3. QED
    BY <1>2, <2>1, <2>2
<1>6. QED
  BY <1>3, <1>4, <1>5 DEF Sem1Inv

-----------------------------------------------------------------------------
(*       ch8_deadlock_sem2: four threads, none of which may fail           *)

(* How many units of resource r thread t of sem2 has at i.                 *)
Had(t, i, r) ==
    Once(r = Sem2Alloc[t] /\ i \in 2 .. EndOf(t) - 1) + Once(r = Sem2Request[t] /\ i = 4)

Sum4(f) == f[1] + f[2] + f[3] + f[4]

HadOf(r) == [t \in 1..4 |-> Had(t, at[t], r)]

Pool == \A r \in 1..2 : units[r + 1] = 2 - Sum4(HadOf(r))

LEMMA Sum4One ==
    ASSUME NEW f \in [1..4 -> Int], NEW g \in [1..4 -> Int], NEW t \in 1..4, NEW d \in Int,
           g[t] = f[t] + d, \A s \in 1..4 : s # t => g[s] = f[s]
    PROVE  Sum4(g) = Sum4(f) + d /\ Sum4(f) \in Int
<1>1. /\ f[1] \in Int /\ f[2] \in Int /\ f[3] \in Int /\ f[4] \in Int
      /\ g[1] \in Int /\ g[2] \in Int /\ g[3] \in Int /\ g[4] \in Int
  OBVIOUS
<1>2. CASE t = 1
  BY <1>1, <1>2 DEF Sum4
<1>3. CASE t = 2
  BY <1>1, <1>3 DEF Sum4
<1>4. CASE t = 3
  BY <1>1, <1>4 DEF Sum4
<1>5. CASE t = 4
  BY <1>1, <1>5 DEF Sum4
<1>6. QED
  BY <1>2, <1>3, <1>4, <1>5

LEMMA HadType == \A r : HadOf(r) \in [1..4 -> Int] /\ \A t, i : Had(t, i, r) \in 0..2
<1>1. \A b : Once(b) \in 0..1
  BY DEF Once
<1>2. \A r, t, i : Had(t, i, r) \in 0..2
  <2> SUFFICES ASSUME NEW r, NEW t, NEW i PROVE Had(t, i, r) \in 0..2
    OBVIOUS
  <2> DEFINE a == Once(r = Sem2Alloc[t] /\ i \in 2 .. EndOf(t) - 1)
             b == Once(r = Sem2Request[t] /\ i = 4)
  <2>1. a \in 0..1 /\ b \in 0..1
    BY <1>1
  <2>2. Had(t, i, r) = a + b
    BY DEF Had
  <2> HIDE DEF a, b
  <2>3. QED
    BY <2>1, <2>2
<1>3. \A r : HadOf(r) \in [1..4 -> Int]
  <2> SUFFICES ASSUME NEW r PROVE HadOf(r) \in [1..4 -> Int]
    OBVIOUS
  <2>1. \A t \in 1..4 : Had(t, at[t], r) \in Int
    BY <1>2
  <2>2. QED
    BY <2>1 DEF HadOf
<1>4. QED
  BY <1>2, <1>3

(* The places where thread t has changed what it has.                      *)
LEMMA HadPlaces ==
    ASSUME NEW t \in 1..4, NEW r
    PROVE  /\ Had(t, 0, r) = 0 /\ Had(t, 1, r) = 0
           /\ Had(t, 2, r) = Once(r = Sem2Alloc[t]) /\ Had(t, 3, r) = Once(r = Sem2Alloc[t])
           /\ t \in {1, 3} => /\ Had(t, 4, r) = Once(r = Sem2Alloc[t]) + Once(r = Sem2Request[t])
                              /\ Had(t, 5, r) = Once(r = Sem2Alloc[t])
           /\ Had(t, EndOf(t) - 1, r) = Once(r = Sem2Alloc[t])
           /\ t \in {2, 4} /\ r # 0 => Had(t, 4, r) = 0
           /\ Had(t, 6, r) = 0
           /\ r # 0 => Had(t, EndOf(t), r) = 0
<1> DEFINE a(i) == Once(r = Sem2Alloc[t] /\ i \in 2 .. EndOf(t) - 1)
           b(i) == Once(r = Sem2Request[t] /\ i = 4)
<1>1. \A i : Had(t, i, r) = a(i) + b(i)
  BY DEF Had
<1>2. \A c : Once(c) \in Int
  BY DEF Once
<1>3. /\ b(0) = 0 /\ b(1) = 0 /\ b(2) = 0 /\ b(3) = 0 /\ b(5) = 0 /\ b(6) = 0
      /\ b(4) = Once(r = Sem2Request[t])
  BY DEF Once
<1>4. /\ a(0) = 0 /\ a(1) = 0 /\ a(6) = 0
      /\ a(2) = Once(r = Sem2Alloc[t]) /\ a(3) = Once(r = Sem2Alloc[t])
      /\ a(EndOf(t) - 1) = Once(r = Sem2Alloc[t]) /\ a(EndOf(t)) = 0
  <2>1. EndOf(t) = 4 \/ EndOf(t) = 6
    BY DEF EndOf
  <2>2. \A x : (r = Sem2Alloc[t] /\ x) = (IF x THEN r = Sem2Alloc[t] ELSE FALSE)
    OBVIOUS
  <2>3. /\ 0 \notin 2 .. EndOf(t) - 1 /\ 1 \notin 2 .. EndOf(t) - 1 /\ 6 \notin 2 .. EndOf(t) - 1
        /\ 2 \in 2 .. EndOf(t) - 1 /\ 3 \in 2 .. EndOf(t) - 1
        /\ EndOf(t) - 1 \in 2 .. EndOf(t) - 1 /\ EndOf(t) \notin 2 .. EndOf(t) - 1
    BY <2>1
  <2>4. QED
    BY <2>3 DEF Once
<1>5. t \in {1, 3} => a(4) = Once(r = Sem2Alloc[t]) /\ a(5) = Once(r = Sem2Alloc[t])
  <2>1. t \in {1, 3} => 4 \in 2 .. EndOf(t) - 1 /\ 5 \in 2 .. EndOf(t) - 1
    BY DEF EndOf
  <2>2. QED
    BY <2>1 DEF Once
<1>6. t \in {2, 4} /\ r # 0 => a(4) = 0 /\ b(4) = 0
  <2>1. t \in {2, 4} => 4 \notin 2 .. EndOf(t) - 1 /\ Sem2Request[t] = 0
    BY DEF EndOf, Sem2Request
  <2>2. QED
    BY <2>1 DEF Once
<1>7. (EndOf(t) - 1 = 3 \/ EndOf(t) - 1 = 5) /\ (EndOf(t) = 6 \/ (EndOf(t) = 4 /\ t \in {2, 4}))
  BY DEF EndOf
<1> HIDE DEF a, b
<1>8. b(EndOf(t) - 1) = 0 /\ (r # 0 => b(EndOf(t)) = 0)
  BY <1>3, <1>6, <1>7
<1>9. QED
  BY <1>1, <1>2, <1>3, <1>4, <1>5, <1>6, <1>8

(* Thread t has d units of r more after the step.                          *)
HasMore(t, r, d) ==
    \A q \in 1..2 : Had(t, at'[t], q) = Had(t, at[t], q) + (IF q = r THEN d ELSE 0)

Same4(T) == \A s \in 1..4 : s \notin T => at'[s] = at[s]

LEMMA HadMoves ==
    ASSUME NEW t \in 1..4, NEW r, NEW d \in Int, HasMore(t, r, d), Same4({t}), NEW q \in 1..2
    PROVE  /\ Sum4(HadOf(q)') = Sum4(HadOf(q)) + (IF q = r THEN d ELSE 0)
           /\ Sum4(HadOf(q)) \in Int
<1> DEFINE f == HadOf(q)
           g == [s \in 1..4 |-> Had(s, at'[s], q)]
           c == IF q = r THEN d ELSE 0
<1>1. f \in [1..4 -> Int] /\ c \in Int
  BY HadType
<1>2. g \in [1..4 -> Int]
  <2>1. \A s \in 1..4 : Had(s, at'[s], q) \in Int
    BY HadType
  <2>2. QED
    BY <2>1
<1>3. g[t] = f[t] + c
  BY DEF HasMore, HadOf
<1>4. \A s \in 1..4 : s # t => g[s] = f[s]
  BY DEF Same4, HadOf
<1>5. HadOf(q)' = g
  BY DEF HadOf, Had, Once
<1> HIDE DEF f, g, c
<1>6. Sum4(g) = Sum4(f) + c /\ Sum4(f) \in Int
  BY <1>1, <1>2, <1>3, <1>4, Sum4One
<1>7. QED
  BY <1>5, <1>6 DEF f, c

LEMMA HadPasses ==
    ASSUME NEW t \in 1..4, NEW u \in 1..4, t # u, NEW r, HasMore(t, r, -1), HasMore(u, r, 1),
           Same4({t, u}), NEW q \in 1..2
    PROVE  Sum4(HadOf(q)') = Sum4(HadOf(q))
<1> DEFINE f == HadOf(q)
           g == [s \in 1..4 |-> Had(s, at'[s], q)]
           c == IF q = r THEN 1 ELSE 0
           m == [f EXCEPT ![t] = g[t]]
<1>1. f \in [1..4 -> Int] /\ c \in Int /\ 0 - c \in Int
  BY HadType
<1>2. g \in [1..4 -> Int]
  <2>1. \A s \in 1..4 : Had(s, at'[s], q) \in Int
    BY HadType
  <2>2. QED
    BY <2>1
<1>3. g[t] = f[t] + (0 - c) /\ g[u] = f[u] + c
  BY DEF HasMore, HadOf
<1>4. \A s \in 1..4 : s # t /\ s # u => g[s] = f[s]
  BY DEF Same4, HadOf
<1>5. HadOf(q)' = g
  BY DEF HadOf, Had, Once
<1> HIDE DEF f, g, c
<1>6. m \in [1..4 -> Int] /\ m[t] = g[t] /\ \A s \in 1..4 : s # t => m[s] = f[s]
  BY <1>1, <1>2
<1> HIDE DEF m
<1>7. Sum4(m) = Sum4(f) + (0 - c) /\ Sum4(f) \in Int
  BY <1>1, <1>3, <1>6, Sum4One
<1>8. g[u] = m[u] + c /\ \A s \in 1..4 : s # u => g[s] = m[s]
  BY <1>3, <1>4, <1>6
<1>9. Sum4(g) = Sum4(m) + c
  BY <1>1, <1>2, <1>6, <1>8, Sum4One
<1>10. Sum4(g) = Sum4(f)
  BY <1>1, <1>7, <1>9
<1>11. QED
  BY <1>5, <1>10 DEF f

LEMMA PoolOne ==
    ASSUME Pool, NEW t \in 1..4, NEW r \in 1..2, NEW d \in Int, HasMore(t, r, d), Same4({t}),
           Len(units) = 3, NEW e \in Int, d + e = 0, UnitsBy(r, e)
    PROVE  Len(units') = 3 /\ Pool'
<1>1. /\ Len(units') = 3 /\ units'[r + 1] = units[r + 1] + e
      /\ \A q \in 1..2 : q # r => units'[q + 1] = units[q + 1]
  <2>1. /\ Len(units') = Len(units) /\ units'[r + 1] = units[r + 1] + e
        /\ \A q \in Nat : q < Len(units) /\ q # r => units'[q + 1] = units[q + 1]
    BY DEF UnitsBy
  <2>2. ASSUME NEW q \in 1..2, q # r PROVE units'[q + 1] = units[q + 1]
    BY <2>1, <2>2
  <2>3. QED
    BY <2>1, <2>2
<1>2. ASSUME NEW q \in 1..2 PROVE units'[q + 1] = 2 - Sum4(HadOf(q)')
  <2> DEFINE x == Sum4(HadOf(q))
             y == Sum4(HadOf(q)')
  <2>1. y = x + (IF q = r THEN d ELSE 0) /\ x \in Int
    BY HadMoves
  <2>2. units[q + 1] = 2 - x
    BY DEF Pool
  <2> HIDE DEF x, y
  <2>3. CASE q = r
    <3>1. units'[q + 1] = (2 - x) + e
      BY <1>1, <2>2, <2>3
    <3>2. (2 - x) + e = 2 - y
      BY <2>1, <2>3
    <3>3. QED
      BY <3>1, <3>2 DEF y
  <2>4. CASE q # r
    <3>1. y = x
      BY <2>1, <2>4
    <3>2. QED
      BY <1>1, <2>2, <2>4, <3>1 DEF y
  <2>5. QED
    BY <2>3, <2>4
<1>3. QED
  BY <1>1, <1>2 DEF Pool

LEMMA PoolPass ==
    ASSUME Pool, NEW t \in 1..4, NEW u \in 1..4, t # u, NEW r, HasMore(t, r, -1), HasMore(u, r, 1),
           Same4({t, u}), units' = units
    PROVE  Pool'
<1>1. ASSUME NEW q \in 1..2 PROVE units'[q + 1] = 2 - Sum4(HadOf(q)')
  <2>1. Sum4(HadOf(q)') = Sum4(HadOf(q))
    BY HadPasses
  <2>2. QED
    BY <2>1 DEF Pool
<1>2. QED
  BY <1>1 DEF Pool

LEMMA PoolSame ==
    ASSUME Pool, \A t \in 1..4, q \in 1..2 : Had(t, at'[t], q) = Had(t, at[t], q),
           \A q \in 1..2 : units'[q + 1] = units[q + 1]
    PROVE  Pool'
<1>1. ASSUME NEW q \in 1..2 PROVE units'[q + 1] = 2 - Sum4(HadOf(q)')
  <2>1. \A t \in 1..4 : Had(t, at'[t], q) = Had(t, at[t], q)
    OBVIOUS
  <2>2. HadOf(q)' = [t \in 1..4 |-> Had(t, at'[t], q)]
    BY DEF HadOf, Had, Once
  <2>3. HadOf(q)' = HadOf(q)
    BY <2>1, <2>2 DEF HadOf
  <2>4. QED
    BY <2>3 DEF Pool
<1>2. QED
  BY <1>1 DEF Pool

LEMMA Sem2Numbers ==
    ASSUME NEW t \in 1..4
    PROVE  /\ Sem2Alloc[t] \in 1..2 /\ Sem2Alloc[t] \in Kinds \cap Nat
           /\ (t = 1 => Sem2Alloc[t] = 2) /\ (t = 2 => Sem2Alloc[t] = 1)
           /\ (t = 3 => Sem2Alloc[t] = 1) /\ (t = 4 => Sem2Alloc[t] = 2)
           /\ (t = 1 => Sem2Request[t] = 1) /\ (t = 3 => Sem2Request[t] = 2)
           /\ t \in {1, 3} => Sem2Request[t] \in 1..2 /\ Sem2Request[t] \in Kinds \cap Nat
                              /\ Sem2Request[t] # Sem2Alloc[t]
<1>1. t = 1 \/ t = 2 \/ t = 3 \/ t = 4
  OBVIOUS
<1>2. QED
  BY <1>1, Sem1Kinds DEF Sem2Alloc, Sem2Request

LEMMA HadOnly ==
    ASSUME NEW t \in 1..4, NEW i, NEW r \in 1..2
    PROVE  /\ Had(t, i, r) \in 0..1
           /\ Had(t, i, r) # 0 => \/ r = Sem2Alloc[t] /\ i \in 2 .. EndOf(t) - 1
                                  \/ r = Sem2Request[t] /\ i = 4
<1> DEFINE a == r = Sem2Alloc[t] /\ i \in 2 .. EndOf(t) - 1
           b == r = Sem2Request[t] /\ i = 4
<1>1. ~(a /\ b)
  <2>1. Sem2Alloc[t] # Sem2Request[t]
    <3>1. t = 1 \/ t = 2 \/ t = 3 \/ t = 4
      OBVIOUS
    <3>2. QED
      BY <3>1 DEF Sem2Alloc, Sem2Request
  <2>2. QED
    BY <2>1
<1>2. Had(t, i, r) = Once(a) + Once(b)
  BY DEF Had
<1>3. a \in BOOLEAN /\ b \in BOOLEAN
  OBVIOUS
<1> HIDE DEF a, b
<1>4. (a => Once(a) = 1) /\ (~a => Once(a) = 0) /\ (b => Once(b) = 1) /\ (~b => Once(b) = 0)
  BY DEF Once
<1>5. Had(t, i, r) \in 0..1 /\ (Had(t, i, r) # 0 => a \/ b)
  <2>1. CASE a
    <3>1. Once(a) = 1 /\ Once(b) = 0
      BY <1>1, <1>4, <2>1, Zenon
    <3>2. Had(t, i, r) = 1
      BY <1>2, <3>1
    <3>3. QED
      BY <2>1, <3>2
  <2>2. CASE b
    <3>1. Once(a) = 0 /\ Once(b) = 1
      BY <1>1, <1>4, <2>2, Zenon
    <3>2. Had(t, i, r) = 1
      BY <1>2, <3>1
    <3>3. QED
      BY <2>2, <3>2
  <2>3. CASE ~a /\ ~b
    <3>1. Once(a) = 0 /\ Once(b) = 0
      BY <1>4, <2>3, Zenon
    <3>2. Had(t, i, r) = 0
      BY <1>2, <3>1
    <3>3. QED
      BY <3>2
  <2>4. QED
    BY <2>1, <2>2, <2>3, Zenon
<1>6. QED
  BY <1>5 DEF a, b

(* Threads 2 and 4 do not lose what main gave them to take.                *)
Holders == (at[2] \in 2..3 => held[2][1] > 0) /\ (at[4] \in 2..3 => held[4][2] > 0)

(* Who else can have units of r.                                           *)
LEMMA PoolOthers ==
    ASSUME Pool, NEW r \in 1..2
    PROVE  /\ units[r + 1] \in Int
           /\ Had(1, at[1], r) + Had(2, at[2], r) + Had(3, at[3], r) + Had(4, at[4], r) =
                  2 - units[r + 1]
           /\ \A s \in 1..4 : Had(s, at[s], r) \in 0..1
<1>1. \A s \in 1..4 : Had(s, at[s], r) \in 0..1
  BY HadOnly
<1>2. units[r + 1] = 2 - (Had(1, at[1], r) + Had(2, at[2], r) + Had(3, at[3], r) + Had(4, at[4], r))
  BY DEF Pool, Sum4, HadOf
<1> DEFINE a == Had(1, at[1], r)
           b == Had(2, at[2], r)
           c == Had(3, at[3], r)
           d == Had(4, at[4], r)
           u == units[r + 1]
<1>3. a \in 0..1 /\ b \in 0..1 /\ c \in 0..1 /\ d \in 0..1
  BY <1>1
<1>4. u = 2 - (a + b + c + d)
  BY <1>2
<1> HIDE DEF a, b, c, d, u
<1>5. u \in Int /\ a + b + c + d = 2 - u
  BY <1>3, <1>4
<1>6. QED
  BY <1>1, <1>5 DEF a, b, c, d, u

(* A first unit of r is there.                                             *)
LEMMA FirstShare ==
    ASSUME Pool, \A s \in 1..4 : at[s] <= 2 /\ at[s] \in Nat, NEW t \in 1..4, at[t] = 1,
           NEW r, r = Sem2Alloc[t]
    PROVE  Free(r) > 0
<1>1. r \in 1..2
  BY Sem2Numbers
<1>2. \A s \in 1..4 : Had(s, at[s], r) # 0 => s # t /\ r = Sem2Alloc[s]
  <2> SUFFICES ASSUME NEW s \in 1..4, Had(s, at[s], r) # 0 PROVE s # t /\ r = Sem2Alloc[s]
    OBVIOUS
  <2>1. (r = Sem2Alloc[s] /\ at[s] \in 2 .. EndOf(s) - 1) \/ at[s] = 4
    BY <1>1, HadOnly
  <2>2. QED
    BY <2>1
<1>3. /\ units[r + 1] \in Int
      /\ Had(1, at[1], r) + Had(2, at[2], r) + Had(3, at[3], r) + Had(4, at[4], r) =
             2 - units[r + 1]
      /\ \A s \in 1..4 : Had(s, at[s], r) \in 0..1
  BY <1>1, PoolOthers
<1>4. CASE t = 1
  <2>1. Had(1, at[1], r) = 0 /\ Had(2, at[2], r) = 0 /\ Had(3, at[3], r) = 0
    BY <1>2, <1>4 DEF Sem2Alloc
  <2>2. units[r + 1] > 0
    BY <1>3, <2>1
  <2>3. QED
    BY <2>2 DEF Free
<1>5. CASE t = 2
  <2>1. Had(1, at[1], r) = 0 /\ Had(2, at[2], r) = 0 /\ Had(4, at[4], r) = 0
    BY <1>2, <1>5 DEF Sem2Alloc
  <2>2. units[r + 1] > 0
    BY <1>3, <2>1
  <2>3. QED
    BY <2>2 DEF Free
<1>6. CASE t = 3
  <2>1. Had(1, at[1], r) = 0 /\ Had(3, at[3], r) = 0 /\ Had(4, at[4], r) = 0
    BY <1>2, <1>6 DEF Sem2Alloc
  <2>2. units[r + 1] > 0
    BY <1>3, <2>1
  <2>3. QED
    BY <2>2 DEF Free
<1>7. CASE t = 4
  <2>1. Had(2, at[2], r) = 0 /\ Had(3, at[3], r) = 0 /\ Had(4, at[4], r) = 0
    BY <1>2, <1>7 DEF Sem2Alloc
  <2>2. units[r + 1] > 0
    BY <1>3, <2>1
  <2>3. QED
    BY <2>2 DEF Free
<1>8. QED
  BY <1>4, <1>5, <1>6, <1>7

(* Who waits for a second resource waits for one of 2 and 4.               *)
LEMMA SecondShare ==
    ASSUME Pool, Holders, NEW t \in {1, 3}, at[t] = 3, NEW r, r = Sem2Request[t], ~(Free(r) > 0),
           units \in Seq(Nat), r < Len(units)
    PROVE  \E p \in {2, 4} : at[p] \in 2..3 /\ held[p][r] > 0
<1>1. r \in 1..2 /\ t \in 1..4
  BY Sem2Numbers
<1>2. units[r + 1] = 0
  <2>1. r + 1 \in 1..Len(units)
    BY <1>1
  <2>2. units[r + 1] \in Nat
    BY <2>1
  <2>3. QED
    BY <2>2 DEF Free
<1>3. /\ Had(1, at[1], r) + Had(2, at[2], r) + Had(3, at[3], r) + Had(4, at[4], r) =
             2 - units[r + 1]
      /\ \A s \in 1..4 : Had(s, at[s], r) \in 0..1
  BY <1>1, PoolOthers
<1>4. \A s \in 1..4 : Had(s, at[s], r) # 0 =>
          \/ r = Sem2Alloc[s] /\ at[s] \in 2 .. EndOf(s) - 1
          \/ r = Sem2Request[s] /\ at[s] = 4
  BY <1>1, HadOnly
<1>5. CASE t = 1
  <2>1. r = 1
    BY <1>5 DEF Sem2Request
  <2>2. Had(1, at[1], r) = 0
    BY <1>4, <1>5, <2>1 DEF Sem2Alloc
  <2>3. Had(4, at[4], r) = 0
    BY <1>4, <2>1 DEF Sem2Alloc, Sem2Request
  <2>4. Had(2, at[2], r) # 0
    BY <1>2, <1>3, <2>2, <2>3
  <2>5. at[2] \in 2 .. EndOf(2) - 1
    BY <1>4, <2>1, <2>4 DEF Sem2Request
  <2>6. at[2] \in 2..3
    BY <2>5 DEF EndOf
  <2>7. QED
    BY <2>1, <2>6 DEF Holders
<1>6. CASE t = 3
  <2>1. r = 2
    BY <1>6 DEF Sem2Request
  <2>2. Had(3, at[3], r) = 0
    BY <1>4, <1>6, <2>1 DEF Sem2Alloc
  <2>3. Had(2, at[2], r) = 0
    BY <1>4, <2>1 DEF Sem2Alloc, Sem2Request
  <2>4. Had(4, at[4], r) # 0
    BY <1>2, <1>3, <2>2, <2>3
  <2>5. at[4] \in 2 .. EndOf(4) - 1
    BY <1>4, <2>1, <2>4 DEF Sem2Request
  <2>6. at[4] \in 2..3
    BY <2>5 DEF EndOf
  <2>7. QED
    BY <2>1, <2>6 DEF Holders
<1>7. QED
  BY <1>5, <1>6

(* Before main wakes up no thread is past the barrier, which main holds.   *)
Made2 ==
    \/ at[0] = 1 /\ Len(units) = 0 /\ held[0][0] = 0
    \/ at[0] \in 2..6 /\ Len(units) = 1 /\ units[1] = 6 - at[0] /\ held[0][0] = at[0] - 2
    \/ at[0] = 7 /\ Len(units) = 2 /\ units[1] = 0 /\ units[2] = 2 /\ held[0][0] = 4
    \/ at[0] \in 8..12 /\ Len(units) = 3 /\ units[1] = 0 /\ Pool /\ held[0][0] = 4

Sharing2 ==
    /\ Made2 /\ Holders
    /\ \A t \in 1..4 : at[t] <= 2 /\ t \notin exited /\ (t \in blocked => at[t] = 2)

(* Then it lets them go one by one; who has to wait for another unit waits *)
(* for a thread that waits for none.                                       *)
AtBarrier == Sum4([t \in 1..4 |-> Once(at[t] = 2)])

Barred ==
    /\ at[0] <= 17 => held[0][0] = 17 - at[0] /\ AtBarrier = 17 - at[0]
    /\ at[0] > 17 => AtBarrier = 0

Flows(t) ==
    /\ at[t] \in 2..EndOf(t)
    /\ t \in exited => at[t] = EndOf(t)
    /\ t \in blocked => at[t] = 2 \/ (at[t] = 3 /\ t \in {1, 3})
    /\ at[t] = 2 => t \in blocked

PastBarrier ==
    /\ at[0] >= 13 /\ Len(units) = 3 /\ Pool /\ Holders /\ Barred
    /\ \A t \in 1..4 : Flows(t)

Sem2Inv == Sharing2 \/ PastBarrier

LEMMA Sem2Team ==
    ASSUME ThreadsPlaced, WaitersPlaced, InSem2, NEW t \in 1..8, ThreadStep(t)
    PROVE  /\ t \in 1..4 /\ t \in Thread /\ t \notin blocked /\ t \notin exited
           /\ at[t] \in Nat \ {0} /\ t # 0
           /\ at[0] \in 8..22 /\ at'[0] = at[0] /\ test' = test /\ 0 \notin blocked
<1>1. t \in Thread /\ t # 0
  BY DEF Thread
<1>2. at[t] > 0 /\ t \notin blocked /\ t \notin exited /\ test' = test
  BY <1>1, StepKinds
<1>3. t \in 1..4 /\ at[0] > 7 + t /\ at[t] \in Nat \ {0}
  BY <1>2, Sem2At
<1>4. at[0] \in 8..22
  <2>1. at[0] \in 1..22
    BY Sem2Main
  <2>2. QED
    BY <1>3, <2>1
<1>5. Instruction(0)[1] # "down"
  <2>1. at[0] \in 8..11 \/ at[0] = 12 \/ at[0] \in 13..16 \/ at[0] \in 17..20 \/ at[0] = 21 \/ at[0] = 22
    BY <1>4
  <2>2. QED
    BY <2>1, Sem2Main DEF Start, Outlast, Up, Join, Check, Exit
<1>6. at'[0] = at[0]
  BY <1>1, <1>5, MainByOne
<1>7. 0 \notin blocked
  BY <1>5 DEF WaitersPlaced
<1>8. QED
  BY <1>1, <1>2, <1>3, <1>4, <1>6, <1>7

(* What a step of a thread other than main leaves alone.                   *)
LEMMA OthersStay ==
    ASSUME NEW t \in 1..4, NEW n, GoesBy(t, n)
    PROVE  Same4({t})
<1>1. \A s \in 1..4 : s # t => s \in Thread \ {t}
  BY DEF Thread
<1>2. QED
  BY <1>1 DEF GoesBy, Same4

LEMMA HeldElsewhere ==
    ASSUME NEW t \in 1..4, NEW r \in Kinds, HeldBut(held, held', t, r)
    PROVE  /\ held'[0][0] = held[0][0]
           /\ t # 2 => held'[2][1] = held[2][1]
           /\ t # 4 => held'[4][2] = held[4][2]
<1>1. 0 \in Thread /\ 2 \in Thread /\ 4 \in Thread /\ 0 \in Kinds /\ 1 \in Kinds /\ 2 \in Kinds
  BY Sem1Kinds DEF Thread
<1>2. <<0, 0>> # <<t, r>> /\ (t # 2 => <<2, 1>> # <<t, r>>) /\ (t # 4 => <<4, 2>> # <<t, r>>)
  OBVIOUS
<1>3. QED
  BY <1>1, <1>2 DEF HeldBut

LEMMA Sharing2Team ==
    ASSUME ThreadsPlaced, WaitersPlaced, HeldTyped, InSem2, Sharing2, units \in Seq(Nat),
           NEW t \in 1..8, ThreadStep(t)
    PROVE  Sharing2'
<1>1. /\ t \in 1..4 /\ t \in Thread /\ t \notin blocked /\ at[t] \in Nat \ {0} /\ t # 0
      /\ at'[0] = at[0] /\ 0 \notin blocked
  BY Sem2Team
<1>2. at \in [Thread -> Nat]
  BY DEF ThreadsPlaced
<1>3. /\ Made2 /\ Holders
      /\ \A s \in 1..4 : at[s] <= 2 /\ s \notin exited /\ (s \in blocked => at[s] = 2)
  BY DEF Sharing2
<1>4. /\ at[0] \in 8..12 /\ Len(units) = 3 /\ units[1] = 0 /\ Pool /\ held[0][0] = 4
  <2> DEFINE a == at[0]
  <2>1. a \in 8..22
    BY Sem2Team
  <2> HIDE DEF a
  <2>2. a # 1 /\ a \notin 2..6 /\ a # 7
    BY <2>1
  <2>3. QED
    BY <1>3, <2>2 DEF Made2, a
<1>5. CASE at[t] = 1
  <2> DEFINE r == Sem2Alloc[t]
  <2>1. Instruction(t) = <<"down", r, 0>>
    BY <1>1, <1>5, Sem2At
  <2>2. r \in 1..2 /\ r \in Kinds \cap Nat
    BY <1>1, Sem2Numbers
  <2>3. Free(r) > 0
    <3>1. \A s \in 1..4 : at[s] <= 2 /\ at[s] \in Nat
      <4>1. \A s \in 1..4 : s \in Thread
        BY DEF Thread
      <4>2. QED
        BY <1>2, <1>3, <4>1
    <3>2. QED
      BY <1>1, <1>4, <1>5, <3>1, FirstShare
  <2>4. HasMore(t, r, 1) \/ at'[t] # 2
    <3> SUFFICES ASSUME at'[t] = 2 PROVE HasMore(t, r, 1)
      OBVIOUS
    <3>1. \A q \in 1..2 : Had(t, 1, q) = 0 /\ Had(t, 2, q) = Once(q = r)
      BY <1>1, HadPlaces
    <3>2. \A q \in 1..2 : Once(q = r) = IF q = r THEN 1 ELSE 0
      BY DEF Once
    <3> HIDE DEF r
    <3>3. \A q \in 1..2 : Had(t, 2, q) = Had(t, 1, q) + (IF q = r THEN 1 ELSE 0)
      BY <3>1, <3>2
    <3>4. QED
      BY <1>5, <3>3 DEF HasMore
  <2>5. (t = 2 => r = 1) /\ (t = 4 => r = 2)
    BY <1>1, Sem2Numbers
  <2> HIDE DEF r
  <2>6. Grabs(t, r) \/ Waits(t, r) \/ Refuses(t, r, 0)
    <3>1. r < Len(units) /\ 0 \in Nat
      BY <1>4, <2>2
    <3>2. QED
      BY <1>1, <1>2, <2>1, <2>2, <3>1, WatchedDown
  <2>7. Free(r) # 0
    BY <2>3
  <2>8. /\ UnitsBy(r, -1) /\ GoesBy(t, 1) /\ HeldBut(held, held', t, r)
        /\ held[t][r] \in Nat /\ held'[t][r] = held[t][r] + 1
        /\ exited' = exited /\ blocked' = blocked
    BY <2>6, <2>7 DEF Grabs, Waits, Refuses
  <2>9. at'[t] = 2
    BY <1>5, <2>8 DEF GoesBy
  <2>10. Same4({t})
    BY <1>1, <2>8, OthersStay
  <2>11. Len(units') = 3 /\ Pool'
    <3>1. HasMore(t, r, 1) /\ 1 + (-1) = 0 /\ 1 \in Int /\ -1 \in Int
      BY <2>4, <2>9
    <3>2. QED
      BY <1>1, <1>4, <2>2, <2>8, <2>10, <3>1, PoolOne
  <2>12. units'[1] = 0
    <3>1. \A q \in Nat : q < Len(units) /\ q # r => units'[q + 1] = units[q + 1]
      BY <2>8 DEF UnitsBy
    <3>2. 0 \in Nat /\ 0 < Len(units) /\ 0 # r
      BY <1>4, <2>2
    <3>3. units'[0 + 1] = units[0 + 1]
      BY <3>1, <3>2
    <3>4. QED
      BY <1>4, <3>3
  <2>13. /\ held'[0][0] = 4 /\ (t # 2 => held'[2][1] = held[2][1])
         /\ (t # 4 => held'[4][2] = held[4][2])
    BY <1>1, <1>4, <2>2, <2>8, HeldElsewhere
  <2>14. Holders'
    <3>1. at'[2] \in 2..3 => held'[2][1] > 0
      <4>1. CASE t = 2
        BY <2>5, <2>8, <4>1
      <4>2. CASE t # 2
        BY <1>3, <2>10, <2>13, <4>2 DEF Same4, Holders
      <4>3. QED
        BY <4>1, <4>2
    <3>2. at'[4] \in 2..3 => held'[4][2] > 0
      <4>1. CASE t = 4
        BY <2>5, <2>8, <4>1
      <4>2. CASE t # 4
        BY <1>3, <2>10, <2>13, <4>2 DEF Same4, Holders
      <4>3. QED
        BY <4>1, <4>2
    <3>3. QED
      BY <3>1, <3>2 DEF Holders
  <2>15. \A s \in 1..4 : at'[s] <= 2 /\ s \notin exited' /\ (s \in blocked' => at'[s] = 2)
    <3> SUFFICES ASSUME NEW s \in 1..4
                 PROVE  at'[s] <= 2 /\ s \notin exited' /\ (s \in blocked' => at'[s] = 2)
      OBVIOUS
    <3>1. CASE s = t
      BY <1>3, <2>8, <2>9, <3>1
    <3>2. CASE s # t
      BY <1>3, <2>8, <2>10, <3>2 DEF Same4
    <3>3. QED
      BY <3>1, <3>2
  <2>16. Made2'
    BY <1>1, <1>4, <2>11, <2>12, <2>13 DEF Made2
  <2>17. QED
    BY <2>14, <2>15, <2>16 DEF Sharing2
<1>6. CASE at[t] = 2
  <2>1. Instruction(t) = <<"down", 0, 1>> /\ Instruction(t)[2] = 0
    BY <1>1, <1>6, Sem2At
  <2>2. Grabs(t, 0) \/ Waits(t, 0) \/ Refuses(t, 0, 1)
    <3>1. 0 \in Kinds \cap Nat /\ 0 < Len(units) /\ 1 \in Nat
      BY <1>4, Sem1Kinds
    <3>2. QED
      BY <1>1, <1>2, <2>1, <3>1, WatchedDown
  <2>3. ~(Free(0) > 0)
    BY <1>4 DEF Free
  <2>4. ~Deadlocks(t)
    <3>1. SUFFICES ASSUME NEW D \in SUBSET (blocked \cup {t}), t \in D,
                          \A h \in Thread : held[h][Instruction(t)[2]] > 0 => h \in D
                   PROVE  FALSE
      BY DEF Deadlocks
    <3>2. 0 \in D
      BY <1>4, <2>1, <3>1 DEF Thread
    <3>3. QED
      BY <1>1, <3>2
  <2>5. Waits(t, 0)
    BY <2>2, <2>3, <2>4 DEF Grabs, Refuses
  <2>6. UNCHANGED <<at, exited, units, held>> /\ blocked' = blocked \cup {t}
    BY <2>5 DEF Waits
  <2>7. Pool'
    BY <1>4, <2>6, PoolSame
  <2>8. Holders'
    BY <1>3, <2>6 DEF Holders
  <2>9. \A s \in 1..4 : at'[s] <= 2 /\ s \notin exited' /\ (s \in blocked' => at'[s] = 2)
    BY <1>3, <1>6, <2>6
  <2>10. Made2'
    BY <1>4, <2>6, <2>7 DEF Made2
  <2>11. QED
    BY <2>8, <2>9, <2>10 DEF Sharing2
<1>7. at[t] = 1 \/ at[t] = 2
  <2>1. at[t] \in Nat \ {0} /\ at[t] <= 2
    BY <1>1, <1>3
  <2>2. QED
    BY <2>1
<1>8. QED
  BY <1>5, <1>6, <1>7

LEMMA PastKept ==
    ASSUME PastBarrier, at'[0] = at[0], Len(units') = 3, Pool', held'[0][0] = held[0][0], Holders',
           \A s \in 1..4 : (at'[s] = 2) = (at[s] = 2), \A s \in 1..4 : Flows(s)'
    PROVE  PastBarrier'
<1>1. AtBarrier' = AtBarrier
  <2>1. \A s \in 1..4 : Once(at'[s] = 2) = Once(at[s] = 2)
    OBVIOUS
  <2>2. [s \in 1..4 |-> Once(at'[s] = 2)] = [s \in 1..4 |-> Once(at[s] = 2)]
    BY <2>1
  <2>3. QED
    BY <2>2 DEF AtBarrier, Sum4, Once
<1>2. Barred'
  BY <1>1 DEF Barred, PastBarrier
<1>3. at'[0] >= 13
  BY DEF PastBarrier
<1>4. \A s \in 1..4 : Flows(s)'
  OBVIOUS
<1> HIDE DEF Flows
<1>5. QED
  BY <1>2, <1>3, <1>4 DEF PastBarrier, Flows, EndOf

(* Thread t, past the barrier, gets a unit or gives one back.              *)
LEMMA PastOne ==
    ASSUME PastBarrier, at \in [Thread -> Nat], NEW t \in 1..4, at'[0] = at[0], NEW r \in 1..2, NEW d \in Int,
           NEW e \in Int, d + e = 0, UnitsBy(r, e), GoesBy(t, 1), HeldBut(held, held', t, r),
           HasMore(t, r, d), at[t] \in 3 .. EndOf(t) - 1, t \notin exited, t \notin blocked,
           exited' = exited, blocked' = blocked
    PROVE  PastBarrier'
<1>1. /\ Len(units) = 3 /\ Pool /\ Holders /\ \A s \in 1..4 : Flows(s)
  BY DEF PastBarrier
<1>2. Same4({t})
  BY OthersStay
<1>3. Len(units') = 3 /\ Pool'
  BY <1>1, <1>2, PoolOne
<1>4. at'[t] = at[t] + 1 /\ at[t] \in Nat /\ EndOf(t) \in {4, 6}
  BY DEF GoesBy, EndOf
<1>5. at'[t] \in 4 .. EndOf(t)
  BY <1>4
<1>6. /\ held'[0][0] = held[0][0] /\ (t # 2 => held'[2][1] = held[2][1])
      /\ (t # 4 => held'[4][2] = held[4][2])
  <2>1. r \in Kinds
    BY Sem1Kinds
  <2>2. QED
    BY <2>1, HeldElsewhere
<1>7. Holders'
  <2>1. at'[2] \in 2..3 => held'[2][1] > 0
    <3>1. CASE t = 2
      BY <1>5, <3>1
    <3>2. CASE t # 2
      BY <1>1, <1>2, <1>6, <3>2 DEF Same4, Holders
    <3>3. QED
      BY <3>1, <3>2
  <2>2. at'[4] \in 2..3 => held'[4][2] > 0
    <3>1. CASE t = 4
      BY <1>5, <3>1
    <3>2. CASE t # 4
      BY <1>1, <1>2, <1>6, <3>2 DEF Same4, Holders
    <3>3. QED
      BY <3>1, <3>2
  <2>3. QED
    BY <2>1, <2>2 DEF Holders
<1>8. \A s \in 1..4 : (at'[s] = 2) = (at[s] = 2)
  <2> SUFFICES ASSUME NEW s \in 1..4 PROVE (at'[s] = 2) = (at[s] = 2)
    OBVIOUS
  <2>1. CASE s = t
    BY <1>5, <2>1
  <2>2. CASE s # t
    BY <1>2, <2>2 DEF Same4
  <2>3. QED
    BY <2>1, <2>2
<1>9. \A s \in 1..4 : Flows(s)'
  <2> SUFFICES ASSUME NEW s \in 1..4 PROVE Flows(s)'
    OBVIOUS
  <2>1. CASE s = t
    <3>1. at'[s] \in 2 .. EndOf(s) /\ at'[s] # 2 /\ s \notin exited' /\ s \notin blocked'
      BY <1>4, <1>5, <2>1
    <3>2. QED
      BY <3>1 DEF Flows, EndOf
  <2>2. CASE s # t
    <3>1. at'[s] = at[s] /\ Flows(s)
      BY <1>1, <1>2, <2>2 DEF Same4
    <3>2. QED
      BY <3>1 DEF Flows, EndOf
  <2>3. QED
    BY <2>1, <2>2
<1>10. QED
  BY <1>3, <1>6, <1>7, <1>8, <1>9, PastKept

(* Nothing moves but who waits and who has exited.                         *)
LEMMA PastStill ==
    ASSUME PastBarrier, UNCHANGED <<at, units, held>>, \A s \in 1..4 : Flows(s)'
    PROVE  PastBarrier'
<1>1. Len(units') = 3 /\ Pool /\ Holders
  BY DEF PastBarrier
<1>2. Pool'
  BY <1>1, PoolSame
<1>3. Holders'
  BY <1>1 DEF Holders
<1>4. \A s \in 1..4 : (at'[s] = 2) = (at[s] = 2)
  OBVIOUS
<1>5. at'[0] = at[0] /\ held'[0][0] = held[0][0]
  OBVIOUS
<1>6. QED
  BY <1>1, <1>2, <1>3, <1>4, <1>5, PastKept

LEMMA SumFour ==
    ASSUME NEW f \in [1..4 -> 0..1], Sum4(f) # 0
    PROVE  \E s \in 1..4 : f[s] = 1
<1>1. \A s \in 1..4 : f[s] \in 0..1
  OBVIOUS
<1>2. f[1] \in 0..1 /\ f[2] \in 0..1 /\ f[3] \in 0..1 /\ f[4] \in 0..1
  BY <1>1
<1>3. ~(f[1] = 0 /\ f[2] = 0 /\ f[3] = 0 /\ f[4] = 0)
  BY DEF Sum4
<1>4. f[1] = 1 \/ f[2] = 1 \/ f[3] = 1 \/ f[4] = 1
  BY <1>2, <1>3
<1>5. QED
  BY <1>4

(* Main holds units of the barrier as long as a thread waits for one.      *)
LEMMA BarrierHeld ==
    ASSUME ThreadsPlaced, InSem2, PastBarrier
    PROVE  /\ at[0] <= 16 => \E s \in 1..4 : at[s] = 2
           /\ (\E s \in 1..4 : at[s] = 2) => at[0] \in 13..16 /\ held[0][0] > 0
<1> DEFINE f == [s \in 1..4 |-> Once(at[s] = 2)]
<1>1. f \in [1..4 -> 0..1]
  BY DEF Once
<1>2. \A s \in 1..4 : (f[s] = 1) = (at[s] = 2)
  BY DEF Once
<1>3. AtBarrier = Sum4(f)
  BY DEF AtBarrier
<1> HIDE DEF f
<1>4. at[0] \in 1..22 /\ at[0] >= 13 /\ Barred
  BY Sem2Main DEF PastBarrier
<1>5. ASSUME at[0] <= 16 PROVE \E s \in 1..4 : at[s] = 2
  <2>1. AtBarrier = 17 - at[0]
    BY <1>4, <1>5 DEF Barred
  <2>2. Sum4(f) # 0
    BY <1>3, <1>4, <1>5, <2>1
  <2>3. QED
    BY <1>1, <1>2, <2>2, SumFour
<1>6. ASSUME NEW s \in 1..4, at[s] = 2 PROVE at[0] \in 13..16 /\ held[0][0] > 0
  <2>1. f[s] = 1
    BY <1>2, <1>6
  <2>2. /\ f[1] \in 0..1 /\ f[2] \in 0..1 /\ f[3] \in 0..1 /\ f[4] \in 0..1
        /\ s = 1 \/ s = 2 \/ s = 3 \/ s = 4
    BY <1>1
  <2>3. AtBarrier > 0
    BY <1>3, <2>1, <2>2 DEF Sum4
  <2>4. at[0] <= 17 /\ held[0][0] = 17 - at[0] /\ AtBarrier = 17 - at[0]
    BY <1>4, <2>3 DEF Barred
  <2>5. QED
    BY <1>4, <2>3, <2>4
<1>7. QED
  BY <1>5, <1>6

(* Where a thread that waits for a unit of a resource is.                  *)
LEMMA WaiterAt ==
    ASSUME ThreadsPlaced, WaitersPlaced, InSem2, PastBarrier, 0 \notin blocked, NEW u \in blocked
    PROVE  /\ u \in 1..4 /\ u \in Thread /\ u \notin exited
           /\ \/ at[u] = 2 /\ Instruction(u)[2] = 0
              \/ at[u] = 3 /\ u \in {1, 3} /\ Instruction(u)[2] = Sem2Request[u]
<1>1. u \in Thread /\ at[u] > 0 /\ u # 0 /\ u \notin exited
  BY DEF WaitersPlaced
<1>2. u \in 1..8
  BY <1>1 DEF Thread
<1>3. u \in 1..4
  BY <1>1, <1>2, Sem2At
<1>4. at[u] = 2 \/ (at[u] = 3 /\ u \in {1, 3})
  BY <1>3 DEF PastBarrier, Flows
<1>5. CASE at[u] = 2
  <2>1. Instruction(u) = <<"down", 0, 1>>
    BY <1>1, <1>2, <1>5, Sem2At
  <2>2. QED
    BY <1>1, <1>3, <1>5, <2>1
<1>6. CASE at[u] = 3 /\ u \in {1, 3}
  <2>1. Instruction(u) = <<"down", Sem2Request[u], 4>>
    BY <1>1, <1>2, <1>6, Sem2At
  <2>2. QED
    BY <1>1, <1>3, <1>6, <2>1
<1>7. QED
  BY <1>4, <1>5, <1>6

(* No request is refused: who has the resource is not waiting, or waits    *)
(* for main alone.                                                         *)
LEMMA NeverDead ==
    ASSUME ThreadsPlaced, WaitersPlaced, InSem2, PastBarrier, 0 \notin blocked, units \in Seq(Nat),
           NEW t \in {1, 3}, at[t] = 3, NEW r, r = Sem2Request[t], Instruction(t)[2] = r,
           ~(Free(r) > 0)
    PROVE  ~Deadlocks(t)
<1>1. SUFFICES ASSUME NEW D \in SUBSET (blocked \cup {t}), t \in D,
                      \A u \in D : \A h \in Thread : held[h][Instruction(u)[2]] > 0 => h \in D
               PROVE  FALSE
  BY DEF Deadlocks
<1>2. Pool /\ Holders /\ Len(units) = 3
  BY DEF PastBarrier
<1>3. r < Len(units)
  <2>1. t \in 1..4 /\ r \in 1..2
    BY Sem2Numbers
  <2>2. QED
    BY <1>2, <2>1
<1>4. PICK p \in {2, 4} : at[p] \in 2..3 /\ held[p][r] > 0
  BY <1>2, <1>3, SecondShare
<1>5. p \in Thread /\ p \in 1..4 /\ p # t /\ p \notin {1, 3}
  BY DEF Thread
<1>6. p \in D
  BY <1>1, <1>4, <1>5
<1>7. p \in blocked
  BY <1>5, <1>6
<1>8. at[p] = 2 /\ Instruction(p)[2] = 0
  BY <1>5, <1>7, WaiterAt
<1>9. held[0][0] > 0
  BY <1>5, <1>8, BarrierHeld
<1>10. 0 \in D
  BY <1>1, <1>6, <1>8, <1>9 DEF Thread
<1>11. QED
  BY <1>5, <1>10

(* A unit is passed on from t to u.                                        *)
LEMMA PastPass ==
    ASSUME PastBarrier, at \in [Thread -> Nat], NEW t \in 1..4, at'[0] = at[0], t \notin exited, t \notin blocked,
           NEW r \in 1..2, HasMore(t, r, -1), NEW u \in {1, 3}, u # t, u \notin exited,
           Delivers(t, r, u), at[u] = 3, r = Sem2Request[u], at[t] = EndOf(t) - 1, exited' = exited
    PROVE  PastBarrier'
<1>1. /\ Len(units) = 3 /\ Pool /\ Holders /\ \A s \in 1..4 : Flows(s)
  BY DEF PastBarrier
<1>2. /\ at'[t] = at[t] + 1 /\ at'[u] = at[u] + 1 /\ \A s \in Thread \ {t, u} : at'[s] = at[s]
      /\ blocked' = blocked \ {u} /\ units' = units
      /\ \A s \in Thread, q \in Kinds :
            <<s, q>> # <<t, r>> /\ <<s, q>> # <<u, r>> => held'[s][q] = held[s][q]
  BY DEF Delivers
<1>3. u \in 1..4 /\ EndOf(u) = 6 /\ at'[u] = 4
  BY <1>2 DEF EndOf
<1>4. at'[t] = EndOf(t) /\ EndOf(t) \in {4, 6}
  BY <1>2 DEF EndOf
<1>5. Same4({t, u})
  <2>1. \A s \in 1..4 : s \notin {t, u} => s \in Thread \ {t, u}
    BY DEF Thread
  <2>2. QED
    BY <1>2, <2>1 DEF Same4
<1>6. HasMore(u, r, 1)
  <2>1. \A q \in 1..2 : /\ Had(u, 4, q) = Once(q = Sem2Alloc[u]) + Once(q = Sem2Request[u])
                        /\ Had(u, 3, q) = Once(q = Sem2Alloc[u])
    BY <1>3, HadPlaces
  <2>2. \A q \in 1..2 : Once(q = Sem2Request[u]) = IF q = r THEN 1 ELSE 0
    BY DEF Once
  <2>3. \A q \in 1..2 : Had(u, 4, q) = Had(u, 3, q) + (IF q = r THEN 1 ELSE 0)
    BY <2>1, <2>2
  <2>4. QED
    BY <1>3, <2>3 DEF HasMore
<1>7. Pool'
  BY <1>1, <1>2, <1>3, <1>5, <1>6, PoolPass
<1>8. /\ held'[0][0] = held[0][0] /\ (t # 2 => held'[2][1] = held[2][1])
      /\ (t # 4 => held'[4][2] = held[4][2])
  <2>1. 0 \in Thread /\ 2 \in Thread /\ 4 \in Thread /\ 0 \in Kinds /\ 1 \in Kinds /\ 2 \in Kinds
    BY Sem1Kinds DEF Thread
  <2>2. /\ <<0, 0>> # <<t, r>> /\ <<0, 0>> # <<u, r>>
        /\ <<2, 1>> # <<u, r>> /\ <<4, 2>> # <<u, r>>
        /\ (t # 2 => <<2, 1>> # <<t, r>>) /\ (t # 4 => <<4, 2>> # <<t, r>>)
    OBVIOUS
  <2>3. QED
    BY <1>2, <2>1, <2>2
<1>9. Holders'
  <2>1. at'[2] \in 2..3 => held'[2][1] > 0
    <3>1. CASE t = 2
      BY <1>4, <3>1
    <3>2. CASE t # 2
      BY <1>1, <1>5, <1>8, <3>2 DEF Same4, Holders
    <3>3. QED
      BY <3>1, <3>2
  <2>2. at'[4] \in 2..3 => held'[4][2] > 0
    <3>1. CASE t = 4
      BY <1>4, <3>1
    <3>2. CASE t # 4
      BY <1>1, <1>5, <1>8, <3>2 DEF Same4, Holders
    <3>3. QED
      BY <3>1, <3>2
  <2>3. QED
    BY <2>1, <2>2 DEF Holders
<1>10. \A s \in 1..4 : (at'[s] = 2) = (at[s] = 2)
  <2> SUFFICES ASSUME NEW s \in 1..4 PROVE (at'[s] = 2) = (at[s] = 2)
    OBVIOUS
  <2>1. CASE s = t
    BY <1>4, <2>1
  <2>2. CASE s = u
    BY <1>3, <2>2
  <2>3. CASE s # t /\ s # u
    BY <1>5, <2>3 DEF Same4
  <2>4. QED
    BY <2>1, <2>2, <2>3
<1>11. \A s \in 1..4 : Flows(s)'
  <2> SUFFICES ASSUME NEW s \in 1..4 PROVE Flows(s)'
    OBVIOUS
  <2>1. CASE s = t
    <3>1. at'[s] \in 2 .. EndOf(s) /\ at'[s] # 2 /\ s \notin exited' /\ s \notin blocked'
      BY <1>2, <1>4, <2>1
    <3>2. QED
      BY <3>1 DEF Flows, EndOf
  <2>2. CASE s = u
    <3>1. at'[s] \in 2 .. EndOf(s) /\ at'[s] # 2 /\ s \notin exited' /\ s \notin blocked'
      BY <1>2, <1>3, <2>2
    <3>2. QED
      BY <3>1 DEF Flows, EndOf
  <2>3. CASE s # t /\ s # u
    <3>1. at'[s] = at[s] /\ Flows(s) /\ (s \in blocked' <=> s \in blocked) /\ exited' = exited
      BY <1>1, <1>2, <1>5, <2>3 DEF Same4
    <3>2. QED
      BY <3>1 DEF Flows, EndOf
  <2>4. QED
    BY <2>1, <2>2, <2>3
<1>12. Len(units') = 3
  BY <1>1, <1>2
<1>13. QED
  BY <1>7, <1>8, <1>9, <1>10, <1>11, <1>12, PastKept

LEMMA PastTeam ==
    ASSUME ThreadsPlaced, WaitersPlaced, HeldTyped, InSem2, PastBarrier, units \in Seq(Nat),
           NEW t \in 1..8, ThreadStep(t)
    PROVE  PastBarrier'
<1>1. /\ t \in 1..4 /\ t \in Thread /\ t \notin blocked /\ t \notin exited /\ at[t] \in Nat \ {0} /\ t # 0
      /\ at'[0] = at[0] /\ 0 \notin blocked
  BY Sem2Team
<1>2. at \in [Thread -> Nat]
  BY DEF ThreadsPlaced
<1>3. /\ Len(units) = 3 /\ Pool /\ Holders /\ \A s \in 1..4 : Flows(s)
  BY DEF PastBarrier
<1>4. at[t] \in 3 .. EndOf(t) /\ EndOf(t) \in {4, 6}
  <2>1. at[t] \in 2 .. EndOf(t) /\ at[t] # 2
    BY <1>1, <1>3 DEF Flows
  <2>2. QED
    BY <2>1 DEF EndOf
<1>5. ASSUME NEW r \in 1..2 PROVE r \in Kinds \cap Nat /\ r < Len(units)
  BY <1>3, Sem1Kinds
<1>6. CASE t \in {1, 3} /\ at[t] = 3
  <2> DEFINE r == Sem2Request[t]
  <2>1. Instruction(t) = <<"down", r, 4>> /\ Instruction(t)[2] = r
    BY <1>1, <1>6, Sem2At
  <2>2. r \in 1..2
    BY <1>1, <1>6, Sem2Numbers
  <2>3. at'[t] = 4 => HasMore(t, r, 1)
    <3>1. \A q \in 1..2 : /\ Had(t, 4, q) = Once(q = Sem2Alloc[t]) + Once(q = r)
                          /\ Had(t, 3, q) = Once(q = Sem2Alloc[t])
      BY <1>1, <1>6, HadPlaces
    <3>2. \A q \in 1..2 : Once(q = r) = IF q = r THEN 1 ELSE 0
      BY DEF Once
    <3> HIDE DEF r
    <3>3. \A q \in 1..2 : Had(t, 4, q) = Had(t, 3, q) + (IF q = r THEN 1 ELSE 0)
      BY <3>1, <3>2
    <3>4. QED
      BY <1>6, <3>3 DEF HasMore
  <2>4. ~(Free(r) > 0) => ~Deadlocks(t)
    BY <1>1, <1>6, <2>1, NeverDead
  <2> HIDE DEF r
  <2>5. Grabs(t, r) \/ Waits(t, r) \/ Refuses(t, r, 4)
    BY <1>1, <1>2, <1>5, <2>1, <2>2, WatchedDown
  <2>6. CASE Grabs(t, r)
    <3>1. /\ UnitsBy(r, -1) /\ GoesBy(t, 1) /\ HeldBut(held, held', t, r)
          /\ exited' = exited /\ blocked' = blocked
      BY <2>6 DEF Grabs
    <3>2. HasMore(t, r, 1)
      BY <1>6, <2>3, <3>1 DEF GoesBy
    <3>3. at[t] \in 3 .. EndOf(t) - 1
      BY <1>6 DEF EndOf
    <3>4. 1 + (-1) = 0 /\ 1 \in Int /\ -1 \in Int
      OBVIOUS
    <3>5. QED
      BY <1>1, <1>2, <2>2, <3>1, <3>2, <3>3, <3>4, PastOne
  <2>7. CASE Waits(t, r)
    <3>1. UNCHANGED <<at, exited, units, held>> /\ blocked' = blocked \cup {t}
      BY <2>7 DEF Waits
    <3>2. \A s \in 1..4 : Flows(s)'
      <4> SUFFICES ASSUME NEW s \in 1..4 PROVE Flows(s)'
        OBVIOUS
      <4>1. Flows(s) /\ (s \in blocked' => s \in blocked \/ s = t)
        BY <1>3, <3>1
      <4>2. QED
        BY <1>6, <3>1, <4>1 DEF Flows, EndOf
    <3>3. QED
      BY <3>1, <3>2, PastStill
  <2>8. ~Refuses(t, r, 4)
    <3>1. Free(r) = 0 => ~(Free(r) > 0)
      OBVIOUS
    <3>2. QED
      BY <2>4, <3>1 DEF Refuses
  <2>9. QED
    BY <2>5, <2>6, <2>7, <2>8
<1>7. CASE at[t] \in 3 .. EndOf(t) - 1 /\ ~(t \in {1, 3} /\ at[t] = 3)
  <2> DEFINE second == t \in {1, 3} /\ at[t] = 4
             r == IF second THEN Sem2Request[t] ELSE Sem2Alloc[t]
  <2>1. ~second => at[t] = EndOf(t) - 1
    BY <1>1, <1>7 DEF EndOf
  <2>2. Instruction(t) = Up(r)
    <3>1. CASE second
      BY <1>1, <3>1, Sem2At
    <3>2. CASE ~second
      BY <1>1, <2>1, <3>2, Sem2At
    <3>3. QED
      BY <3>1, <3>2
  <2>3. r \in 1..2
    BY <1>1, Sem2Numbers
  <2>4. at'[t] = at[t] + 1 => HasMore(t, r, -1)
    <3> SUFFICES ASSUME at'[t] = at[t] + 1 PROVE HasMore(t, r, -1)
      OBVIOUS
    <3>1. CASE second
      <4>1. at[t] = 4 /\ at'[t] = 5 /\ r = Sem2Request[t]
        BY <3>1
      <4>2. \A q \in 1..2 : /\ Had(t, 4, q) = Once(q = Sem2Alloc[t]) + Once(q = Sem2Request[t])
                            /\ Had(t, 5, q) = Once(q = Sem2Alloc[t])
        BY <1>1, <3>1, HadPlaces
      <4>3. \A q \in 1..2 : /\ Once(q = Sem2Request[t]) = IF q = r THEN 1 ELSE 0
                            /\ Once(q = Sem2Alloc[t]) \in Int
        BY <4>1 DEF Once
      <4> HIDE DEF r
      <4>4. \A q \in 1..2 : Had(t, 5, q) = Had(t, 4, q) + (IF q = r THEN -1 ELSE 0)
        BY <4>2, <4>3
      <4>5. QED
        BY <4>1, <4>4 DEF HasMore
    <3>2. CASE ~second
      <4>1. at[t] = EndOf(t) - 1 /\ at'[t] = EndOf(t) /\ r = Sem2Alloc[t]
        BY <1>4, <2>1, <3>2
      <4>2. \A q \in 1..2 : q # 0 /\ Had(t, EndOf(t), q) = 0 /\ Had(t, EndOf(t) - 1, q) = Once(q = Sem2Alloc[t])
        BY <1>1, HadPlaces
      <4>3. \A q \in 1..2 : Once(q = Sem2Alloc[t]) = IF q = r THEN 1 ELSE 0
        BY <4>1 DEF Once
      <4> HIDE DEF r
      <4>4. \A q \in 1..2 : Had(t, EndOf(t), q) = Had(t, EndOf(t) - 1, q) + (IF q = r THEN -1 ELSE 0)
        BY <4>2, <4>3
      <4>5. QED
        BY <4>1, <4>4 DEF HasMore
    <3>3. QED
      BY <3>1, <3>2
  <2>5. (r = Sem2Request[t] /\ t \in {1, 3}) \/ ~second
    OBVIOUS
  <2> HIDE DEF r
  <2>6. /\ Returns(t, r) \/ \E u \in blocked : Delivers(t, r, u)
        /\ UNCHANGED <<test, asleep, Shared>>
    BY <1>1, <1>2, <1>5, <2>2, <2>3, WatchedUp
  <2>7. CASE Returns(t, r)
    <3>1. /\ UnitsBy(r, 1) /\ GoesBy(t, 1) /\ HeldBut(held, held', t, r)
          /\ exited' = exited /\ blocked' = blocked
      BY <2>7 DEF Returns
    <3>2. HasMore(t, r, -1)
      BY <2>4, <3>1 DEF GoesBy
    <3>3. -1 + 1 = 0 /\ 1 \in Int /\ -1 \in Int
      OBVIOUS
    <3>4. QED
      BY <1>1, <1>2, <1>7, <2>3, <3>1, <3>2, <3>3, PastOne
  <2>8. ASSUME NEW u \in blocked, Delivers(t, r, u) PROVE PastBarrier'
    <3>1. Instruction(u)[2] = r /\ u # t /\ at'[t] = at[t] + 1 /\ exited' = exited
      BY <2>8 DEF Delivers
    <3>2. /\ u \in 1..4 /\ u \notin exited
          /\ \/ at[u] = 2 /\ Instruction(u)[2] = 0
             \/ at[u] = 3 /\ u \in {1, 3} /\ Instruction(u)[2] = Sem2Request[u]
      BY <1>1, <2>8, WaiterAt
    <3>3. at[u] = 3 /\ u \in {1, 3} /\ r = Sem2Request[u]
      <4>1. r # 0
        BY <2>3
      <4>2. QED
        BY <3>1, <3>2, <4>1
    <3>4. ~second
      <4>1. r = Sem2Request[t] /\ t \in {1, 3} => FALSE
        BY <3>1, <3>3 DEF Sem2Request
      <4>2. QED
        BY <2>5, <4>1
    <3>5. at[t] = EndOf(t) - 1 /\ HasMore(t, r, -1)
      BY <2>1, <2>4, <3>1, <3>4
    <3>6. QED
      BY <1>1, <1>2, <2>3, <2>8, <3>1, <3>2, <3>3, <3>5, PastPass
  <2>9. QED
    BY <2>6, <2>7, <2>8
<1>8. CASE at[t] = EndOf(t)
  <2>0. at[t] = EndOf(t) => Instruction(t) = Exit(0)
    <3>1. t \in 1..8 /\ at[t] > 0
      BY <1>1
    <3>2. QED
      BY <3>1, Sem2At, Zenon
  <2>a. Instruction(t) = Exit(0)
    BY <1>8, <2>0
  <2>1. Instruction(t)[1] = "exit"
    BY <2>a DEF Exit
  <2>2. thread_exit(t)
    BY <1>1, <2>1, ActionOf
  <2>3. exited' = exited \cup {t} /\ at' = at /\ UNCHANGED <<units, held, blocked>>
    BY <2>2 DEF thread_exit, ThreadExits, Locks
  <2>4. \A s \in 1..4 : Flows(s)'
    <3> SUFFICES ASSUME NEW s \in 1..4 PROVE Flows(s)'
      OBVIOUS
    <3>1. Flows(s) /\ (s \in exited' => s \in exited \/ s = t)
      BY <1>3, <2>3
    <3>2. QED
      BY <1>8, <2>3, <3>1 DEF Flows, EndOf
  <2>5. QED
    BY <2>3, <2>4, PastStill
<1>9. at[t] \in 3 .. EndOf(t) - 1 \/ at[t] = EndOf(t)
  BY <1>4
<1>10. QED
  BY <1>6, <1>7, <1>8, <1>9

LEMMA Sem2Unhurt ==
    ASSUME ThreadsPlaced, WaitersPlaced, EndCodes, MainFine, InSem2, Sem2Inv,
           EndsThread(Instruction(0))
    PROVE  MainUnhurt
<1>1. at[0] \in 1..22
  BY Sem2Main
<1>2. at[0] = 21 \/ at[0] = 22
  <2>1. CASE at[0] \in 1..7
    <3>1. at[0] = 1 \/ at[0] \in 2..5 \/ at[0] = 6 \/ at[0] = 7
      BY <2>1
    <3>2. QED
      BY <3>1, Sem2Main DEF EndsThread, Create, Down
  <2>2. CASE at[0] \in 8..20
    <3>1. at[0] \in 8..11 \/ at[0] = 12 \/ at[0] \in 13..16 \/ at[0] \in 17..20
      BY <2>2
    <3>2. QED
      BY <3>1, Sem2Main DEF EndsThread, Start, Outlast, Up, Join
  <2>3. QED
    BY <1>1, <2>1, <2>2
<1>3. CASE at[0] = 22
  BY <1>3, Sem2Main DEF MainUnhurt
<1>4. CASE at[0] = 21
  <2>1. Instruction(0)[1] = "assert" /\ Instruction(0)[2] = "none_failed"
    BY <1>4, Sem2Main DEF Check
  <2>2. PastBarrier
    <3>1. ~Made2
      BY <1>4 DEF Made2
    <3>2. QED
      BY <3>1 DEF Sem2Inv, Sharing2
  <2>3. 0 \notin exited
    BY <2>1 DEF MainFine, Exit
  <2>4. ASSUME NEW u \in exited PROVE exit_code[u] = 0
    <3>1. u \in Thread /\ at[u] > 0 /\ u # 0
      BY <2>3 DEF WaitersPlaced
    <3>2. u \in 1..8
      BY <3>1 DEF Thread
    <3>3. u \in 1..4
      BY <3>1, <3>2, Sem2At
    <3>4. at[u] = EndOf(u)
      BY <2>2, <3>3 DEF PastBarrier, Flows
    <3>5. Instruction(u) = <<"exit", 0>>
      BY <3>1, <3>2, <3>4, Sem2At DEF Exit
    <3>6. QED
      BY <3>5 DEF EndCodes, EndCode
  <2>5. QED
    BY <2>1, <2>4 DEF MainUnhurt, ThreadClaim
<1>5. QED
  BY <1>2, <1>3, <1>4

LEMMA MainAlone ==
    ASSUME GoesBy(0, 1)
    PROVE  at'[0] = at[0] + 1 /\ \A s \in 1..8 : at'[s] = at[s]
<1>1. \A s \in 1..8 : s \in Thread \ {0}
  BY DEF Thread
<1>2. QED
  BY <1>1 DEF GoesBy

LEMMA Sem2Wakes ==
    ASSUME ThreadsPlaced, WaitersPlaced, InSem2, Sharing2, at[0] = 12, ThreadStep(0)
    PROVE  PastBarrier'
<1>1. Instruction(0) = Outlast(1..4)
  BY Sem2Main
<1>2. GoesBy(0, 1) /\ Apart /\ units' = units /\ \A u \in 1..4 : Settled(u)
  BY <1>1, MainSleeps
<1>3. at'[0] = 13 /\ \A s \in 1..4 : at'[s] = at[s]
  BY <1>2, MainAlone
<1>4. /\ Made2 /\ Holders
      /\ \A s \in 1..4 : at[s] <= 2 /\ s \notin exited /\ (s \in blocked => at[s] = 2)
  BY DEF Sharing2
<1>5. Len(units) = 3 /\ Pool /\ held[0][0] = 4
  BY <1>4 DEF Made2
<1>6. \A u \in 1..4 : u \in blocked /\ at[u] = 2
  <2> SUFFICES ASSUME NEW u \in 1..4 PROVE u \in blocked
    BY <1>4
  <2>1. u \in exited \cup blocked \cup asleep \/ (at[u] > 0 /\ Instruction(u)[1] = "join")
    BY <1>2 DEF Settled
  <2>2. asleep = {} /\ (at[u] > 0 => Instruction(u)[1] \in Calls)
    BY SemAwake
  <2>3. QED
    BY <1>4, <2>1, <2>2 DEF Calls
<1>7. held' = held /\ exited' = exited /\ blocked' = blocked
  BY <1>2 DEF Apart
<1>8. Pool'
  BY <1>2, <1>3, <1>5, PoolSame
<1>9. Holders'
  BY <1>3, <1>4, <1>7 DEF Holders
<1>10. \A s \in 1..4 : Flows(s)'
  <2> SUFFICES ASSUME NEW s \in 1..4 PROVE Flows(s)'
    OBVIOUS
  <2>1. at'[s] = 2 /\ s \notin exited' /\ s \in blocked'
    BY <1>3, <1>4, <1>6, <1>7
  <2>2. QED
    BY <2>1 DEF Flows, EndOf
<1>11. AtBarrier' = 4
  <2>1. at'[1] = 2 /\ at'[2] = 2 /\ at'[3] = 2 /\ at'[4] = 2
    BY <1>3, <1>6
  <2>2. QED
    BY <2>1 DEF AtBarrier, Sum4, Once
<1>12. Barred'
  <2>1. held'[0][0] = 4
    BY <1>5, <1>7
  <2>2. QED
    BY <1>3, <1>11, <2>1 DEF Barred
<1>13. QED
  BY <1>2, <1>3, <1>5, <1>8, <1>9, <1>10, <1>12 DEF PastBarrier

LEMMA PastMain ==
    ASSUME ThreadsPlaced, WaitersPlaced, HeldTyped, exit_code \in [Thread -> -1..3], InSem2,
           PastBarrier, units \in Seq(Nat), ThreadStep(0)
    PROVE  PastBarrier'
<1>1. 0 \in Thread /\ at \in [Thread -> Nat] /\ 0 \notin blocked
  <2>1. 0 \in Thread /\ at \in [Thread -> Nat]
    BY DEF ThreadsPlaced, Thread
  <2>2. QED
    BY <2>1, StepKinds
<1>2. /\ Len(units) = 3 /\ Pool /\ Holders /\ Barred /\ \A s \in 1..4 : Flows(s)
  BY DEF PastBarrier
<1>3. at[0] \in 13..22
  <2>1. at[0] \in 1..22 /\ at[0] >= 13
    BY Sem2Main DEF PastBarrier
  <2>2. QED
    BY <2>1
<1>4. CASE at[0] \in 13..16
  <2>1. Instruction(0) = Up(0)
    BY <1>4, Sem2Main
  <2>2. 0 \in Kinds \cap Nat /\ 0 < Len(units)
    BY <1>2, Sem1Kinds
  <2>3. Returns(0, 0) \/ \E u \in blocked : Delivers(0, 0, u)
    BY <1>1, <2>1, <2>2, WatchedUp
  <2>4. ~Returns(0, 0)
    <3>1. at[0] <= 16
      BY <1>4
    <3>2. PICK s \in 1..4 : at[s] = 2
      BY <3>1, BarrierHeld
    <3>3. s \in blocked
      BY <1>2, <3>2 DEF Flows
    <3>4. Instruction(s)[2] = 0
      BY <1>1, <3>2, <3>3, WaiterAt
    <3>5. QED
      BY <3>3, <3>4 DEF Returns
  <2>5. PICK u \in blocked : Delivers(0, 0, u)
    BY <2>3, <2>4
  <2>6. /\ at'[0] = at[0] + 1 /\ at'[u] = at[u] + 1 /\ Lowered(0, 0)
        /\ blocked' = blocked \ {u} /\ units' = units /\ exited' = exited
        /\ Instruction(u)[2] = 0
    BY <2>5 DEF Delivers
  <2>7. u \in 1..4 /\ u \notin exited /\ at[u] = 2
    <3>1. /\ u \in 1..4 /\ u \notin exited
          /\ \/ at[u] = 2 /\ Instruction(u)[2] = 0
             \/ at[u] = 3 /\ u \in {1, 3} /\ Instruction(u)[2] = Sem2Request[u]
      BY <1>1, WaiterAt
    <3>2. u \in {1, 3} => Sem2Request[u] # 0
      BY DEF Sem2Request
    <3>3. QED
      BY <2>6, <3>1, <3>2
  <2>8. at'[u] = 3 /\ Same4({u})
    <3>1. \A s \in 1..4 : s \notin {u} => s \in Thread \ {0, u}
      BY DEF Thread
    <3>2. QED
      BY <2>5, <2>6, <2>7, <3>1 DEF Delivers, Same4
  <2>9. Pool'
    <3>1. \A q \in 1..2 : Had(u, 3, q) = Had(u, 2, q)
      BY <2>7, HadPlaces
    <3>2. ASSUME NEW s \in 1..4, NEW q \in 1..2 PROVE Had(s, at'[s], q) = Had(s, at[s], q)
      <4>1. CASE s = u
        BY <2>7, <2>8, <3>1, <4>1
      <4>2. CASE s # u
        <5>1. at'[s] = at[s]
          BY <2>8, <4>2 DEF Same4
        <5>2. QED
          BY <5>1
      <4>3. QED
        BY <4>1, <4>2
    <3>3. QED
      BY <1>2, <2>6, <3>2, PoolSame
  <2>10. held'[2][1] = held[2][1] /\ held'[4][2] = held[4][2]
    <3>1. \A s \in Thread, q \in Kinds :
              <<s, q>> # <<0, 0>> /\ <<s, q>> # <<u, 0>> => held'[s][q] = held[s][q]
      BY <2>5 DEF Delivers
    <3>2. 2 \in Thread /\ 4 \in Thread /\ 1 \in Kinds /\ 2 \in Kinds
      BY Sem1Kinds DEF Thread
    <3>3. /\ <<2, 1>> # <<0, 0>> /\ <<2, 1>> # <<u, 0>>
          /\ <<4, 2>> # <<0, 0>> /\ <<4, 2>> # <<u, 0>>
      OBVIOUS
    <3>4. QED
      BY <3>1, <3>2, <3>3
  <2>11. Holders'
    <3>1. \A s \in 1..4 : at'[s] \in 2..3 => at[s] \in 2..3
      <4> SUFFICES ASSUME NEW s \in 1..4, at'[s] \in 2..3 PROVE at[s] \in 2..3
        OBVIOUS
      <4>1. CASE s = u
        BY <2>7, <4>1
      <4>2. CASE s # u
        BY <2>8, <4>2 DEF Same4
      <4>3. QED
        BY <4>1, <4>2
    <3>2. QED
      BY <1>2, <2>10, <3>1 DEF Holders
  <2>12. \A s \in 1..4 : Flows(s)'
    <3> SUFFICES ASSUME NEW s \in 1..4 PROVE Flows(s)'
      OBVIOUS
    <3>1. CASE s = u
      <4>1. at'[s] = 3 /\ s \notin exited' /\ s \notin blocked' /\ EndOf(s) \in {4, 6}
        BY <2>6, <2>7, <2>8, <3>1 DEF EndOf
      <4>2. at'[s] \in 2 .. EndOf(s) /\ at'[s] # 2
        BY <4>1
      <4>3. QED
        BY <4>1, <4>2 DEF Flows, EndOf
    <3>2. CASE s # u
      <4>1. at'[s] = at[s] /\ Flows(s) /\ (s \in blocked' <=> s \in blocked) /\ exited' = exited
        BY <1>2, <2>6, <2>8, <3>2 DEF Same4
      <4>2. QED
        BY <4>1 DEF Flows, EndOf
    <3>3. QED
      BY <3>1, <3>2
  <2>13. Barred'
    <3> DEFINE f == [s \in 1..4 |-> Once(at[s] = 2)]
               g == [s \in 1..4 |-> Once(at'[s] = 2)]
    <3>1. f \in [1..4 -> Int] /\ g \in [1..4 -> Int]
      BY DEF Once
    <3>2. g[u] = f[u] + (-1)
      BY <2>7, <2>8 DEF Once
    <3>3. \A s \in 1..4 : s # u => g[s] = f[s]
      BY <2>8 DEF Same4
    <3>4. AtBarrier = Sum4(f) /\ AtBarrier' = Sum4(g)
      BY DEF AtBarrier, Sum4, Once
    <3> HIDE DEF f, g
    <3>5. Sum4(g) = Sum4(f) + (-1)
      <4>1. u \in 1..4 /\ -1 \in Int
        BY <2>7
      <4>2. QED
        BY <3>1, <3>2, <3>3, <4>1, Sum4One
    <3>6. held[0][0] = 17 - at[0] /\ AtBarrier = 17 - at[0]
      BY <1>2, <1>4 DEF Barred
    <3>7. held'[0][0] = IF held[0][0] > 0 THEN held[0][0] - 1 ELSE 0
      BY <2>6 DEF Lowered
    <3>8. at'[0] <= 17 /\ held'[0][0] = 17 - at'[0] /\ AtBarrier' = 17 - at'[0]
      BY <1>4, <2>6, <3>4, <3>5, <3>6, <3>7
    <3>9. ~(at'[0] > 17)
      BY <1>4, <2>6
    <3>10. QED
      BY <3>8, <3>9 DEF Barred
  <2>14. at'[0] >= 13
    BY <1>4, <2>6
  <2>15. Len(units') = 3
    BY <1>2, <2>6
  <2>16. QED
    BY <2>9, <2>11, <2>12, <2>13, <2>14, <2>15 DEF PastBarrier
<1>5. CASE at[0] \in 17..22
  <2>1. /\ at'[0] = at[0] \/ at'[0] = at[0] + 1
        /\ \A s \in 1..8 : at'[s] = at[s]
        /\ UNCHANGED <<units, held, blocked>>
    <3>1. CASE at[0] \in 17..20
      <4>1. Instruction(0) = Join(at[0] - 16)
        BY <3>1, Sem2Main
      <4>2. GoesBy(0, 1) /\ Apart /\ units' = units
        BY <4>1, MainJoins
      <4>3. QED
        BY <4>2, MainAlone DEF Apart
    <3>2. CASE at[0] = 21 \/ at[0] = 22
      <4>1. Instruction(0) = Check("none_failed", 0) \/ Instruction(0) = Exit(0)
        BY <3>2, Sem2Main
      <4>2. QED
        BY <4>1, MainFinishes
    <3>3. QED
      BY <1>5, <3>1, <3>2
  <2>2. \A s \in 1..4 : at'[s] = at[s] /\ (s \in exited' <=> s \in exited)
    <3>1. \A s \in 1..4 : s # 0
      OBVIOUS
    <3>2. exited' = exited \/ exited' = exited \cup {0}
      BY <1>1, EndStep
    <3>3. QED
      BY <2>1, <3>1, <3>2
  <2>3. Pool'
    BY <1>2, <2>1, <2>2, PoolSame
  <2>4. Holders'
    BY <1>2, <2>1, <2>2 DEF Holders
  <2>5. \A s \in 1..4 : Flows(s)'
    <3> SUFFICES ASSUME NEW s \in 1..4 PROVE Flows(s)'
      OBVIOUS
    <3>1. Flows(s) /\ at'[s] = at[s] /\ (s \in exited' <=> s \in exited) /\ blocked' = blocked
      BY <1>2, <2>1, <2>2
    <3>2. QED
      BY <3>1 DEF Flows, EndOf
  <2>6. AtBarrier' = AtBarrier /\ held' = held
    <3>1. at'[1] = at[1] /\ at'[2] = at[2] /\ at'[3] = at[3] /\ at'[4] = at[4]
      BY <2>2
    <3>2. QED
      BY <2>1, <3>1 DEF AtBarrier, Sum4, Once
  <2>7. Barred'
    <3> DEFINE a == at[0]
               b == at'[0]
    <3>1. a \in 17..22 /\ (b = a \/ b = a + 1)
      BY <1>5, <2>1
    <3>2. (a <= 17 => held[0][0] = 17 - a /\ AtBarrier = 17 - a) /\ (a > 17 => AtBarrier = 0)
      BY <1>2 DEF Barred
    <3> HIDE DEF a, b
    <3>3. AtBarrier = 0 /\ (b <= 17 => b = 17 /\ held[0][0] = 0)
      BY <3>1, <3>2
    <3>4. (b <= 17 => held[0][0] = 17 - b /\ AtBarrier = 17 - b) /\ (b > 17 => AtBarrier = 0)
      BY <3>3
    <3>5. QED
      BY <2>6, <3>4 DEF Barred, b
  <2>8. at'[0] >= 13
    <3> DEFINE a == at[0]
               b == at'[0]
    <3>1. a \in 17..22 /\ (b = a \/ b = a + 1)
      BY <1>5, <2>1
    <3> HIDE DEF a, b
    <3>2. b >= 13
      BY <3>1
    <3>3. QED
      BY <3>2 DEF b
  <2>9. Len(units') = 3
    BY <1>2, <2>1
  <2>10. QED
    BY <2>3, <2>4, <2>5, <2>7, <2>8, <2>9 DEF PastBarrier
<1>6. QED
  BY <1>3, <1>4, <1>5

LEMMA Sharing2Main ==
    ASSUME ThreadsPlaced, WaitersPlaced, HeldTyped, exit_code \in [Thread -> -1..3], InSem2,
           Sharing2, at[0] < 12, units \in Seq(Nat), ThreadStep(0)
    PROVE  Sharing2'
<1>1. 0 \in Thread /\ at \in [Thread -> Nat]
  BY DEF ThreadsPlaced, Thread
<1>2. /\ Made2 /\ Holders
      /\ \A s \in 1..4 : at[s] <= 2 /\ s \notin exited /\ (s \in blocked => at[s] = 2)
  BY DEF Sharing2
<1>3. at[0] \in 1..11
  <2> DEFINE a == at[0]
  <2>1. a \in 1..22
    BY Sem2Main
  <2>2. a < 12
    OBVIOUS
  <2> HIDE DEF a
  <2>3. a \in 1..11
    BY <2>1, <2>2
  <2>4. QED
    BY <2>3 DEF a
<1>4. \A s \in 1..4 : at[s] \in Nat /\ (~(at[0] > 7 + s) => at[s] = 0)
  <2> SUFFICES ASSUME NEW s \in 1..4 PROVE at[s] \in Nat /\ (~(at[0] > 7 + s) => at[s] = 0)
    OBVIOUS
  <2>1. s \in Thread /\ s \in 1..8
    BY DEF Thread
  <2>2. at[s] \in Nat
    BY <1>1, <2>1
  <2>3. at[s] > 0 => at[0] > 7 + s
    BY <2>1, Sem2Main
  <2>4. QED
    BY <2>2, <2>3
<1>5. ASSUME GoesBy(0, 1) PROVE at'[0] = at[0] + 1 /\ \A s \in 1..4 : at'[s] = at[s]
  BY <1>5, MainAlone
(* While nobody has started.                                               *)
<1>6. ASSUME Made2', GoesBy(0, 1), exited' = exited, blocked' = blocked, at[0] <= 7
      PROVE  Sharing2'
  <2>1. \A s \in 1..4 : at'[s] = 0
    <3>1. \A s \in 1..4 : ~(at[0] > 7 + s)
      <4> DEFINE a == at[0]
      <4>1. a \in 1..11 /\ a <= 7
        BY <1>3, <1>6
      <4> HIDE DEF a
      <4>2. \A s \in 1..4 : ~(a > 7 + s)
        BY <4>1
      <4>3. QED
        BY <4>2 DEF a
    <3>2. QED
      BY <1>4, <1>5, <1>6, <3>1
  <2>2. \A s \in 1..4 : at'[s] <= 2 /\ s \notin exited' /\ (s \in blocked' => at'[s] = 2)
    BY <1>2, <1>5, <1>6, <2>1
  <2>3. Holders'
    BY <2>1 DEF Holders
  <2>4. QED
    BY <1>6, <2>2, <2>3 DEF Sharing2
<1>7. CASE at[0] = 1
  <2>1. Instruction(0) = Create(4) /\ 4 \in Nat
    BY <1>7, Sem2Main
  <2>2. /\ GoesBy(0, 1) /\ Apart
        /\ Len(units') = Len(units) + 1 /\ units'[Len(units) + 1] = 4
    BY <2>1, MainCreates
  <2>3. Len(units) = 0 /\ held[0][0] = 0
    BY <1>2, <1>7 DEF Made2
  <2>4. Len(units') = 1 /\ units'[1] = 4 /\ at'[0] = 2 /\ held'[0][0] = 0
    BY <1>5, <1>7, <2>2, <2>3 DEF Apart
  <2>5. Made2'
    BY <2>4 DEF Made2
  <2>6. QED
    BY <1>6, <1>7, <2>2, <2>5 DEF Apart
<1>8. CASE at[0] \in 2..5
  <2>1. Instruction(0) = <<"down", 0, 1>>
    BY <1>8, Sem2Main DEF Down
  <2>2. Len(units) = 1 /\ units[1] = 6 - at[0] /\ held[0][0] = at[0] - 2
    <3>1. at[0] = 2 \/ at[0] = 3 \/ at[0] = 4 \/ at[0] = 5
      BY <1>8
    <3>2. QED
      BY <1>2, <3>1 DEF Made2
  <2>3. 0 \in Kinds \cap Nat /\ 0 < Len(units) /\ 1 \in Nat
    BY <2>2, Sem1Kinds
  <2>4. Grabs(0, 0) \/ Waits(0, 0) \/ Refuses(0, 0, 1)
    BY <1>1, <2>1, <2>3, WatchedDown
  <2>5. Free(0) # 0
    BY <1>8, <2>2 DEF Free
  <2>6. Grabs(0, 0)
    BY <2>4, <2>5 DEF Waits, Refuses
  <2>7. /\ UnitsBy(0, -1) /\ GoesBy(0, 1) /\ held'[0][0] = held[0][0] + 1
        /\ exited' = exited /\ blocked' = blocked
    BY <2>6 DEF Grabs
  <2>8. Len(units') = 1 /\ units'[1] = units[1] + (-1)
    BY <2>2, <2>7 DEF UnitsBy
  <2>9. at'[0] = at[0] + 1
    BY <1>5, <2>7
  <2>10. at'[0] \in 2..6 /\ units'[1] = 6 - at'[0] /\ held'[0][0] = at'[0] - 2
    BY <1>8, <2>2, <2>7, <2>8, <2>9
  <2>11. Made2'
    BY <2>8, <2>10 DEF Made2
  <2>12. at[0] <= 7
    BY <1>8
  <2>13. QED
    BY <1>6, <2>7, <2>11, <2>12
<1>9. CASE at[0] = 6
  <2>1. Instruction(0) = Create(2) /\ 2 \in Nat
    BY <1>9, Sem2Main
  <2>2. /\ GoesBy(0, 1) /\ Apart
        /\ Len(units') = Len(units) + 1 /\ units'[Len(units) + 1] = 2
        /\ \A i \in 1..Len(units) : units'[i] = units[i]
    BY <2>1, MainCreates
  <2>3. Len(units) = 1 /\ units[1] = 0 /\ held[0][0] = 4
    BY <1>2, <1>9 DEF Made2
  <2>4. Len(units') = 2 /\ units'[1] = 0 /\ units'[2] = 2 /\ at'[0] = 7 /\ held'[0][0] = 4
    BY <1>5, <1>9, <2>2, <2>3 DEF Apart
  <2>5. Made2'
    BY <2>4 DEF Made2
  <2>6. QED
    BY <1>6, <1>9, <2>2, <2>5 DEF Apart
<1>10. CASE at[0] = 7
  <2>1. Instruction(0) = Create(2) /\ 2 \in Nat
    BY <1>10, Sem2Main
  <2>2. /\ GoesBy(0, 1) /\ Apart
        /\ Len(units') = Len(units) + 1 /\ units'[Len(units) + 1] = 2
        /\ \A i \in 1..Len(units) : units'[i] = units[i]
    BY <2>1, MainCreates
  <2>3. Len(units) = 2 /\ units[1] = 0 /\ units[2] = 2 /\ held[0][0] = 4
    BY <1>2, <1>10 DEF Made2
  <2>4. /\ Len(units') = 3 /\ units'[1] = 0 /\ units'[2] = 2 /\ units'[3] = 2
        /\ at'[0] = 8 /\ held'[0][0] = 4
    BY <1>5, <1>10, <2>2, <2>3 DEF Apart
  <2>5. Pool'
    <3>1. \A s \in 1..4 : at'[s] = 0
      BY <1>4, <1>5, <1>10, <2>2
    <3>2. \A s \in 1..4, q \in 1..2 : Had(s, at'[s], q) = 0
      BY <3>1, HadPlaces
    <3>3. ASSUME NEW q \in 1..2 PROVE units'[q + 1] = 2 - Sum4(HadOf(q)')
      <4> DEFINE g == [s \in 1..4 |-> Had(s, at'[s], q)]
      <4>1. g[1] = 0 /\ g[2] = 0 /\ g[3] = 0 /\ g[4] = 0
        BY <3>2
      <4>2. HadOf(q)' = g
        BY DEF HadOf, Had, Once
      <4> HIDE DEF g
      <4>3. Sum4(HadOf(q)') = 0
        BY <4>1, <4>2 DEF Sum4
      <4>4. units'[q + 1] = 2
        BY <2>4
      <4>5. QED
        BY <4>3, <4>4
    <3>4. QED
      BY <3>3 DEF Pool
  <2>6. Made2'
    BY <2>4, <2>5 DEF Made2
  <2>7. QED
    BY <1>6, <1>10, <2>2, <2>6 DEF Apart
<1>11. CASE at[0] \in 8..11
  <2> DEFINE k == at[0] - 7
  <2>1. k \in 1..4 /\ k \in 1..8
    BY <1>11
  <2>2. Instruction(0) = Start(k)
    BY <1>11, Sem2Main
  <2> HIDE DEF k
  <2>3. /\ at[k] = 0 /\ at'[k] = 1 /\ at'[0] = at[0] + 1
        /\ \A s \in 1..8 : s # k => at'[s] = at[s]
        /\ Apart /\ units' = units
    BY <2>1, <2>2, MainStarts
  <2>4. Len(units) = 3 /\ units[1] = 0 /\ Pool /\ held[0][0] = 4
    <3> DEFINE a == at[0]
    <3>1. a \in 8..11
      BY <1>11
    <3> HIDE DEF a
    <3>2. a # 1 /\ a \notin 2..6 /\ a # 7
      BY <3>1
    <3>3. QED
      BY <1>2, <3>2 DEF Made2, a
  <2>5. \A s \in 1..4 : at'[s] = at[s] \/ (at[s] = 0 /\ at'[s] = 1)
    BY <2>1, <2>3
  <2>6. Pool'
    <3>1. \A s \in 1..4, q \in 1..2 : Had(s, 0, q) = 0 /\ Had(s, 1, q) = 0
      BY HadPlaces
    <3>2. \A s \in 1..4, q \in 1..2 : Had(s, at'[s], q) = Had(s, at[s], q)
      BY <2>5, <3>1
    <3>3. QED
      BY <2>3, <2>4, <3>2, PoolSame
  <2>7. held' = held /\ exited' = exited /\ blocked' = blocked
    BY <2>3 DEF Apart
  <2>8. at'[0] \in 8..12
    BY <1>11, <2>3
  <2>9. Made2'
    BY <2>3, <2>4, <2>6, <2>7, <2>8 DEF Made2
  <2>10. Holders'
    BY <1>2, <2>5, <2>7 DEF Holders
  <2>11. \A s \in 1..4 : at'[s] <= 2 /\ s \notin exited' /\ (s \in blocked' => at'[s] = 2)
    BY <1>2, <2>5, <2>7
  <2>12. QED
    BY <2>9, <2>10, <2>11 DEF Sharing2
<1>12. at[0] = 1 \/ at[0] \in 2..5 \/ at[0] = 6 \/ at[0] = 7 \/ at[0] \in 8..11
  BY <1>3
<1>13. QED
  BY <1>7, <1>8, <1>9, <1>10, <1>11, <1>12

LEMMA Sem2Step ==
    ASSUME ThreadsPlaced, WaitersPlaced, HeldTyped, exit_code \in [Thread -> -1..3],
           units \in Seq(Nat), InSem2, Sem2Inv, NEW t \in Thread, ThreadStep(t)
    PROVE  Sem2Inv'
<1>1. t = 0 \/ t \in 1..8
  BY DEF Thread
<1>2. CASE PastBarrier
  <2>1. CASE t = 0
    BY <1>2, <2>1, PastMain DEF Sem2Inv
  <2>2. CASE t \in 1..8
    BY <1>2, <2>2, PastTeam DEF Sem2Inv
  <2>3. QED
    BY <1>1, <2>1, <2>2
<1>3. CASE Sharing2
  <2>1. CASE t = 0
    <3>1. at[0] < 12 \/ at[0] = 12
      <4>1. Made2 => (at[0] < 12 \/ at[0] = 12)
        <5> DEFINE a == at[0]
        <5>1. Made2 => (a = 1 \/ a \in 2..6 \/ a = 7 \/ a \in 8..12)
          BY DEF Made2
        <5> HIDE DEF a
        <5>2. (a = 1 \/ a \in 2..6 \/ a = 7 \/ a \in 8..12) => (a < 12 \/ a = 12)
          OBVIOUS
        <5>3. QED
          BY <5>1, <5>2 DEF a
      <4>2. QED
        BY <1>3, <4>1 DEF Sharing2
    <3>2. ThreadStep(0)
      BY <2>1
    <3>3. QED
      BY <1>3, <3>1, <3>2, Sharing2Main, Sem2Wakes DEF Sem2Inv
  <2>2. CASE t \in 1..8
    BY <1>3, <2>2, Sharing2Team DEF Sem2Inv
  <2>3. QED
    BY <1>1, <2>1, <2>2
<1>4. QED
  BY <1>2, <1>3 DEF Sem2Inv

-----------------------------------------------------------------------------
(*                  Every test of the threads passes                       *)

ThreadsFine ==
    /\ EndCodes /\ MainFine /\ HeldTyped
    /\ Racing => RaceInv
    /\ Relocking => MutexInv
    /\ InSem1 => Sem1Inv
    /\ InSem2 => Sem2Inv

LEMMA FineAtStart == ThreadInit => ThreadsFine
<1> SUFFICES ASSUME ThreadInit PROVE ThreadsFine
  OBVIOUS
<1>1. /\ at = [t \in Thread |-> IF t = 0 THEN 1 ELSE 0] /\ units = <<>> /\ exited = {}
      /\ blocked = {} /\ A = 0 /\ held = [t \in Thread |-> [r \in 0 .. N + 3 |-> 0]]
  BY DEF ThreadInit, ThreadsAtStart
<1>2. at[0] = 1 /\ \A t \in 1..8 : at[t] = 0
  BY <1>1 DEF Thread
<1>3. Len(units) = 0
  BY <1>1
<1>4. EndCodes /\ MainFine
  BY <1>1 DEF EndCodes, MainFine
<1>5. HeldTyped
  BY <1>1 DEF HeldTyped, Holdings, Kinds
<1>6. held[0][0] = 0
  <2>1. 0 \in Kinds /\ 0 \in Thread
    BY Sem1Kinds DEF Thread
  <2>2. QED
    BY <1>1, <2>1 DEF Kinds
<1>7. RaceInv
  <2>1. \A t \in 1..8 : AdderTurn(at[t]) = 1 /\ Added(at[t]) = 0
    BY <1>2, AdderFacts
  <2>2. Sum8(Adding(at)) = 0
    <3> DEFINE f == Adding(at)
    <3>1. f[1] = 0 /\ f[2] = 0 /\ f[3] = 0 /\ f[4] = 0 /\ f[5] = 0 /\ f[6] = 0 /\ f[7] = 0 /\ f[8] = 0
      BY <2>1 DEF Adding
    <3> HIDE DEF f
    <3>2. Sum8(f) = 0
      BY <3>1 DEF Sum8
    <3>3. QED
      BY <3>2 DEF f
  <2>3. \A k \in 1..THREAD_COUNT : ~(1 > 1 + THREAD_COUNT + k)
    BY ThreadCounts
  <2>4. QED
    BY <1>1, <1>2, <1>3, <2>1, <2>2, <2>3 DEF RaceInv
<1>8. MutexInv
  BY <1>2, <1>3 DEF MutexInv
<1>9. Sem1Inv
  <2>1. Made1
    BY <1>2, <1>3 DEF Made1
  <2>2. \A t \in 1..3 : at[t] <= Barrier(t) /\ t \notin blocked
    BY <1>1, <1>2 DEF Barrier
  <2>3. Sharing
    BY <1>1, <1>2, <2>1, <2>2 DEF Sharing
  <2>4. Joined
    BY <1>2 DEF Joined
  <2>5. QED
    BY <2>3, <2>4 DEF Sem1Inv
<1>10. Sem2Inv
  <2>1. Made2
    BY <1>2, <1>3, <1>6 DEF Made2
  <2>2. Holders
    BY <1>2 DEF Holders
  <2>3. QED
    BY <1>1, <1>2, <2>1, <2>2 DEF Sharing2, Sem2Inv
<1>11. QED
  BY <1>4, <1>5, <1>7, <1>8, <1>9, <1>10 DEF ThreadsFine

LEMMA TestNames ==
    ThreadTests = {"phil_din_mutex", "sync_sem", "test_condvar", "mpsc_sem", "race_adder",
                   "threads", "threads_arg", "deadlock_mutex1", "deadlock_sem1", "deadlock_sem2"}
BY DEF ThreadTests, ThreadTest

(* Main ends where it is done, or where its assertion holds and the unit   *)
(* it asks for is there: no step ends it with a failure.                   *)
LEMMA MainEndsFine ==
    ASSUME ThreadsPlaced, WaitersPlaced, HeldTyped, units \in Seq(Nat), ThreadsFine,
           ThreadStep(0), EndsThread(Instruction(0))
    PROVE  MainUnhurt
<1>1. EndCodes /\ MainFine /\ 0 \in Thread
  BY DEF ThreadsFine, Thread
<1>2. CASE Racing
  BY <1>2, RaceMainStep DEF ThreadsFine
<1>3. CASE Relocking
  BY <1>1, <1>3, MutexStep DEF ThreadsFine
<1>4. CASE InSem1
  BY <1>1, <1>4, Sem1Unhurt DEF ThreadsFine
<1>5. CASE InSem2
  BY <1>1, <1>5, Sem2Unhurt DEF ThreadsFine
<1>6. CASE test \in DoneTests
  BY <1>6, DoneMains DEF MainUnhurt
<1>7. Racing \/ Relocking \/ InSem1 \/ InSem2 \/ test \in DoneTests
  BY TestNames DEF ThreadsPlaced, Racing, Relocking, InSem1, InSem2, DoneTests
<1>8. QED
  BY <1>2, <1>3, <1>4, <1>5, <1>6, <1>7

LEMMA FineStep ==
    ASSUME ThreadsPlaced, WaitersPlaced, exit_code \in [Thread -> -1..3], units \in Seq(Nat),
           cur \in [Thread -> Nat], ThreadsFine, NEW t \in Thread, ThreadStep(t)
    PROVE  ThreadsFine'
<1>1. test' = test
  BY StepKinds
<1>2. t = 0 \/ t \in 1..8
  BY DEF Thread
<1>3. EndCodes /\ MainFine /\ HeldTyped
  BY DEF ThreadsFine
<1>4. EndCodes'
  BY <1>3, EndCodesKept
<1>5. MainFine'
  <2>1. t = 0 /\ EndsThread(Instruction(0)) => MainUnhurt
    BY <1>3, MainEndsFine
  <2>2. QED
    BY <1>3, <2>1, MainFineKept
<1>6. HeldTyped'
  BY <1>3, HeldStep
<1>7. ASSUME Racing PROVE RaceInv'
  <2>1. RaceInv
    BY <1>7 DEF ThreadsFine
  <2>2. QED
    BY <1>2, <1>7, <2>1, RaceMainStep, RaceTeamStep
<1>8. ASSUME Relocking PROVE MutexInv'
  <2>1. MutexInv
    BY <1>8 DEF ThreadsFine
  <2>2. QED
    BY <1>3, <1>8, <2>1, MutexStep
<1>9. ASSUME InSem1 PROVE Sem1Inv'
  <2>1. Sem1Inv
    BY <1>9 DEF ThreadsFine
  <2>2. QED
    BY <1>3, <1>9, <2>1, Sem1Step
<1>10. ASSUME InSem2 PROVE Sem2Inv'
  <2>1. Sem2Inv
    BY <1>10 DEF ThreadsFine
  <2>2. QED
    BY <1>3, <1>10, <2>1, Sem2Step
<1>11. QED
  BY <1>1, <1>4, <1>5, <1>6, <1>7, <1>8, <1>9, <1>10
  DEF ThreadsFine, Racing, Relocking, InSem1, InSem2

LEMMA FineUntouched ==
    ASSUME ThreadsFine, UNCHANGED <<test, at, exited, exit_code, units, held, blocked, A, cur>>
    PROVE  ThreadsFine'
<1>1. \A u : Instruction(u)' = Instruction(u)
  BY DEF Instruction
<1>2. EndCodes' = EndCodes /\ MainFine' = MainFine /\ HeldTyped' = HeldTyped
  BY <1>1 DEF EndCodes, MainFine, HeldTyped
<1>3. RaceInv' = RaceInv
  BY DEF RaceInv
<1>4. MutexInv' = MutexInv
  BY DEF MutexInv
<1>5. Sem1Inv' = Sem1Inv
  <2>1. Failing' = Failing /\ Circle' = Circle /\ Joined' = Joined
    BY DEF Failing, Circle, Joined
  <2>2. Made1' = Made1
    BY DEF Made1, Shares
  <2>3. Sharing' = Sharing
    BY <2>2 DEF Sharing
  <2>4. QED
    BY <2>1, <2>3 DEF Sem1Inv
<1>6. Sem2Inv' = Sem2Inv
  <2>1. Pool' = Pool /\ Holders' = Holders /\ Barred' = Barred
    BY DEF Pool, HadOf, Had, Once, Holders, Barred, AtBarrier
  <2>2. Made2' = Made2
    BY <2>1 DEF Made2
  <2>3. \A s : Flows(s)' = Flows(s)
    BY DEF Flows
  <2>4. Sharing2' = Sharing2
    BY <2>1, <2>2 DEF Sharing2
  <2>5. PastBarrier' = PastBarrier
    BY <2>1, <2>3 DEF PastBarrier
  <2>6. QED
    BY <2>4, <2>5 DEF Sem2Inv
<1>7. QED
  BY <1>2, <1>3, <1>4, <1>5, <1>6 DEF ThreadsFine, Racing, Relocking, InSem1, InSem2

(* Every test of the threads exits with 0 in any order of its threads and  *)
(* for any number of them and of their rounds: the adders lose no update,  *)
(* the mutex taken twice is refused as a deadlock, the three threads in a  *)
(* circle have one that is refused, and none of the four that can all go   *)
(* on is; threads, threads_arg, race_adder, deadlock_mutex1, deadlock_sem1 *)
(* and deadlock_sem2, and the four programs of ThreadsSynchronised.        *)
THEOREM ThreadTestsCorrect == Spec => []ThreadTestsPass
<1> DEFINE Inv == test # "none" => ThreadsFine
<1>1. Init => Inv
  <2> SUFFICES ASSUME Init PROVE Inv
    OBVIOUS
  <2>1. ThreadInit \/ ThreadsOff
    BY DEF Init, ThreadsOff
  <2>2. QED
    BY <2>1, FineAtStart DEF ThreadsOff
<1>2. ThreadInv /\ Inv /\ [Next]_vars => Inv'
  <2> SUFFICES ASSUME ThreadInv, Inv, [Next]_vars PROVE Inv'
    OBVIOUS
  <2>1. CASE UNCHANGED tvars
    <3>1. UNCHANGED <<test, at, exited, exit_code, units, held, blocked, A, cur>>
      BY <2>1 DEF tvars
    <3>2. QED
      BY <3>1, FineUntouched
  <2>2. CASE test # "none" /\ ThreadNext
    <3>1. /\ ThreadsPlaced /\ WaitersPlaced /\ ThreadsFine
          /\ exit_code \in [Thread -> -1..3] /\ units \in Seq(Nat) /\ cur \in [Thread -> Nat]
      BY <2>2 DEF ThreadInv, ThreadsOff, StateTyped
    <3>2. ASSUME NEW t \in Thread, ThreadStep(t) PROVE ThreadsFine'
      BY <3>1, <3>2, FineStep
    <3>3. ASSUME NEW t \in Thread, SpuriousWakeup(t) PROVE ThreadsFine'
      <4>1. UNCHANGED <<test, at, exited, exit_code, units, held, blocked, A, cur>>
        BY <3>3 DEF SpuriousWakeup, Locks, Shared
      <4>2. QED
        BY <3>1, <4>1, FineUntouched
    <3>4. QED
      BY <2>1, <2>2, <3>2, <3>3 DEF ThreadNext, ThreadsEnded
  <2>3. QED
    BY <2>1, <2>2 DEF Next, vars
<1>3. ThreadInv /\ Inv => ThreadTestsPass
  <2> SUFFICES ASSUME ThreadInv, Inv, 0 \in exited PROVE exit_code[0] = 0
    BY DEF ThreadTestsPass
  <2>1. test # "none"
    <3>1. ThreadsOff => exited = {}
      BY DEF ThreadsOff, ThreadsAtStart
    <3>2. ThreadsPlaced => test # "none"
      BY TestNames DEF ThreadsPlaced
    <3>3. QED
      BY <3>1, <3>2 DEF ThreadInv
  <2>2. EndCodes /\ MainFine
    BY <2>1 DEF ThreadsFine
  <2>3. Instruction(0) = Exit(0) /\ exit_code[0] = EndCode(Instruction(0))
    BY <2>2 DEF EndCodes, MainFine
  <2>4. QED
    BY <2>3 DEF EndCode, Exit
<1>4. QED
  BY <1>1, <1>2, <1>3, ThreadsInvariant, PTL DEF Spec
=============================================================================
