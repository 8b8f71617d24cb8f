---------------------------- MODULE UserThreads ----------------------------
(***************************************************************************)
(* The test programs of chapter 8 that create threads (os/tg-user/src/bin):*)
(* dining philosophers, bounded buffer, condition variable, race adder and *)
(* the deadlock detection tests.  Each thread is a sequence of             *)
(* instructions, one per system call or per access to a shared static;     *)
(* printing, and sleeps nothing rests on, are left out.  Loops are         *)
(* unrolled, as often as the CONSTANTS named after those of the program    *)
(* say.                                                                    *)
(*                                                                         *)
(* No kernel of the repository has threads.  What the calls do is taken    *)
(* from how the programs use them: a mutex is taken and given back like a  *)
(* semaphore of one; who waits gets a unit in any order; condvar_wait may  *)
(* also return with no signal.                                             *)
(***************************************************************************)
EXTENDS Scripts, FiniteSetsExt

CONSTANTS
    N, ROUND,                                          \* phil_din_mutex
    BUFFER_SIZE, PRODUCER_COUNT, NUMBER_PER_PRODUCER,  \* mpsc_sem
    THREAD_COUNT, PER_THREAD                           \* race_adder

ASSUME ThreadAssumption ==
    /\ N \in 2..8 /\ ROUND \in Nat \ {0}
    /\ BUFFER_SIZE \in Nat \ {0} /\ NUMBER_PER_PRODUCER \in Nat \ {0}
    /\ PRODUCER_COUNT \in 1..7 /\ THREAD_COUNT \in 1..8 /\ PER_THREAD \in Nat \ {0}

VARIABLES
    test,      \* the program that runs, or "none"
    at,        \* next instruction of each thread, 0 before it is created
    exited,    \* threads that have exited
    exit_code,      \* their exit codes
    units,     \* units of the semaphores and mutexes created so far
    held,      \* how many of them each thread has taken and not given back
    blocked,   \* threads that wait in a lock or a down
    asleep,    \* threads that wait in condvar_wait
    A,         \* the static of test_condvar and of the race adder
    cur,       \* what each thread of the race adder has read from it
    BUFFER,    \* the ring of mpsc_sem
    FRONT, TAIL,
    printed    \* how often the consumer has printed each producer's id

tvars == <<test, at, exited, exit_code, units, held, blocked, asleep, A, cur, BUFFER,
           FRONT, TAIL, printed>>

Thread == 0..8      \* 0 is main; thread i is the i-th one it creates

-----------------------------------------------------------------------------
(*                           Instructions                                  *)

Create(n) == <<"create", n>>      \* mutex_create (n = 1), semaphore_create
Down(r) == <<"down", r, 1>>       \* and mutex_lock, whatever it answers
DownOk(r) == <<"down", r, 0>>     \* assert_eq!(semaphore_down(r), 0)
TryDown(r, n) == <<"down", r, n>> \* -0xdead: go on n instructions further
Up(r) == <<"up", r>>              \* and mutex_unlock
Start(t) == <<"thread", t>>       \* thread_create
Join(t) == <<"join", t>>          \* waittid
Outlast(S) == <<"sleep", S>>      \* a sleep in which S gets as far as it can
Do(name) == <<name>>

StartAll(n) == [t \in 1..n |-> Start(t)]
JoinAll(n) == [t \in 1..n |-> Join(t)]

-----------------------------------------------------------------------------
(*                            phil_din_mutex                               *)

(* The forks of philosopher t are mutexes id and id + 1, of the last one   *)
(* id and 0: the one with the smaller number comes first.                  *)
MinFork(t) == IF t = N THEN 0 ELSE t - 1
MaxFork(t) == IF t = N THEN N - 1 ELSE t

(* Mutant: the smaller fork is put back before eating.                     *)
OneFork(t) ==
    Times(ROUND, <<Outlast({0}), Down(MinFork(t)), Down(MaxFork(t)), Up(MinFork(t)),
                   Do("eat"), Up(MaxFork(t))>>) \o <<Exit(0)>>

(* Philosopher t - 1; its first sleep outlasts the creation of the forks.  *)
philosopher_dining_problem(t) ==
    Times(ROUND, <<Outlast({0}), Down(MinFork(t)), Down(MaxFork(t)), Do("eat"),
                   Up(MaxFork(t)), Up(MinFork(t))>>) \o <<Exit(0)>>

phil_din_mutex == [t \in Thread |->
    IF t = 0
    THEN ForEach(N, LAMBDA i : <<Create(1), Start(i)>>) \o JoinAll(N) \o <<Exit(0)>>
    ELSE philosopher_dining_problem(t)]

-----------------------------------------------------------------------------
(*                      sync_sem and test_condvar                          *)

(* Mutant: the semaphore starts with a unit.                               *)
SemWithUnit == [t \in Thread |->
    CASE t = 0 -> <<Create(1), Start(1), Start(2), Join(1), Join(2), Exit(0)>>
      [] t = 1 -> <<Do("work"), Up(0), Exit(0)>>
      [] OTHER -> <<Down(0), Exit(0)>>]

sync_sem == [t \in Thread |->
    CASE t = 0 -> <<Create(0), Start(1), Start(2), Join(1), Join(2), Exit(0)>>
      [] t = 1 -> <<Do("work"), Up(0), Exit(0)>>
      [] OTHER -> <<Down(0), Exit(0)>>]

(* Mutant: A is changed and the signal given without the mutex.            *)
SignalUnlocked == <<Do("work"), Do("signal"), Exit(0)>>

condvar_first == <<Down(0), Do("work"), Do("signal"), Up(0), Exit(0)>>

(* "test" goes on behind the wait once A is set; after "wait" the mutex is *)
(* taken again and A looked at again.                                      *)
condvar_second == <<Down(0), Do("test"), Do("wait"), Up(0), Exit(0)>>

test_condvar == [t \in Thread |->
    CASE t = 0 -> <<Create(1), Start(1), Start(2), Join(1), Join(2), Exit(0)>>
      [] t = 1 -> condvar_first
      [] OTHER -> condvar_second]

-----------------------------------------------------------------------------
(*               mpsc_sem: SEM_MUTEX 0, SEM_EMPTY 1, SEM_EXISTED 2         *)

(* Mutant: the empty slots are not counted.                                *)
ProducerUncounted ==
    Times(NUMBER_PER_PRODUCER,
          <<Down(0), Do("store"), Do("front"), Up(0), Up(2)>>) \o <<Exit(0)>>

producer ==
    Times(NUMBER_PER_PRODUCER,
          <<Down(1), Down(0), Do("store"), Do("front"), Up(0), Up(2)>>) \o <<Exit(0)>>

consumer ==
    Times(PRODUCER_COUNT * NUMBER_PER_PRODUCER,
          <<Down(2), Down(0), Do("print"), Do("tail"), Up(0), Up(1)>>) \o <<Exit(0)>>

mpsc_sem == [t \in Thread |->
    CASE t = 0 -> <<Create(1), Create(BUFFER_SIZE), Create(0)>>
                  \o StartAll(PRODUCER_COUNT + 1) \o JoinAll(PRODUCER_COUNT + 1)
                  \o <<Exit(0)>>
      [] t \in 1..PRODUCER_COUNT -> producer
      [] OTHER -> consumer]

-----------------------------------------------------------------------------
(*             race_adder_mutex_blocking, threads, threads_arg             *)

(* Mutant: A is read before the mutex is taken.                            *)
ReadUnlocked ==
    Times(PER_THREAD, <<Do("read"), Down(0), Do("write"), Up(0)>>) \o <<Exit(1)>>

(* The exit code is a number the test does not look at.                    *)
race_adder_f ==
    Times(PER_THREAD, <<Down(0), Do("read"), Do("write"), Up(0)>>) \o <<Exit(1)>>

race_adder == [t \in Thread |->
    IF t = 0 THEN <<Create(1)>> \o StartAll(THREAD_COUNT) \o JoinAll(THREAD_COUNT)
                  \o <<Check("total", 0), Exit(0)>>
    ELSE race_adder_f]

threads == [t \in Thread |->
    CASE t = 0 -> StartAll(8) \o JoinAll(8) \o <<Exit(0)>>
      [] t \in 1..3 -> <<Exit(t)>>
      [] OTHER -> <<Exit(2)>>]

threads_arg == [t \in Thread |->
    IF t = 0 THEN StartAll(3) \o JoinAll(3) \o <<Exit(0)>> ELSE <<Exit(t)>>]

-----------------------------------------------------------------------------
(*       ch8_deadlock_mutex1, ch8_deadlock_sem1, ch8_deadlock_sem2         *)

deadlock_mutex1 == [t \in Thread |->
    <<Create(1), DownOk(0), TryDown(0, 2), Exit(1), Up(0), Exit(0)>>]

(* What thread t of sem1 holds (sem_alloc), and what it asks for.          *)
Sem1Alloc == <<<<2>>, <<1, 2>>, <<3>>>>
Sem1Request == <<1, 3, 2>>

sem_alloc(t) == [i \in 1..Len(Sem1Alloc[t]) |-> DownOk(Sem1Alloc[t][i])] \o <<Down(0)>>

sem_dealloc(t) == <<Up(0)>> \o [i \in 1..Len(Sem1Alloc[t]) |-> Up(Sem1Alloc[t][i])]

(* Refused, it gives everything back and exits with -1.                    *)
deadlock_test1(t) ==
    sem_alloc(t) \o <<TryDown(Sem1Request[t], Len(sem_dealloc(t)) + 3)>>
    \o <<Up(Sem1Request[t])>> \o sem_dealloc(t) \o <<Exit(0)>>
    \o sem_dealloc(t) \o <<Exit(-1)>>

(* Main takes every unit of the barrier, creates resources and threads and *)
(* sleeps until each thread has its share and waits at the barrier.        *)
deadlock_main(n, resources) ==
    <<Create(n)>> \o Times(n, <<Down(0)>>) \o resources \o StartAll(n)
    \o <<Outlast(1..n)>> \o Times(n, <<Up(0)>>) \o JoinAll(n)

deadlock_sem1 == [t \in Thread |->
    CASE t = 0 -> deadlock_main(3, <<Create(1), Create(2), Create(1)>>)
                  \o <<Check("some_failed", 0), Exit(0)>>
      [] t \in 1..3 -> deadlock_test1(t)
      [] OTHER -> <<Exit(1)>>]

Sem2Alloc == <<2, 1, 1, 2>>
Sem2Request == <<1, 0, 2, 0>>     \* 0: None

deadlock_test2(t) ==
    <<DownOk(Sem2Alloc[t]), Down(0)>>
    \o (IF Sem2Request[t] = 0 THEN <<>>
        ELSE <<TryDown(Sem2Request[t], 4), Up(Sem2Request[t])>>)
    \o <<Up(Sem2Alloc[t]), Exit(0), Up(Sem2Alloc[t]), Exit(-1)>>

deadlock_sem2 == [t \in Thread |->
    CASE t = 0 -> deadlock_main(4, <<Create(2), Create(2)>>)
                  \o <<Check("none_failed", 0), Exit(0)>>
      [] t \in 1..4 -> deadlock_test2(t)
      [] OTHER -> <<Exit(1)>>]

-----------------------------------------------------------------------------
(*                             The machine                                 *)

ThreadTest ==
    [phil_din_mutex |-> phil_din_mutex, sync_sem |-> sync_sem,
     test_condvar |-> test_condvar, mpsc_sem |-> mpsc_sem, race_adder |-> race_adder,
     threads |-> threads, threads_arg |-> threads_arg,
     deadlock_mutex1 |-> deadlock_mutex1, deadlock_sem1 |-> deadlock_sem1,
     deadlock_sem2 |-> deadlock_sem2]

ThreadTests == DOMAIN ThreadTest

(* The programs that call enable_deadlock_detect.                          *)
Detecting == test \in {"deadlock_mutex1", "deadlock_sem1", "deadlock_sem2"}

ThreadsAtStart(running) ==
    /\ at = [t \in Thread |-> IF t \in running THEN 1 ELSE 0]
    /\ exited = {} /\ exit_code = [t \in Thread |-> 0]
    /\ units = <<>> /\ held = [t \in Thread |-> [r \in 0 .. N + 3 |-> 0]]
    /\ blocked = {} /\ asleep = {}
    /\ A = 0 /\ cur = [t \in Thread |-> 0]
    /\ BUFFER = [i \in 0 .. BUFFER_SIZE - 1 |-> 0] /\ FRONT = 0 /\ TAIL = 0
    /\ printed = [i \in 0 .. PRODUCER_COUNT - 1 |-> 0]

ThreadInit == test \in ThreadTests /\ ThreadsAtStart({0})

Instruction(t) == ThreadTest[test][t][at[t]]

Performs(t, op) ==
    /\ at[t] > 0
    /\ t \notin exited \cup blocked \cup asleep
    /\ Instruction(t)[1] = op

Advance(t, n) == at' = [at EXCEPT ![t] = @ + n]

ThreadExits(t, c) ==
    /\ exited' = exited \cup {t}
    /\ exit_code' = [exit_code EXCEPT ![t] = c]
    /\ at' = at

Shared == <<A, cur, BUFFER, FRONT, TAIL, printed>>
Locks == <<units, held, blocked>>

thread_exit(t) ==
    /\ Performs(t, "exit")
    /\ ThreadExits(t, Instruction(t)[2])
    /\ UNCHANGED <<test, Locks, asleep, Shared>>

(* panic_handler of lib.rs: exit(1).                                       *)
AdvanceOrPanic(t, ok, n) ==
    IF ok THEN Advance(t, n) /\ UNCHANGED <<exited, exit_code>> ELSE ThreadExits(t, 1)

ThreadClaim(name) ==
    CASE name = "total" -> A = PER_THREAD * THREAD_COUNT
      [] name = "some_failed" -> \E t \in exited : exit_code[t] # 0
      [] name = "none_failed" -> \A t \in exited : exit_code[t] = 0

thread_assert(t) ==
    /\ Performs(t, "assert")
    /\ AdvanceOrPanic(t, ThreadClaim(Instruction(t)[2]), 1)
    /\ UNCHANGED <<test, Locks, asleep, Shared>>

thread_create(t) ==
    /\ Performs(t, "thread")
    /\ at' = [at EXCEPT ![t] = @ + 1, ![Instruction(t)[2]] = 1]
    /\ UNCHANGED <<test, exited, exit_code, Locks, asleep, Shared>>

waittid(t) ==
    /\ Performs(t, "join")
    /\ Instruction(t)[2] \in exited
    /\ Advance(t, 1)
    /\ UNCHANGED <<test, exited, exit_code, Locks, asleep, Shared>>

(* u waits for another thread, or has exited.                              *)
Settled(u) ==
    \/ u \in exited \cup blocked \cup asleep
    \/ at[u] > 0 /\ Instruction(u)[1] = "join" /\ Instruction(u)[2] \notin exited

sleep(t) ==
    /\ Performs(t, "sleep")
    /\ \A u \in Instruction(t)[2] : Settled(u)
    /\ Advance(t, 1)
    /\ UNCHANGED <<test, exited, exit_code, Locks, asleep, Shared>>

-----------------------------------------------------------------------------
(*            Mutexes, semaphores, the condition variable                  *)

(* mutex_create and semaphore_create answer 0, 1, ...                      *)
create(t) ==
    /\ Performs(t, "create")
    /\ units' = Append(units, Instruction(t)[2])
    /\ Advance(t, 1)
    /\ UNCHANGED <<test, exited, exit_code, held, blocked, asleep, Shared>>

Free(r) == units[r + 1]

(* A set of threads, t among them, each of which waits for a unit that     *)
(* only threads of the set hold.                                           *)
Deadlocks(t) ==
    /\ Detecting
    /\ \E D \in SUBSET (blocked \cup {t}) :
          /\ t \in D
          /\ \A u \in D : \A h \in Thread : held[h][Instruction(u)[2]] > 0 => h \in D

down(t) ==
    /\ Performs(t, "down")
    /\ LET r == Instruction(t)[2] IN
       \/ /\ Free(r) > 0
          /\ units' = [units EXCEPT ![r + 1] = @ - 1]
          /\ held' = [held EXCEPT ![t][r] = @ + 1]
          /\ Advance(t, 1)
          /\ UNCHANGED <<exited, exit_code, blocked>>
       \/ /\ Free(r) = 0 /\ ~Deadlocks(t)
          /\ blocked' = blocked \cup {t}
          /\ UNCHANGED <<at, exited, exit_code, units, held>>
       \/ /\ Free(r) = 0 /\ Deadlocks(t)
          /\ AdvanceOrPanic(t, Instruction(t)[3] # 0, Instruction(t)[3])
          /\ UNCHANGED Locks
    /\ UNCHANGED <<test, asleep, Shared>>

(* t gives a unit of r back and goes on by n: a waiting thread gets it.    *)
GiveBack(t, r, n) ==
    LET less == [held EXCEPT ![t][r] = Max({@ - 1, 0})] IN
    \/ /\ \A u \in blocked : Instruction(u)[2] # r
       /\ units' = [units EXCEPT ![r + 1] = @ + 1]
       /\ held' = less
       /\ Advance(t, n)
       /\ UNCHANGED blocked
    \/ \E u \in blocked :
       /\ Instruction(u)[2] = r
       /\ held' = [less EXCEPT ![u][r] = @ + 1]
       /\ blocked' = blocked \ {u}
       /\ at' = [at EXCEPT ![t] = @ + n, ![u] = @ + 1]
       /\ UNCHANGED units

up(t) ==
    /\ Performs(t, "up")
    /\ GiveBack(t, Instruction(t)[2], 1)
    /\ UNCHANGED <<test, exited, exit_code, asleep, Shared>>

(* condvar_wait(0, 0): who wakes up takes the mutex again, which is the    *)
(* instruction two before.                                                 *)
condvar_wait(t) ==
    /\ Performs(t, "wait")
    /\ GiveBack(t, 0, -2)
    /\ asleep' = asleep \cup {t}
    /\ UNCHANGED <<test, exited, exit_code, Shared>>

condvar_signal(t) ==
    /\ Performs(t, "signal")
    /\ asleep' \in IF asleep = {} THEN {{}} ELSE {asleep \ {u} : u \in asleep}
    /\ Advance(t, 1)
    /\ UNCHANGED <<test, exited, exit_code, Locks, Shared>>

SpuriousWakeup(t) ==
    /\ t \in asleep
    /\ asleep' = asleep \ {t}
    /\ UNCHANGED <<test, at, exited, exit_code, Locks, Shared>>

-----------------------------------------------------------------------------
(*                     What the threads do themselves                      *)

(* One instruction on the statics of the program.                          *)
Access(t, op) ==
    Performs(t, op) /\ UNCHANGED <<test, exited, exit_code, Locks, asleep>>

eat(t) == Access(t, "eat") /\ Advance(t, 1) /\ UNCHANGED Shared

(* The first work: A = 1 (in sync_sem, a history of it).                   *)
work(t) ==
    /\ Access(t, "work") /\ Advance(t, 1)
    /\ A' = 1
    /\ UNCHANGED <<cur, BUFFER, FRONT, TAIL, printed>>

test_A(t) ==
    Access(t, "test") /\ Advance(t, IF A = 0 THEN 1 ELSE 2) /\ UNCHANGED Shared

read_A(t) ==
    /\ Access(t, "read") /\ Advance(t, 1)
    /\ cur' = [cur EXCEPT ![t] = A]
    /\ UNCHANGED <<A, BUFFER, FRONT, TAIL, printed>>

write_A(t) ==
    /\ Access(t, "write") /\ Advance(t, 1)
    /\ A' = cur[t] + 1
    /\ cur' = [cur EXCEPT ![t] = 0]
    /\ UNCHANGED <<BUFFER, FRONT, TAIL, printed>>

store(t) ==
    /\ Access(t, "store") /\ Advance(t, 1)
    /\ BUFFER' = [BUFFER EXCEPT ![FRONT] = t - 1]
    /\ UNCHANGED <<A, cur, FRONT, TAIL, printed>>

front(t) ==
    /\ Access(t, "front") /\ Advance(t, 1)
    /\ FRONT' = (FRONT + 1) % BUFFER_SIZE
    /\ UNCHANGED <<A, cur, BUFFER, TAIL, printed>>

print(t) ==
    /\ Access(t, "print") /\ Advance(t, 1)
    /\ printed' = [printed EXCEPT ![BUFFER[TAIL]] = @ + 1]
    /\ UNCHANGED <<A, cur, BUFFER, FRONT, TAIL>>

(* Mutant: the index does not wrap around.                                 *)
NoWrap(t) ==
    /\ Access(t, "tail") /\ Advance(t, 1)
    /\ TAIL' = TAIL + 1
    /\ UNCHANGED <<A, cur, BUFFER, FRONT, printed>>

tail(t) ==
    /\ Access(t, "tail") /\ Advance(t, 1)
    /\ TAIL' = (TAIL + 1) % BUFFER_SIZE
    /\ UNCHANGED <<A, cur, BUFFER, FRONT, printed>>

-----------------------------------------------------------------------------
ThreadStep(t) ==
    \/ thread_exit(t) \/ thread_assert(t) \/ thread_create(t) \/ waittid(t) \/ sleep(t)
    \/ create(t) \/ down(t) \/ up(t) \/ condvar_wait(t) \/ condvar_signal(t)
    \/ eat(t) \/ work(t) \/ test_A(t) \/ read_A(t) \/ write_A(t)
    \/ store(t) \/ front(t) \/ print(t) \/ tail(t)

ThreadsEnded == 0 \in exited /\ UNCHANGED tvars

ThreadNext ==
    \/ ThreadsEnded
    \/ \E t \in Thread : ThreadStep(t) \/ SpuriousWakeup(t)

-----------------------------------------------------------------------------
(*                             Properties                                  *)

ThreadTypeOK ==
    /\ at \in [Thread -> Nat] /\ exit_code \in [Thread -> -1..3]
    /\ exited \cup blocked \cup asleep \subseteq Thread
    /\ units \in Seq(Nat) /\ A \in Nat
    /\ FRONT \in DOMAIN BUFFER /\ TAIL \in DOMAIN BUFFER

(* No assertion of a program fails, in whatever order its threads run: the *)
(* race adder loses no addition, the tests with a deadlock see one and the *)
(* one without sees none; so main exits with 0.                            *)
ThreadTestsPass == 0 \in exited => exit_code[0] = 0

Eating(t) ==
    test = "phil_din_mutex" /\ at[t] > 0 /\ t \notin exited /\ Instruction(t)[1] = "eat"

(* Two philosophers with a fork in common never eat at the same time.      *)
NeighboursEatApart ==
    \A s, t \in Thread :
        s # t /\ Eating(s) /\ Eating(t) =>
            {MinFork(s), MaxFork(s)} \cap {MinFork(t), MaxFork(t)} = {}

(* Every number a producer puts into the ring is printed once, none is     *)
(* overwritten before and no slot is printed that was not filled.          *)
EachNumberOnce ==
    test = "mpsc_sem" /\ 0 \in exited =>
        \A i \in DOMAIN printed : printed[i] = NUMBER_PER_PRODUCER

(* The second thread goes on only after the first has done its work.       *)
SecondAfterFirst ==
    test \in {"sync_sem", "test_condvar"} /\ 2 \in exited => A = 1

(* Mutexes, semaphores and the condition variable keep the threads of each *)
(* program in step: eating neighbours, producers and the consumer, the     *)
(* first thread and the second.                                            *)
Synchronised == NeighboursEatApart /\ EachNumberOnce /\ SecondAfterFirst
=============================================================================
