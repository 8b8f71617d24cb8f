------------------------------ MODULE Ch3Kernel ------------------------------
(***************************************************************************)
(* The chapter 3 kernel: several applications, linked into the image, share *)
(* one hart (os/ch3/src/main.rs, task.rs).  rust_main scans the task table *)
(* round and round; a task runs until it yields, ends, or the timer armed  *)
(* before its last entry into user mode goes off.  Interrupts are taken in *)
(* user mode only, so a trap is handled to its end.  Time is counted in    *)
(* ticks of user execution.                                                *)
(***************************************************************************)
EXTENDS Integers, FiniteSets

CONSTANTS
    MaxApps,      \* bound: the build links 0..MaxApps applications
    AppCapacity,  \* APP_CAPACITY, entries of the task table (32)
    Quantum,      \* ticks until the armed timer goes off (12500)
    CountedIds,   \* the syscalls whose counters an instance follows
    MaxCount      \* bound: calls of each followed syscall by each task

(* "write" stands for write and clock_gettime, which the kernel counts and *)
(* answers alike.                                                          *)
Supported == {"write", "trace", "sched_yield", "exit"}

(* Two ids tg_syscall does not implement, one of them beyond the counters. *)
Ids == Supported \cup {"other", "beyond"}

ASSUME Ch3Assumption ==
    /\ MaxApps \in Nat /\ AppCapacity \in Nat
    /\ Quantum \in Nat \ {0}
    /\ CountedIds \subseteq Ids \ {"beyond"}
    /\ MaxCount \in Nat

VARIABLES
    apps,    \* how many applications are linked; never changes
    coop,    \* built with the feature coop: no timer; never changes
    mode,    \* "boot", "scan" (head of the while), "user", "again" (after
             \*   `continue`), "shutdown", "panic"
    i,       \* index of the task whose turn it is
    remain,  \* tasks not finished, as the kernel counts them
    finish,  \* TaskControlBlock.finish
    count,   \* TaskControlBlock.syscall_count
    ctx,     \* TaskControlBlock.ctx: where it resumes, and a0
    timer,   \* ticks to the deadline; Off when none is armed
    ran,     \* history: ticks since the last entry into user mode
    made,    \* history: made[t][id] calls of id task t has made
    since    \* history: since[t][u] turns of u after the last turn of t,
             \*   while t is not finished

built == <<apps, coop>>
history == <<made, since>>
vars == <<built, mode, i, remain, finish, count, ctx, timer, ran, history>>

-----------------------------------------------------------------------------
Off == -1    \* set_timer(u64::MAX)

Task == 0..MaxApps - 1

Linked == 0..apps - 1

Fresh == [pc |-> "entry", a0 |-> 0]

Init ==
    /\ apps \in 0..MaxApps
    /\ coop \in BOOLEAN
    /\ mode = "boot"
    /\ i = 0
    /\ remain = 0
    /\ finish = [t \in Task |-> FALSE]
    /\ count = [t \in Task |-> [id \in CountedIds |-> 0]]
    /\ ctx = [t \in Task |-> Fresh]
    /\ timer = Off
    /\ ran = 0
    /\ made = [t \in Task |-> [id \in CountedIds |-> 0]]
    /\ since = [t \in Task |-> [u \in Task |-> 0]]

(* The loading loop initialises one entry per application; an application  *)
(* beyond the table is an index out of bounds.                             *)
Load ==
    /\ mode = "boot"
    /\ apps <= AppCapacity
    /\ remain' = apps
    /\ mode' = "scan"
    /\ UNCHANGED <<built, i, finish, count, ctx, timer, ran, history>>

LoadPanic ==
    /\ mode = "boot"
    /\ apps > AppCapacity
    /\ mode' = "panic"
    /\ UNCHANGED <<built, i, remain, finish, count, ctx, timer, ran, history>>

-----------------------------------------------------------------------------
(*                          The scheduling loop                            *)

(* Mutant: a deadline still ahead is kept.                                 *)
ArmedOnce == IF coop \/ timer # Off THEN timer ELSE Quantum

(* set_timer before each entry into user mode, but not with coop.          *)
Armed == IF coop THEN timer ELSE Quantum

(* Mutant: finish is not looked at.                                        *)
AnyMayRun(t) == TRUE

MayRun(t) == ~finish[t]

(* Mutants: the scan restarts from task 0; it does not wrap around.        *)
FirstTask == 0
TaskAfter == i + 1

NextTask == (i + 1) % apps

SkipFinished ==
    /\ mode = "scan"
    /\ remain > 0
    /\ ~MayRun(i)
    /\ i' = NextTask
    /\ UNCHANGED <<built, mode, remain, finish, count, ctx, timer, ran, history>>

(* A turn of task i begins.                                                *)
Execute ==
    /\ mode = "scan"
    /\ remain > 0
    /\ MayRun(i)
    /\ mode' = "user"
    /\ timer' = Armed
    /\ ran' = 0
    /\ since' = [t \in Task |->
                    IF t \in Linked \ {i} /\ ~finish[t]
                    THEN [since[t] EXCEPT ![i] = @ + 1]
                    ELSE [u \in Task |-> 0]]
    /\ UNCHANGED <<built, i, remain, finish, count, ctx, made>>

(* `continue`: task i goes on, with a new deadline.                        *)
ExecuteAgain ==
    /\ mode = "again"
    /\ mode' = "user"
    /\ timer' = Armed
    /\ ran' = 0
    /\ UNCHANGED <<built, i, remain, finish, count, ctx, history>>

AllDone ==
    /\ mode = "scan"
    /\ remain = 0
    /\ mode' = "shutdown"
    /\ UNCHANGED <<built, i, remain, finish, count, ctx, timer, ran, history>>

ShutDown == mode \in {"shutdown", "panic"} /\ UNCHANGED vars

(* break without finish: the next task is looked at.                       *)
Switch ==
    /\ mode' = "scan"
    /\ i' = NextTask
    /\ UNCHANGED <<built, remain, finish>>

(* Mutant: remain is forgotten for a task that is killed.                  *)
RemainIfExit(event) == IF event = "exit" THEN remain - 1 ELSE remain

RemainAfter(event) == remain - 1

Finish(event) ==
    /\ mode' = "scan"
    /\ i' = NextTask
    /\ finish' = [finish EXCEPT ![i] = TRUE]
    /\ remain' = RemainAfter(event)
    /\ UNCHANGED built

-----------------------------------------------------------------------------
(*                     The task runs, and the timer                        *)

(* One tick of user execution without a trap.                              *)
Tick ==
    /\ mode = "user"
    /\ timer > 0
    /\ timer' = timer - 1
    /\ ran' = ran + 1
    /\ UNCHANGED <<built, mode, i, remain, finish, count, ctx, history>>

Timeout ==
    /\ mode = "user"
    /\ timer = 0
    /\ timer' = Off
    /\ ctx' = [ctx EXCEPT ![i].pc = "mid"]
    /\ Switch
    /\ UNCHANGED <<count, ran, history>>

(* An exception, or an interrupt that is not the timer's.                  *)
Killed ==
    /\ mode = "user"
    /\ timer # 0
    /\ Finish("killed")
    /\ UNCHANGED <<count, ctx, timer, ran, history>>

-----------------------------------------------------------------------------
(*                TaskControlBlock::handle_syscall                         *)

(* Mutant: one counter for all tasks.                                      *)
CountedForAll(id) ==
    [t \in Task |-> [count[t] EXCEPT ![id] = @ + 1]]

(* The call is counted before it is handled.                               *)
CountedOne(id) == [count EXCEPT ![i][id] = @ + 1]

(* Entry of handle_syscall; a call beyond MaxCount is not made.            *)
Called(id) ==
    /\ mode = "user"
    /\ timer # 0
    /\ IF id \in CountedIds
       THEN /\ count[i][id] < MaxCount
            /\ count' = CountedOne(id)
            /\ made' = [made EXCEPT ![i][id] = @ + 1]
       ELSE UNCHANGED <<count, made>>

(* Mutant: the answer is stored, but the task stays at the ecall.          *)
ReturnedAtEcall(ret) == [pc |-> "ecall", a0 |-> ret]

Returned(ret) == [pc |-> "after", a0 |-> ret]

(* Event::None: the answer ret, and the same task goes on.                 *)
Return(ret) ==
    /\ ctx' = [ctx EXCEPT ![i] = Returned(ret)]
    /\ mode' = "again"
    /\ UNCHANGED <<built, i, remain, finish, timer, ran, since>>

(* A size, 0 or -1: only the answers of queries are told apart, and 0      *)
(* stands for all others.                                                  *)
write_or_clock == Called("write") /\ Return(0)

(* What trace(2, id) answers: the calls so far, this one included.         *)
Queried(id) == count'[i][id]

trace_query(id) == Called("trace") /\ Return(Queried(id))

(* trace(0 or 1) reads or writes a byte of user memory, which is not part  *)
(* of the model; a query beyond the counters answers 0, another request -1.*)
trace_other == Called("trace") /\ Return(0)

sched_yield ==
    /\ Called("sched_yield")
    /\ ctx' = [ctx EXCEPT ![i] = Returned(0)]
    /\ Switch
    /\ UNCHANGED <<timer, ran, since>>

(* exit, and a syscall nobody implements, end the task at its ecall.       *)
EndByCall ==
    /\ \E id \in {"exit", "other", "beyond"} : Called(id) /\ Finish(id)
    /\ UNCHANGED <<ctx, timer, ran, since>>

-----------------------------------------------------------------------------
Kernel ==
    Load \/ LoadPanic \/ SkipFinished \/ Execute \/ ExecuteAgain \/ AllDone

Clock == Tick \/ Timeout

Trap == Killed \/ write_or_clock \/ trace_other \/ sched_yield \/ EndByCall
        \/ \E id \in CountedIds : trace_query(id)

Next == Kernel \/ Clock \/ Trap \/ ShutDown

Spec == Init /\ [][Next]_vars

(* The kernel's own steps are taken, and time passes in user mode; what a  *)
(* task does with its time is its own.                                     *)
FairSpec == Spec /\ WF_vars(Kernel \/ Clock)

-----------------------------------------------------------------------------
(*                             Properties                                  *)

TypeOK ==
    /\ apps \in 0..MaxApps
    /\ coop \in BOOLEAN
    /\ mode \in {"boot", "scan", "user", "again", "shutdown", "panic"}
    /\ i \in Linked \cup {0}
    /\ remain \in 0..MaxApps
    /\ finish \in [Task -> BOOLEAN]
    /\ count \in [Task -> [CountedIds -> 0..MaxCount]]
    /\ made \in [Task -> [CountedIds -> 0..MaxCount]]
    /\ timer \in {Off} \cup 0..Quantum
    /\ ran \in 0..Quantum
    /\ since \in [Task -> [Task -> Nat]]

(* The counter that ends the loop is the number of unfinished tasks: one   *)
(* too low and an application never completes, one too high and the scan   *)
(* spins for ever over finished tasks.                                     *)
RemainExact ==
    mode \notin {"boot", "panic"} =>
        remain = Cardinality({t \in Linked : ~finish[t]})

(* The machine is shut down only when every linked application has ended.  *)
CleanShutdown == mode = "shutdown" => \A t \in Linked : finish[t]

(* Round robin: between two turns of a task no other gets two.             *)
RoundRobin ==
    \A t \in Linked : ~finish[t] => \A u \in Linked : since[t][u] <= 1

(* trace(2, id) answers the number of calls of id made by this very task,  *)
(* the query itself included, whatever the others called in between.       *)
TraceAnswers ==
    [][\A id \in CountedIds :
          trace_query(id) => ctx'[i].a0 = made'[i][id]]_vars

(* A task that is not running resumes after its call, in the middle of its *)
(* code or at its entry: a yield is never repeated.                        *)
ResumesAfterCall ==
    \A t \in Linked : ~finish[t] => ctx[t].pc # "ecall"

(* The timer only takes the processor from a task that has had its whole   *)
(* quantum since its last entry: a deadline armed for one task is never    *)
(* felt by the next, and with coop nothing is ever taken.                  *)
FullQuantum ==
    [][Timeout => ~coop /\ ran = Quantum]_vars

(* With the timer, every unfinished task gets turns for ever, while tasks  *)
(* make finitely many calls (ch3/README.md: round robin by time slices).   *)
AllGetTurns ==
    \A t \in Task :
        [](mode # "boot" /\ t < apps /\ ~coop =>
              <>(finish[t] \/ mode = "panic" \/ (mode = "user" /\ i = t)))
=============================================================================
