------------------------------ MODULE Ch5Kernel ------------------------------
(***************************************************************************)
(* The chapter 5 kernel: the scheduling loop of rust_main and the process  *)
(* syscalls (os/ch5/src/main.rs, process.rs) over the stride scheduler of  *)
(* processor.rs.  One hart, and no interrupt while a process runs: a       *)
(* process gives up the processor only by trapping, and a trap is handled  *)
(* to its end, re-queueing included, before anything else happens.  The    *)
(* interleaving of processes is the order in which they are dispatched and *)
(* what each of them asks for, which is left open.                         *)
(*                                                                         *)
(* PManager (crate tg-task-manage) is not part of the repository: current, *)
(* parent and dead stand for its state, and MakeCurrentSuspend,            *)
(* MakeCurrentExited, AddProcess and WaitChild for its methods.            *)
(***************************************************************************)
EXTENDS StrideScheduler, FiniteSets

CONSTANTS
    NoProc,        \* no process: PManager.current = None, no parent
    ExitCodes,     \* exit codes a process may pass to exit
    NoCode,        \* no exit code yet
    LeafCapacity,  \* entries of a BTreeMap leaf (11 in the standard library)
    UserValue      \* what a process left in a0 and in its exit_code variable

ASSUME NoProcAssumption == NoProc \notin Nat

ASSUME CodeAssumption ==
    /\ ExitCodes \subseteq Int
    /\ NoCode \notin Int

ASSUME UserAssumption == UserValue \notin Int

ASSUME LeafAssumption == LeafCapacity \in Nat

VARIABLES
    current,   \* PManager.current
    parent,    \* parent of each process in PManager's relations
    dead,      \* dead[p]: the exited children of p not yet waited for,
               \*   as <<pid, exit code>>
    next_pid,  \* the counter behind ProcId::new
    ctx,       \* Process.context: where it resumes and its register a0
    status,    \* the exit code last stored through exit_code_ptr
    halted,    \* "no": running; "no_task" and "panic": machine shut down
    seen,      \* history: the tasks alive when a process was last dispatched
    exit_code  \* history: the code each process exited with

procVars == <<current, parent, dead, next_pid, ctx, status, halted>>
history == <<seen, exit_code>>
vars == <<schedVars, procVars, history>>

-----------------------------------------------------------------------------
InitPid == 0        \* the first pid ProcId::new returns goes to initproc

Codes == ExitCodes \cup {-2, -3}

(* pc is abstracted to what the handlers tell apart: the entry point of a  *)
(* program, the ecall the process trapped at, the instruction after it.    *)
Fresh == [pc |-> "entry", a0 |-> 0]

Children(p) == {q \in tasks : parent[q] = p}

DeadChildren(p) == {d[1] : d \in dead[p]}

Running(p) == halted = "no" /\ current = p /\ p \in Pid

(* Mutant: move_next is forgotten.                                         *)
ReturnedAtEcall(ret) == [pc |-> "ecall", a0 |-> ret]

(* context.move_next, then `*ctx.a_mut(0) = ret` when the syscall is done. *)
Returned(ret) == [pc |-> "after", a0 |-> ret]

-----------------------------------------------------------------------------
(*                              PManager                                   *)

MakeCurrentSuspend(p) ==
    /\ add(p)
    /\ current' = NoProc

(* The children of a process that ends go to initproc.                     *)
Reparented(p) ==
    [q \in Pid |-> IF q = p THEN NoProc
                   ELSE IF q \in Children(p) THEN InitPid
                   ELSE parent[q]]

(* Its code goes to its parent's list, and its own list goes with it.      *)
DeadAfterExit(p, code) ==
    [q \in Pid |-> IF q = p THEN {}
                   ELSE IF q = parent[p] THEN dead[q] \cup {<<p, code>>}
                   ELSE dead[q]]

MakeCurrentExited(p, code) ==
    /\ delete(p)
    /\ parent' = Reparented(p)
    /\ dead' = DeadAfterExit(p, code)
    /\ current' = NoProc
    /\ exit_code' = [exit_code EXCEPT ![p] = code]

(* PManager.wait takes the child it answers with off the list.             *)
DeadAfterWait(p, d) == [dead EXCEPT ![p] = @ \ {d}]

(* Mutant: the child is added with its own pid as that of its parent.      *)
UnderItself(id, p) == [parent EXCEPT ![id] = id]

(* fork and spawn add the child under the pid they saved of the caller.    *)
UnderCaller(id, p) == [parent EXCEPT ![id] = p]

(* A new process, with stride 0, under its parent; PManager.add queues it, *)
(* and the loop then queues the process p whose syscall made it.           *)
AddAndSuspend(id, prio, p) ==
    /\ insert(id, 0, prio)
    /\ parent' = UnderCaller(id, p)
    /\ ready_queue' = ready_queue \o <<id, p>>
    /\ current' = NoProc

(* Whether inserting a process may move the map entry of p: a full leaf    *)
(* splits and its upper entries are copied to a new one.                   *)
MayMove(p) ==
    /\ Cardinality(tasks) >= LeafCapacity
    /\ Cardinality({q \in tasks : q < p}) > LeafCapacity \div 2

-----------------------------------------------------------------------------
(*                   rust_main: start and scheduling loop                  *)

Init ==
    /\ tasks = {InitPid}
    /\ stride = [p \in Pid |-> 0]
    /\ priority = [p \in Pid |-> InitPriority]
    /\ ready_queue = <<InitPid>>
    /\ current = NoProc
    /\ parent = [p \in Pid |-> NoProc]
    /\ dead = [p \in Pid |-> {}]
    /\ next_pid = 1
    /\ ctx = [p \in Pid |-> Fresh]
    /\ status = [p \in Pid |-> UserValue]
    /\ halted = "no"
    /\ seen = [p \in Pid |-> {}]
    /\ exit_code = [p \in Pid |-> NoCode]

Idle == halted = "no" /\ current = NoProc

(* find_next gives a task: it becomes current and executes up to its next  *)
(* trap, leaving in its registers and variables what it likes.             *)
Dispatch ==
    /\ Idle
    /\ fetch
    /\ ~StrideOverflows
    /\ Fetched \in tasks
    /\ current' = Fetched
    /\ ctx' = [ctx EXCEPT ![Fetched] = [pc |-> "ecall", a0 |-> UserValue]]
    /\ status' = [status EXCEPT ![Fetched] = UserValue]
    /\ seen' = [seen EXCEPT ![Fetched] = tasks]
    /\ UNCHANGED <<tasks, priority, parent, dead, next_pid, halted, exit_code>>

(* The sum in fetch overflows: the kernel panics and shuts down.           *)
StrideOverflow ==
    /\ Idle
    /\ ready_queue # <<>>
    /\ StrideOverflows
    /\ halted' = "panic"
    /\ UNCHANGED <<schedVars, current, parent, dead, next_pid, ctx, status,
                   history>>

(* find_next gives nothing, because the queue is empty or because the id   *)
(* fetch took has no task: "no task", and the machine is shut down.        *)
NoTask ==
    /\ Idle
    /\ ready_queue # <<>> => Fetched \notin tasks
    /\ ready_queue' =
          IF ready_queue = <<>> THEN <<>> ELSE RemoveAt(ready_queue, MinIndex)
    /\ halted' = "no_task"
    /\ UNCHANGED <<tasks, stride, priority, current, parent, dead, next_pid, ctx,
                   status, history>>

-----------------------------------------------------------------------------
(*          rust_main: traps that end the process (exit, -2, -3)           *)

(* Mutant: initproc stops on any negative answer, so while a child runs.   *)
EndsOnAnyError(p) == p # InitPid \/ dead[p] = {}

(* initproc's program (tg-user/src/bin/initproc.rs) only returns from main *)
(* when wait has told it that it has no child.                             *)
MayEnd(p) == p # InitPid \/ (Children(p) = {} /\ dead[p] = {})

(* The saved context and the memory go with the task.                      *)
End(p, code) ==
    /\ MakeCurrentExited(p, code)
    /\ ctx' = [ctx EXCEPT ![p] = Fresh]
    /\ status' = [status EXCEPT ![p] = UserValue]
    /\ seen' = [q \in Pid |-> IF q = p THEN {} ELSE seen[q] \ {p}]
    /\ UNCHANGED <<ready_queue, next_pid, halted>>

Exit(p) ==
    /\ Running(p)
    /\ MayEnd(p)
    /\ \E code \in ExitCodes : End(p, code)

(* A syscall nobody implements ends the process with -2, any other trap    *)
(* with -3; initproc's program makes neither.                              *)
Unsupported(p) == Running(p) /\ p # InitPid /\ End(p, -2)

Fault(p) == Running(p) /\ p # InitPid /\ End(p, -3)

-----------------------------------------------------------------------------
(*                 Syscalls after which the process goes on                *)

(* A syscall that answers ret and changes nothing this module models:      *)
(* sched_yield, getpid, set_priority below 2 (-1), and the calls about     *)
(* console, clock and memory (UserMemory has those).                       *)
ReturnOnly(p) ==
    /\ Running(p)
    /\ \E ret \in {0, -1} : ctx' = [ctx EXCEPT ![p] = Returned(ret)]
    /\ MakeCurrentSuspend(p)
    /\ UNCHANGED <<tasks, stride, priority, parent, dead, next_pid, status,
                   halted, history>>

set_priority(p) ==
    /\ Running(p)
    /\ \E prio \in Priorities :
          /\ priority' = [priority EXCEPT ![p] = prio]
          /\ ctx' = [ctx EXCEPT ![p] = Returned(prio)]
    /\ MakeCurrentSuspend(p)
    /\ UNCHANGED <<tasks, stride, parent, dead, next_pid, status, halted, history>>

(* The context of p after a handler that inserted a process: the loop's    *)
(* `task` points to where the entry of p was before the insertion.         *)
ReturnedThroughTask(p, ret) ==
    {Returned(ret)} \cup
        IF MayMove(p) THEN {[ctx[p] EXCEPT !.pc = "after"]} ELSE {}

(* The child's context: a clone of the parent's, after its move_next, in   *)
(* which a0 is then set to 0 (a mutant leaves that out).                   *)
ClonedContext(p) == [ctx[p] EXCEPT !.pc = "after"]
ForkedContext(p) == [ClonedContext(p) EXCEPT !.a0 = 0]

fork(p) ==
    /\ Running(p)
    /\ next_pid \in Pid
    /\ next_pid' = next_pid + 1
    /\ AddAndSuspend(next_pid, priority[p], p)
    /\ \E c \in ReturnedThroughTask(p, next_pid) :
          ctx' = [ctx EXCEPT ![p] = c, ![next_pid] = ForkedContext(p)]
    /\ UNCHANGED <<dead, status, halted, history>>

(* from_elf: a pid of its own, the default priority, the program's entry.  *)
spawn(p) ==
    /\ Running(p)
    /\ next_pid \in Pid
    /\ next_pid' = next_pid + 1
    /\ AddAndSuspend(next_pid, InitPriority, p)
    /\ \E c \in ReturnedThroughTask(p, next_pid) :
          ctx' = [ctx EXCEPT ![p] = c, ![next_pid] = Fresh]
    /\ UNCHANGED <<dead, status, halted, history>>

(* Mutant: the Process built by from_elf replaces the old one, stride too. *)
exec_whole(p) ==
    /\ Running(p)
    /\ next_pid \in Pid
    /\ next_pid' = next_pid + 1
    /\ ctx' = [ctx EXCEPT ![p] = Fresh]
    /\ stride' = [stride EXCEPT ![p] = 0]
    /\ MakeCurrentSuspend(p)
    /\ UNCHANGED <<tasks, priority, parent, dead, status, halted, history>>

(* exec takes the address space, context and heap of a Process built by    *)
(* from_elf, whose pid is never used, and keeps pid, stride and priority;  *)
(* the loop then writes 0 to a0 of the new context.  An exec or spawn of   *)
(* an unknown program is a ReturnOnly with -1.                             *)
exec(p) ==
    /\ Running(p)
    /\ next_pid \in Pid
    /\ next_pid' = next_pid + 1
    /\ ctx' = [ctx EXCEPT ![p] = Fresh]
    /\ MakeCurrentSuspend(p)
    /\ UNCHANGED <<tasks, stride, priority, parent, dead, status, halted, history>>

(* Mutant: what goes through exit_code_ptr is the child's pid.             *)
PidOf(d) == d[1]

(* The exit code of a dead child, for exit_code_ptr.                       *)
CodeOf(d) == d[2]

(* PManager.wait for the children `who`: an exited one is taken off the    *)
(* list; -2 while one still lives; None when there is none.                *)
wait(p) ==
    /\ Running(p)
    /\ \E who \in {Pid} \cup {{q} : q \in Pid}, writable \in BOOLEAN :
         LET exited == {d \in dead[p] : d[1] \in who}
             stored(code) == IF writable THEN [status EXCEPT ![p] = code] ELSE status
         IN
         \/ \E d \in exited :
               /\ dead' = DeadAfterWait(p, d)
               /\ status' = stored(CodeOf(d))
               /\ ctx' = [ctx EXCEPT ![p] = Returned(d[1])]
         \/ /\ exited = {}
            /\ Children(p) \cap who # {}
            /\ status' = stored(-1)
            /\ ctx' = [ctx EXCEPT ![p] = Returned(-2)]
            /\ UNCHANGED dead
         \/ /\ exited = {}
            /\ Children(p) \cap who = {}
            /\ ctx' = [ctx EXCEPT ![p] = Returned(-1)]
            /\ UNCHANGED <<dead, status>>
    /\ MakeCurrentSuspend(p)
    /\ UNCHANGED <<tasks, stride, priority, parent, next_pid, halted, history>>

-----------------------------------------------------------------------------
(* tg_sbi::shutdown does not return.                                       *)
ShutDown == halted # "no" /\ UNCHANGED vars

Kernel == Dispatch \/ StrideOverflow \/ NoTask \/ ShutDown

Trap(p) ==
    \/ Exit(p) \/ Unsupported(p) \/ Fault(p)
    \/ ReturnOnly(p) \/ set_priority(p)
    \/ fork(p) \/ spawn(p) \/ exec(p) \/ wait(p)

Next == Kernel \/ \E p \in Pid : Trap(p)

Spec == Init /\ [][Next]_vars

-----------------------------------------------------------------------------
(*                             Properties                                  *)

Context == [pc : {"entry", "ecall", "after"}, a0 : Int \cup {UserValue}]

TypeOK ==
    /\ tasks \subseteq Pid
    /\ stride \in [Pid -> Nat]
    /\ priority \in [Pid -> Priorities]
    /\ ready_queue \in Seq(Pid)
    /\ current \in Pid \cup {NoProc}
    /\ parent \in [Pid -> Pid \cup {NoProc}]
    /\ dead \in [Pid -> SUBSET (Pid \X Codes)]
    /\ next_pid \in 1..MaxPid + 1
    /\ ctx \in [Pid -> Context]
    /\ status \in [Pid -> Codes \cup {-1, UserValue}]
    /\ halted \in {"no", "no_task", "panic"}
    /\ seen \in [Pid -> SUBSET Pid]
    /\ exit_code \in [Pid -> Codes \cup {NoCode}]

(* Every live process is either the current one or queued, and queued      *)
(* once: a process lost by a handler would never run again, one queued     *)
(* twice would run twice as often and be dispatched after its exit, which  *)
(* find_next takes for the end of all work.                                *)
QueueExact ==
    /\ \A i, j \in DOMAIN ready_queue :
          ready_queue[i] = ready_queue[j] => i = j
    /\ \A i \in DOMAIN ready_queue : ready_queue[i] \in tasks \ {current}
    /\ \A p \in tasks : p = current \/ \E i \in DOMAIN ready_queue : ready_queue[i] = p
    /\ current # NoProc => current \in tasks

(* Every live process but initproc has a live parent, with a smaller pid:  *)
(* there are no orphans and no cycles, however exits, forks and waits are  *)
(* ordered, so there is always someone to wait for an exited child.        *)
Ancestry ==
    \A q \in tasks \ {InitPid} : parent[q] \in tasks /\ parent[q] < q

(* initproc outlives every other process: it ends only after wait told it  *)
(* that it has no child, and then nobody at all is left.                   *)
InitLast == InitPid \notin tasks => tasks = {}

(* The loop stops with "no task" only when no process is left: no process  *)
(* is ever forgotten by the kernel shutting the machine down.              *)
CleanShutdown == halted = "no_task" => tasks = {}

(* The list of dead children of p holds processes that have exited, each   *)
(* with the code it exited with, in one list only, and only while p lives. *)
DeadExact ==
    \A p \in Pid : \A d \in dead[p] :
        /\ p \in tasks
        /\ d[1] \notin tasks
        /\ d[2] = exit_code[d[1]]
        /\ \A r \in Pid : \A e \in dead[r] : e[1] = d[1] => r = p

(* A process that was dispatched while another lived is never more than    *)
(* one maximal pass ahead of it, whatever they fork, exec and set as       *)
(* priority: no sequence of calls wins a process more than its share.      *)
StrideGap ==
    \A p \in tasks : \A q \in tasks \cap seen[p] : stride[p] <= stride[q] + MaxPass

(* ProcId::new never hands out a pid twice, so no history mentions a pid   *)
(* before its process exists.                                              *)
PidsBorn ==
    /\ tasks \subseteq 0..next_pid - 1
    /\ \A p \in Pid : seen[p] \subseteq 0..next_pid - 1

(* What is inductive: the queue is needed to know that fetch chose among   *)
(* all the live processes, and the pids to know that a newborn, whose      *)
(* stride is 0, was not there when another process was last dispatched.    *)
SchedulerInv == TypeOK /\ QueueExact /\ PidsBorn /\ StrideGap

(* A process that is not running resumes after the call it made or at the  *)
(* entry of a new program, and never makes the same call a second time:    *)
(* in particular the child of a fork does not fork again.                  *)
ResumesAfterCall ==
    \A p \in tasks \ {current} : ctx[p].pc # "ecall"

(* The step that creates the process with the next pid.                    *)
Newborn(c) == c \in tasks' \ tasks

(* A new process has the pid nobody had before it, starts after the fork   *)
(* with 0 or at the entry of a program, and its parent is told its pid     *)
(* (unless the insertion may have moved the parent's own map entry).       *)
ForkReturnsTwice ==
    [][\A c \in Pid : Newborn(c) =>
          /\ \A p \in Pid : c \notin DeadChildren(p)
          /\ exit_code[c] = NoCode
          /\ ctx'[c] \in {Returned(0), Fresh}
          /\ parent'[c] = current
          /\ ~MayMove(current) => ctx'[current] = Returned(c)]_vars

(* ch5/README.md: fork returns the child's pid to the parent.              *)
ParentGetsChildPid ==
    [][\A c \in Pid : Newborn(c) => ctx'[current].a0 = c]_vars

(* An exited process disappears from its parent's list only by the parent  *)
(* being told its pid and, where the pointer can be written, its code, or  *)
(* by the parent's own end.                                                *)
WaitTellsTheCode ==
    [][\A p, q \in Pid :
          (q \in DeadChildren(p) /\ q \notin DeadChildren(p)' /\ p \in tasks') =>
              /\ current = p
              /\ ctx'[p] = Returned(q)
              /\ status'[p] \in {exit_code[q], UserValue}
              /\ dead'[p] = dead[p] \ {<<q, exit_code[q]>>}]_vars

-----------------------------------------------------------------------------
(*           The kernel keeps the promise of ProcessLifecycle              *)

Holders(q) == {p \in Pid : q \in DeadChildren(p)}

lifeBar ==
    [q \in Pid |->
        IF q \in tasks THEN "live"
        ELSE IF exit_code[q] = NoCode THEN "unborn"
        ELSE IF Holders(q) # {} THEN "zombie"
        ELSE "gone"]

ownerBar ==
    [q \in Pid |->
        IF q \in tasks THEN parent[q]
        ELSE IF Holders(q) # {} THEN CHOOSE p \in Holders(q) : TRUE
        ELSE NoProc]

Lifecycle ==
    INSTANCE ProcessLifecycle WITH
        Proc <- Pid, First <- InitPid, Nobody <- NoProc, Code <- Codes,
        life <- lifeBar, owner <- ownerBar, code <- exit_code

(* Every step of the kernel is a birth, an end, a report to the parent, or *)
(* invisible to ProcessLifecycle.                                          *)
LifecycleSpec == Lifecycle!Spec
=============================================================================
