--------------------------- MODULE UserProcesses ---------------------------
(***************************************************************************)
(* The user programs that create processes (os/tg-user/src/bin): initproc, *)
(* the shell, the usertests that run all others, and the tests of fork,    *)
(* spawn, exec, wait and pipes.  They run over what ProcessLifecycle       *)
(* promises, which Ch5Kernel is shown to keep.  Each program is a sequence *)
(* of instructions, one per system call or assertion; printing, yields and *)
(* sleeps are left out, and loops are unrolled as often as the CONSTANTS   *)
(* named after the programs' own say.                                      *)
(*                                                                         *)
(* wait and waitpid of crate tg-syscall yield and ask again while the      *)
(* kernel answers -2.  Pipes are in no kernel of the repository: a read    *)
(* answers -2 while the pipe is empty and can still be written, 0 when it  *)
(* no longer can, a write -2 while the pipe is full.                       *)
(***************************************************************************)
EXTENDS Scripts, FiniteSetsExt

CONSTANTS
    MaxPid,        \* bound: pids are 0..MaxPid
    MAX_CHILD,     \* children of 12forktest, ch5_spawn0, 14forktest2 and 15matrix
    DEPTH,         \* of 13forktree
    TESTS,         \* programs the usertests run
    CommandLines,  \* what the shell's user types: names of programs, or "" (only Enter)
    CommandCount,  \* bound: lines typed
    STR_LEN,       \* bytes pipetest sends
    LENGTH,        \* bytes pipe_large_test sends
    SUM_LEN,       \* bytes of the sum it gets back
    BUFFER_LEN,    \* bytes of the buffers both read with, and of the pipe
    PipeSize

ASSUME ProcessAssumption ==
    /\ MaxPid \in Nat \ {0, 1} /\ MAX_CHILD \in Nat \ {0} /\ DEPTH \in Nat
    /\ CommandCount \in Nat /\ TESTS \in Seq(STRING)
    /\ STR_LEN \in 1 .. BUFFER_LEN - 1 /\ SUM_LEN \in 1 .. BUFFER_LEN - 1
    /\ BUFFER_LEN \in Nat /\ LENGTH \in Nat \ {0} /\ PipeSize \in Nat \ {0}

(* A pipe test calls its pipes 1 and 2, so one is run, and by initproc.    *)
ASSUME OnePipeTest ==
    \A name \in {"pipetest", "pipe_large_test"} :
        name \notin CommandLines /\ \A k \in 1..Len(TESTS) : TESTS[k] # name

VARIABLES
    life, owner, code,  \* of ProcessLifecycle
    here,     \* program and next instruction of each process
    pids,     \* the pids its forks and spawns were answered with
    answer,   \* what its last wait or waitpid returned
    status,   \* its exit_code variable
    line,     \* the name it execs: typed, or CHAPTER's program for initproc
    typed,    \* lines typed so far
    failed,   \* processes one of whose assertions has failed
    chan,     \* bytes in each pipe
    ends,     \* open ends of pipes: process, pipe, "r" or "w"
    got,      \* what a process has got in its pipe_read (its total_read bytes)
    sent      \* bytes it has sent in its pipe_write (total_write)

pvars == <<life, owner, code, here, pids, answer, status, line, typed, failed, chan,
           ends, got, sent>>

Pid == 0..MaxPid

Lifecycle == INSTANCE ProcessLifecycle WITH
    Proc <- Pid, First <- 0, Nobody <- -1, Code <- Int, NoCode <- 0

-----------------------------------------------------------------------------
(*                           Instructions                                  *)

Fork(body) == <<<<"fork", Len(body) + 1>>>> \o body   \* what the child does
Spawn(name) == <<"spawn", name>>
Exec(name) == <<"exec", name>>
Wait == <<"wait">>
WaitPid(i) == <<"waitpid", i>>    \* for the answer of the i-th fork or spawn

-----------------------------------------------------------------------------
(*                    initproc, shell and usertests                        *)

(* The child execs the program CHAPTER names, the parent waits until wait  *)
(* answers -1.                                                             *)
initproc == Fork(<<Exec("line"), Exit(0)>>) \o <<Wait, <<"while_child">>, Exit(0)>>

(* A line is read (at the end of the model's input, for ever); an empty one*)
(* is skipped, the program named by another one is run in a child.         *)
user_shell ==
    LET command == Fork(<<Exec("line"), Exit(-4)>>) \o <<WaitPid(0), Check("pid", 0)>>
    IN  Times(CommandCount, <<<<"getline", Len(command) + 1>>>> \o command)
        \o <<<<"getline", 0>>>>

TestCount == Len(TESTS)

(* ch5_usertest: all at once by spawn, then ch5_stride alone.              *)
ch5_usertest ==
    ForEach(TestCount, LAMBDA i : <<Spawn(TESTS[i])>>)
    \o ForEach(TestCount, LAMBDA i : <<WaitPid(i), Check("pid", i)>>)
    \o <<Spawn("ch5_stride"), WaitPid(0), Check("pid", 0), Exit(0)>>

(* ch8_usertest, and those of chapters 5b, 6b, 7b and 8b: fork and exec.   *)
ch8_usertest ==
    ForEach(TestCount, LAMBDA i : Fork(<<Exec(TESTS[i]), Check("unreachable", 0)>>))
    \o ForEach(TestCount, LAMBDA i : <<WaitPid(i), Check("pid", i)>>) \o <<Exit(0)>>

(* ch6_usertest: one after the other.                                      *)
ch6_usertest ==
    ForEach(TestCount, LAMBDA i : <<Spawn(TESTS[i]), WaitPid(i), Check("pid", i)>>)
    \o <<Exit(0)>>

ch5_stride ==
    Times(2, <<Spawn("any")>>)
    \o ForEach(2, LAMBDA i : <<WaitPid(i), Check("pid", i)>>) \o <<Exit(0)>>

-----------------------------------------------------------------------------
(*                   Tests of fork, spawn, exec and wait                   *)

(* 12forktest.                                                             *)
forktest ==
    Times(MAX_CHILD, Fork(<<Exit(0)>>))
    \o Times(MAX_CHILD, <<Wait, Check("child", 0)>>)
    \o <<Wait, Check("none", 0), Exit(0)>>

forktest2 ==
    Times(MAX_CHILD, Fork(<<Exit(0)>>))
    \o Times(MAX_CHILD, <<Wait, Check("child", 0), Check("status", 0)>>)
    \o <<Wait, Check("none", 0), Exit(0)>>

matrix ==
    Times(MAX_CHILD, Fork(<<Exit(0)>>))
    \o Times(MAX_CHILD, <<Wait, Check("child", 0)>>)
    \o <<Wait, Check("none", 0), Exit(0)>>

(* fork_tree at a distance of d from the leaves: two children, two waits.  *)
fork_tree[d \in 0..DEPTH] ==
    (IF d = 0 THEN <<>> ELSE Times(2, Fork(fork_tree[d - 1] \o <<Exit(0)>>)))
    \o <<Wait, Wait>>

forktree == fork_tree[DEPTH] \o <<Wait, Wait, Exit(0)>>

MAGIC == -66436     \* -0x10384

fork_exit ==
    Fork(<<Exit(MAGIC)>>)
    \o <<WaitPid(1), Check("pid", 1), Check("status", MAGIC),
         WaitPid(1), Check("none", 0), Wait, Check("none", 0), Exit(0)>>

forktest_simple ==
    <<Wait, Check("none", 0)>> \o Fork(<<Exit(100)>>)
    \o <<Wait, Check("pid", 1), Check("status", 100), Exit(0)>>

spawn0 ==
    Times(MAX_CHILD, <<Spawn("ch5_getpid")>>)
    \o Times(MAX_CHILD, <<Wait, Check("child", 0), Check("status", 0)>>)
    \o <<Wait, Check("none", 0), Exit(0)>>

(* Mutant: the first of the two is waited for by wait, the other by pid.   *)
Spawn1Swapped ==
    <<Spawn("ch5_exit0"), Wait, Check("pid", 1), Check("status", 66778),
      Spawn("ch5_exit0"), Spawn("ch5_exit1"),
      Wait, Check("pid", 2), Check("status", 66778),
      WaitPid(3), Check("pid", 3), Check("status", -233), Exit(0)>>

spawn1 ==
    <<Spawn("ch5_exit0"), Wait, Check("pid", 1), Check("status", 66778),
      Spawn("ch5_exit0"), Spawn("ch5_exit1"),
      WaitPid(3), Check("pid", 3), Check("status", -233),
      Wait, Check("pid", 2), Check("status", 66778), Exit(0)>>

ch5_exit0 == <<Exit(66778)>>
ch5_exit1 == <<Exit(-233)>>
ch5_getpid == <<Exit(0)>>

(* A test that makes no process call; or the kernel or a panic ends it.    *)
any == <<<<"any">>>>

-----------------------------------------------------------------------------
(*                               Pipes                                     *)

Pipe(q) == <<"pipe", q>>
Close(q, e) == <<"close", q, e>>
PipeRead(q, n) == <<"read", q, n>>
PipeWrite(q, n) == <<"write", q, n>>

pipetest ==
    <<Pipe(1)>>
    \o Fork(<<Close(1, "w"), PipeRead(1, BUFFER_LEN), Close(1, "r"),
              Check("got", STR_LEN), Exit(0)>>)
    \o <<Close(1, "r"), PipeWrite(1, STR_LEN), Close(1, "w"), Wait,
         Check("status", 0), Exit(0)>>

(* Pipe 1 goes down to the child, pipe 2 brings its sum up again.          *)
pipe_large_test ==
    <<Pipe(1), Pipe(2)>>
    \o Fork(<<Close(1, "w"), Close(2, "r"), PipeRead(1, LENGTH), Check("got", LENGTH),
              Close(1, "r"), PipeWrite(2, SUM_LEN), Close(2, "w"), Exit(0)>>)
    \o <<Close(1, "r"), Close(2, "w"), PipeWrite(1, LENGTH), Close(1, "w"),
         PipeRead(2, BUFFER_LEN), Close(2, "r"), Check("got", SUM_LEN), Wait, Exit(0)>>

-----------------------------------------------------------------------------
(*                             The machine                                 *)

Program ==
    [initproc |-> initproc, user_shell |-> user_shell, ch5_usertest |-> ch5_usertest,
     ch6_usertest |-> ch6_usertest, ch8_usertest |-> ch8_usertest,
     ch5_stride |-> ch5_stride, forktest |-> forktest, forktest2 |-> forktest2,
     matrix |-> matrix, forktree |-> forktree, fork_exit |-> fork_exit,
     forktest_simple |-> forktest_simple, spawn0 |-> spawn0, spawn1 |-> spawn1,
     ch5_exit0 |-> ch5_exit0, ch5_exit1 |-> ch5_exit1, ch5_getpid |-> ch5_getpid,
     any |-> any, pipetest |-> pipetest, pipe_large_test |-> pipe_large_test]

Names == DOMAIN Program

(* What initproc may be built to start.                                    *)
Targets == Names \ {"initproc", "ch5_exit0", "ch5_exit1", "ch5_getpid", "any"}

NoChild == [prog |-> "initproc", i |-> 1]

ProcessesAtStart ==
    /\ Lifecycle!Init
    /\ here = [p \in Pid |-> NoChild]
    /\ pids = [p \in Pid |-> <<>>]
    /\ answer = [p \in Pid |-> 0] /\ status = [p \in Pid |-> 0]
    /\ typed = 0 /\ failed = {}
    /\ chan = [q \in 1..2 |-> <<>>] /\ ends = {}
    /\ got = [p \in Pid |-> <<>>] /\ sent = [p \in Pid |-> 0]

ProcessInit ==
    /\ \E target \in Targets : line = [p \in Pid |-> target]
    /\ ProcessesAtStart

Op(p) == Program[here[p].prog][here[p].i]

Does(p, op) == life[p] = "live" /\ Op(p)[1] = op

GoOn(p, n) == here' = [here EXCEPT ![p].i = @ + n]

Lives == <<life, owner, code>>
Pipes == <<chan, ends, got, sent>>

(* The lowest pid that was never used.                                     *)
NewPid == {c \in Pid : life[c] = "unborn" /\ \A d \in 0 .. c - 1 : life[d] # "unborn"}

(* The child has a copy of the parent's memory and open files.             *)
fork(p) ==
    /\ Does(p, "fork")
    /\ \E c \in NewPid :
          /\ Lifecycle!Birth(p, c)
          /\ here' = [here EXCEPT ![p].i = @ + Op(p)[2],
                                  ![c] = [here[p] EXCEPT !.i = @ + 1]]
          /\ pids' = [pids EXCEPT ![p] = Append(@, c), ![c] = pids[p]]
          /\ answer' = [answer EXCEPT ![c] = answer[p]]
          /\ status' = [status EXCEPT ![c] = status[p]]
          /\ line' = [line EXCEPT ![c] = line[p]]
          /\ ends' = ends \cup {<<c, e[2], e[3]>> : e \in {e \in ends : e[1] = p}}
    /\ UNCHANGED <<typed, failed, chan, got, sent>>

(* spawn answers -1 for a name that is not in the image.                   *)
spawn(p) ==
    /\ Does(p, "spawn")
    /\ IF Op(p)[2] \in Names
       THEN \E c \in NewPid :
               /\ Lifecycle!Birth(p, c)
               /\ here' = [here EXCEPT ![p].i = @ + 1,
                                       ![c] = [prog |-> Op(p)[2], i |-> 1]]
               /\ pids' = [pids EXCEPT ![p] = Append(@, c)]
       ELSE /\ GoOn(p, 1)
            /\ pids' = [pids EXCEPT ![p] = Append(@, -1)]
            /\ UNCHANGED Lives
    /\ UNCHANGED <<answer, status, line, typed, failed, Pipes>>

(* The program starts over with a fresh memory; the open files stay.  A    *)
(* name that is not in the image is answered with -1.                      *)
exec(p) ==
    /\ Does(p, "exec")
    /\ LET name == IF Op(p)[2] = "line" THEN line[p] ELSE Op(p)[2] IN
       IF name \in Names
       THEN /\ here' = [here EXCEPT ![p] = [prog |-> name, i |-> 1]]
            /\ pids' = [pids EXCEPT ![p] = <<>>]
            /\ answer' = [answer EXCEPT ![p] = 0]
            /\ status' = [status EXCEPT ![p] = 0]
       ELSE GoOn(p, 1) /\ UNCHANGED <<pids, answer, status>>
    /\ UNCHANGED <<Lives, line, typed, failed, Pipes>>

PidOf(p, i) == IF i = 0 THEN Last(pids[p]) ELSE pids[p][i]

(* wait is waitpid(-1), which any child will do for; so is a waitpid for   *)
(* what a spawn that failed has answered.                                  *)
WaitedFor(p) ==
    IF Op(p)[1] = "wait" \/ PidOf(p, Op(p)[2]) = -1 THEN Pid
    ELSE {PidOf(p, Op(p)[2])}

wait(p) ==
    /\ Does(p, "wait") \/ Does(p, "waitpid")
    /\ \/ \E q \in WaitedFor(p) :
             /\ Lifecycle!Reap(p, q)
             /\ answer' = [answer EXCEPT ![p] = q]
             /\ status' = [status EXCEPT ![p] = code[q]]
       \/ /\ Lifecycle!Owned(p, {"live", "zombie"}) \cap WaitedFor(p) = {}
          /\ answer' = [answer EXCEPT ![p] = -1]
          /\ UNCHANGED <<Lives, status>>
    /\ GoOn(p, 1)
    /\ UNCHANGED <<pids, line, typed, failed, Pipes>>

(* The jump back of initproc's loop.                                       *)
while_child(p) ==
    /\ Does(p, "while_child")
    /\ GoOn(p, IF answer[p] # -1 THEN -1 ELSE 1)
    /\ UNCHANGED <<Lives, pids, answer, status, line, typed, failed, Pipes>>

(* One line typed at the console: the getchar loop of the shell.           *)
getline(p) ==
    /\ Does(p, "getline")
    /\ typed < CommandCount
    /\ typed' = typed + 1
    /\ \E l \in CommandLines :
          /\ line' = [line EXCEPT ![p] = l]
          /\ GoOn(p, IF l = "" THEN Op(p)[2] ELSE 1)
    /\ UNCHANGED <<Lives, pids, answer, status, failed, Pipes>>

Claim(p, what, x) ==
    CASE what = "pid" -> answer[p] = PidOf(p, x)
      [] what = "status" -> status[p] = x
      [] what = "child" -> answer[p] > 0
      [] what = "none" -> answer[p] <= 0
      [] what = "got" -> got[p] = [i \in 1..x |-> i]
      [] what = "unreachable" -> FALSE

End(p, c) ==
    /\ Lifecycle!Finish(p, c)
    /\ ends' = {e \in ends : e[1] # p}
    /\ UNCHANGED <<here, pids, answer, status, line, typed, chan, got, sent>>

(* An assertion that fails panics: panic_handler of lib.rs exits with 1.   *)
assert(p) ==
    /\ Does(p, "assert")
    /\ IF Claim(p, Op(p)[2], Op(p)[3])
       THEN GoOn(p, 1) /\ UNCHANGED <<Lives, pids, answer, status, line, typed, failed,
                                      Pipes>>
       ELSE failed' = failed \cup {p} /\ End(p, 1)

exit(p) ==
    \/ Does(p, "exit") /\ End(p, Op(p)[2]) /\ UNCHANGED failed
    \/ Does(p, "any") /\ (\E c \in {0, 1, -3} : End(p, c)) /\ UNCHANGED failed

-----------------------------------------------------------------------------
(*                 Pipes, and pipe_read and pipe_write of lib.rs           *)

Opens(p, q, e) == <<p, q, e>> \in ends

pipe(p) ==
    /\ Does(p, "pipe")
    /\ ends' = ends \cup {<<p, Op(p)[2], "r">>, <<p, Op(p)[2], "w">>}
    /\ GoOn(p, 1)
    /\ UNCHANGED <<Lives, pids, answer, status, line, typed, failed, chan, got, sent>>

close(p) ==
    /\ Does(p, "close")
    /\ ends' = ends \ {<<p, Op(p)[2], Op(p)[3]>>}
    /\ GoOn(p, 1)
    /\ UNCHANGED <<Lives, pids, answer, status, line, typed, failed, chan, got, sent>>

(* Mutant: the buffer is handed over from its start each time.             *)
FromStart(p, k) == SubSeq([i \in 1..LENGTH + STR_LEN |-> i], 1, k)

(* The next k bytes, &buffer[total_write..]: byte i stands for itself.     *)
NextBytes(p, k) == [i \in 1..k |-> sent[p] + i]

(* Some of the bytes left are taken, as long as there is room for them; -2 *)
(* is asked again; at total_write = len the call returns.                  *)
pipe_write(p) ==
    /\ Does(p, "write")
    /\ LET q == Op(p)[2] IN
       \/ /\ sent[p] < Op(p)[3]
          /\ \E k \in 1..Min({PipeSize - Len(chan[q]), Op(p)[3] - sent[p]}) :
                /\ chan' = [chan EXCEPT ![q] = @ \o NextBytes(p, k)]
                /\ sent' = [sent EXCEPT ![p] = @ + k]
          /\ UNCHANGED here
       \/ /\ sent[p] = Op(p)[3]
          /\ sent' = [sent EXCEPT ![p] = 0]
          /\ GoOn(p, 1)
          /\ UNCHANGED chan
    /\ UNCHANGED <<Lives, pids, answer, status, line, typed, failed, ends, got>>

(* The read answers 0: no data, and no open write end.                     *)
EndOfFile(q) == \A p \in Pid : ~Opens(p, q, "w")

(* Some of the data goes to &mut buffer[total_read..]; -2 is asked again;  *)
(* a full buffer or the end of the file ends the call.                     *)
pipe_read(p) ==
    /\ Does(p, "read")
    /\ LET q == Op(p)[2] IN
       \/ /\ \E k \in 1..Min({Len(chan[q]), Op(p)[3] - Len(got[p])}) :
                /\ got' = [got EXCEPT ![p] = @ \o SubSeq(chan[q], 1, k)]
                /\ chan' = [chan EXCEPT ![q] = SubSeq(@, k + 1, Len(@))]
          /\ UNCHANGED here
       \/ /\ Len(got[p]) = Op(p)[3] \/ (chan[q] = <<>> /\ EndOfFile(q))
          /\ GoOn(p, 1)
          /\ UNCHANGED <<got, chan>>
    /\ UNCHANGED <<Lives, pids, answer, status, line, typed, failed, ends, sent>>

-----------------------------------------------------------------------------
ProcessStep(p) ==
    \/ fork(p) \/ spawn(p) \/ exec(p) \/ wait(p) \/ while_child(p) \/ assert(p)
    \/ exit(p) \/ getline(p)
    \/ pipe(p) \/ close(p) \/ pipe_write(p) \/ pipe_read(p)

(* initproc has ended; or only it and the shell are left, at the prompt.   *)
AllDone ==
    \/ life[0] = "gone"
    \/ /\ \A p \in Pid \ {0, 1} : life[p] \in {"unborn", "gone"}
       /\ here[1] = [prog |-> "user_shell", i |-> Len(user_shell)]

ProcessesDone == AllDone /\ UNCHANGED pvars

ProcessNext == ProcessesDone \/ \E p \in Pid : ProcessStep(p)

-----------------------------------------------------------------------------
(*                             Properties                                  *)

ProcessTypeOK ==
    /\ life \in [Pid -> {"unborn", "live", "zombie", "gone"}]
    /\ owner \in [Pid -> Pid \cup {-1}] /\ code \in [Pid -> Int]
    /\ \A p \in Pid :
          here[p].prog \in Names /\ here[p].i \in 1..Len(Program[here[p].prog])
    /\ pids \in [Pid -> Seq(Pid \cup {-1})]
    /\ answer \in [Pid -> Pid \cup {-1}] /\ status \in [Pid -> Int]
    /\ typed \in 0..CommandCount /\ failed \subseteq Pid
    /\ ends \subseteq Pid \X (1..2) \X {"r", "w"}
    /\ \A q \in 1..2 : Len(chan[q]) <= PipeSize
    /\ sent \in [Pid -> Nat]

(* In whatever order processes run and end, no assertion of a program      *)
(* fails: every wait and waitpid answers with the pid and the code that    *)
(* the program expects of it, and no child runs on after its exec.         *)
ProcessTestsPass == failed = {}

(* What pipe_read has put into its buffer is what pipe_write was given,    *)
(* from the first byte on, none lost and none twice.                       *)
PipeExact == \A p \in Pid : \A i \in DOMAIN got[p] : got[p][i] = i

=============================================================================
