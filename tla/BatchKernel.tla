---------------------------- MODULE BatchKernel ----------------------------
(***************************************************************************)
(* The batch kernel of chapter 2 (os/ch2/src/main.rs): the applications of *)
(* the image run one after the other, each to its end.  All of them are    *)
(* linked for the same address (cases.toml: step = 0), where the iterator  *)
(* of crate tg-linker puts each one before it runs.  The hart may go on    *)
(* fetching what it has in its instruction cache until a fence.i; it has   *)
(* there what it has executed, and fetches nothing ahead.                  *)
(***************************************************************************)
EXTENDS Integers

CONSTANTS
    Applications, \* how many are linked
    MaxCalls      \* bound: calls an application makes before its last one

VARIABLES
    state,    \* "load" (head of the for), "user", "shutdown"
    app,      \* i of the loop: the application that runs, or is next
    icache,   \* applications whose instructions the cache may hold
    context,  \* ctx: where it resumes, and a0
    calls,    \* calls the running application has made
    executed  \* history: whose instructions have been executed since it began

batchVars == <<state, app, icache, context, calls, executed>>

-----------------------------------------------------------------------------
(* LocalContext::user.                                                     *)
Entry == [pc |-> "entry", a0 |-> 0]

BatchInit ==
    /\ state = "load"
    /\ app = 0
    /\ icache = {}
    /\ context = Entry
    /\ calls = 0
    /\ executed = {}

(* Mutant: the context of the application before is used again.            *)
OldContext == context

NewContext == Entry

LoadApp ==
    /\ state = "load"
    /\ app < Applications
    /\ state' = "user"
    /\ context' = NewContext
    /\ calls' = 0
    /\ executed' = {}
    /\ UNCHANGED <<app, icache>>

(* An instruction out of the cache, or out of memory, where app is.        *)
ExecuteApp ==
    /\ state = "user"
    /\ \E a \in icache \cup {app} :
          /\ executed' = executed \cup {a}
          /\ icache' = icache \cup {a}
    /\ UNCHANGED <<state, app, context, calls>>

(* What traps is an instruction.                                           *)
Traps == state = "user" /\ executed # {}

(* Mutant: a call leaves the application at its ecall.                     *)
AnsweredAtEcall(ret) == [pc |-> "ecall", a0 |-> ret]

Answered(ret) == [pc |-> "after", a0 |-> ret]

(* SyscallResult::Done: write, which answers a length or -1.               *)
HandleSyscall ==
    /\ Traps
    /\ calls < MaxCalls
    /\ \E ret \in {-1, 1} : context' = Answered(ret)
    /\ calls' = calls + 1
    /\ UNCHANGED <<state, app, icache, executed>>

(* Mutant: no fence.i.                                                     *)
NoFence == icache

(* fence.i.                                                                *)
Fence == {}

(* exit, a call nobody implements, or another trap: what the code does is  *)
(* the same, but for the line it prints.                                   *)
EndApp ==
    /\ Traps
    /\ icache' = Fence
    /\ state' = "load"
    /\ app' = app + 1
    /\ UNCHANGED <<context, calls, executed>>

ShutDownBatch ==
    /\ state = "load"
    /\ app = Applications
    /\ state' = "shutdown"
    /\ UNCHANGED <<app, icache, context, calls, executed>>

BatchDone == state = "shutdown" /\ UNCHANGED batchVars

BatchNext ==
    \/ LoadApp \/ ExecuteApp \/ HandleSyscall \/ EndApp \/ ShutDownBatch \/ BatchDone

BatchSpec == BatchInit /\ [][BatchNext]_batchVars

-----------------------------------------------------------------------------
(* Each application executes its own instructions, from its entry on, and  *)
(* makes no call twice: nothing is left in the hart of the one before.     *)
OwnInstructions ==
    state = "user" =>
        /\ executed \subseteq {app}
        /\ context.pc # "ecall"
        /\ calls = 0 => context = Entry
=============================================================================
