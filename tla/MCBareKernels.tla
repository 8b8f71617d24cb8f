--------------------------- MODULE MCBareKernels ---------------------------
(* The kernels that run applications in physical memory, for TLC: in a     *)
(* behaviour either that of chapter 2 or that of chapter 3 runs.           *)
EXTENDS Ch3Kernel, BatchKernel

VARIABLE chapter  \* 2 or 3

bareVars == <<chapter, vars, batchVars>>

BareInit ==
    /\ Init /\ BatchInit
    /\ chapter \in {2, 3}
    /\ chapter = 2 => apps = 0 /\ coop

BareNext ==
    /\ UNCHANGED chapter
    /\ \/ chapter = 2 /\ BatchNext /\ UNCHANGED vars
       \/ chapter = 3 /\ Next /\ UNCHANGED batchVars

(* That of Ch3Kernel.                                                      *)
BareSpec ==
    /\ BareInit /\ [][BareNext]_bareVars
    /\ WF_bareVars(chapter = 3 /\ (Kernel \/ Clock) /\ UNCHANGED <<chapter, batchVars>>)
=============================================================================
