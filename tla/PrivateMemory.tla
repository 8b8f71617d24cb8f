---------------------------- MODULE PrivateMemory ----------------------------
(***************************************************************************)
(* What the address spaces of chapters 4 and 5 promise: each process has a *)
(* memory of its own, a function of its pages, that changes only by what   *)
(* the process itself stores, maps, unmaps or executes.  fork gives the    *)
(* child a copy, and from then on the two have nothing in common; spawn    *)
(* gives it the memory of a program.                                       *)
(***************************************************************************)
CONSTANTS
    Process,
    First,    \* the process there is at the start
    Page,
    Value,    \* contents of a page
    Zero,     \* contents of a page just mapped
    Images,   \* the memories a program starts with: [Page -> Value \cup {Absent}]
    Absent    \* no page there

VARIABLES alive, view

memVars == <<alive, view>>

Nothing == [v \in Page |-> Absent]

Init ==
    /\ alive = {First}
    /\ \E image \in Images :
          view = [p \in Process |-> IF p = First THEN image ELSE Nothing]

(* p, or the kernel for it, changes pages p already has.                   *)
Store(p) ==
    /\ \E v \in Page, x \in Value :
          /\ view[p][v] # Absent
          /\ view' = [view EXCEPT ![p][v] = x]
    /\ UNCHANGED alive

(* p gets zeroed pages where it had none.                                  *)
Map(p) ==
    /\ \E S \in SUBSET {v \in Page : view[p][v] = Absent} :
          view' = [view EXCEPT ![p] =
                      [v \in Page |-> IF v \in S THEN Zero ELSE view[p][v]]]
    /\ UNCHANGED alive

Unmap(p) ==
    /\ \E S \in SUBSET Page :
          view' = [view EXCEPT ![p] =
                      [v \in Page |-> IF v \in S THEN Absent ELSE view[p][v]]]
    /\ UNCHANGED alive

Fork(p, c) ==
    /\ c \notin alive
    /\ alive' = alive \cup {c}
    /\ view' = [view EXCEPT ![c] = view[p]]

Exec(p) ==
    /\ \E image \in Images : view' = [view EXCEPT ![p] = image]
    /\ UNCHANGED alive

Spawn(p, c) ==
    /\ c \notin alive
    /\ alive' = alive \cup {c}
    /\ \E image \in Images : view' = [view EXCEPT ![c] = image]

End(p) ==
    /\ alive' = alive \ {p}
    /\ view' = [view EXCEPT ![p] = Nothing]

Next ==
    \E p \in alive :
        \/ Store(p) \/ Map(p) \/ Unmap(p) \/ Exec(p) \/ End(p)
        \/ \E c \in Process : Fork(p, c) \/ Spawn(p, c)

Spec == Init /\ [][Next]_memVars
=============================================================================
