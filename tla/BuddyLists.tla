----------------------------- MODULE BuddyLists -----------------------------
(***************************************************************************)
(* The framework for a buddy allocator of chapter X (os/tg-buddy-alloc):   *)
(* intrusive free lists, the arithmetic of orders and buddies, and the     *)
(* bridge from GlobalAlloc layouts to orders.  The kernel runs it on one   *)
(* hart, with no interrupt, so each call is one step.                      *)
(*                                                                         *)
(* The allocator between them (trait BuddyAlloc: init, alloc, dealloc) is  *)
(* left to the reader of the chapter (chX/src/allocator.rs is todo!()).    *)
(* What it does here is what the framework's comments ask of one: init     *)
(* lists the aligned blocks of the region, alloc takes a block and splits  *)
(* it, dealloc merges a block with its buddy as long as that is free.      *)
(***************************************************************************)
EXTENDS Integers, FiniteSets, FiniteSetsExt, SequencesExt

CONSTANTS
    MIN_ORDER, MAX_ORDER,  \* 3 and 27 in the source
    Base, TotalSize,       \* the managed region, in bytes; Base as it comes
    Layouts                \* the layouts asked for: <<size, align>>

VARIABLES
    free_lists,  \* the head of each order's list
    next,        \* the word at each address where a block can start
    used         \* history: blocks handed out: address and layout

vars == <<free_lists, next, used>>

Order == 0..MAX_ORDER

Unit == 2 ^ MIN_ORDER

(* Addresses of the smallest blocks that lie in the region.                *)
Addr == {a \in Base .. Base + TotalSize - Unit : a % Unit = 0}

Null == 0
Garbage == 1    \* what a user of a block has left there: no address

ASSUME BuddyAssumption ==
    /\ MIN_ORDER \in Nat \ {0} /\ MAX_ORDER \in Nat
    /\ Base \in Nat \ {0} /\ TotalSize \in Nat
    /\ Layouts \subseteq Nat \X {2 ^ k : k \in 0 .. MIN_ORDER + MAX_ORDER}

-----------------------------------------------------------------------------
(*                            FreeNode                                     *)

(* The three functions take the heap as it is, h.lists and h.next, and     *)
(* give what they make of it.                                              *)
push(h, o, ptr) ==
    [lists |-> [h.lists EXCEPT ![o] = ptr],
     next |-> [h.next EXCEPT ![ptr] = h.lists[o]]]

pop(h, o) == [h EXCEPT !.lists[o] = h.next[h.lists[o]]]

(* The nodes the loop of remove comes to on the way from the head.         *)
Nodes(h, o) ==
    FoldSeq(LAMBDA i, seen : seen \cup {h.next[a] : a \in seen \ {Null, Garbage}},
            {h.lists[o]}, [i \in 1 .. Cardinality(Addr) |-> i]) \ {Null}

(* Mutant: the node before the target keeps pointing to it.                *)
RemoveHeadOnly(h, o, target) ==
    IF h.lists[o] = target THEN pop(h, o) ELSE h

(* Only for a target that is in the list; with another one the code walks  *)
(* to the end and answers false.                                           *)
remove(h, o, target) ==
    IF h.lists[o] = target THEN pop(h, o)
    ELSE LET cur == CHOOSE a \in Nodes(h, o) : h.next[a] = target
         IN  [h EXCEPT !.next[cur] = h.next[target]]

-----------------------------------------------------------------------------
(*                         BuddyAllocator                                  *)

(* Mutant: MIN_ORDER is not added.                                         *)
SizeInUnits(o) == 2 ^ o

block_size(o) == 2 ^ (o + MIN_ORDER)

(* Mutant: the buddy is the block after, whichever of the two ptr is.      *)
NextBlock(ptr, o) == ptr + block_size(o)

(* ptr ^ block_size(o).                                                    *)
buddy_addr(ptr, o) ==
    IF (ptr \div block_size(o)) % 2 = 0 THEN ptr + block_size(o) ELSE ptr - block_size(o)

None == -1

(* e is what next_power_of_two().trailing_zeros() gives.                   *)
size_to_order(size) ==
    IF size = 0 THEN 0
    ELSE LET e == Min({k \in 0..30 : 2 ^ k >= Max({size, Unit})}) - MIN_ORDER
         IN  IF e > MAX_ORDER THEN None ELSE e

(* Mutant: the alignment is forgotten.                                     *)
SizeOnly(layout) == size_to_order(layout[1])

(* LockedBuddy: layout.size().max(layout.align()).                         *)
OrderOf(layout) == size_to_order(Max({layout[1], layout[2]}))

-----------------------------------------------------------------------------
(*                   An allocator over the framework                       *)

heap == [lists |-> free_lists, next |-> next]

Becomes(h) == free_lists' = h.lists /\ next' = h.next

Aligned(a, o) == a % block_size(o) = 0

InRegion(a, o) == Base <= a /\ a + block_size(o) <= Base + TotalSize

(* The aligned blocks of the region that lie in no larger one, from the    *)
(* lowest on.                                                              *)
InitialBlocks ==
    LET blocks == {b \in Addr \X Order : Aligned(b[1], b[2]) /\ InRegion(b[1], b[2])}
        inside(b, c) == c[2] > b[2] /\ c[1] <= b[1] /\ b[1] < c[1] + block_size(c[2])
    IN  {b \in blocks : \A c \in blocks : ~inside(b, c)}

Empty == [lists |-> [o \in Order |-> Null], next |-> [a \in Addr |-> Garbage]]

Init ==
    LET h == FoldSeq(LAMBDA b, g : push(g, b[2], b[1]), Empty,
                     SetToSortSeq(InitialBlocks, LAMBDA b, c : b[1] < c[1]))
    IN  free_lists = h.lists /\ next = h.next /\ used = {}

(* Smallest order from o on with a free block; None if there is none.      *)
Supply(o) ==
    LET S == {k \in Order : k >= o /\ free_lists[k] # Null}
    IN  IF S = {} THEN None ELSE Min(S)

(* A block of order k at ptr cut down to order o: upper halves are free.   *)
Split(h, ptr, k, o) ==
    FoldSeq(LAMBDA j, g : push(g, j, ptr + block_size(j)), h,
            [i \in 1 .. k - o |-> k - i])

Spoiled(h, ptr, o) ==
    [h EXCEPT !.next = [a \in Addr |-> IF a \in ptr .. ptr + block_size(o) - 1
                                       THEN Garbage ELSE h.next[a]]]

alloc(layout) ==
    /\ OrderOf(layout) # None
    /\ Supply(OrderOf(layout)) # None
    /\ LET o == OrderOf(layout)
           k == Supply(o)
           ptr == free_lists[k]
       IN  /\ Becomes(Spoiled(Split(pop(heap, k), ptr, k, o), ptr, o))
           /\ used' = used \cup {<<ptr, layout>>}

(* size_to_order answers None, or no list has a block: a null pointer.     *)
alloc_null(layout) ==
    /\ OrderOf(layout) = None \/ Supply(OrderOf(layout)) = None
    /\ UNCHANGED vars

(* The block of order o at ptr, merged upwards.                            *)
Merged(h, ptr, o) ==
    LET m[k \in o..MAX_ORDER] ==
            IF k = o THEN [h |-> h, ptr |-> ptr, order |-> o]
            ELSE LET was == m[k - 1]
                     buddy == buddy_addr(was.ptr, k - 1)
                 IN  IF was.order = k - 1 /\ buddy \in Nodes(was.h, k - 1)
                     THEN [h |-> remove(was.h, k - 1, buddy),
                           ptr |-> Min({was.ptr, buddy}), order |-> k]
                     ELSE was
    IN  push(m[MAX_ORDER].h, m[MAX_ORDER].order, m[MAX_ORDER].ptr)

(* The user gives a block back with the layout it was asked for with.      *)
dealloc ==
    \E u \in used :
        /\ OrderOf(u[2]) # None
        /\ Becomes(Merged(heap, u[1], OrderOf(u[2])))
        /\ used' = used \ {u}

Next == dealloc \/ \E layout \in Layouts : alloc(layout) \/ alloc_null(layout)

Spec == Init /\ [][Next]_vars

-----------------------------------------------------------------------------
(*                             Properties                                  *)

Bytes(a, o) == a .. a + block_size(o) - 1

FreeBlocks == {b \in Addr \X Order : b[1] \in Nodes(heap, b[2])}

UsedBlocks == {<<u[1], OrderOf(u[2])>> : u \in used}

Managed == UNION {Bytes(b[1], b[2]) : b \in InitialBlocks}

(* No byte is in two blocks, free or handed out, none gets lost, and every *)
(* list is made of addresses only and ends with a null pointer, however    *)
(* blocks are taken and given back.                                        *)
BytesAccountedFor ==
    LET blocks == FreeBlocks \cup UsedBlocks IN
    /\ \A b, c \in blocks : b # c => Bytes(b[1], b[2]) \cap Bytes(c[1], c[2]) = {}
    /\ UNION {Bytes(b[1], b[2]) : b \in blocks} = Managed
    /\ FreeBlocks \cap UsedBlocks = {}
    /\ \A o \in Order : Garbage \notin Nodes(heap, o)

(* A block that is handed out has room for the layout and its alignment.   *)
BlockFitsLayout ==
    \A u \in used :
        /\ u[1] % u[2][2] = 0
        /\ u[2][1] <= block_size(OrderOf(u[2]))

(* alloc answers null only if no aligned block of the order is free as a   *)
(* whole: blocks that can merge have merged.                               *)
NullOnlyWhenFull ==
    LET taken == UNION {Bytes(b[1], b[2]) : b \in UsedBlocks} IN
    \A o \in Order :
        Supply(o) = None =>
            \A a \in Addr : Aligned(a, o) /\ InRegion(a, o) => Bytes(a, o) \cap taken # {}
=============================================================================
