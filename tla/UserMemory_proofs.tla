--------------------------- MODULE UserMemory_proofs ---------------------------
(***************************************************************************)
(* Proofs about the address spaces, for any number of processes, pages and *)
(* frames, any page size and any set of programs and arguments.            *)
(***************************************************************************)
EXTENDS UserMemory, FiniteSetTheorems, WellFoundedInduction, TLAPS

-----------------------------------------------------------------------------
(*                           Pages and bytes                               *)

(* Division by the page size, in the form the provers can use.             *)
LEMMA DivFacts ==
    ASSUME NEW a \in Nat, NEW P \in Nat \ {0}
    PROVE  /\ a \div P \in Nat
           /\ (a \div P) * P <= a
           /\ a < (a \div P) * P + P
BY Z3

LEMMA DivUnique ==
    ASSUME NEW a \in Nat, NEW P \in Nat \ {0}, NEW k \in Nat, k * P <= a, a < k * P + P
    PROVE  a \div P = k
<1>1. /\ a \div P \in Nat /\ (a \div P) * P <= a /\ a < (a \div P) * P + P
  BY DivFacts
<1>2. QED
  BY <1>1, Z3

LEMMA DivMonotone ==
    ASSUME NEW a \in Nat, NEW b \in Nat, a <= b, NEW P \in Nat \ {0}
    PROVE  a \div P <= b \div P
BY Z3

LEMMA PageSize == PAGE_SIZE \in Nat \ {0} /\ PageCount \in Nat /\ FrameCount \in Nat
BY MemoryAssumption

LEMMA CeilFacts ==
    ASSUME NEW a \in Nat
    PROVE  /\ Ceil(a) \in Nat
           /\ a <= Ceil(a) * PAGE_SIZE
           /\ Ceil(a) * PAGE_SIZE < a + PAGE_SIZE
<1> DEFINE b == a + PAGE_SIZE - 1
<1>1. b \in Nat
  BY PageSize
<1> HIDE DEF b
<1>2. b \div PAGE_SIZE \in Nat /\ (b \div PAGE_SIZE) * PAGE_SIZE <= b
      /\ b < (b \div PAGE_SIZE) * PAGE_SIZE + PAGE_SIZE
  BY <1>1, PageSize, DivFacts
<1>3. Ceil(a) = b \div PAGE_SIZE
  BY DEF Ceil, b
<1> DEFINE c == (b \div PAGE_SIZE) * PAGE_SIZE
<1>4. c \in Nat /\ c <= b /\ b < c + PAGE_SIZE
  BY <1>2, PageSize, Z3
<1> HIDE DEF c
<1>5. a <= c /\ c < a + PAGE_SIZE
  BY <1>4, PageSize DEF b
<1>6. QED
  BY <1>2, <1>3, <1>5 DEF c

LEMMA CeilMonotone ==
    ASSUME NEW a \in Nat, NEW b \in Nat, a <= b
    PROVE  Ceil(a) <= Ceil(b)
<1>1. a + PAGE_SIZE - 1 \in Nat /\ b + PAGE_SIZE - 1 \in Nat
      /\ a + PAGE_SIZE - 1 <= b + PAGE_SIZE - 1
  BY PageSize
<1>2. QED
  BY <1>1, PageSize, DivMonotone DEF Ceil

(* Page boundaries are their own ceiling and floor.                        *)
LEMMA BoundaryFacts ==
    ASSUME NEW k \in Nat
    PROVE  /\ k * PAGE_SIZE \in Nat
           /\ Ceil(k * PAGE_SIZE) = k
           /\ (k * PAGE_SIZE) \div PAGE_SIZE = k
<1> DEFINE a == k * PAGE_SIZE
<1>1. a \in Nat
  BY PageSize, Z3
<1>2. a \div PAGE_SIZE = k
  BY <1>1, PageSize, DivUnique
<1>3. (a + PAGE_SIZE - 1) \div PAGE_SIZE = k
  <2> HIDE DEF a
  <2>1. a + PAGE_SIZE - 1 \in Nat /\ a <= a + PAGE_SIZE - 1 /\ a + PAGE_SIZE - 1 < a + PAGE_SIZE
    BY <1>1, PageSize
  <2>2. a = k * PAGE_SIZE
    BY DEF a
  <2> DEFINE b == a + PAGE_SIZE - 1
  <2>3. b \in Nat /\ k * PAGE_SIZE <= b /\ b < k * PAGE_SIZE + PAGE_SIZE
    BY <2>1, <2>2
  <2> HIDE DEF b
  <2>4. b \div PAGE_SIZE = k
    BY <2>3, PageSize, DivUnique
  <2>5. QED
    BY <2>4 DEF b
<1>4. QED
  BY <1>1, <1>2, <1>3 DEF Ceil

(* What lies below a page boundary has its ceiling there at most.          *)
LEMMA CeilBelow ==
    ASSUME NEW a \in Nat, NEW k \in Nat, a <= k * PAGE_SIZE
    PROVE  Ceil(a) <= k
<1>1. k * PAGE_SIZE \in Nat /\ Ceil(k * PAGE_SIZE) = k
  BY BoundaryFacts
<1>2. QED
  BY <1>1, CeilMonotone

LEMMA BoundaryMonotone ==
    ASSUME NEW j \in Nat, NEW k \in Nat, j <= k
    PROVE  j * PAGE_SIZE <= k * PAGE_SIZE
BY PageSize, Z3

(* Any set of naturals with an element has a least one.                    *)
LEMMA LeastNatural ==
    ASSUME NEW T, T \subseteq Nat, T # {}
    PROVE  \E x \in T : \A y \in T : x <= y
<1>1. PICK x \in T : \A y \in T : ~(<<y, x>> \in OpToRel(<, Nat))
  BY NatLessThanWellFounded, WFMin
<1>2. ASSUME NEW y \in T
      PROVE  x <= y
  <2>1. y < x => <<y, x>> \in OpToRel(<, Nat)
    BY DEF OpToRel
  <2>2. ~(y < x)
    BY <1>1, <2>1, Zenon
  <2>3. QED
    BY <2>2
<1>3. QED
  BY <1>2

(* The segments of a program end below the stack, and its break starts     *)
(* inside the window.                                                      *)
LEMMA ElfFacts ==
    ASSUME NEW end \in ElfEnds
    PROVE  /\ end \in Nat
           /\ Ceil(end) \in Nat /\ Ceil(end) <= PageCount - 1
           /\ Ceil(end) * PAGE_SIZE \in 0 .. PageCount * PAGE_SIZE
<1> DEFINE last == PageCount - 1
           window == last * PAGE_SIZE
<1>1. end \in 0 .. window
  BY MemoryAssumption
<1>2. window \in Int
  BY PageSize
<1>3. end \in Nat /\ end <= window
  BY <1>1, <1>2
<1>4. last \in Nat
  <2>1. window >= 0
    BY <1>2, <1>3
  <2>2. last \in Int
    BY PageSize
  <2> HIDE DEF last
  <2>3. last >= 0
    BY <2>1, <2>2, PageSize, Z3
  <2>4. QED
    BY <2>2, <2>3
<1> HIDE DEF last
<1>5. Ceil(end) \in Nat
  BY <1>3, CeilFacts
<1>6. Ceil(end) <= last
  BY <1>3, <1>4, CeilBelow
<1>7. last <= PageCount /\ PageCount \in Nat
  BY PageSize, <1>4 DEF last
<1>8. Ceil(end) <= PageCount
  BY <1>4, <1>5, <1>6, <1>7
<1>9. /\ Ceil(end) * PAGE_SIZE <= PageCount * PAGE_SIZE
      /\ Ceil(end) * PAGE_SIZE \in Nat /\ PageCount * PAGE_SIZE \in Nat
  BY <1>5, <1>7, <1>8, BoundaryMonotone, BoundaryFacts
<1>10. QED
  BY <1>3, <1>5, <1>6, <1>9 DEF last

(* The first program of the image is there and fits in the heap.           *)
LEMMA BootFacts ==
    Min(ElfEnds) \in ElfEnds /\ Ceil(Min(ElfEnds)) + 1 <= FrameCount
<1>1. ElfEnds \subseteq Nat
  BY ElfFacts
<1>2. PICK end \in ElfEnds : Ceil(end) + 1 <= FrameCount
  BY BootAssumption
<1>3. PICK x \in ElfEnds : \A y \in ElfEnds : x <= y
  BY <1>1, <1>2, LeastNatural
<1>4. Min(ElfEnds) \in ElfEnds /\ \A y \in ElfEnds : Min(ElfEnds) <= y
  BY <1>3 DEF Min
<1>5. Ceil(Min(ElfEnds)) <= Ceil(end)
  BY <1>1, <1>4, CeilMonotone
<1>6. Ceil(Min(ElfEnds)) \in Nat /\ Ceil(end) \in Nat
  BY <1>4, ElfFacts
<1>7. QED
  BY <1>2, <1>4, <1>5, <1>6, PageSize

-----------------------------------------------------------------------------
(*                           Page tables                                   *)

Row == [Page -> {NoPage} \cup MappedPage]

LEMMA NoPageIsNoMappedPage ==
    NoPage \notin MappedPage /\ \A x \in Value : x # NoPage
BY BootAssumption

LEMMA FrameInterval ==
    ASSUME NEW f \in Nat, f < FrameCount
    PROVE  f \in Frame
BY PageSize DEF Frame

LEMMA ProgramPagesTyped ==
    ASSUME NEW end \in ElfEnds, NEW first \in Nat, first + Ceil(end) + 1 <= FrameCount
    PROVE  ProgramPages(end, first) \in Row
<1> DEFINE n == Ceil(end)
<1>1. n \in Nat /\ first + n + 1 <= FrameCount
  BY ElfFacts
<1> HIDE DEF n
<1>2. ASSUME NEW v \in Page, v < n
      PROVE  [frame |-> first + v, flags |-> {"R", "X"}, area |-> "elf"] \in MappedPage
  <2>1. v \in Nat
    BY DEF Page
  <2>2. first + v \in Frame
    BY <1>1, <1>2, <2>1, PageSize DEF Frame
  <2>3. QED
    BY <2>2 DEF MappedPage
<1>3. [frame |-> first + n, flags |-> {"R", "W"}, area |-> "stack"] \in MappedPage
  <2>1. first + n \in Frame
    BY <1>1, PageSize DEF Frame
  <2>2. QED
    BY <2>1 DEF MappedPage
<1>4. QED
  BY <1>2, <1>3 DEF ProgramPages, Row, n

LEMMA ProgramMemTyped ==
    ASSUME mem \in [Frame -> Value], NEW end, NEW first
    PROVE  ProgramMem(end, first) \in [Frame -> Value]
BY DEF ProgramMem, Value

(* The pages a range of new frames is given to.                            *)
LEMMA NewPageTyped ==
    ASSUME next_frame \in Nat, NEW v \in Int, NEW lo \in Int, NEW hi \in Int,
           v \in lo .. hi - 1, next_frame + (hi - lo) <= FrameCount,
           NEW flags \in SUBSET {"R", "W", "X"},
           NEW area \in {"elf", "heap", "mmap", "stack"}
    PROVE  NewPage(v, lo, flags, area) \in MappedPage
<1>1. next_frame + (v - lo) \in Frame
  BY PageSize DEF Frame
<1>2. QED
  BY <1>1 DEF NewPage, MappedPage

LEMMA MappedFinite ==
    ASSUME NEW p
    PROVE  /\ IsFiniteSet(Mapped(p)) /\ Mapped(p) \subseteq Page
           /\ Cardinality(Mapped(p)) \in Nat
<1>1. IsFiniteSet(Page)
  BY FS_Interval, PageSize DEF Page
<1>2. Mapped(p) \in SUBSET Page
  BY DEF Mapped
<1>3. QED
  BY <1>1, <1>2, FS_Subset, FS_CardinalityType

Rank(p, v) == Cardinality({u \in Mapped(p) : u < v})

(* The pages of p are counted in their order, from 0.                      *)
LEMMA RankFacts ==
    ASSUME NEW p, NEW v \in Mapped(p)
    PROVE  /\ Rank(p, v) \in Nat
           /\ Rank(p, v) < Cardinality(Mapped(p))
           /\ \A u \in Mapped(p) : u < v => Rank(p, u) < Rank(p, v)
<1> DEFINE below(w) == {u \in Mapped(p) : u < w}
<1>1. ASSUME NEW w
      PROVE  IsFiniteSet(below(w)) /\ Cardinality(below(w)) \in Nat
  <2>1. below(w) \in SUBSET Mapped(p)
    OBVIOUS
  <2>2. QED
    BY <2>1, MappedFinite, FS_Subset, FS_CardinalityType
<1>2. ASSUME NEW w, NEW T, w \in T, w \notin below(w), below(w) \subseteq T, IsFiniteSet(T)
      PROVE  Cardinality(below(w)) < Cardinality(T)
  <2>1. /\ Cardinality(below(w)) <= Cardinality(T)
        /\ Cardinality(T) = Cardinality(below(w)) => T = below(w)
    BY <1>2, FS_Subset
  <2>2. Cardinality(T) \in Nat /\ Cardinality(below(w)) \in Nat
    BY <1>1, <1>2, FS_CardinalityType
  <2>3. T # below(w)
    BY <1>2
  <2> HIDE DEF below
  <2>4. QED
    BY <2>1, <2>2, <2>3
<1>3. \A w \in Mapped(p) : w \in Nat /\ w \notin below(w)
  BY MappedFinite DEF Page
<1>4. Cardinality(below(v)) < Cardinality(Mapped(p))
  BY <1>2, <1>3, MappedFinite
<1>5. ASSUME NEW u \in Mapped(p), u < v
      PROVE  Cardinality(below(u)) < Cardinality(below(v))
  <2>1. below(u) \subseteq below(v) /\ u \in below(v)
    BY <1>3, <1>5
  <2>2. QED
    BY <1>1, <1>2, <1>3, <2>1
<1>6. QED
  BY <1>1, <1>4, <1>5 DEF Rank

LEMMA RankDistinct ==
    ASSUME NEW p
    PROVE  \A u, v \in Mapped(p) : Rank(p, u) = Rank(p, v) => u = v
<1>1. SUFFICES ASSUME NEW u \in Mapped(p), NEW v \in Mapped(p), Rank(p, u) = Rank(p, v), u # v
               PROVE  FALSE
  OBVIOUS
<1>2. u \in Nat /\ v \in Nat
  BY MappedFinite DEF Page
<1>3. (u < v => Rank(p, u) < Rank(p, v)) /\ (v < u => Rank(p, v) < Rank(p, u))
  BY RankFacts
<1>4. Rank(p, u) \in Nat /\ Rank(p, v) \in Nat
  BY RankFacts
<1> HIDE DEF Rank
<1>5. QED
  BY <1>1, <1>2, <1>3, <1>4

(* The pages of a clone: new frames, no two alike, and what else the       *)
(* original's page has.                                                    *)
LEMMA ClonedPagesFacts ==
    ASSUME TypeOK, NEW p \in Proc, ~Shortage(Cardinality(Mapped(p)))
    PROVE  /\ ClonedPages(p) \in Row
           /\ \A v \in Page : (ClonedPages(p)[v] # NoPage <=> v \in Mapped(p))
           /\ \A v \in Mapped(p) :
                 /\ ClonedPages(p)[v].frame = next_frame + Rank(p, v)
                 /\ ClonedPages(p)[v].area = pages[p][v].area
                 /\ ClonedPages(p)[v].flags = pages[p][v].flags
<1>1. /\ next_frame \in Nat
      /\ next_frame + Cardinality(Mapped(p)) <= FrameCount
      /\ \A v \in Mapped(p) : v \in Page /\ pages[p][v] \in MappedPage
  <2>1. next_frame \in Nat /\ pages[p] \in Row
    BY DEF TypeOK, Row
  <2>2. next_frame + Cardinality(Mapped(p)) <= FrameCount
    BY <2>1, MappedFinite, PageSize DEF Shortage
  <2>3. QED
    BY <2>1, <2>2 DEF Mapped, Row
<1>2. ASSUME NEW v \in Mapped(p)
      PROVE  /\ ClonedPages(p)[v] = [pages[p][v] EXCEPT !.frame = next_frame + Rank(p, v)]
             /\ ClonedPages(p)[v] \in MappedPage
             /\ ClonedPages(p)[v].frame = next_frame + Rank(p, v)
             /\ ClonedPages(p)[v].area = pages[p][v].area
             /\ ClonedPages(p)[v].flags = pages[p][v].flags
  <2>1. ClonedPages(p)[v] = [pages[p][v] EXCEPT !.frame = next_frame + Rank(p, v)]
    BY <1>1 DEF ClonedPages, Rank
  <2>2. next_frame + Rank(p, v) \in Frame
    <3>1. Rank(p, v) \in Nat /\ Rank(p, v) < Cardinality(Mapped(p))
      BY RankFacts
    <3>2. Cardinality(Mapped(p)) \in Nat
      BY MappedFinite
    <3> HIDE DEF Rank
    <3>3. QED
      BY <1>1, <3>1, <3>2, PageSize DEF Frame
  <2> HIDE DEF Rank
  <2>3. QED
    BY <1>1, <2>1, <2>2 DEF MappedPage
<1>3. \A v \in Page : v \notin Mapped(p) => ClonedPages(p)[v] = NoPage
  BY DEF ClonedPages
<1>4. \A v \in Page : (ClonedPages(p)[v] # NoPage <=> v \in Mapped(p))
  BY <1>2, <1>3, NoPageIsNoMappedPage
<1>5. ClonedPages(p) \in Row
  <2>1. ClonedPages(p) = [v \in Page |-> ClonedPages(p)[v]]
    BY DEF ClonedPages
  <2>2. QED
    BY <1>2, <1>3, <2>1 DEF Row
<1>6. QED
  BY <1>2, <1>4, <1>5

(* AddressSpace::map: a row for p, and the frames it took.                 *)
LEMMA MapTyped ==
    ASSUME TypeOK, NEW p \in Proc, NEW lo \in Int, NEW hi \in Int, lo <= hi,
           NEW flags \in SUBSET {"R", "W", "X"},
           NEW area \in {"elf", "heap", "mmap", "stack"},
           next_frame + (hi - lo) <= FrameCount,
           map(p, lo, hi, flags, area)
    PROVE  /\ pages' \in [Proc -> Row]
           /\ mem' \in [Frame -> Value]
           /\ next_frame' \in 0 .. FrameCount
           /\ next_frame' = next_frame + (hi - lo)
<1>1. next_frame \in Nat /\ pages \in [Proc -> Row] /\ mem \in [Frame -> Value]
  BY DEF TypeOK, Row
<1>2. next_frame' = next_frame + (hi - lo)
  BY DEF map, FramesAfter
<1>3. next_frame' \in 0 .. FrameCount
  BY <1>1, <1>2, PageSize
<1>4. mem' \in [Frame -> Value]
  BY <1>1 DEF map, Zeroed, Value
<1>5. ASSUME NEW v \in Page, v \in lo .. hi - 1
      PROVE  NewPage(v, lo, flags, area) \in MappedPage
  <2>1. v \in Int
    BY DEF Page
  <2>2. QED
    BY <1>1, <1>5, <2>1, NewPageTyped
<1> DEFINE row == [v \in Page |-> IF v \in lo .. hi - 1 THEN NewPage(v, lo, flags, area)
                                  ELSE pages[p][v]]
<1>6. row \in Row
  BY <1>1, <1>5 DEF Row
<1>7. pages' = [pages EXCEPT ![p] = row]
  BY DEF map
<1> HIDE DEF row
<1>8. pages' \in [Proc -> Row]
  BY <1>1, <1>6, <1>7
<1>9. QED
  BY <1>2, <1>3, <1>4, <1>8

LEMMA UnmapTyped ==
    ASSUME TypeOK, NEW p \in Proc, NEW S, unmap(p, S)
    PROVE  pages' \in [Proc -> Row]
<1> DEFINE row == [v \in Page |-> IF v \in S THEN NoPage ELSE pages[p][v]]
<1>1. pages \in [Proc -> Row]
  BY DEF TypeOK, Row
<1>2. row \in Row
  BY <1>1 DEF Row
<1>3. pages' = [pages EXCEPT ![p] = row]
  BY DEF unmap
<1> HIDE DEF row
<1>4. QED
  BY <1>1, <1>2, <1>3

(* TypeOK in parts: what a call can get wrong, and the rest.               *)
TablesTyped ==
    /\ pages \in [Proc -> Row]
    /\ heap_bottom \in [Proc -> 0 .. PageCount * PAGE_SIZE]
    /\ program_brk \in [Proc -> 0 .. PageCount * PAGE_SIZE]
    /\ mem \in [Frame -> Value]
    /\ next_frame \in 0 .. FrameCount

RestTyped ==
    /\ alive \subseteq Proc
    /\ halted \in {"no", "no_memory", "overlap", "overflow"}
                  \X {"none", "exec", "spawn", "fork", "sbrk", "mmap", "munmap"}
    /\ holes \in [Proc -> SUBSET Page]

LEMMA TypeInParts == TypeOK <=> TablesTyped /\ RestTyped
BY DEF TypeOK, TablesTyped, RestTyped, Row

LEMMA InitTyped == Init => TypeOK
<1> SUFFICES ASSUME Init PROVE TypeOK
  OBVIOUS
<1> DEFINE end == Min(ElfEnds)
           top == Ceil(end) * PAGE_SIZE
<1>1. end \in ElfEnds /\ Ceil(end) + 1 <= FrameCount
  BY BootFacts
<1>2. Ceil(end) \in Nat /\ top \in 0 .. PageCount * PAGE_SIZE
  BY <1>1, ElfFacts
<1>3. ProgramPages(end, 0) \in Row
  BY <1>1, <1>2, ProgramPagesTyped
<1>4. Unmapped \in Row
  BY DEF Unmapped, Row
<1> HIDE DEF top
<1>5. pages \in [Proc -> Row]
  BY <1>3, <1>4 DEF Init
<1>6. 0 \in 0 .. PageCount * PAGE_SIZE
  BY BoundaryFacts, PageSize
<1>7. /\ heap_bottom \in [Proc -> 0 .. PageCount * PAGE_SIZE]
      /\ program_brk \in [Proc -> 0 .. PageCount * PAGE_SIZE]
  BY <1>2, <1>6 DEF Init, top
<1>8. mem \in [Frame -> Value]
  BY DEF Init, Value
<1>9. next_frame \in 0 .. FrameCount
  BY <1>1, <1>2, PageSize DEF Init
<1>10. RestTyped
  <2>1. 0 \in Proc
    BY MemoryAssumption DEF Proc
  <2>2. QED
    BY <2>1 DEF Init, RestTyped, NotHalted
<1>11. QED
  BY <1>5, <1>7, <1>8, <1>9, <1>10, TypeInParts DEF TablesTyped

LEMMA UnchangedTyped ==
    ASSUME TypeOK, UNCHANGED vars
    PROVE  TypeOK'
BY DEF TypeOK, vars, Mapped

(* A panic changes nothing but what is known of it.                        *)
LEMMA HaltTyped ==
    ASSUME TypeOK, NEW why \in {"no_memory", "overlap", "overflow"},
           NEW call \in {"exec", "spawn", "fork", "sbrk", "mmap", "munmap"},
           Halt(why, call)
    PROVE  TypeOK'
BY DEF TypeOK, Halt

(* exec and spawn.                                                         *)
LEMMA ProgramTyped ==
    ASSUME TypeOK, NEW c \in Proc, NEW end \in ElfEnds, from_elf(c, end)
    PROVE  TypeOK'
<1> DEFINE top == Ceil(end) * PAGE_SIZE
<1>1. TablesTyped /\ RestTyped
  BY TypeInParts
<1>2. Ceil(end) \in Nat /\ top \in 0 .. PageCount * PAGE_SIZE
  BY ElfFacts
<1>3. next_frame \in Nat /\ next_frame + Ceil(end) + 1 <= FrameCount
  BY <1>1, <1>2, PageSize DEF TablesTyped, from_elf, Shortage
<1>4. ProgramPages(end, next_frame) \in Row
  BY <1>3, ProgramPagesTyped
<1>5. ProgramMem(end, next_frame) \in [Frame -> Value]
  BY <1>1, ProgramMemTyped DEF TablesTyped
<1>6. next_frame' \in 0 .. FrameCount
  BY <1>2, <1>3, PageSize DEF from_elf, FramesAfter
<1> HIDE DEF top
<1>7. TablesTyped'
  BY <1>1, <1>2, <1>4, <1>5, <1>6 DEF TablesTyped, from_elf, BreakAtBottom, top
<1>8. RestTyped'
  BY <1>1 DEF RestTyped, from_elf
<1>9. QED
  BY <1>7, <1>8 DEF TypeOK, TablesTyped, RestTyped, Row

LEMMA ForkTyped ==
    ASSUME TypeOK, NEW p \in Proc, fork(p)
    PROVE  TypeOK'
<1> DEFINE n == Cardinality(Mapped(p))
<1>1. TablesTyped /\ RestTyped
  BY TypeInParts
<1>2. ~Shortage(n) /\ n \in Nat
  BY MappedFinite DEF fork
<1>3. ClonedPages(p) \in Row
  BY <1>2, ClonedPagesFacts
<1>4. ClonedMem(p) \in [Frame -> Value]
  <2>1. ASSUME NEW v \in Mapped(p)
        PROVE  mem[pages[p][v].frame] \in Value
    <3>1. pages[p][v] \in MappedPage
      BY <1>1, <2>1 DEF TablesTyped, Row, Mapped
    <3>2. QED
      BY <1>1, <3>1 DEF TablesTyped, MappedPage
  <2>2. ASSUME NEW f \in Frame, \E v \in Mapped(p) : ClonedPages(p)[v].frame = f
        PROVE  (CHOOSE v \in Mapped(p) : ClonedPages(p)[v].frame = f) \in Mapped(p)
    BY <2>2
  <2>3. QED
    BY <1>1, <2>1, <2>2 DEF ClonedMem, TablesTyped
<1>5. next_frame' \in 0 .. FrameCount
  <2>1. next_frame' = next_frame + n
    BY DEF fork, FramesAfter
  <2> HIDE DEF n
  <2>2. QED
    BY <1>1, <1>2, <2>1, PageSize DEF TablesTyped, Shortage
<1>6. PICK c \in Proc \ alive :
          /\ alive' = alive \cup {c}
          /\ pages' = [pages EXCEPT ![c] = ClonedPages(p)]
          /\ mem' = ClonedMem(p)
          /\ heap_bottom' = [heap_bottom EXCEPT ![c] = heap_bottom[p]]
          /\ program_brk' = [program_brk EXCEPT ![c] = program_brk[p]]
          /\ holes' = [holes EXCEPT ![c] = holes[p]]
          /\ halted' = halted
  BY DEF fork
<1>7. TablesTyped'
  BY <1>1, <1>3, <1>4, <1>5, <1>6 DEF TablesTyped
<1>8. RestTyped'
  BY <1>1, <1>6 DEF RestTyped
<1>9. QED
  BY <1>7, <1>8 DEF TypeOK, TablesTyped, RestTyped, Row

LEMMA EndTyped ==
    ASSUME TypeOK, NEW p \in Proc, End(p)
    PROVE  TypeOK'
<1>1. TablesTyped /\ RestTyped
  BY TypeInParts
<1>2. Unmapped \in Row
  BY DEF Unmapped, Row
<1>3. 0 \in 0 .. PageCount * PAGE_SIZE
  BY BoundaryFacts, PageSize
<1>4. TablesTyped'
  BY <1>1, <1>2, <1>3 DEF TablesTyped, End
<1>5. RestTyped'
  BY <1>1 DEF RestTyped, End
<1>6. QED
  BY <1>4, <1>5 DEF TypeOK, TablesTyped, RestTyped, Row

(* The pages sbrk adds or takes away lie between the ceilings of the two   *)
(* breaks, above the bottom of the heap and inside the window.             *)
LEMMA BreakFacts ==
    ASSUME TypeOK, NEW p \in Proc, NEW size \in Int, NewBreak(p, size)
    PROVE  /\ program_brk[p] \in Nat /\ program_brk[p] + size \in Nat
           /\ Ceil(program_brk[p]) \in Nat
           /\ Ceil(program_brk[p] + size) \in Nat
           /\ Ceil(program_brk[p] + size) <= PageCount
           /\ heap_bottom[p] \in Nat /\ heap_bottom[p] <= program_brk[p] + size
           /\ size > 0 => Ceil(program_brk[p]) <= Ceil(program_brk[p] + size)
           /\ size <= 0 => Ceil(program_brk[p] + size) <= Ceil(program_brk[p])
           /\ program_brk' \in [Proc -> 0 .. PageCount * PAGE_SIZE]
           /\ program_brk' = [program_brk EXCEPT ![p] = program_brk[p] + size]
<1> DEFINE window == PageCount * PAGE_SIZE
           old == program_brk[p]
           new == program_brk[p] + size
<1>1. /\ heap_bottom \in [Proc -> 0 .. window] /\ program_brk \in [Proc -> 0 .. window]
      /\ window \in Nat
  BY BoundaryFacts, PageSize DEF TypeOK
<1>2. new \in heap_bottom[p] .. window /\ program_brk' = [program_brk EXCEPT ![p] = new]
  BY DEF NewBreak
<1> HIDE DEF window
<1>3. old \in Nat /\ new \in Nat /\ new <= window /\ heap_bottom[p] \in Nat
      /\ heap_bottom[p] <= new
  BY <1>1, <1>2
<1>4. program_brk' \in [Proc -> 0 .. window]
  <2>1. new \in 0 .. window
    BY <1>1, <1>3
  <2> HIDE DEF new
  <2>2. QED
    BY <1>1, <1>2, <2>1
<1>5. Ceil(old) \in Nat /\ Ceil(new) \in Nat
  BY <1>3, CeilFacts
<1>6. Ceil(new) <= PageCount
  BY <1>3, CeilBelow, PageSize DEF window
<1>7. size > 0 => Ceil(old) <= Ceil(new)
  BY <1>3, CeilMonotone
<1>8. size <= 0 => Ceil(new) <= Ceil(old)
  BY <1>3, CeilMonotone
<1>9. QED
  BY <1>2, <1>3, <1>4, <1>5, <1>6, <1>7, <1>8 DEF window

(* sbrk that grows: either a map of the new pages, of which there are some *)
(* and for which there are frames, or no page at all.                      *)
LEMMA GrowFacts ==
    ASSUME TypeOK, NEW p \in Proc, NEW size \in Sizes, sbrk_grow(p, size)
    PROVE  LET lo == Ceil(program_brk[p])
               hi == Ceil(program_brk[p] + size)
           IN  /\ size \in Int /\ size > 0 /\ NewBreak(p, size)
               /\ lo \in Nat /\ hi \in Nat /\ lo <= hi
               /\ next_frame + (hi - lo) <= FrameCount
               /\ \/ lo = hi /\ UNCHANGED <<pages, mem, next_frame>>
                  \/ map(p, lo, hi, {"R", "W"}, "heap")
<1> DEFINE lo == Ceil(program_brk[p])
           hi == Ceil(program_brk[p] + size)
<1>1. size \in Int /\ size > 0 /\ NewBreak(p, size)
  BY MemoryAssumption DEF sbrk_grow
<1>2. lo \in Nat /\ hi \in Nat /\ lo <= hi
  BY <1>1, BreakFacts
<1>3. Grown(p, size) = lo .. hi - 1
  BY DEF Grown
<1>4. next_frame + (hi - lo) <= FrameCount
  <2>1. Cardinality(Grown(p, size)) = hi - lo
    <3> HIDE DEF lo, hi
    <3>1. Cardinality(lo .. hi - 1) = IF lo > hi - 1 THEN 0 ELSE (hi - 1) - lo + 1
      BY <1>2, FS_Interval
    <3>2. (IF lo > hi - 1 THEN 0 ELSE (hi - 1) - lo + 1) = hi - lo
      BY <1>2
    <3>3. QED
      BY <1>3, <3>1, <3>2
  <2>2. ~(next_frame + Cardinality(Grown(p, size)) > FrameCount)
    BY DEF sbrk_grow, Shortage
  <2>3. next_frame \in Nat
    BY DEF TypeOK
  <2> HIDE DEF lo, hi
  <2>4. QED
    BY <1>2, <2>1, <2>2, <2>3, PageSize
<1>5. \/ lo = hi /\ UNCHANGED <<pages, mem, next_frame>>
      \/ map(p, lo, hi, {"R", "W"}, "heap")
  <2>1. CASE Grown(p, size) = {}
    <3>1. lo = hi
      <4> HIDE DEF lo, hi
      <4>1. lo \notin lo .. hi - 1
        BY <1>3, <2>1
      <4>2. QED
        BY <1>2, <4>1
    <3>2. UNCHANGED <<pages, mem, next_frame>>
      BY <2>1 DEF sbrk_grow
    <3>3. QED
      BY <3>1, <3>2
  <2>2. CASE Grown(p, size) # {}
    BY <2>2 DEF sbrk_grow
  <2>3. QED
    BY <2>1, <2>2
<1>6. QED
  BY <1>1, <1>2, <1>4, <1>5

LEMMA GrowTyped ==
    ASSUME TypeOK, NEW p \in Proc, NEW size \in Sizes, sbrk_grow(p, size)
    PROVE  TypeOK'
<1> DEFINE lo == Ceil(program_brk[p])
           hi == Ceil(program_brk[p] + size)
<1>1. TablesTyped /\ RestTyped
  BY TypeInParts
<1>2. /\ size \in Int /\ NewBreak(p, size)
      /\ lo \in Nat /\ hi \in Nat /\ lo <= hi
      /\ next_frame + (hi - lo) <= FrameCount
      /\ \/ lo = hi /\ UNCHANGED <<pages, mem, next_frame>>
         \/ map(p, lo, hi, {"R", "W"}, "heap")
  BY GrowFacts
<1>3. pages' \in [Proc -> Row] /\ mem' \in [Frame -> Value] /\ next_frame' \in 0 .. FrameCount
  <2>1. CASE UNCHANGED <<pages, mem, next_frame>>
    BY <1>1, <2>1 DEF TablesTyped
  <2>2. CASE map(p, lo, hi, {"R", "W"}, "heap")
    <3> HIDE DEF lo, hi
    <3>1. QED
      BY <1>2, <2>2, MapTyped
  <2>3. QED
    BY <1>2, <2>1, <2>2
<1>4. program_brk' \in [Proc -> 0 .. PageCount * PAGE_SIZE]
  BY <1>2, BreakFacts
<1>5. TablesTyped'
  BY <1>1, <1>2, <1>3, <1>4 DEF TablesTyped, NewBreak
<1>6. RestTyped'
  BY <1>1 DEF RestTyped, sbrk_grow, NewBreak
<1>7. QED
  BY <1>5, <1>6 DEF TypeOK, TablesTyped, RestTyped, Row

LEMMA ShrinkTyped ==
    ASSUME TypeOK, NEW p \in Proc, NEW size \in Sizes, sbrk_shrink(p, size)
    PROVE  TypeOK'
<1>1. TablesTyped /\ RestTyped
  BY TypeInParts
<1>2. size \in Int /\ NewBreak(p, size) /\ unmap(p, Shrunk(p, size))
  BY MemoryAssumption DEF sbrk_shrink
<1>3. pages' \in [Proc -> Row]
  BY <1>2, UnmapTyped
<1>4. program_brk' \in [Proc -> 0 .. PageCount * PAGE_SIZE]
  BY <1>2, BreakFacts
<1>5. TablesTyped'
  BY <1>1, <1>2, <1>3, <1>4 DEF TablesTyped, NewBreak, sbrk_shrink
<1>6. RestTyped'
  BY <1>1 DEF RestTyped, sbrk_shrink, NewBreak
<1>7. QED
  BY <1>5, <1>6 DEF TypeOK, TablesTyped, RestTyped, Row

(* mmap: no page, or a map of the whole range, for which there are frames. *)
LEMMA MmapFacts ==
    ASSUME TypeOK, NEW p \in Proc, NEW addr \in Address, NEW len \in Lengths,
           NEW prot \in Prots, mmap(p, addr, len, prot)
    PROVE  LET lo == Floor(addr)
               hi == Floor(addr) + Ceil(len)
           IN  /\ lo \in Nat /\ hi \in Nat /\ lo <= hi
               /\ next_frame + (hi - lo) <= FrameCount
               /\ prot \in SUBSET {"R", "W", "X"}
               /\ \A v \in lo .. hi - 1 : v \notin Mapped(p)
               /\ \/ UNCHANGED <<pages, mem, next_frame>>
                  \/ map(p, lo, hi, prot, "mmap")
<1> DEFINE lo == Floor(addr)
           n == Ceil(len)
<1>1. addr \in Nat /\ len \in Nat
  BY MemoryAssumption DEF Address
<1>2. lo \in Nat
  BY <1>1, DivFacts, PageSize DEF Floor
<1>3. n \in Nat
  BY <1>1, CeilFacts
<1>4. ~(next_frame + n > FrameCount) /\ next_frame \in Nat
  BY DEF mmap, Shortage, TypeOK
<1>5. prot \in SUBSET {"R", "W", "X"}
  BY MemoryAssumption DEF mmap
<1>6. \A v \in lo .. lo + n - 1 : v \notin Mapped(p)
  BY DEF mmap, IsFree, PageRange
<1>7. \/ UNCHANGED <<pages, mem, next_frame>>
      \/ map(p, lo, lo + n, prot, "mmap")
  BY DEF mmap
<1> DEFINE hi == lo + n
<1>8. hi \in Nat /\ lo <= hi /\ next_frame + (hi - lo) <= FrameCount
  <2> HIDE DEF lo, n
  <2>1. QED
    BY <1>2, <1>3, <1>4, PageSize DEF hi
<1>9. \A v \in lo .. hi - 1 : v \notin Mapped(p)
  <2> HIDE DEF lo, n
  <2>1. QED
    BY <1>2, <1>3, <1>6 DEF hi
<1>10. \/ UNCHANGED <<pages, mem, next_frame>>
       \/ map(p, lo, hi, prot, "mmap")
  BY <1>7, Zenon
<1>11. QED
  BY <1>2, <1>5, <1>8, <1>9, <1>10, Zenon

LEMMA MmapTyped ==
    ASSUME TypeOK, NEW p \in Proc, NEW addr \in Address, NEW len \in Lengths,
           NEW prot \in Prots, mmap(p, addr, len, prot)
    PROVE  TypeOK'
<1> DEFINE lo == Floor(addr)
           hi == Floor(addr) + Ceil(len)
<1>1. TablesTyped /\ RestTyped
  BY TypeInParts
<1>2. /\ lo \in Nat /\ hi \in Nat /\ lo <= hi
      /\ next_frame + (hi - lo) <= FrameCount
      /\ prot \in SUBSET {"R", "W", "X"}
      /\ \/ UNCHANGED <<pages, mem, next_frame>>
         \/ map(p, lo, hi, prot, "mmap")
  BY MmapFacts
<1>3. pages' \in [Proc -> Row] /\ mem' \in [Frame -> Value] /\ next_frame' \in 0 .. FrameCount
  <2>1. CASE UNCHANGED <<pages, mem, next_frame>>
    BY <1>1, <2>1 DEF TablesTyped
  <2>2. CASE map(p, lo, hi, prot, "mmap")
    <3> HIDE DEF lo, hi
    <3>1. QED
      BY <1>2, <2>2, MapTyped
  <2>3. QED
    BY <1>2, <2>1, <2>2
<1>4. TablesTyped'
  BY <1>1, <1>3 DEF TablesTyped, mmap
<1>5. RestTyped'
  BY <1>1 DEF RestTyped, mmap
<1>6. QED
  BY <1>4, <1>5 DEF TypeOK, TablesTyped, RestTyped, Row

LEMMA MunmapTyped ==
    ASSUME TypeOK, NEW p \in Proc, NEW addr, NEW len,
           munmap(p, addr, len) \/ munmap_refused(p, addr, len)
    PROVE  TypeOK'
<1>1. TablesTyped /\ RestTyped
  BY TypeInParts
<1>2. \E S : unmap(p, S)
  BY DEF munmap, munmap_refused
<1>3. pages' \in [Proc -> Row]
  BY <1>2, UnmapTyped
<1>4. TablesTyped'
  BY <1>1, <1>3 DEF TablesTyped, munmap, munmap_refused
<1>5. RestTyped'
  <2>1. CASE munmap(p, addr, len)
    <3>1. PageRange(addr, len) \cap HeapPages(p) \subseteq Page
      BY <2>1 DEF munmap, Mapped
    <3> DEFINE S == PageRange(addr, len) \cap HeapPages(p)
    <3>2. holes' = [holes EXCEPT ![p] = holes[p] \cup S] /\ UNCHANGED <<alive, halted>>
      BY <2>1 DEF munmap
    <3> HIDE DEF S
    <3>3. holes[p] \cup S \in SUBSET Page
      BY <1>1, <3>1 DEF RestTyped, S
    <3>4. QED
      BY <1>1, <3>2, <3>3 DEF RestTyped
  <2>2. CASE munmap_refused(p, addr, len)
    BY <1>1, <2>2 DEF RestTyped, munmap_refused
  <2>3. QED
    BY <2>1, <2>2
<1>6. QED
  BY <1>4, <1>5 DEF TypeOK, TablesTyped, RestTyped, Row

(* Loads and stores change the contents of pages and nothing else.         *)
LEMMA AccessTyped ==
    ASSUME TypeOK, NEW p \in Proc,
           \/ UserStore(p)
           \/ \E v \in Page, n \in 1 .. MaxSpan, x \in Data : read(p, v, n, x)
    PROVE  TypeOK'
<1>1. UNCHANGED <<alive, pages, heap_bottom, program_brk, next_frame, halted, holes>>
  BY DEF UserStore, Stored, read
<1>2. mem' \in [Frame -> Value]
  <2>1. mem \in [Frame -> Value] /\ Data \subseteq Value
    BY DEF TypeOK, Value
  <2>2. CASE UserStore(p)
    BY <2>1, <2>2 DEF UserStore, Stored
  <2>3. CASE \E v \in Page, n \in 1 .. MaxSpan, x \in Data : read(p, v, n, x)
    BY <2>1, <2>3 DEF read
  <2>4. QED
    BY <2>2, <2>3
<1>3. QED
  BY <1>1, <1>2 DEF TypeOK

(* The calls that answer -1, and those that end in a panic.                *)
Refused(p) ==
    (\E size \in Sizes : sbrk_refused(p, size)) \/ mmap_refused(p) \/ read_refused(p)

Panics(p) ==
    \/ exec_panic(p) \/ spawn_panic(p) \/ fork_panic(p) \/ sbrk_panic(p)
    \/ mmap_panic(p) \/ length_overflow(p)

LEMMA RefusedFacts ==
    ASSUME NEW p, Refused(p)
    PROVE  UNCHANGED vars
BY DEF Refused, sbrk_refused, mmap_refused, read_refused, Unchanged, vars

(* A panic, and mmap never finds a page it is about to map mapped: it has  *)
(* looked at the whole range.                                              *)
LEMMA PanicFacts ==
    ASSUME NEW p, Panics(p)
    PROVE  \E why \in {"no_memory", "overlap", "overflow"},
              call \in {"exec", "spawn", "fork", "sbrk", "mmap", "munmap"} :
                 Halt(why, call) /\ ~(why = "overlap" /\ call = "mmap")
<1>1. CASE exec_panic(p)
  BY <1>1 DEF exec_panic, NewPagesRefused
<1>2. CASE spawn_panic(p)
  BY <1>2 DEF spawn_panic, NewPagesRefused
<1>3. CASE fork_panic(p)
  BY <1>3 DEF fork_panic, NewPagesRefused
<1>4. CASE sbrk_panic(p)
  BY <1>4 DEF sbrk_panic, NewPagesRefused
<1>5. CASE mmap_panic(p)
  <2>1. PICK addr, len : /\ IsFree(p, addr, len)
                         /\ IF PageRange(addr, len) \cap Mapped(p) # {}
                            THEN Halt("overlap", "mmap")
                            ELSE NewPagesRefused("mmap", Ceil(len))
    BY <1>5 DEF mmap_panic
  <2>2. Halt("no_memory", "mmap")
    BY <2>1 DEF IsFree, NewPagesRefused
  <2>3. QED
    BY <2>2
<1>6. CASE length_overflow(p)
  BY <1>6 DEF length_overflow
<1>7. QED
  BY <1>1, <1>2, <1>3, <1>4, <1>5, <1>6 DEF Panics

(* The calls, one case each.                                               *)
LEMMA CallCases ==
    ASSUME NEW p \in Proc, Call(p)
    PROVE  \/ \E c \in Proc, end \in ElfEnds :
                 /\ from_elf(c, end) /\ Running(p)
                 /\ c = p \/ c \notin alive
           \/ fork(p) \/ End(p)
           \/ \E size \in Sizes : sbrk_grow(p, size)
           \/ \E size \in Sizes : sbrk_shrink(p, size)
           \/ \E addr \in Address, len \in Lengths, prot \in Prots : mmap(p, addr, len, prot)
           \/ \E addr \in Address, len \in Lengths :
                 munmap_refused(p, addr, len) \/ munmap(p, addr, len)
           \/ UserStore(p)
           \/ \E v \in Page, n \in 1 .. MaxSpan, x \in Data : read(p, v, n, x)
           \/ Refused(p) \/ Panics(p)
<1>1. exec(p) => \E end \in ElfEnds : from_elf(p, end) /\ Running(p)
  BY DEF exec
<1>2. spawn(p) => \E c \in Proc, end \in ElfEnds :
                     from_elf(c, end) /\ Running(p) /\ c \notin alive
  BY DEF spawn
<1>3. QED
  BY <1>1, <1>2 DEF Call, Refused, Panics

LEMMA TypeStep ==
    ASSUME TypeOK, [Next]_vars
    PROVE  TypeOK'
<1>1. CASE UNCHANGED vars
  BY <1>1, UnchangedTyped
<1>2. ASSUME NEW p \in Proc, Call(p)
      PROVE  TypeOK'
  <2>1. CASE \E c \in Proc, end \in ElfEnds : from_elf(c, end)
    BY <2>1, ProgramTyped
  <2>2. CASE fork(p)
    BY <2>2, ForkTyped
  <2>3. CASE End(p)
    BY <2>3, EndTyped
  <2>4. CASE \E size \in Sizes : sbrk_grow(p, size)
    BY <2>4, GrowTyped
  <2>5. CASE \E size \in Sizes : sbrk_shrink(p, size)
    BY <2>5, ShrinkTyped
  <2>6. CASE \E addr \in Address, len \in Lengths, prot \in Prots : mmap(p, addr, len, prot)
    BY <2>6, MmapTyped
  <2>7. CASE \E addr \in Address, len \in Lengths :
                munmap_refused(p, addr, len) \/ munmap(p, addr, len)
    BY <2>7, MunmapTyped
  <2>8. CASE \/ UserStore(p)
             \/ \E v \in Page, n \in 1 .. MaxSpan, x \in Data : read(p, v, n, x)
    BY <2>8, AccessTyped
  <2>9. CASE Refused(p)
    BY <2>9, RefusedFacts, UnchangedTyped
  <2>10. CASE Panics(p)
    <3>1. PICK why \in {"no_memory", "overlap", "overflow"},
               call \in {"exec", "spawn", "fork", "sbrk", "mmap", "munmap"} : Halt(why, call)
      BY <2>10, PanicFacts
    <3>2. QED
      BY <3>1, HaltTyped
  <2>11. QED
    BY <1>2, <2>1, <2>2, <2>3, <2>4, <2>5, <2>6, <2>7, <2>8, <2>9, <2>10, CallCases
<1>3. QED
  BY <1>1, <1>2 DEF Next, ShutDown, AllEnded

(* The tables stay tables: break and bottom of every heap inside the       *)
(* window, every page in a frame of the heap, in any order of the calls.   *)
THEOREM MemoryTypeCorrect == Spec => []TypeOK
<1>1. Init => TypeOK
  BY InitTyped
<1>2. TypeOK /\ [Next]_vars => TypeOK'
  BY TypeStep
<1>3. QED
  BY <1>1, <1>2, PTL DEF Spec

-----------------------------------------------------------------------------
(*                      No frame is mapped twice                           *)

(* What every step does to the pages: at most one process gets a new row,  *)
(* each of its pages is one it had, or has a frame not allocated before,   *)
(* and no two of the new pages have the same frame.                        *)
NewRow(c, row) ==
    /\ pages' = [pages EXCEPT ![c] = row]
    /\ alive' \subseteq alive \cup {c}
    /\ next_frame <= next_frame'
    /\ \A v \in Page : row[v] # NoPage =>
          \/ /\ c \in alive /\ pages[c][v] # NoPage
             /\ row[v].frame = pages[c][v].frame
          \/ next_frame <= row[v].frame /\ row[v].frame < next_frame'
    /\ \A u, v \in Page :
          /\ row[u] # NoPage /\ next_frame <= row[u].frame
          /\ row[v] # NoPage /\ next_frame <= row[v].frame
          /\ row[u].frame = row[v].frame
          => u = v

LEMMA NewRowPrivate ==
    ASSUME TypeOK, TypeOK', FramesPrivate, NEW c \in Proc, NEW row, NewRow(c, row)
    PROVE  FramesPrivate'
<1>1. /\ pages \in [Proc -> Row] /\ pages' \in [Proc -> Row]
      /\ next_frame \in Nat /\ next_frame' \in Nat /\ next_frame <= next_frame'
      /\ alive \subseteq Proc /\ alive' \subseteq Proc
  BY DEF TypeOK, Row, NewRow
<1>2. /\ pages'[c] = row
      /\ \A p \in Proc : p # c => pages'[p] = pages[p]
  BY <1>1 DEF NewRow
<1>3. ASSUME NEW p \in Proc, NEW v \in Page
      PROVE  /\ pages[p][v] # NoPage => pages[p][v].frame \in Nat
             /\ pages'[p][v] # NoPage => pages'[p][v].frame \in Nat
  <2>1. MappedPage = MappedPage' /\ \A x \in MappedPage : x.frame \in Nat
    BY DEF MappedPage, Frame
  <2>2. QED
    BY <1>1, <2>1 DEF Row
<1>4. ASSUME NEW p \in alive', NEW v \in Page, pages'[p][v] # NoPage
      PROVE  \/ /\ p \in alive /\ pages[p][v] # NoPage
                /\ pages'[p][v].frame = pages[p][v].frame
                /\ pages'[p][v].frame < next_frame
             \/ /\ p = c /\ next_frame <= pages'[p][v].frame
                /\ pages'[p][v].frame < next_frame'
  <2>1. \A q \in alive : \A w \in Page : pages[q][w] # NoPage => pages[q][w].frame < next_frame
    BY DEF FramesPrivate, Mapped
  <2>2. CASE p = c
    BY <1>1, <1>2, <1>4, <2>1, <2>2 DEF NewRow
  <2>3. CASE p # c
    <3>1. p \in alive /\ pages'[p] = pages[p]
      BY <1>1, <1>2, <2>3 DEF NewRow
    <3>2. QED
      BY <1>4, <2>1, <3>1
  <2>4. QED
    BY <2>2, <2>3
<1>5. ASSUME NEW p \in alive', NEW q \in alive', NEW u \in Page, NEW v \in Page,
             pages'[p][u] # NoPage, pages'[q][v] # NoPage,
             pages'[p][u].frame = pages'[q][v].frame
      PROVE  p = q /\ u = v
  <2>1. /\ pages'[p][u].frame \in Nat /\ pages'[q][v].frame \in Nat
        /\ p \in Proc /\ q \in Proc
    BY <1>1, <1>3, <1>5
  <2>2. CASE pages'[p][u].frame < next_frame
    <3>1. /\ p \in alive /\ pages[p][u] # NoPage /\ pages'[p][u].frame = pages[p][u].frame
          /\ q \in alive /\ pages[q][v] # NoPage /\ pages'[q][v].frame = pages[q][v].frame
      BY <1>1, <1>4, <1>5, <2>1, <2>2
    <3>2. pages[p][u].frame = pages[q][v].frame /\ u \in Mapped(p) /\ v \in Mapped(q)
      BY <1>5, <3>1 DEF Mapped
    <3>3. QED
      BY <3>1, <3>2 DEF FramesPrivate
  <2>3. CASE ~(pages'[p][u].frame < next_frame)
    <3>1. p = c /\ q = c
      BY <1>1, <1>4, <1>5, <2>1, <2>3
    <3>2. next_frame <= pages'[p][u].frame
      BY <1>1, <2>1, <2>3
    <3>3. QED
      BY <1>2, <1>5, <3>1, <3>2 DEF NewRow
  <2>4. QED
    BY <2>2, <2>3
<1>6. ASSUME NEW p \in alive', NEW v \in Page, pages'[p][v] # NoPage
      PROVE  pages'[p][v].frame < next_frame'
  <2>1. pages'[p][v].frame \in Nat
    BY <1>1, <1>3, <1>6
  <2>2. QED
    BY <1>1, <1>4, <1>6, <2>1
<1>7. \A p, q \in alive' : \A u, v \in Page :
         pages'[p][u] # NoPage /\ pages'[q][v] # NoPage =>
            /\ pages'[p][u].frame = pages'[q][v].frame => p = q /\ u = v
            /\ pages'[p][u].frame < next_frame'
  BY <1>5, <1>6
<1>8. QED
  BY <1>7 DEF FramesPrivate, Mapped

(* A step that gives no page to anyone.                                    *)
LEMMA NoNewPage ==
    ASSUME FramesPrivate, UNCHANGED <<pages, next_frame>>, alive' \subseteq alive
    PROVE  FramesPrivate'
BY DEF FramesPrivate, Mapped

LEMMA ProgramPrivate ==
    ASSUME TypeOK, TypeOK', FramesPrivate, NEW c \in Proc, NEW end \in ElfEnds,
           from_elf(c, end)
    PROVE  FramesPrivate'
<1> DEFINE row == ProgramPages(end, next_frame)
           n == Ceil(end)
<1>1. n \in Nat /\ n <= PageCount - 1 /\ next_frame \in Nat
  BY ElfFacts DEF TypeOK
<1>2. /\ pages' = [pages EXCEPT ![c] = row] /\ alive' \subseteq alive \cup {c}
      /\ next_frame' = next_frame + (n + 1)
  BY DEF from_elf, FramesAfter
<1> HIDE DEF n
<1>3. ASSUME NEW v \in Page, row[v] # NoPage
      PROVE  \/ v < n /\ row[v].frame = next_frame + v
             \/ v = StackPage /\ ~(v < n) /\ row[v].frame = next_frame + n
  BY <1>3 DEF ProgramPages, n
<1>4. \A v \in Page : v \in Nat
  BY DEF Page
<1>5. \A v \in Page : row[v] # NoPage =>
         next_frame <= row[v].frame /\ row[v].frame < next_frame'
  BY <1>1, <1>2, <1>3, <1>4
<1>6. \A u, v \in Page :
         row[u] # NoPage /\ row[v] # NoPage /\ row[u].frame = row[v].frame => u = v
  BY <1>1, <1>3, <1>4
<1>7. next_frame <= next_frame'
  BY <1>1, <1>2
<1> HIDE DEF row
<1>8. NewRow(c, row)
  BY <1>2, <1>5, <1>6, <1>7 DEF NewRow
<1>9. QED
  BY <1>8, NewRowPrivate

LEMMA ForkPrivate ==
    ASSUME TypeOK, TypeOK', FramesPrivate, NEW p \in Proc, fork(p)
    PROVE  FramesPrivate'
<1> DEFINE row == ClonedPages(p)
           n == Cardinality(Mapped(p))
<1>1. n \in Nat /\ next_frame \in Nat
  BY MappedFinite DEF TypeOK
<1>2. PICK c \in Proc : /\ pages' = [pages EXCEPT ![c] = row]
                        /\ alive' \subseteq alive \cup {c}
                        /\ next_frame' = next_frame + n
  BY DEF fork, FramesAfter
<1>3. ASSUME NEW v \in Page, row[v] # NoPage
      PROVE  v \in Mapped(p) /\ row[v].frame = next_frame + Rank(p, v)
  BY <1>3, ClonedPagesFacts DEF fork
<1>4. \A v \in Mapped(p) : Rank(p, v) \in Nat /\ Rank(p, v) < n
  BY RankFacts
<1>5. \A u, v \in Mapped(p) : Rank(p, u) = Rank(p, v) => u = v
  BY RankDistinct
<1> HIDE DEF row, n, Rank
<1>6. \A v \in Page : row[v] # NoPage =>
         next_frame <= row[v].frame /\ row[v].frame < next_frame'
  BY <1>1, <1>2, <1>3, <1>4
<1>7. \A u, v \in Page :
         row[u] # NoPage /\ row[v] # NoPage /\ row[u].frame = row[v].frame => u = v
  BY <1>1, <1>3, <1>4, <1>5
<1>8. next_frame <= next_frame'
  BY <1>1, <1>2
<1>9. NewRow(c, row)
  BY <1>2, <1>6, <1>7, <1>8 DEF NewRow
<1>10. QED
  BY <1>9, NewRowPrivate

(* sbrk and mmap.                                                          *)
LEMMA MapPrivate ==
    ASSUME TypeOK, TypeOK', FramesPrivate, NEW p \in alive, alive' = alive,
           NEW lo \in Int, NEW hi \in Int, lo <= hi, NEW flags, NEW area,
           map(p, lo, hi, flags, area)
    PROVE  FramesPrivate'
<1> DEFINE row == [v \in Page |-> IF v \in lo .. hi - 1 THEN NewPage(v, lo, flags, area)
                                  ELSE pages[p][v]]
<1>1. /\ pages' = [pages EXCEPT ![p] = row] /\ next_frame' = next_frame + (hi - lo)
      /\ next_frame \in Nat /\ p \in Proc
  BY DEF map, FramesAfter, TypeOK
<1>2. ASSUME NEW v \in Page
      PROVE  /\ v \in lo .. hi - 1 => row[v].frame = next_frame + (v - lo)
             /\ v \notin lo .. hi - 1 => row[v] = pages[p][v]
  BY DEF NewPage
<1>3. \A v \in Page : v \in Int
  BY DEF Page
<1>4. \A v \in Page : pages[p][v] # NoPage =>
         pages[p][v].frame \in Nat /\ pages[p][v].frame < next_frame
  <2>1. pages[p] \in Row
    BY <1>1 DEF TypeOK, Row
  <2>2. \A x \in MappedPage : x.frame \in Nat
    BY DEF MappedPage, Frame
  <2>3. QED
    BY <2>1, <2>2 DEF FramesPrivate, Mapped, Row
<1> HIDE DEF row
<1>5. \A v \in Page : row[v] # NoPage =>
         \/ pages[p][v] # NoPage /\ row[v].frame = pages[p][v].frame
         \/ next_frame <= row[v].frame /\ row[v].frame < next_frame'
  BY <1>1, <1>2, <1>3
<1>6. \A u, v \in Page :
         /\ row[u] # NoPage /\ next_frame <= row[u].frame
         /\ row[v] # NoPage /\ next_frame <= row[v].frame
         /\ row[u].frame = row[v].frame
         => u = v
  BY <1>1, <1>2, <1>3, <1>4
<1>7. next_frame <= next_frame'
  BY <1>1
<1>8. NewRow(p, row)
  BY <1>1, <1>5, <1>6, <1>7 DEF NewRow
<1>9. QED
  BY <1>1, <1>8, NewRowPrivate

LEMMA UnmapPrivate ==
    ASSUME TypeOK, TypeOK', FramesPrivate, NEW p \in alive, alive' = alive, NEW S,
           unmap(p, S), next_frame' = next_frame
    PROVE  FramesPrivate'
<1> DEFINE row == [v \in Page |-> IF v \in S THEN NoPage ELSE pages[p][v]]
<1>1. pages' = [pages EXCEPT ![p] = row] /\ p \in Proc /\ next_frame \in Nat
  BY DEF unmap, TypeOK
<1>2. \A v \in Page : row[v] # NoPage =>
         pages[p][v] # NoPage /\ row[v].frame = pages[p][v].frame
  OBVIOUS
<1>3. \A v \in Page : pages[p][v] # NoPage =>
         pages[p][v].frame \in Nat /\ pages[p][v].frame < next_frame
  <2>1. pages[p] \in Row
    BY <1>1 DEF TypeOK, Row
  <2>2. \A x \in MappedPage : x.frame \in Nat
    BY DEF MappedPage, Frame
  <2>3. QED
    BY <2>1, <2>2 DEF FramesPrivate, Mapped, Row
<1> HIDE DEF row
<1>4. \A v \in Page : row[v] # NoPage => ~(next_frame <= row[v].frame)
  BY <1>1, <1>2, <1>3
<1>5. NewRow(p, row)
  BY <1>1, <1>2, <1>4 DEF NewRow
<1>6. QED
  BY <1>1, <1>5, NewRowPrivate

LEMMA InitPrivate == Init => FramesPrivate
<1> SUFFICES ASSUME Init PROVE FramesPrivate
  OBVIOUS
<1> DEFINE end == Min(ElfEnds)
           n == Ceil(end)
           row == ProgramPages(end, 0)
<1>1. n \in Nat
  BY BootFacts, ElfFacts
<1>2. alive = {0} /\ pages[0] = row /\ next_frame = n + 1
  BY MemoryAssumption DEF Init, Proc
<1> HIDE DEF n
<1>3. ASSUME NEW v \in Page, row[v] # NoPage
      PROVE  \/ v < n /\ row[v].frame = v
             \/ v = StackPage /\ ~(v < n) /\ row[v].frame = n
  <2>1. v \in Nat
    BY DEF Page
  <2>2. \/ v < n /\ row[v].frame = 0 + v
        \/ v = StackPage /\ ~(v < n) /\ row[v].frame = 0 + n
    BY <1>3 DEF ProgramPages, n
  <2>3. QED
    BY <1>1, <2>1, <2>2
<1>4. \A v \in Page : v \in Nat
  BY DEF Page
<1> HIDE DEF row
<1>5. \A u, v \in Page : row[u] # NoPage /\ row[v] # NoPage =>
         /\ row[u].frame = row[v].frame => u = v
         /\ row[u].frame < n + 1
  BY <1>1, <1>3, <1>4
<1>6. QED
  BY <1>2, <1>5 DEF FramesPrivate, Mapped

LEMMA PrivateStep ==
    ASSUME TypeOK, TypeOK', FramesPrivate, [Next]_vars
    PROVE  FramesPrivate'
<1>1. CASE UNCHANGED vars
  BY <1>1, NoNewPage DEF vars
<1>2. ASSUME NEW p \in Proc, Call(p)
      PROVE  FramesPrivate'
  <2>1. CASE \E c \in Proc, end \in ElfEnds : from_elf(c, end)
    BY <2>1, ProgramPrivate
  <2>2. CASE fork(p)
    BY <2>2, ForkPrivate
  <2>3. CASE End(p)
    <3>1. /\ \A q \in alive' : q \in alive /\ pages'[q] = pages[q]
          /\ next_frame' = next_frame
      BY <2>3 DEF End, TypeOK
    <3>2. QED
      BY <3>1 DEF FramesPrivate, Mapped
  <2>4. CASE \E size \in Sizes : sbrk_grow(p, size)
    <3>1. PICK size \in Sizes : sbrk_grow(p, size)
      BY <2>4
    <3>2. p \in alive /\ alive' = alive
      BY <3>1 DEF sbrk_grow, NewBreak, Running
    <3> DEFINE lo == Ceil(program_brk[p])
               hi == Ceil(program_brk[p] + size)
    <3>3. /\ lo \in Nat /\ hi \in Nat /\ lo <= hi
          /\ UNCHANGED <<pages, next_frame>> \/ map(p, lo, hi, {"R", "W"}, "heap")
      BY <3>1, GrowFacts
    <3> HIDE DEF lo, hi
    <3>4. QED
      BY <3>2, <3>3, NoNewPage, MapPrivate
  <2>5. CASE \E size \in Sizes : sbrk_shrink(p, size)
    <3>1. PICK size \in Sizes : sbrk_shrink(p, size)
      BY <2>5
    <3>2. p \in alive /\ alive' = alive /\ next_frame' = next_frame /\ \E S : unmap(p, S)
      BY <3>1 DEF sbrk_shrink, NewBreak, Running
    <3>3. QED
      BY <3>2, UnmapPrivate
  <2>6. CASE \E addr \in Address, len \in Lengths, prot \in Prots : mmap(p, addr, len, prot)
    <3>1. PICK addr \in Address, len \in Lengths, prot \in Prots : mmap(p, addr, len, prot)
      BY <2>6
    <3>2. p \in alive /\ alive' = alive
      BY <3>1 DEF mmap, Running
    <3> DEFINE lo == Floor(addr)
               hi == Floor(addr) + Ceil(len)
    <3>3. /\ lo \in Nat /\ hi \in Nat /\ lo <= hi
          /\ UNCHANGED <<pages, next_frame>> \/ map(p, lo, hi, prot, "mmap")
      BY <3>1, MmapFacts
    <3> HIDE DEF lo, hi
    <3>4. QED
      BY <3>2, <3>3, NoNewPage, MapPrivate
  <2>7. CASE \E addr \in Address, len \in Lengths :
                munmap_refused(p, addr, len) \/ munmap(p, addr, len)
    <3>1. p \in alive /\ alive' = alive /\ next_frame' = next_frame /\ \E S : unmap(p, S)
      BY <2>7 DEF munmap, munmap_refused, Running
    <3>2. QED
      BY <3>1, UnmapPrivate
  <2>8. CASE \/ UserStore(p)
             \/ \E v \in Page, n \in 1 .. MaxSpan, x \in Data : read(p, v, n, x)
    BY <2>8, NoNewPage DEF UserStore, Stored, read
  <2>9. CASE Refused(p)
    BY <2>9, RefusedFacts, NoNewPage DEF vars
  <2>10. CASE Panics(p)
    BY <2>10, PanicFacts, NoNewPage DEF Halt
  <2>11. QED
    BY <1>2, <2>1, <2>2, <2>3, <2>4, <2>5, <2>6, <2>7, <2>8, <2>9, <2>10, CallCases
<1>3. QED
  BY <1>1, <1>2 DEF Next, ShutDown, AllEnded

(* Two mapped pages, of one process or of two, are never in one frame, and *)
(* no mapped page is in a frame that may be allocated again.               *)
THEOREM FramesPrivateCorrect == Spec => []FramesPrivate
<1>1. Init => TypeOK /\ FramesPrivate
  BY InitTyped, InitPrivate
<1>2. TypeOK /\ FramesPrivate /\ [Next]_vars => (TypeOK /\ FramesPrivate)'
  BY TypeStep, PrivateStep
<1>3. QED
  BY <1>1, <1>2, PTL DEF Spec

(* munmap takes the whole range or no page of it.                          *)
THEOREM MunmapCorrect == Spec => MunmapAllOrNothing
<1>1. ASSUME TypeOK, [Next]_vars
      PROVE  [\A p \in Proc :
                (\E addr \in Address, len \in Lengths : munmap_refused(p, addr, len)) =>
                   UNCHANGED pages]_vars
  <2>1. ASSUME NEW p \in Proc, NEW addr \in Address, NEW len \in Lengths,
               munmap_refused(p, addr, len)
        PROVE  UNCHANGED pages
    <3>1. pages' = [pages EXCEPT ![p] = [v \in Page |-> pages[p][v]]]
      BY <2>1 DEF munmap_refused, unmap, UnmappedOnRefusal
    <3>2. pages \in [Proc -> [Page -> {NoPage} \cup MappedPage]]
      BY <1>1 DEF TypeOK
    <3>3. pages[p] = [v \in Page |-> pages[p][v]]
      BY <3>2
    <3>4. QED
      BY <3>1, <3>2, <3>3
  <2>2. QED
    BY <2>1
<1>2. QED
  BY <1>1, MemoryTypeCorrect, PTL DEF Spec, MunmapAllOrNothing

(* mmap looks at every page it maps: it never runs into one that is there. *)
THEOREM MmapCorrect == Spec => []MmapNeverOverlaps
<1>1. Init => MmapNeverOverlaps
  BY DEF Init, MmapNeverOverlaps, NotHalted
<1>2. ASSUME MmapNeverOverlaps, [Next]_vars
      PROVE  MmapNeverOverlaps'
  <2>1. CASE halted' = halted
    BY <1>2, <2>1 DEF MmapNeverOverlaps
  <2>2. ASSUME NEW p, Panics(p)
        PROVE  MmapNeverOverlaps'
    BY <2>2, PanicFacts DEF Halt, MmapNeverOverlaps
  <2>3. ASSUME NEW p \in Proc, Call(p)
        PROVE  halted' = halted \/ Panics(p)
    BY <2>3, CallCases, RefusedFacts
       DEF from_elf, fork, End, sbrk_grow, sbrk_shrink, NewBreak, mmap, munmap,
           munmap_refused, UserStore, Stored, read, vars
  <2>4. QED
    BY <1>2, <2>1, <2>2, <2>3 DEF Next, ShutDown, AllEnded, vars
<1>3. QED
  BY <1>1, <1>2, PTL DEF Spec
-----------------------------------------------------------------------------
(*                        The heap and the break                           *)

(* HeapExact for one process, from its row, bottom, break and holes.       *)
HeapGood(row, bottom, brk, hole) ==
    /\ bottom <= brk
    /\ \A v \in Page : row[v] # NoPage /\ row[v].area = "heap" =>
                       v \in bottom \div PAGE_SIZE .. Ceil(brk) - 1
    /\ \A v \in bottom \div PAGE_SIZE .. Ceil(brk) - 1 :
          (v \in Page /\ row[v] # NoPage) \/ v \in hole

HeapGoodOf(p) == HeapGood(pages[p], heap_bottom[p], program_brk[p], holes[p])

LEMMA HeapExactByProcess ==
    /\ HeapExact <=> \A p \in alive : HeapGoodOf(p)
    /\ HeapExact' <=> \A p \in alive' : HeapGoodOf(p)'
BY DEF HeapExact, HeapGoodOf, HeapGood, HeapPages, Mapped

(* The bottom of a heap is not above the ceiling of its break.             *)
LEMMA BottomFacts ==
    ASSUME NEW bottom \in Nat, NEW brk \in Nat, bottom <= brk
    PROVE  bottom \div PAGE_SIZE \in Nat /\ bottom \div PAGE_SIZE <= Ceil(brk)
<1>1. brk + PAGE_SIZE - 1 \in Nat /\ bottom <= brk + PAGE_SIZE - 1
  BY PageSize
<1>2. bottom \div PAGE_SIZE <= (brk + PAGE_SIZE - 1) \div PAGE_SIZE
  BY <1>1, PageSize, DivMonotone
<1>3. QED
  BY <1>2, PageSize, DivFacts DEF Ceil

(* A program starts with an empty heap.                                    *)
LEMMA ProgramHeap ==
    ASSUME NEW end \in ElfEnds, NEW first
    PROVE  HeapGood(ProgramPages(end, first), Ceil(end) * PAGE_SIZE, Ceil(end) * PAGE_SIZE, {})
<1> DEFINE n == Ceil(end)
           top == n * PAGE_SIZE
           row == ProgramPages(end, first)
<1>1. n \in Nat
  BY ElfFacts
<1>2. top \in Nat /\ Ceil(top) = n /\ top \div PAGE_SIZE = n
  BY <1>1, BoundaryFacts
<1>3. \A v \in Page : row[v] # NoPage => row[v].area # "heap"
  BY DEF ProgramPages
<1> HIDE DEF n, top, row
<1>4. n .. n - 1 = {}
  BY <1>1
<1>5. HeapGood(row, top, top, {})
  BY <1>2, <1>3, <1>4 DEF HeapGood
<1>6. QED
  BY <1>5 DEF row, top, n

(* sbrk that grows: the pages added are the heap pages between the old     *)
(* break and the new one, and no hole is left among them.                  *)
LEMMA GrowHeap ==
    ASSUME TypeOK, NEW p \in Proc, HeapGoodOf(p), NEW size \in Sizes, sbrk_grow(p, size)
    PROVE  HeapGoodOf(p)'
<1> DEFINE brk == program_brk[p]
           new == program_brk[p] + size
           lo == Ceil(program_brk[p])
           hi == Ceil(program_brk[p] + size)
           bot == heap_bottom[p] \div PAGE_SIZE
           row == pages[p]
           row2 == pages'[p]
           hole == holes[p]
           hole2 == holes'[p]
<1>1. /\ size \in Int /\ size > 0 /\ NewBreak(p, size)
      /\ lo \in Nat /\ hi \in Nat /\ lo <= hi
      /\ next_frame + (hi - lo) <= FrameCount
      /\ \/ lo = hi /\ UNCHANGED <<pages, mem, next_frame>>
         \/ map(p, lo, hi, {"R", "W"}, "heap")
  BY GrowFacts
<1>2. brk \in Nat /\ new \in Nat /\ hi <= PageCount /\ heap_bottom[p] \in Nat
  BY <1>1, BreakFacts
<1>3. program_brk'[p] = new /\ heap_bottom'[p] = heap_bottom[p]
  BY <1>1, BreakFacts DEF TypeOK, NewBreak
<1>4. heap_bottom[p] <= brk /\ heap_bottom[p] <= new
  BY <1>1, BreakFacts DEF HeapGoodOf, HeapGood
<1>5. bot \in Nat /\ bot <= lo
  BY <1>2, <1>4, BottomFacts
<1>6. hole2 = hole \ (lo .. hi - 1)
  BY DEF sbrk_grow, Grown, TypeOK
<1>7. /\ \A v \in Page : v \notin lo .. hi - 1 => row2[v] = row[v]
      /\ \A v \in Page : v \in lo .. hi - 1 => row2[v] # NoPage
  <2>1. CASE lo = hi /\ UNCHANGED <<pages, mem, next_frame>>
    <3>1. lo .. hi - 1 = {}
      <4> HIDE DEF lo, hi
      <4>1. QED
        BY <1>1, <2>1
    <3>2. QED
      BY <2>1, <3>1
  <2>2. CASE map(p, lo, hi, {"R", "W"}, "heap")
    <3> HIDE DEF lo, hi
    <3>1. \A v \in Page :
             row2[v] = IF v \in lo .. hi - 1 THEN NewPage(v, lo, {"R", "W"}, "heap") ELSE row[v]
      BY <2>2 DEF map, TypeOK
    <3>2. ASSUME NEW v \in Page, v \in lo .. hi - 1
          PROVE  NewPage(v, lo, {"R", "W"}, "heap") \in MappedPage
      <4>1. v \in Int /\ next_frame \in Nat
        BY DEF Page, TypeOK
      <4>2. lo \in Int /\ hi \in Int /\ next_frame + (hi - lo) <= FrameCount
        BY <1>1
      <4>3. {"R", "W"} \in SUBSET {"R", "W", "X"}
        OBVIOUS
      <4>4. QED
        BY <3>2, <4>1, <4>2, <4>3, NewPageTyped
    <3>3. QED
      BY <3>1, <3>2, NoPageIsNoMappedPage
  <2>3. QED
    BY <1>1, <2>1, <2>2
<1>8. /\ \A v \in Page : row[v] # NoPage /\ row[v].area = "heap" => v \in bot .. lo - 1
      /\ \A v \in bot .. lo - 1 : (v \in Page /\ row[v] # NoPage) \/ v \in hole
  BY DEF HeapGoodOf, HeapGood
<1>9. Page = 0 .. PageCount - 1 /\ PageCount \in Nat
  BY PageSize DEF Page
<1> HIDE DEF lo, hi, bot, row, row2, hole, hole2
<1>10. \A v \in Page : row2[v] # NoPage /\ row2[v].area = "heap" => v \in bot .. hi - 1
  BY <1>1, <1>5, <1>7, <1>8, <1>9
<1>11. \A v \in bot .. hi - 1 : (v \in Page /\ row2[v] # NoPage) \/ v \in hole2
  <2>1. SUFFICES ASSUME NEW v \in bot .. hi - 1
                 PROVE  (v \in Page /\ row2[v] # NoPage) \/ v \in hole2
    OBVIOUS
  <2>2. v \in Page
    BY <1>1, <1>2, <1>5, <1>9
  <2>3. CASE v \in lo .. hi - 1
    BY <1>7, <2>2, <2>3
  <2>4. CASE v \notin lo .. hi - 1
    <3>1. v \in bot .. lo - 1
      BY <1>1, <1>5, <2>4
    <3>2. QED
      BY <1>6, <1>7, <1>8, <2>2, <2>4, <3>1
  <2>5. QED
    BY <2>3, <2>4
<1>12. HeapGood(row2, heap_bottom[p], new, hole2)
  BY <1>4, <1>10, <1>11 DEF HeapGood, bot, hi
<1>13. QED
  BY <1>3, <1>12 DEF HeapGoodOf, HeapGood, row2, hole2

LEMMA ShrinkHeap ==
    ASSUME TypeOK, NEW p \in Proc, HeapGoodOf(p), NEW size \in Sizes, sbrk_shrink(p, size)
    PROVE  HeapGoodOf(p)'
<1> DEFINE new == program_brk[p] + size
           lo == Ceil(program_brk[p] + size)
           hi == Ceil(program_brk[p])
           bot == heap_bottom[p] \div PAGE_SIZE
           row == pages[p]
           row2 == pages'[p]
           hole == holes[p]
<1>1. size \in Int /\ size <= 0 /\ NewBreak(p, size)
  BY MemoryAssumption DEF sbrk_shrink
<1>2. lo \in Nat /\ hi \in Nat /\ lo <= hi /\ heap_bottom[p] <= new
      /\ new \in Nat /\ heap_bottom[p] \in Nat
  BY <1>1, BreakFacts
<1>3. /\ program_brk'[p] = new /\ heap_bottom'[p] = heap_bottom[p] /\ holes'[p] = holes[p]
  BY <1>1, BreakFacts DEF TypeOK, NewBreak, sbrk_shrink
<1>4. bot \in Nat /\ bot <= lo
  BY <1>2, BottomFacts
<1>5. \A v \in Page : row2[v] = IF v \in lo .. hi - 1 THEN NoPage ELSE row[v]
  BY DEF sbrk_shrink, unmap, Shrunk, TypeOK
<1>6. /\ \A v \in Page : row[v] # NoPage /\ row[v].area = "heap" => v \in bot .. hi - 1
      /\ \A v \in bot .. hi - 1 : (v \in Page /\ row[v] # NoPage) \/ v \in hole
  BY DEF HeapGoodOf, HeapGood
<1>7. \A v \in Page : v \in Int
  BY DEF Page
<1> HIDE DEF lo, hi, bot, row, row2, hole, new
<1>8. \A v \in Page : row2[v] # NoPage /\ row2[v].area = "heap" => v \in bot .. lo - 1
  BY <1>2, <1>4, <1>5, <1>6, <1>7
<1>9. \A v \in bot .. lo - 1 : (v \in Page /\ row2[v] # NoPage) \/ v \in hole
  BY <1>2, <1>4, <1>5, <1>6, <1>7
<1>10. HeapGood(row2, heap_bottom[p], new, hole)
  BY <1>2, <1>8, <1>9 DEF HeapGood, bot, lo, new
<1>11. QED
  BY <1>3, <1>10 DEF HeapGoodOf, HeapGood, row2, hole

(* The pages of an mmap are not the heap's, and none of them was mapped.   *)
LEMMA MmapHeap ==
    ASSUME TypeOK, NEW p \in Proc, HeapGoodOf(p), NEW addr \in Address, NEW len \in Lengths,
           NEW prot \in Prots, mmap(p, addr, len, prot)
    PROVE  HeapGoodOf(p)'
<1> DEFINE lo == Floor(addr)
           hi == Floor(addr) + Ceil(len)
           row == pages[p]
           row2 == pages'[p]
<1>1. /\ lo \in Nat /\ hi \in Nat /\ lo <= hi
      /\ \A v \in lo .. hi - 1 : v \notin Mapped(p)
      /\ \/ UNCHANGED <<pages, mem, next_frame>>
         \/ map(p, lo, hi, prot, "mmap")
  BY MmapFacts
<1>2. UNCHANGED <<heap_bottom, program_brk, holes>>
  BY DEF mmap
<1>3. CASE UNCHANGED <<pages, mem, next_frame>>
  BY <1>2, <1>3 DEF HeapGoodOf, HeapGood
<1>4. CASE map(p, lo, hi, prot, "mmap")
  <2> HIDE DEF lo, hi
  <2>1. \A v \in Page :
           row2[v] = IF v \in lo .. hi - 1 THEN NewPage(v, lo, prot, "mmap") ELSE row[v]
    BY <1>4 DEF map, TypeOK
  <2>2. \A v \in Page : row[v] # NoPage => row2[v] = row[v]
    BY <1>1, <2>1 DEF Mapped
  <2>3. \A v \in Page : row2[v] # NoPage /\ row2[v].area = "heap" =>
           row[v] # NoPage /\ row[v].area = "heap"
    <3>1. \A v : NewPage(v, lo, prot, "mmap").area # "heap"
      BY DEF NewPage
    <3> HIDE DEF row, row2
    <3>2. QED
      BY <2>1, <3>1
  <2>4. HeapGood(row, heap_bottom[p], program_brk[p], holes[p])
    BY DEF HeapGoodOf
  <2> HIDE DEF row, row2
  <2>5. HeapGood(row2, heap_bottom[p], program_brk[p], holes[p])
    BY <2>2, <2>3, <2>4 DEF HeapGood
  <2>6. QED
    BY <1>2, <2>5 DEF HeapGoodOf, HeapGood, row2
<1>5. QED
  BY <1>1, <1>3, <1>4

LEMMA MunmapHeap ==
    ASSUME TypeOK, NEW p \in Proc, HeapGoodOf(p), NEW addr, NEW len, munmap(p, addr, len)
    PROVE  HeapGoodOf(p)'
<1> DEFINE S == PageRange(addr, len)
           heap == heap_bottom[p] \div PAGE_SIZE .. Ceil(program_brk[p]) - 1
           row == pages[p]
           row2 == pages'[p]
           hole == holes[p]
           hole2 == holes'[p]
<1>1. \A v \in Page : row2[v] = IF v \in S THEN NoPage ELSE row[v]
  BY DEF munmap, unmap, TypeOK
<1>2. hole2 = hole \cup (S \cap heap) /\ UNCHANGED <<heap_bottom, program_brk>>
  BY DEF munmap, HeapPages, TypeOK
<1>3. /\ heap_bottom[p] <= program_brk[p]
      /\ \A v \in Page : row[v] # NoPage /\ row[v].area = "heap" => v \in heap
      /\ \A v \in heap : (v \in Page /\ row[v] # NoPage) \/ v \in hole
  BY DEF HeapGoodOf, HeapGood
<1> HIDE DEF S, heap, row, row2, hole, hole2
<1>4. /\ \A v \in Page : row2[v] # NoPage /\ row2[v].area = "heap" => v \in heap
      /\ \A v \in heap : (v \in Page /\ row2[v] # NoPage) \/ v \in hole2
  BY <1>1, <1>2, <1>3
<1>5. HeapGood(row2, heap_bottom[p], program_brk[p], hole2)
  BY <1>3, <1>4 DEF HeapGood, heap
<1>6. QED
  BY <1>2, <1>5 DEF HeapGoodOf, HeapGood, row2, hole2

LEMMA InitHeap == Init => HeapExact
<1> SUFFICES ASSUME Init PROVE HeapExact
  OBVIOUS
<1> DEFINE end == Min(ElfEnds)
<1>1. end \in ElfEnds
  BY BootFacts
<1>2. /\ alive = {0} /\ pages[0] = ProgramPages(end, 0) /\ holes[0] = {}
      /\ heap_bottom[0] = Ceil(end) * PAGE_SIZE /\ program_brk[0] = Ceil(end) * PAGE_SIZE
  BY MemoryAssumption DEF Init, Proc
<1> HIDE DEF end
<1>3. HeapGood(ProgramPages(end, 0), Ceil(end) * PAGE_SIZE, Ceil(end) * PAGE_SIZE, {})
  BY <1>1, ProgramHeap
<1>4. HeapGoodOf(0)
  BY <1>2, <1>3 DEF HeapGoodOf
<1>5. QED
  BY <1>2, <1>4, HeapExactByProcess

(* A step that leaves the heap of every process as it was.                 *)
LEMMA SameHeaps ==
    ASSUME HeapExact, alive' = alive, UNCHANGED <<pages, heap_bottom, program_brk, holes>>
    PROVE  HeapExact'
BY HeapExactByProcess DEF HeapGoodOf, HeapGood

(* A step of c alone, after which the heap of c is good.                   *)
LEMMA OthersHeaps ==
    ASSUME HeapExact, NEW c, alive' \subseteq alive \cup {c}, c \in alive' => HeapGoodOf(c)',
           \A q \in alive : q # c =>
              /\ pages'[q] = pages[q] /\ heap_bottom'[q] = heap_bottom[q]
              /\ program_brk'[q] = program_brk[q] /\ holes'[q] = holes[q]
    PROVE  HeapExact'
<1>1. ASSUME NEW q \in alive'
      PROVE  HeapGoodOf(q)'
  <2>1. CASE q = c
    BY <2>1
  <2>2. CASE q # c
    <3>1. q \in alive
      BY <2>2
    <3>2. HeapGoodOf(q)
      BY <3>1, HeapExactByProcess
    <3>3. QED
      BY <2>2, <3>1, <3>2 DEF HeapGoodOf, HeapGood
  <2>3. QED
    BY <2>1, <2>2
<1>2. QED
  BY <1>1, HeapExactByProcess

(* A new program, of a process that was there or of a new one.             *)
LEMMA ProgramKeepsHeaps ==
    ASSUME TypeOK, HeapExact, NEW c \in Proc, NEW end \in ElfEnds, from_elf(c, end)
    PROVE  HeapExact'
<1> DEFINE top == Ceil(end) * PAGE_SIZE
<1>0. /\ pages \in [Proc -> [Page -> {NoPage} \cup MappedPage]]
      /\ heap_bottom \in [Proc -> 0 .. PageCount * PAGE_SIZE]
      /\ program_brk \in [Proc -> 0 .. PageCount * PAGE_SIZE]
      /\ holes \in [Proc -> SUBSET Page] /\ alive \subseteq Proc
  BY DEF TypeOK
<1>1. HeapGood(ProgramPages(end, next_frame), top, top, {})
  BY ProgramHeap
<1> HIDE DEF top
<1>2. /\ pages'[c] = ProgramPages(end, next_frame) /\ holes'[c] = {}
      /\ heap_bottom'[c] = top /\ program_brk'[c] = top
  BY <1>0 DEF from_elf, BreakAtBottom, top
<1>3. HeapGoodOf(c)'
  BY <1>1, <1>2 DEF HeapGoodOf, HeapGood
<1>4. /\ alive' = alive \cup {c}
      /\ \A q \in alive : q # c =>
            /\ pages'[q] = pages[q] /\ heap_bottom'[q] = heap_bottom[q]
            /\ program_brk'[q] = program_brk[q] /\ holes'[q] = holes[q]
  BY <1>0 DEF from_elf, BreakAtBottom
<1>5. QED
  BY <1>3, <1>4, OthersHeaps

LEMMA HeapStep ==
    ASSUME TypeOK, HeapExact, [Next]_vars
    PROVE  HeapExact'
<1> DEFINE OthersKept(c) ==
              \A q \in alive : q # c =>
                 /\ pages'[q] = pages[q] /\ heap_bottom'[q] = heap_bottom[q]
                 /\ program_brk'[q] = program_brk[q] /\ holes'[q] = holes[q]
<1>0. /\ alive \subseteq Proc
      /\ pages \in [Proc -> [Page -> {NoPage} \cup MappedPage]]
      /\ heap_bottom \in [Proc -> 0 .. PageCount * PAGE_SIZE]
      /\ program_brk \in [Proc -> 0 .. PageCount * PAGE_SIZE]
      /\ holes \in [Proc -> SUBSET Page]
  BY DEF TypeOK
<1>1. CASE UNCHANGED vars
  BY <1>1, SameHeaps DEF vars
<1>2. ASSUME NEW p \in Proc, Call(p)
      PROVE  HeapExact'
  <2>0. p \in alive => HeapGoodOf(p)
    BY HeapExactByProcess
  <2>1. CASE \E c \in Proc, end \in ElfEnds : from_elf(c, end)
    BY <2>1, ProgramKeepsHeaps
  <2>2. CASE fork(p)
    <3>1. PICK c \in Proc : /\ alive' = alive \cup {c}
                            /\ pages' = [pages EXCEPT ![c] = ClonedPages(p)]
                            /\ heap_bottom' = [heap_bottom EXCEPT ![c] = heap_bottom[p]]
                            /\ program_brk' = [program_brk EXCEPT ![c] = program_brk[p]]
                            /\ holes' = [holes EXCEPT ![c] = holes[p]]
      BY <2>2 DEF fork
    <3>2. p \in alive /\ ~Shortage(Cardinality(Mapped(p)))
      BY <2>2 DEF fork, Running
    <3> DEFINE row == pages[p]
               row2 == ClonedPages(p)
    <3>3. \A v \in Page : /\ row2[v] # NoPage <=> row[v] # NoPage
                          /\ row[v] # NoPage => row2[v].area = row[v].area
      BY <3>2, ClonedPagesFacts DEF Mapped
    <3>4. HeapGood(row, heap_bottom[p], program_brk[p], holes[p])
      BY <2>0, <3>2 DEF HeapGoodOf
    <3> HIDE DEF row, row2
    <3>5. HeapGood(row2, heap_bottom[p], program_brk[p], holes[p])
      BY <3>3, <3>4 DEF HeapGood
    <3>6. /\ pages'[c] = row2 /\ heap_bottom'[c] = heap_bottom[p]
          /\ program_brk'[c] = program_brk[p] /\ holes'[c] = holes[p]
      BY <1>0, <3>1 DEF row2
    <3>7. HeapGoodOf(c)'
      BY <3>5, <3>6 DEF HeapGoodOf, HeapGood
    <3>8. OthersKept(c)
      BY <1>0, <3>1
    <3>9. QED
      BY <3>1, <3>7, <3>8, OthersHeaps
  <2>3. CASE End(p)
    <3>1. alive' \subseteq alive \cup {p} /\ p \notin alive' /\ OthersKept(p)
      BY <1>0, <2>3 DEF End
    <3>2. QED
      BY <3>1, OthersHeaps
  <2>4. CASE \E size \in Sizes : sbrk_grow(p, size)
    <3>1. PICK size \in Sizes : sbrk_grow(p, size)
      BY <2>4
    <3>2. HeapGoodOf(p)'
      BY <2>0, <3>1, GrowHeap DEF sbrk_grow, NewBreak, Running
    <3>3. alive' = alive /\ OthersKept(p)
      BY <1>0, <3>1 DEF sbrk_grow, NewBreak, map
    <3>4. QED
      BY <3>2, <3>3, OthersHeaps
  <2>5. CASE \E size \in Sizes : sbrk_shrink(p, size)
    <3>1. PICK size \in Sizes : sbrk_shrink(p, size)
      BY <2>5
    <3>2. HeapGoodOf(p)'
      BY <2>0, <3>1, ShrinkHeap DEF sbrk_shrink, NewBreak, Running
    <3>3. alive' = alive /\ OthersKept(p)
      BY <1>0, <3>1 DEF sbrk_shrink, NewBreak, unmap
    <3>4. QED
      BY <3>2, <3>3, OthersHeaps
  <2>6. CASE \E addr \in Address, len \in Lengths, prot \in Prots : mmap(p, addr, len, prot)
    <3>1. PICK addr \in Address, len \in Lengths, prot \in Prots : mmap(p, addr, len, prot)
      BY <2>6
    <3>2. HeapGoodOf(p)'
      BY <2>0, <3>1, MmapHeap DEF mmap, Running
    <3>3. alive' = alive /\ OthersKept(p)
      BY <1>0, <3>1 DEF mmap, map
    <3>4. QED
      BY <3>2, <3>3, OthersHeaps
  <2>7. CASE \E addr \in Address, len \in Lengths :
                munmap_refused(p, addr, len) \/ munmap(p, addr, len)
    <3>1. PICK addr \in Address, len \in Lengths :
             munmap_refused(p, addr, len) \/ munmap(p, addr, len)
      BY <2>7
    <3>2. CASE munmap_refused(p, addr, len)
      <4>1. \A q \in alive : pages'[q] = pages[q]
        BY <1>0, <3>2 DEF munmap_refused, unmap, UnmappedOnRefusal
      <4>2. alive' = alive /\ UNCHANGED <<heap_bottom, program_brk, holes>>
        BY <3>2 DEF munmap_refused
      <4>3. QED
        BY <4>1, <4>2, HeapExactByProcess DEF HeapGoodOf, HeapGood
    <3>3. CASE munmap(p, addr, len)
      <4>1. HeapGoodOf(p)'
        BY <2>0, <3>3, MunmapHeap DEF munmap, Running
      <4>2. alive' = alive /\ OthersKept(p)
        BY <1>0, <3>3 DEF munmap, unmap
      <4>3. QED
        BY <4>1, <4>2, OthersHeaps
    <3>4. QED
      BY <3>1, <3>2, <3>3
  <2>8. CASE \/ UserStore(p)
             \/ \E v \in Page, n \in 1 .. MaxSpan, x \in Data : read(p, v, n, x)
    BY <2>8, SameHeaps DEF UserStore, Stored, read
  <2>9. CASE Refused(p)
    BY <2>9, RefusedFacts, SameHeaps DEF vars
  <2>10. CASE Panics(p)
    BY <2>10, PanicFacts, SameHeaps DEF Halt
  <2>11. QED
    BY <1>2, <2>1, <2>2, <2>3, <2>4, <2>5, <2>6, <2>7, <2>8, <2>9, <2>10, CallCases
<1>3. QED
  BY <1>1, <1>2 DEF Next, ShutDown, AllEnded

(* After any sequence of sbrk, mmap, munmap, fork and exec, the heap pages *)
(* of a process are those between its heap_bottom and its break, without   *)
(* those it unmapped itself.                                               *)
THEOREM HeapCorrect == Spec => []HeapExact
<1>1. Init => TypeOK /\ HeapExact
  BY InitTyped, InitHeap
<1>2. TypeOK /\ HeapExact /\ [Next]_vars => (TypeOK /\ HeapExact)'
  BY TypeStep, HeapStep
<1>3. QED
  BY <1>1, <1>2, PTL DEF Spec
-----------------------------------------------------------------------------
(*              Every process has a memory of its own                      *)

(* What a process sees in a page.                                          *)
Content(p, v) ==
    IF pages[p][v] = NoPage THEN NoPage ELSE mem[pages[p][v].frame]

(* Who is not there has no page.                                           *)
DeadEmpty == \A p \in Proc \ alive : pages[p] = Unmapped

MemoryInv == TypeOK /\ FramesPrivate /\ DeadEmpty

LEMMA ProgramLeavesDead ==
    ASSUME TypeOK, DeadEmpty, NEW c \in Proc, NEW end \in ElfEnds, from_elf(c, end)
    PROVE  DeadEmpty'
<1>1. pages \in [Proc -> [Page -> {NoPage} \cup MappedPage]]
  BY DEF TypeOK
<1>2. alive' = alive \cup {c} /\ \A q \in Proc \ {c} : pages'[q] = pages[q]
  BY <1>1 DEF from_elf
<1>3. QED
  BY <1>2 DEF DeadEmpty, Unmapped

LEMMA DeadStep ==
    ASSUME TypeOK, DeadEmpty, [Next]_vars
    PROVE  DeadEmpty'
<1>0. pages \in [Proc -> [Page -> {NoPage} \cup MappedPage]] /\ alive \subseteq Proc
  BY DEF TypeOK
<1>1. CASE UNCHANGED <<alive, pages>>
  BY <1>1 DEF DeadEmpty, Unmapped
<1>2. ASSUME NEW p \in Proc, Call(p)
      PROVE  DeadEmpty'
  <2>1. CASE \E c \in Proc, end \in ElfEnds : from_elf(c, end)
    BY <2>1, ProgramLeavesDead
  <2>2. CASE fork(p)
    <3>1. PICK c \in Proc : alive' = alive \cup {c} /\ \A q \in Proc \ {c} : pages'[q] = pages[q]
      BY <1>0, <2>2 DEF fork
    <3>2. QED
      BY <3>1 DEF DeadEmpty, Unmapped
  <2>3. CASE End(p)
    BY <1>0, <2>3 DEF End, DeadEmpty, Unmapped
  <2>4. CASE p \in alive /\ alive' = alive /\ \A q \in Proc \ {p} : pages'[q] = pages[q]
    BY <2>4 DEF DeadEmpty, Unmapped
  <2>5. ASSUME NEW size \in Sizes, sbrk_grow(p, size) \/ sbrk_shrink(p, size)
        PROVE  DeadEmpty'
    BY <1>0, <2>4, <2>5 DEF sbrk_grow, sbrk_shrink, NewBreak, Running, map, unmap
  <2>6. ASSUME NEW addr, NEW len, NEW prot,
               \/ mmap(p, addr, len, prot) \/ munmap(p, addr, len)
               \/ munmap_refused(p, addr, len)
        PROVE  DeadEmpty'
    BY <1>0, <2>4, <2>6 DEF mmap, munmap, munmap_refused, Running, map, unmap
  <2>7. CASE \/ UserStore(p)
             \/ \E v \in Page, n \in 1 .. MaxSpan, x \in Data : read(p, v, n, x)
    BY <1>1, <2>7 DEF UserStore, Stored, read
  <2>8. CASE Refused(p)
    BY <1>1, <2>8, RefusedFacts DEF vars
  <2>9. CASE Panics(p)
    BY <1>1, <2>9, PanicFacts DEF Halt
  <2>10. QED
    BY <1>2, <2>1, <2>2, <2>3, <2>5, <2>6, <2>7, <2>8, <2>9, CallCases
<1>3. QED
  BY <1>1, <1>2 DEF Next, ShutDown, AllEnded, vars

LEMMA MemoryInvariant == Spec => []MemoryInv
<1>1. Init => MemoryInv
  <2>1. Init => DeadEmpty
    BY DEF Init, DeadEmpty
  <2>2. QED
    BY <2>1, InitTyped, InitPrivate DEF MemoryInv
<1>2. MemoryInv /\ [Next]_vars => MemoryInv'
  BY TypeStep, PrivateStep, DeadStep DEF MemoryInv
<1>3. QED
  BY <1>1, <1>2, PTL DEF Spec

LEMMA ContentFacts ==
    ASSUME TypeOK, NEW p \in Proc, NEW v \in Page
    PROVE  /\ Content(p, v) = NoPage <=> pages[p][v] = NoPage
           /\ pages[p][v] # NoPage => pages[p][v].frame \in Frame
           /\ Content(p, v) \in Value \cup {NoPage}
<1>1. /\ pages[p][v] \in {NoPage} \cup MappedPage /\ mem \in [Frame -> Value]
  BY DEF TypeOK
<1>2. pages[p][v] # NoPage => pages[p][v].frame \in Frame
  BY <1>1 DEF MappedPage
<1>3. QED
  BY <1>1, <1>2, NoPageIsNoMappedPage DEF Content

(* What a process sees does not change while its row and the frames that   *)
(* were allocated before do not.                                           *)
LEMMA ContentKept ==
    ASSUME MemoryInv, NEW q \in Proc, pages'[q] = pages[q],
           \A f \in Frame : f < next_frame => mem'[f] = mem[f]
    PROVE  \A v \in Page : Content(q, v)' = Content(q, v)
<1>1. ASSUME NEW v \in Page, pages[q][v] # NoPage
      PROVE  mem'[pages[q][v].frame] = mem[pages[q][v].frame]
  <2>1. q \in alive
    BY <1>1 DEF MemoryInv, DeadEmpty, Unmapped
  <2>2. pages[q][v].frame < next_frame
    BY <1>1, <2>1 DEF MemoryInv, FramesPrivate, Mapped
  <2>3. pages[q][v].frame \in Frame
    BY <1>1, ContentFacts DEF MemoryInv
  <2>4. QED
    BY <2>2, <2>3
<1>2. QED
  BY <1>1 DEF Content

(* A step after which c sees image, and all others what they saw.          *)
LEMMA OneRowView ==
    ASSUME NEW c \in Proc, NEW image, image = [v \in Page |-> image[v]],
           \A q \in Proc \ {c} : \A v \in Page : Content(q, v)' = Content(q, v),
           \A v \in Page : Content(c, v)' = image[v]
    PROVE  viewBar' = [viewBar EXCEPT ![c] = image]
<1> DEFINE Seen(q) == [v \in Page |-> Content(q, v)]
           SeenNext(q) == [v \in Page |-> Content(q, v)']
<1>1. viewBar = [q \in Proc |-> Seen(q)] /\ viewBar' = [q \in Proc |-> SeenNext(q)]
  BY DEF viewBar, Content
<1>2. SeenNext(c) = image /\ \A q \in Proc \ {c} : SeenNext(q) = Seen(q)
  OBVIOUS
<1> HIDE DEF Seen, SeenNext
<1>3. QED
  BY <1>1, <1>2

LEMMA SameView ==
    ASSUME UNCHANGED <<alive, pages, mem>>
    PROVE  UNCHANGED <<alive, viewBar>>
BY DEF viewBar

LEMMA ViewFacts ==
    ASSUME NEW p \in Proc
    PROVE  /\ viewBar[p] = [v \in Page |-> Content(p, v)]
           /\ \A v \in Page : viewBar[p][v] = Content(p, v)
BY DEF viewBar, Content

(* The memory a program starts with.                                       *)
Image(end) ==
    [v \in Page |-> IF v < Ceil(end) THEN "program"
                    ELSE IF v = StackPage THEN "zero" ELSE NoPage]

LEMMA ProgramContent ==
    ASSUME NEW end \in ElfEnds, NEW first \in Nat, first + Ceil(end) + 1 <= FrameCount,
           NEW v \in Page, NEW contents,
           \A f \in Frame : /\ f \in first .. first + Ceil(end) - 1 => contents[f] = "program"
                            /\ f = first + Ceil(end) => contents[f] = "zero"
    PROVE  LET page == ProgramPages(end, first)[v]
           IN  (IF page = NoPage THEN NoPage ELSE contents[page.frame]) = Image(end)[v]
<1> DEFINE n == Ceil(end)
           page == ProgramPages(end, first)[v]
<1>1. n \in Nat /\ v \in Nat
  BY ElfFacts DEF Page
<1>2. page # NoPage => page \in MappedPage
  BY ProgramPagesTyped DEF Row
<1>3. NoPage \notin MappedPage
  BY NoPageIsNoMappedPage
<1>4. CASE v < n
  <2>1. page = [frame |-> first + v, flags |-> {"R", "X"}, area |-> "elf"]
    BY <1>4 DEF ProgramPages
  <2>2. first + v \in Frame /\ first + v \in first .. first + n - 1
    <3> HIDE DEF n
    <3>1. first + n + 1 <= FrameCount
      BY DEF n
    <3>2. QED
      BY <1>1, <1>4, <3>1, PageSize DEF Frame
  <2>3. page.frame = first + v /\ page \in MappedPage
    BY <2>1, <2>2 DEF MappedPage
  <2>4. page # NoPage
    BY <1>3, <2>3
  <2>5. QED
    BY <1>4, <2>2, <2>3, <2>4 DEF Image
<1>5. CASE ~(v < n) /\ v = StackPage
  <2>1. page = [frame |-> first + n, flags |-> {"R", "W"}, area |-> "stack"]
    BY <1>5 DEF ProgramPages
  <2>2. first + n \in Frame
    <3> HIDE DEF n
    <3>1. first + n + 1 <= FrameCount
      BY DEF n
    <3>2. QED
      BY <1>1, <3>1, PageSize DEF Frame
  <2>3. page.frame = first + n /\ page \in MappedPage
    BY <2>1, <2>2 DEF MappedPage
  <2>4. page # NoPage
    BY <1>3, <2>3
  <2>5. QED
    BY <1>5, <2>2, <2>3, <2>4 DEF Image
<1>6. CASE ~(v < n) /\ v # StackPage
  BY <1>6 DEF ProgramPages, Image
<1>7. QED
  BY <1>4, <1>5, <1>6

(* exec and spawn: c sees the program, the others what they saw.           *)
LEMMA ProgramView ==
    ASSUME MemoryInv, NEW c \in Proc, NEW end \in ElfEnds, from_elf(c, end)
    PROVE  viewBar' = [viewBar EXCEPT ![c] = Image(end)]
<1> DEFINE n == Ceil(end)
<1>1. n \in Nat /\ next_frame \in Nat /\ ~(next_frame + (n + 1) > FrameCount)
  BY ElfFacts DEF MemoryInv, TypeOK, from_elf, Shortage
<1>2. next_frame + n + 1 <= FrameCount
  <2> HIDE DEF n
  <2>1. QED
    BY <1>1, PageSize
<1>3. mem' = ProgramMem(end, next_frame)
  BY DEF from_elf
<1>4. \A q \in Proc : pages'[q] = IF q = c THEN ProgramPages(end, next_frame) ELSE pages[q]
  BY DEF from_elf, MemoryInv, TypeOK
<1>5. \A f \in Frame :
         /\ f \in next_frame .. next_frame + n - 1 => mem'[f] = "program"
         /\ f = next_frame + n => mem'[f] = "zero"
         /\ f < next_frame => mem'[f] = mem[f]
  <2> DEFINE new == next_frame .. next_frame + n - 1
             top == next_frame + n
  <2>1. \A f \in Frame : mem'[f] = IF f \in new THEN "program"
                                    ELSE IF f = top THEN "zero" ELSE mem[f]
    BY <1>3 DEF ProgramMem
  <2> HIDE DEF n
  <2>2. top \notin new /\ \A f \in Frame : f < next_frame => f \notin new /\ f # top
    BY <1>1, PageSize DEF Frame
  <2> HIDE DEF new, top
  <2>3. \A f \in Frame : /\ f \in new => mem'[f] = "program"
                         /\ f = top => mem'[f] = "zero"
                         /\ f < next_frame => mem'[f] = mem[f]
    BY <2>1, <2>2
  <2>4. QED
    BY <2>3 DEF new, top
<1>6. \A v \in Page : Content(c, v)' = Image(end)[v]
  <2>1. ASSUME NEW v \in Page
        PROVE  (IF ProgramPages(end, next_frame)[v] = NoPage THEN NoPage
                ELSE mem'[ProgramPages(end, next_frame)[v].frame]) = Image(end)[v]
    BY <1>1, <1>2, <1>5, ProgramContent
  <2>2. QED
    BY <1>4, <2>1 DEF Content
<1>7. ASSUME NEW q \in Proc \ {c}
      PROVE  \A v \in Page : Content(q, v)' = Content(q, v)
  BY <1>4, <1>5, ContentKept
<1>8. Image(end) = [v \in Page |-> Image(end)[v]]
  BY DEF Image
<1>9. QED
  BY <1>6, <1>7, <1>8, OneRowView

(* fork: the child sees what its parent sees, in pages of its own.         *)
LEMMA ForkView ==
    ASSUME MemoryInv, NEW p \in Proc, NEW c \in Proc, c # p, ~Shortage(Cardinality(Mapped(p))),
           pages' = [pages EXCEPT ![c] = ClonedPages(p)], mem' = ClonedMem(p)
    PROVE  viewBar' = [viewBar EXCEPT ![c] = viewBar[p]]
<1> DEFINE row == ClonedPages(p)
<1>1. /\ row \in Row
      /\ \A v \in Page : (row[v] # NoPage <=> v \in Mapped(p))
      /\ \A v \in Mapped(p) : row[v].frame = next_frame + Rank(p, v)
  BY ClonedPagesFacts DEF MemoryInv
<1>2. next_frame \in Nat /\ \A q \in Proc : pages'[q] = IF q = c THEN row ELSE pages[q]
  BY DEF MemoryInv, TypeOK
<1>3. \A v \in Mapped(p) : Rank(p, v) \in Nat /\ v \in Page
  BY RankFacts, MappedFinite
<1>4. \A u, v \in Mapped(p) : Rank(p, u) = Rank(p, v) => u = v
  BY RankDistinct
<1>5. \A v \in Mapped(p) : row[v].frame \in Frame
  <2>1. \A v \in Mapped(p) : row[v] \in MappedPage
    BY <1>1, <1>3 DEF Row
  <2>2. QED
    BY <2>1 DEF MappedPage
<1> HIDE DEF row, Rank
<1>6. \A u, v \in Mapped(p) : row[u].frame = row[v].frame => u = v
  BY <1>1, <1>2, <1>3, <1>4
<1>7. \A f \in Frame :
         mem'[f] = IF \E v \in Mapped(p) : row[v].frame = f
                   THEN mem[pages[p][CHOOSE v \in Mapped(p) : row[v].frame = f].frame]
                   ELSE mem[f]
  BY DEF ClonedMem, row
<1>8. ASSUME NEW v \in Mapped(p)
      PROVE  mem'[row[v].frame] = mem[pages[p][v].frame]
  <2>1. (CHOOSE u \in Mapped(p) : row[u].frame = row[v].frame) = v
    BY <1>6
  <2>2. QED
    BY <1>5, <1>7, <2>1
<1>9. ASSUME NEW f \in Frame, f < next_frame
      PROVE  mem'[f] = mem[f]
  <2>1. \A v \in Mapped(p) : row[v].frame # f
    BY <1>1, <1>2, <1>3, <1>9 DEF Frame
  <2>2. QED
    BY <1>7, <2>1
<1>10. \A v \in Page : Content(c, v)' = viewBar[p][v]
  <2>1. \A v \in Page : viewBar[p][v] = Content(p, v)
    BY ViewFacts
  <2>2. \A v \in Page : v \in Mapped(p) <=> pages[p][v] # NoPage
    BY DEF Mapped
  <2>3. QED
    BY <1>1, <1>2, <1>8, <2>1, <2>2 DEF Content
<1>11. ASSUME NEW q \in Proc \ {c}
       PROVE  \A v \in Page : Content(q, v)' = Content(q, v)
  BY <1>2, <1>9, ContentKept
<1>12. viewBar[p] = [v \in Page |-> viewBar[p][v]]
  BY ViewFacts
<1>13. QED
  BY <1>10, <1>11, <1>12, OneRowView

LEMMA EndView ==
    ASSUME MemoryInv, NEW p \in Proc, End(p)
    PROVE  viewBar' = [viewBar EXCEPT ![p] = [v \in Page |-> NoPage]]
<1>1. mem' = mem /\ \A q \in Proc : pages'[q] = IF q = p THEN Unmapped ELSE pages[q]
  BY DEF End, MemoryInv, TypeOK
<1>2. \A v \in Page : Content(p, v)' = NoPage
  BY <1>1 DEF Content, Unmapped
<1>3. ASSUME NEW q \in Proc \ {p}
      PROVE  \A v \in Page : Content(q, v)' = Content(q, v)
  BY <1>1, ContentKept
<1> DEFINE image == [v \in Page |-> NoPage]
<1>4. image = [v \in Page |-> image[v]] /\ \A v \in Page : image[v] = NoPage
  OBVIOUS
<1> HIDE DEF image
<1>5. viewBar' = [viewBar EXCEPT ![p] = image]
  BY <1>2, <1>3, <1>4, OneRowView
<1>6. QED
  BY <1>5 DEF image

(* sbrk and mmap: zeroed pages where there were none.                      *)
LEMMA MapView ==
    ASSUME MemoryInv, NEW p \in Proc, NEW lo \in Int, NEW hi \in Int, lo <= hi,
           next_frame + (hi - lo) <= FrameCount,
           NEW flags \in SUBSET {"R", "W", "X"},
           NEW area \in {"elf", "heap", "mmap", "stack"}, map(p, lo, hi, flags, area)
    PROVE  viewBar' = [viewBar EXCEPT ![p] =
                          [v \in Page |-> IF v \in lo .. hi - 1 THEN "zero" ELSE viewBar[p][v]]]
<1> DEFINE image == [v \in Page |-> IF v \in lo .. hi - 1 THEN "zero" ELSE viewBar[p][v]]
           n == hi - lo
<1>1. next_frame \in Nat /\ n \in Nat /\ next_frame + n <= FrameCount
  BY DEF MemoryInv, TypeOK
<1>2. \A q \in Proc \ {p} : pages'[q] = pages[q]
  BY DEF map, MemoryInv, TypeOK
<1>3. \A v \in Page : pages'[p][v] = IF v \in lo .. hi - 1 THEN NewPage(v, lo, flags, area)
                                     ELSE pages[p][v]
  BY DEF map, MemoryInv, TypeOK
<1>4. \A f \in Frame :
         mem'[f] = IF f \in next_frame .. next_frame + n - 1 THEN "zero" ELSE mem[f]
  BY DEF map, Zeroed
<1> HIDE DEF n
<1>5. ASSUME NEW f \in Frame, f < next_frame
      PROVE  mem'[f] = mem[f]
  BY <1>1, <1>4, <1>5 DEF Frame
<1>6. ASSUME NEW v \in Page, v \in lo .. hi - 1
      PROVE  Content(p, v)' = "zero"
  <2>1. v \in Int
    BY DEF Page
  <2>2. NewPage(v, lo, flags, area) \in MappedPage
    BY <1>1, <1>6, <2>1, NewPageTyped
  <2>3. NewPage(v, lo, flags, area) # NoPage
    BY <2>2, NoPageIsNoMappedPage
  <2>4. NewPage(v, lo, flags, area).frame = next_frame + (v - lo)
    BY DEF NewPage
  <2>5. next_frame + (v - lo) \in Frame
    BY <2>2, <2>4 DEF MappedPage
  <2>6. next_frame + (v - lo) \in next_frame .. next_frame + n - 1
    BY <1>1, <1>6, <2>1 DEF n
  <2>7. QED
    BY <1>3, <1>4, <1>6, <2>3, <2>4, <2>5, <2>6 DEF Content
<1>7. ASSUME NEW v \in Page, v \notin lo .. hi - 1
      PROVE  Content(p, v)' = Content(p, v)
  <2>1. pages'[p][v] = pages[p][v]
    BY <1>3, <1>7
  <2>2. CASE pages[p][v] = NoPage
    BY <2>1, <2>2 DEF Content
  <2>3. CASE pages[p][v] # NoPage
    <3>1. p \in alive
      BY <2>3 DEF MemoryInv, DeadEmpty, Unmapped
    <3>2. pages[p][v].frame < next_frame
      BY <2>3, <3>1 DEF MemoryInv, FramesPrivate, Mapped
    <3>3. pages[p][v].frame \in Frame
      BY <2>3, ContentFacts DEF MemoryInv
    <3>4. QED
      BY <1>5, <2>1, <3>2, <3>3 DEF Content
  <2>4. QED
    BY <2>2, <2>3
<1>8. \A v \in Page : Content(p, v)' = image[v]
  BY <1>6, <1>7, ViewFacts
<1>9. ASSUME NEW q \in Proc \ {p}
      PROVE  \A v \in Page : Content(q, v)' = Content(q, v)
  BY <1>2, <1>5, ContentKept
<1>10. image = [v \in Page |-> image[v]]
  OBVIOUS
<1> HIDE DEF image
<1>11. viewBar' = [viewBar EXCEPT ![p] = image]
  BY <1>8, <1>9, <1>10, OneRowView
<1>12. QED
  BY <1>11 DEF image

LEMMA UnmapView ==
    ASSUME MemoryInv, NEW p \in Proc, NEW S, unmap(p, S), mem' = mem
    PROVE  viewBar' = [viewBar EXCEPT ![p] =
                          [v \in Page |-> IF v \in S THEN NoPage ELSE viewBar[p][v]]]
<1> DEFINE image == [v \in Page |-> IF v \in S THEN NoPage ELSE viewBar[p][v]]
<1>1. /\ \A q \in Proc \ {p} : pages'[q] = pages[q]
      /\ \A v \in Page : pages'[p][v] = IF v \in S THEN NoPage ELSE pages[p][v]
  BY DEF unmap, MemoryInv, TypeOK
<1>2. \A v \in Page : Content(p, v)' = image[v]
  <2>1. \A v \in Page : Content(p, v)' = IF v \in S THEN NoPage ELSE Content(p, v)
    BY <1>1 DEF Content
  <2>2. QED
    BY <2>1, ViewFacts
<1>3. ASSUME NEW q \in Proc \ {p}
      PROVE  \A v \in Page : Content(q, v)' = Content(q, v)
  BY <1>1, ContentKept
<1>4. image = [v \in Page |-> image[v]]
  OBVIOUS
<1> HIDE DEF image
<1>5. viewBar' = [viewBar EXCEPT ![p] = image]
  BY <1>2, <1>3, <1>4, OneRowView
<1>6. QED
  BY <1>5 DEF image

(* A store into a page of p: nobody else, and no other page, has its frame. *)
LEMMA StoreView ==
    ASSUME MemoryInv, NEW p \in alive, NEW v \in Mapped(p), NEW x, pages' = pages,
           \A f \in Frame : mem'[f] = IF f = pages[p][v].frame THEN x ELSE mem[f]
    PROVE  viewBar' = [viewBar EXCEPT ![p][v] = x]
<1> DEFINE image == [viewBar[p] EXCEPT ![v] = x]
<1>1. p \in Proc /\ v \in Page /\ pages[p][v] # NoPage
  BY DEF MemoryInv, TypeOK, Mapped
<1>2. ASSUME NEW q \in Proc, NEW w \in Page, ~(q = p /\ w = v)
      PROVE  Content(q, w)' = Content(q, w)
  <2>1. CASE pages[q][w] = NoPage
    BY <2>1 DEF Content
  <2>2. CASE pages[q][w] # NoPage
    <3>1. q \in alive
      BY <2>2 DEF MemoryInv, DeadEmpty, Unmapped
    <3>2. pages[q][w].frame # pages[p][v].frame
      BY <1>2, <2>2, <3>1 DEF MemoryInv, FramesPrivate, Mapped
    <3>3. pages[q][w].frame \in Frame
      BY <2>2, ContentFacts DEF MemoryInv
    <3>4. QED
      BY <3>2, <3>3 DEF Content
  <2>3. QED
    BY <2>1, <2>2
<1>3. Content(p, v)' = x
  <2>1. pages[p][v].frame \in Frame
    BY <1>1, ContentFacts DEF MemoryInv
  <2>2. QED
    BY <1>1, <2>1 DEF Content
<1>4. viewBar[p] = [w \in Page |-> Content(p, w)]
  BY <1>1, ViewFacts
<1>5. \A w \in Page : image[w] = IF w = v THEN x ELSE Content(p, w)
  BY <1>4
<1>6. \A w \in Page : Content(p, w)' = image[w]
  BY <1>1, <1>2, <1>3, <1>5
<1>7. \A q \in Proc \ {p} : \A w \in Page : Content(q, w)' = Content(q, w)
  BY <1>2
<1>8. image = [w \in Page |-> image[w]]
  BY <1>4
<1> HIDE DEF image
<1>9. viewBar' = [viewBar EXCEPT ![p] = image]
  BY <1>1, <1>6, <1>7, <1>8, OneRowView
<1>10. QED
  BY <1>9 DEF image

LEMMA InitView ==
    ASSUME Init
    PROVE  Private!Init
<1> DEFINE end == Min(ElfEnds)
           n == Ceil(end)
<1>1. end \in ElfEnds /\ n \in Nat /\ n + 1 <= FrameCount
  BY BootFacts, ElfFacts
<1>2. 0 + n + 1 <= FrameCount
  <2> HIDE DEF n
  <2>1. QED
    BY <1>1, PageSize
<1>3. mem = [f \in Frame |-> IF f < n THEN "program" ELSE "zero"]
  BY DEF Init
<1>4. \A f \in Frame : /\ f \in 0 .. 0 + n - 1 => mem[f] = "program"
                       /\ f = 0 + n => mem[f] = "zero"
  <2> HIDE DEF n
  <2>1. QED
    BY <1>1, <1>3 DEF Frame
<1>5. ASSUME NEW v \in Page
      PROVE  (IF ProgramPages(end, 0)[v] = NoPage THEN NoPage
              ELSE mem[ProgramPages(end, 0)[v].frame]) = Image(end)[v]
  BY <1>1, <1>2, <1>4, ProgramContent
<1>6. \A p \in Proc : pages[p] = IF p = 0 THEN ProgramPages(end, 0) ELSE Unmapped
  BY DEF Init
<1> HIDE DEF end
<1>7. \A p \in Proc, v \in Page :
         Content(p, v) = IF p = 0 THEN Image(end)[v] ELSE NoPage
  BY <1>5, <1>6 DEF Content, Unmapped
<1> DEFINE image == Image(end)
<1>8. viewBar = [p \in Proc |-> IF p = 0 THEN image ELSE [v \in Page |-> NoPage]]
  <2>1. image = [v \in Page |-> image[v]]
    BY DEF Image
  <2> HIDE DEF image
  <2>2. \A p \in Proc : [v \in Page |-> Content(p, v)] =
                         IF p = 0 THEN image ELSE [v \in Page |-> NoPage]
    BY <1>7, <2>1 DEF image
  <2>3. viewBar = [p \in Proc |-> [v \in Page |-> Content(p, v)]]
    BY DEF viewBar, Content
  <2>4. QED
    BY <2>2, <2>3
<1>9. image \in Images
  BY <1>1 DEF Images, Image
<1> HIDE DEF image
<1>10. alive = {0}
  BY DEF Init
<1>11. QED
  BY <1>8, <1>9, <1>10 DEF Private!Init, Private!Nothing

(* A step p takes in its own memory, or to give another one its first.     *)
OwnStep(p) ==
    /\ p \in alive
    /\ \/ Private!Store(p) \/ Private!Map(p) \/ Private!Unmap(p)
       \/ Private!Exec(p) \/ Private!End(p)
       \/ \E c \in Proc : Private!Fork(p, c) \/ Private!Spawn(p, c)

(* Every call of one process is one step of its memory, or none.           *)
LEMMA CallView ==
    ASSUME MaxSpan <= 1, MemoryInv, NEW p \in Proc, Call(p)
    PROVE  OwnStep(p) \/ UNCHANGED <<alive, viewBar>>
<1>0. alive \subseteq Proc /\ next_frame \in Nat
  BY DEF MemoryInv, TypeOK
<1>a. ASSUME NEW q \in Proc, NEW v \in Page
      PROVE  viewBar[q][v] = NoPage <=> v \notin Mapped(q)
  <2>1. viewBar[q][v] = Content(q, v)
    BY ViewFacts
  <2>2. Content(q, v) = NoPage <=> pages[q][v] = NoPage
    BY ContentFacts DEF MemoryInv
  <2>3. QED
    BY <2>1, <2>2 DEF Mapped
<1>b. CASE UNCHANGED <<alive, pages, mem>>
  BY <1>b, SameView
<1>1. ASSUME NEW c \in Proc, NEW end \in ElfEnds, from_elf(c, end), Running(p),
             c = p \/ c \notin alive
      PROVE  OwnStep(p)
  <2>1. viewBar' = [viewBar EXCEPT ![c] = Image(end)]
    BY <1>1, ProgramView
  <2>2. p \in alive /\ alive' = alive \cup {c}
    BY <1>1 DEF from_elf, Running
  <2>3. Image(end) \in Images
    BY DEF Images, Image
  <2>4. CASE c = p
    <3>1. Private!Exec(p)
      BY <2>1, <2>2, <2>3, <2>4 DEF Private!Exec
    <3>2. QED
      BY <2>2, <3>1 DEF OwnStep
  <2>5. CASE c \notin alive
    <3>1. Private!Spawn(p, c)
      BY <2>1, <2>2, <2>3, <2>5 DEF Private!Spawn
    <3>2. QED
      BY <2>2, <3>1 DEF OwnStep
  <2>6. QED
    BY <1>1, <2>4, <2>5
<1>2. CASE fork(p)
  <2>1. PICK c \in Proc \ alive : /\ alive' = alive \cup {c}
                                 /\ pages' = [pages EXCEPT ![c] = ClonedPages(p)]
                                 /\ mem' = ClonedMem(p)
    BY <1>2 DEF fork
  <2>2. p \in alive /\ ~Shortage(Cardinality(Mapped(p)))
    BY <1>2 DEF fork, Running
  <2>3. viewBar' = [viewBar EXCEPT ![c] = viewBar[p]]
    BY <2>1, <2>2, ForkView
  <2>4. Private!Fork(p, c)
    BY <2>1, <2>3 DEF Private!Fork
  <2>5. QED
    BY <2>2, <2>4 DEF OwnStep
<1>3. CASE End(p)
  <2>1. viewBar' = [viewBar EXCEPT ![p] = [v \in Page |-> NoPage]]
    BY <1>3, EndView
  <2>2. p \in alive /\ alive' = alive \ {p}
    BY <1>3 DEF End, Running
  <2>3. Private!End(p)
    BY <2>1, <2>2 DEF Private!End, Private!Nothing
  <2>4. QED
    BY <2>2, <2>3 DEF OwnStep
<1>4. ASSUME NEW lo \in Int, NEW hi \in Int, lo <= hi,
             next_frame + (hi - lo) <= FrameCount,
             NEW flags \in SUBSET {"R", "W", "X"},
             NEW area \in {"elf", "heap", "mmap", "stack"},
             map(p, lo, hi, flags, area), p \in alive, alive' = alive,
             \A v \in lo .. hi - 1 : v \notin Mapped(p)
      PROVE  OwnStep(p)
  <2> DEFINE S == {v \in Page : v \in lo .. hi - 1}
  <2>1. viewBar' = [viewBar EXCEPT ![p] =
                       [v \in Page |-> IF v \in lo .. hi - 1 THEN "zero" ELSE viewBar[p][v]]]
    BY <1>4, MapView
  <2>2. S \in SUBSET {v \in Page : viewBar[p][v] = NoPage}
    BY <1>a, <1>4
  <2>3. [v \in Page |-> IF v \in lo .. hi - 1 THEN "zero" ELSE viewBar[p][v]]
           = [v \in Page |-> IF v \in S THEN "zero" ELSE viewBar[p][v]]
    OBVIOUS
  <2> HIDE DEF S
  <2>4. Private!Map(p)
    BY <1>4, <2>1, <2>2, <2>3 DEF Private!Map
  <2>5. QED
    BY <1>4, <2>4 DEF OwnStep
<1>5. ASSUME NEW T, unmap(p, T), mem' = mem, p \in alive, alive' = alive
      PROVE  OwnStep(p)
  <2> DEFINE S == {v \in Page : v \in T}
  <2>1. viewBar' = [viewBar EXCEPT ![p] =
                       [v \in Page |-> IF v \in T THEN NoPage ELSE viewBar[p][v]]]
    BY <1>5, UnmapView
  <2>2. S \in SUBSET Page
    OBVIOUS
  <2>3. [v \in Page |-> IF v \in T THEN NoPage ELSE viewBar[p][v]]
           = [v \in Page |-> IF v \in S THEN NoPage ELSE viewBar[p][v]]
    OBVIOUS
  <2> HIDE DEF S
  <2>4. Private!Unmap(p)
    BY <1>5, <2>1, <2>2, <2>3 DEF Private!Unmap
  <2>5. QED
    BY <1>5, <2>4 DEF OwnStep
<1>6. ASSUME NEW v \in Mapped(p), NEW x \in Data, pages' = pages, p \in alive, alive' = alive,
             \A f \in Frame : mem'[f] = IF f = pages[p][v].frame THEN x ELSE mem[f]
      PROVE  OwnStep(p)
  <2>1. viewBar' = [viewBar EXCEPT ![p][v] = x]
    BY <1>6, StoreView
  <2>2. v \in Page /\ viewBar[p][v] # NoPage /\ x \in Value
    BY <1>a, <1>6 DEF Mapped, Value
  <2>3. Private!Store(p)
    BY <1>6, <2>1, <2>2 DEF Private!Store
  <2>4. QED
    BY <1>6, <2>3 DEF OwnStep
<1>7. CASE \E size \in Sizes : sbrk_grow(p, size)
  <2>1. PICK size \in Sizes : sbrk_grow(p, size)
    BY <1>7
  <2>2. p \in alive /\ alive' = alive
    BY <2>1 DEF sbrk_grow, NewBreak, Running
  <2> DEFINE lo == Ceil(program_brk[p])
             hi == Ceil(program_brk[p] + size)
  <2>3. \A v \in lo .. hi - 1 : v \notin Mapped(p)
    BY <2>1 DEF sbrk_grow, Grown
  <2>4. /\ lo \in Nat /\ hi \in Nat /\ lo <= hi
        /\ next_frame + (hi - lo) <= FrameCount
        /\ UNCHANGED <<pages, mem>> \/ map(p, lo, hi, {"R", "W"}, "heap")
    BY <2>1, GrowFacts DEF MemoryInv
  <2> HIDE DEF lo, hi
  <2>5. QED
    BY <1>b, <1>4, <2>2, <2>3, <2>4
<1>8. CASE \E size \in Sizes : sbrk_shrink(p, size)
  <2>1. p \in alive /\ alive' = alive /\ mem' = mem /\ \E S : unmap(p, S)
    BY <1>8 DEF sbrk_shrink, NewBreak, Running
  <2>2. QED
    BY <1>5, <2>1
<1>9. CASE \E addr \in Address, len \in Lengths, prot \in Prots : mmap(p, addr, len, prot)
  <2>1. PICK addr \in Address, len \in Lengths, prot \in Prots : mmap(p, addr, len, prot)
    BY <1>9
  <2>2. p \in alive /\ alive' = alive
    BY <2>1 DEF mmap, Running
  <2> DEFINE lo == Floor(addr)
             hi == Floor(addr) + Ceil(len)
  <2>3. /\ lo \in Nat /\ hi \in Nat /\ lo <= hi
        /\ next_frame + (hi - lo) <= FrameCount
        /\ prot \in SUBSET {"R", "W", "X"}
        /\ \A v \in lo .. hi - 1 : v \notin Mapped(p)
        /\ UNCHANGED <<pages, mem>> \/ map(p, lo, hi, prot, "mmap")
    BY <2>1, MmapFacts DEF MemoryInv
  <2> HIDE DEF lo, hi
  <2>4. QED
    BY <1>b, <1>4, <2>2, <2>3
<1>10. CASE \E addr \in Address, len \in Lengths :
               munmap_refused(p, addr, len) \/ munmap(p, addr, len)
  <2>1. p \in alive /\ alive' = alive /\ mem' = mem /\ \E S : unmap(p, S)
    BY <1>10 DEF munmap, munmap_refused, Running
  <2>2. QED
    BY <1>5, <2>1
<1>11. CASE UserStore(p)
  <2>1. PICK v \in Page, x \in Data : Writable(p, v) /\ Stored(p, v, x)
    BY <1>11 DEF UserStore
  <2>2. /\ v \in Mapped(p) /\ pages' = pages /\ p \in alive /\ alive' = alive
        /\ mem' = [mem EXCEPT ![pages[p][v].frame] = x]
    BY <2>1 DEF Stored, Running
  <2>3. \A f \in Frame : mem'[f] = IF f = pages[p][v].frame THEN x ELSE mem[f]
    BY <2>2 DEF MemoryInv, TypeOK
  <2>4. QED
    BY <1>6, <2>2, <2>3
<1>12. CASE \E v \in Page, n \in 1 .. MaxSpan, x \in Data : read(p, v, n, x)
  <2>1. PICK v \in Page, n \in 1 .. MaxSpan, x \in Data : read(p, v, n, x)
    BY <1>12
  <2>2. n = 1
    BY MemoryAssumption
  <2>3. /\ v \in Mapped(p) /\ pages' = pages /\ p \in alive /\ alive' = alive
        /\ mem' = [f \in Frame |->
                      IF f \in pages[p][v].frame .. pages[p][v].frame + n - 1 THEN x ELSE mem[f]]
    BY <2>1 DEF read, Writable, Running
  <2>4. pages[p][v].frame \in Frame
    BY <2>3, ContentFacts DEF MemoryInv, Mapped
  <2>5. \A f \in Frame : f \in pages[p][v].frame .. pages[p][v].frame + n - 1
                           <=> f = pages[p][v].frame
    BY <2>2, <2>4 DEF Frame
  <2>6. \A f \in Frame : mem'[f] = IF f = pages[p][v].frame THEN x ELSE mem[f]
    BY <2>3, <2>5
  <2>7. QED
    BY <1>6, <2>3, <2>6
<1>13. CASE Refused(p)
  BY <1>b, <1>13, RefusedFacts DEF vars
<1>14. CASE Panics(p)
  BY <1>b, <1>14, PanicFacts DEF Halt
<1>15. QED
  BY <1>1, <1>2, <1>3, <1>7, <1>8, <1>9, <1>10, <1>11, <1>12, <1>13, <1>14, CallCases

(* Whoever is there keeps memory and break when another process calls.     *)
LEMMA CallLeavesOthers ==
    ASSUME MaxSpan <= 1, MemoryInv, NEW p \in Proc, Call(p), NEW q \in alive, q # p
    PROVE  /\ q \in alive'
           /\ viewBar'[q] = viewBar[q]
           /\ program_brk'[q] = program_brk[q] /\ heap_bottom'[q] = heap_bottom[q]
<1>0. /\ q \in Proc /\ viewBar = [r \in Proc |-> viewBar[r]]
      /\ heap_bottom \in [Proc -> 0 .. PageCount * PAGE_SIZE]
      /\ program_brk \in [Proc -> 0 .. PageCount * PAGE_SIZE]
  BY DEF MemoryInv, TypeOK, viewBar
<1>1. q \in alive' /\ viewBar'[q] = viewBar[q]
  <2>1. CASE UNCHANGED <<alive, viewBar>>
    BY <2>1
  <2>2. CASE Private!Store(p)
    BY <1>0, <2>2 DEF Private!Store
  <2>3. CASE Private!Map(p)
    BY <1>0, <2>3 DEF Private!Map
  <2>4. CASE Private!Unmap(p)
    BY <1>0, <2>4 DEF Private!Unmap
  <2>5. CASE Private!Exec(p)
    BY <1>0, <2>5 DEF Private!Exec
  <2>6. CASE Private!End(p)
    BY <1>0, <2>6 DEF Private!End
  <2>7. ASSUME NEW c, Private!Fork(p, c) \/ Private!Spawn(p, c)
        PROVE  q \in alive' /\ viewBar'[q] = viewBar[q]
    BY <1>0, <2>7 DEF Private!Fork, Private!Spawn
  <2>8. QED
    BY <2>1, <2>2, <2>3, <2>4, <2>5, <2>6, <2>7, CallView DEF OwnStep
<1>2. program_brk'[q] = program_brk[q] /\ heap_bottom'[q] = heap_bottom[q]
  <2>1. CASE UNCHANGED <<heap_bottom, program_brk>>
    BY <2>1
  <2>2. CASE \E c \in Proc, end \in ElfEnds : from_elf(c, end) /\ (c = p \/ c \notin alive)
    BY <1>0, <2>2 DEF from_elf, BreakAtBottom
  <2>3. CASE fork(p)
    BY <1>0, <2>3 DEF fork
  <2>4. CASE End(p)
    BY <1>0, <2>4 DEF End
  <2>5. ASSUME NEW size, sbrk_grow(p, size) \/ sbrk_shrink(p, size)
        PROVE  program_brk'[q] = program_brk[q] /\ heap_bottom'[q] = heap_bottom[q]
    BY <1>0, <2>5 DEF sbrk_grow, sbrk_shrink, NewBreak
  <2>6. ASSUME NEW addr, NEW len, NEW prot,
               \/ mmap(p, addr, len, prot) \/ munmap(p, addr, len)
               \/ munmap_refused(p, addr, len)
        PROVE  UNCHANGED <<heap_bottom, program_brk>>
    BY <2>6 DEF mmap, munmap, munmap_refused
  <2>7. \/ UserStore(p)
        \/ \E v \in Page, n \in 1 .. MaxSpan, x \in Data : read(p, v, n, x)
        => UNCHANGED <<heap_bottom, program_brk>>
    BY DEF UserStore, Stored, read
  <2>8. Refused(p) \/ Panics(p) => UNCHANGED <<heap_bottom, program_brk>>
    BY RefusedFacts, PanicFacts DEF vars, Halt
  <2>9. QED
    BY <2>1, <2>2, <2>3, <2>4, <2>5, <2>6, <2>7, <2>8, CallCases
<1>3. QED
  BY <1>1, <1>2

(* What a kernel that loads its programs, and then lets one process after  *)
(* the other call, needs to know of each load and of each call.            *)
LEMMA ProgramKeepsMemory ==
    ASSUME MemoryInv, HeapExact, NEW c \in Proc, NEW end \in ElfEnds, from_elf(c, end)
    PROVE  /\ MemoryInv' /\ HeapExact'
           /\ alive' = alive \cup {c}
           /\ viewBar'[c] = Image(end) /\ program_brk'[c] = heap_bottom'[c]
           /\ \A q \in alive : q # c =>
                 /\ viewBar'[q] = viewBar[q]
                 /\ program_brk'[q] = program_brk[q] /\ heap_bottom'[q] = heap_bottom[q]
<1>1. MemoryInv' /\ HeapExact'
  BY ProgramTyped, ProgramPrivate, ProgramLeavesDead, ProgramKeepsHeaps DEF MemoryInv
<1>2. /\ viewBar = [q \in Proc |-> viewBar[q]] /\ alive \subseteq Proc
      /\ heap_bottom \in [Proc -> 0 .. PageCount * PAGE_SIZE]
      /\ program_brk \in [Proc -> 0 .. PageCount * PAGE_SIZE]
  BY DEF viewBar, MemoryInv, TypeOK
<1>3. viewBar' = [viewBar EXCEPT ![c] = Image(end)]
  BY ProgramView
<1>4. viewBar'[c] = Image(end) /\ \A q \in alive : q # c => viewBar'[q] = viewBar[q]
  BY <1>2, <1>3
<1>5. /\ alive' = alive \cup {c} /\ program_brk'[c] = heap_bottom'[c]
      /\ \A q \in alive : q # c => /\ program_brk'[q] = program_brk[q]
                                  /\ heap_bottom'[q] = heap_bottom[q]
  BY <1>2 DEF from_elf, BreakAtBottom
<1>6. QED
  BY <1>1, <1>4, <1>5

LEMMA CallKeepsMemory ==
    ASSUME MemoryInv, HeapExact, NEW p \in Proc, Call(p)
    PROVE  MemoryInv' /\ HeapExact'
BY TypeStep, PrivateStep, DeadStep, HeapStep DEF MemoryInv, Next

(* The memory of a process changes by its own calls only, as long as no    *)
(* buffer the kernel writes to spreads over two pages: page tables, frames *)
(* and the allocator implement one private memory for each process.        *)
THEOREM PrivateCorrect ==
    ASSUME MaxSpan <= 1
    PROVE  Spec => PrivateSpec
<1>1. Init => Private!Init
  BY InitView
<1>2. ASSUME MemoryInv, [Next]_vars
      PROVE  [Private!Next]_<<alive, viewBar>>
  <2>1. CASE UNCHANGED vars
    BY <2>1, SameView DEF vars
  <2>2. ASSUME NEW p, OwnStep(p) PROVE Private!Next
    BY <2>2 DEF OwnStep, Private!Next
  <2>3. QED
    BY <1>2, <2>1, <2>2, CallView DEF Next, ShutDown, AllEnded
<1>3. QED
  BY <1>1, <1>2, MemoryInvariant, PTL DEF Spec, PrivateSpec, Private!Spec, Private!memVars
=============================================================================
