----------------------------- MODULE UserMemory -----------------------------
(***************************************************************************)
(* The address spaces of the chapter 5 processes (os/ch5/src/process.rs    *)
(* and the memory syscalls of main.rs; chapters 4 and X have the same      *)
(* calls and no fork): page tables, the program break, mmap and munmap,    *)
(* fork and exec, and the pages behind them.  Ch5Kernel says when a        *)
(* process runs; here any live process may make the next call.  Calls that *)
(* only read memory (write, the name passed to exec or spawn) are left out.*)
(*                                                                         *)
(* AddressSpace (crate tg-kernel-vm) is not part of the repository: its    *)
(* map gives a range consecutive new frames, unmap forgets the pages of a  *)
(* range and never gives a frame back, cloneself copies every page.        *)
(***************************************************************************)
EXTENDS Integers, FiniteSets, FiniteSetsExt

CONSTANTS
    MaxProc,    \* bound: the processes are 0..MaxProc
    PageCount,  \* bound: the user window has pages 0..PageCount - 1
    FrameCount, \* physical pages of the kernel heap (MEMORY in the source)
    PAGE_SIZE,  \* bytes of a page (4096)
    ElfEnds,    \* the byte after the last segment of each program in APPS
    Sizes,      \* the sizes a process passes to sbrk
    Lengths,    \* the lengths it passes to mmap and munmap
    Prots,      \* the prot it passes to mmap: sets of "R", "W", "X", or NoProt
    NoProt,     \* a prot with bits beyond the three
    Data,       \* what the programs of an instance store in memory
    MaxSpan,    \* bound: pages a buffer of read spreads over
    NoPage      \* a page that is not mapped

ASSUME MemoryAssumption ==
    /\ MaxProc \in Nat
    /\ PageCount \in Nat /\ FrameCount \in Nat
    /\ PAGE_SIZE \in Nat \ {0}
    /\ Sizes \subseteq Int /\ Lengths \subseteq Nat
    /\ ElfEnds \subseteq 0..(PageCount - 1) * PAGE_SIZE
    /\ Prots \subseteq (SUBSET {"R", "W", "X"}) \cup {NoProt}
    /\ MaxSpan \in Nat

VARIABLES
    alive,        \* the processes there are
    pages,        \* areas and page table of each: NoPage, or a mapped page
    heap_bottom,  \* Process.heap_bottom
    program_brk,  \* Process.program_brk
    mem,          \* contents of the physical pages
    next_frame,   \* frames below it have been allocated
    halted,       \* NotHalted, or why and in which call the kernel panicked
    holes         \* history: heap pages each process has passed to munmap

vars == <<alive, pages, heap_bottom, program_brk, mem, next_frame, halted,
          holes>>

-----------------------------------------------------------------------------
Proc == 0..MaxProc
Page == 0..PageCount - 1
Frame == 0..FrameCount - 1

Value == {"zero", "program"} \cup Data

(* VAddr::floor.                                                           *)
Floor(addr) == addr \div PAGE_SIZE

(* VAddr::ceil: the first page that starts at addr or after it.            *)
Ceil(addr) == (addr + PAGE_SIZE - 1) \div PAGE_SIZE

StackPage == PageCount - 1   \* the user stack ends the window

Unmapped == [v \in Page |-> NoPage]

MappedPage ==
    [frame : Frame, flags : SUBSET {"R", "W", "X"},
     area : {"elf", "heap", "mmap", "stack"}]

Mapped(p) == {v \in Page : pages[p][v] # NoPage}

(* The image was built so that its first program fits in the kernel heap;  *)
(* `not mapped` is neither a page nor something a page may hold.           *)
ASSUME BootAssumption ==
    /\ \E end \in ElfEnds : Ceil(end) + 1 <= FrameCount
    /\ NoPage \notin MappedPage \cup Value

HeapPages(p) == heap_bottom[p] \div PAGE_SIZE .. Ceil(program_brk[p]) - 1

NotHalted == <<"no", "none">>

Running(p) == halted = NotHalted /\ p \in alive

Halt(why, call) ==
    /\ halted' = <<why, call>>
    /\ UNCHANGED <<alive, pages, heap_bottom, program_brk, mem, next_frame, holes>>

(* A call that only returns -1, or a number the model does not follow.     *)
Unchanged ==
    UNCHANGED <<alive, pages, heap_bottom, program_brk, mem, next_frame, halted,
                holes>>

-----------------------------------------------------------------------------
(*                    Sv39Manager and AddressSpace                         *)

(* Mutant: the last frame of an allocation is handed out again.            *)
FramesShort(n) == next_frame + n - 1

(* page_alloc: n consecutive frames, zeroed.  `deallocate` is todo!(), and *)
(* nothing else returns a frame.                                           *)
FramesAfter(n) == next_frame + n

(* Mutant: a null pointer is not noticed.                                  *)
NeverShort(n) == FALSE

(* NonNull::new(null).unwrap() in allocate.                                *)
Shortage(n) == next_frame + n > FrameCount

(* Memory once the next n frames are allocated (alloc_zeroed).             *)
Zeroed(n) ==
    [f \in Frame |-> IF f \in next_frame .. next_frame + n - 1 THEN "zero" ELSE mem[f]]

NewPage(v, lo, flags, area) ==
    [frame |-> next_frame + (v - lo), flags |-> flags, area |-> area]

(* AddressSpace::map of the pages lo..hi - 1 of p with no data.            *)
map(p, lo, hi, flags, area) ==
    /\ pages' = [pages EXCEPT ![p] =
                    [v \in Page |-> IF v \in lo .. hi - 1
                                    THEN NewPage(v, lo, flags, area)
                                    ELSE pages[p][v]]]
    /\ next_frame' = FramesAfter(hi - lo)
    /\ mem' = Zeroed(hi - lo)

unmap(p, S) ==
    pages' = [pages EXCEPT ![p] =
                 [v \in Page |-> IF v \in S THEN NoPage ELSE pages[p][v]]]

(* Mutant: the page table is copied, not the pages.                        *)
SharedPages(p) == pages[p]

(* cloneself: the pages of p in order, each with a new frame.              *)
ClonedPages(p) ==
    [v \in Page |->
        IF v \in Mapped(p)
        THEN [pages[p][v] EXCEPT
                 !.frame = next_frame + Cardinality({u \in Mapped(p) : u < v})]
        ELSE NoPage]

(* The new frames of the child hold what the frames of p hold.             *)
ClonedMem(p) ==
    [f \in Frame |->
        IF \E v \in Mapped(p) : ClonedPages(p)[v].frame = f
        THEN mem[pages[p][CHOOSE v \in Mapped(p) : ClonedPages(p)[v].frame = f].frame]
        ELSE mem[f]]

-----------------------------------------------------------------------------
(*                Process::from_elf, exec, fork, and the end               *)

(* Pages of a new program: its segments, which stand for text (the pages   *)
(* of writable segments are like those of the heap), and the stack on top. *)
ProgramPages(end, first) ==
    [v \in Page |->
        IF v < Ceil(end)
        THEN [frame |-> first + v, flags |-> {"R", "X"}, area |-> "elf"]
        ELSE IF v = StackPage
        THEN [frame |-> first + Ceil(end), flags |-> {"R", "W"}, area |-> "stack"]
        ELSE NoPage]

ProgramMem(end, first) ==
    [f \in Frame |->
        IF f \in first .. first + Ceil(end) - 1 THEN "program"
        ELSE IF f = first + Ceil(end) THEN "zero"
        ELSE mem[f]]

Init ==
    /\ alive = {0}
    /\ mem = [f \in Frame |-> IF f < Ceil(Min(ElfEnds)) THEN "program" ELSE "zero"]
    /\ pages = [p \in Proc |-> IF p = 0 THEN ProgramPages(Min(ElfEnds), 0)
                               ELSE Unmapped]
    /\ heap_bottom = [p \in Proc |-> IF p = 0 THEN Ceil(Min(ElfEnds)) * PAGE_SIZE
                                     ELSE 0]
    /\ program_brk = heap_bottom
    /\ next_frame = Ceil(Min(ElfEnds)) + 1
    /\ halted = NotHalted
    /\ holes = [p \in Proc |-> {}]

(* Mutant: the break of the old program is kept.                           *)
BreakKept(p, end) == program_brk

BreakAtBottom(p, end) == [program_brk EXCEPT ![p] = Ceil(end) * PAGE_SIZE]

(* An address space for p with a program whose last segment ends at end.   *)
from_elf(p, end) ==
    /\ ~Shortage(Ceil(end) + 1)
    /\ alive' = alive \cup {p}
    /\ pages' = [pages EXCEPT ![p] = ProgramPages(end, next_frame)]
    /\ mem' = ProgramMem(end, next_frame)
    /\ next_frame' = FramesAfter(Ceil(end) + 1)
    /\ heap_bottom' = [heap_bottom EXCEPT ![p] = Ceil(end) * PAGE_SIZE]
    /\ program_brk' = BreakAtBottom(p, end)
    /\ holes' = [holes EXCEPT ![p] = {}]
    /\ UNCHANGED halted

(* exec replaces address space, heap and context; the old pages are not    *)
(* given back.                                                             *)
exec(p) == Running(p) /\ \E end \in ElfEnds : from_elf(p, end)

spawn(p) == Running(p) /\ \E c \in Proc \ alive, end \in ElfEnds : from_elf(c, end)

fork(p) ==
    /\ Running(p)
    /\ ~Shortage(Cardinality(Mapped(p)))
    /\ \E c \in Proc \ alive :
          /\ alive' = alive \cup {c}
          /\ pages' = [pages EXCEPT ![c] = ClonedPages(p)]
          /\ mem' = ClonedMem(p)
          /\ next_frame' = FramesAfter(Cardinality(Mapped(p)))
          /\ heap_bottom' = [heap_bottom EXCEPT ![c] = heap_bottom[p]]
          /\ program_brk' = [program_brk EXCEPT ![c] = program_brk[p]]
          /\ holes' = [holes EXCEPT ![c] = holes[p]]
    /\ UNCHANGED halted

(* exec, spawn, fork, sbrk and mmap with too few frames: a panic.          *)
NewPagesRefused(call, n) == Shortage(n) /\ Halt("no_memory", call)

exec_panic(p) ==
    Running(p) /\ \E end \in ElfEnds : NewPagesRefused("exec", Ceil(end) + 1)

spawn_panic(p) ==
    /\ Running(p)
    /\ Proc \ alive # {}
    /\ \E end \in ElfEnds : NewPagesRefused("spawn", Ceil(end) + 1)

fork_panic(p) ==
    /\ Running(p)
    /\ Proc \ alive # {}
    /\ NewPagesRefused("fork", Cardinality(Mapped(p)))

(* The task is dropped with its address space, for whatever reason.        *)
End(p) ==
    /\ Running(p)
    /\ alive' = alive \ {p}
    /\ pages' = [pages EXCEPT ![p] = Unmapped]
    /\ heap_bottom' = [heap_bottom EXCEPT ![p] = 0]
    /\ program_brk' = [program_brk EXCEPT ![p] = 0]
    /\ holes' = [holes EXCEPT ![p] = {}]
    /\ UNCHANGED <<mem, next_frame, halted>>

-----------------------------------------------------------------------------
(*                     sbrk: Process::change_program_brk                   *)

(* new_brk < heap_bottom.                                                  *)
sbrk_refused(p, size) ==
    /\ Running(p)
    /\ program_brk[p] + size < heap_bottom[p]
    /\ Unchanged

(* The break moves by size, up to the end of the window.                   *)
NewBreak(p, size) ==
    /\ Running(p)
    /\ program_brk[p] + size \in heap_bottom[p] .. PageCount * PAGE_SIZE
    /\ program_brk' = [program_brk EXCEPT ![p] = @ + size]
    /\ UNCHANGED <<alive, heap_bottom, halted>>

Grown(p, size) == Ceil(program_brk[p]) .. Ceil(program_brk[p] + size) - 1

Shrunk(p, size) == Ceil(program_brk[p] + size) .. Ceil(program_brk[p]) - 1

sbrk_grow(p, size) ==
    /\ size > 0
    /\ NewBreak(p, size)
    /\ Grown(p, size) \cap Mapped(p) = {}
    /\ ~Shortage(Cardinality(Grown(p, size)))
    /\ IF Grown(p, size) = {} THEN UNCHANGED <<pages, mem, next_frame>>
       ELSE map(p, Ceil(program_brk[p]), Ceil(program_brk[p] + size), {"R", "W"}, "heap")
    /\ holes' = [holes EXCEPT ![p] = @ \ Grown(p, size)]

(* The pages above the break are not looked at before they are mapped:     *)
(* over a page that mmap or the stack already has, the model stops.        *)
sbrk_panic(p) ==
    /\ Running(p)
    /\ \E size \in Sizes :
          /\ size > 0
          /\ program_brk[p] + size <= PageCount * PAGE_SIZE
          /\ IF Grown(p, size) \cap Mapped(p) # {}
             THEN Halt("overlap", "sbrk")
             ELSE NewPagesRefused("sbrk", Cardinality(Grown(p, size)))

sbrk_shrink(p, size) ==
    /\ size <= 0
    /\ NewBreak(p, size)
    /\ unmap(p, Shrunk(p, size))
    /\ UNCHANGED <<mem, next_frame, holes>>

-----------------------------------------------------------------------------
(*                             mmap and munmap                             *)

Address == 0 .. PageCount * PAGE_SIZE - 1

(* start_vpn..end_vpn - 1, with the length rounded up to whole pages.      *)
PageRange(addr, len) == Floor(addr) .. Floor(addr) + Ceil(len) - 1

Aligned(addr) == addr % PAGE_SIZE = 0

(* Mutant: only the first page is compared with the areas.                 *)
StartIsFree(p, addr, len) == Floor(addr) \notin Mapped(p)

(* No area has a page of [start_vpn, end_vpn).                             *)
IsFree(p, addr, len) == PageRange(addr, len) \cap Mapped(p) = {}

BadMapping(p, addr, len, prot) ==
    \/ ~Aligned(addr)
    \/ prot \in {{}, NoProt}
    \/ len > 0 /\ ~IsFree(p, addr, len)

mmap_refused(p) ==
    /\ Running(p)
    /\ \E addr \in Address, len \in Lengths, prot \in Prots : BadMapping(p, addr, len, prot)
    /\ Unchanged

mmap(p, addr, len, prot) ==
    /\ Running(p)
    /\ prot \notin {{}, NoProt}
    /\ Aligned(addr)
    /\ PageRange(addr, len) \subseteq Page
    /\ IsFree(p, addr, len)
    /\ PageRange(addr, len) \cap Mapped(p) = {}
    /\ ~Shortage(Ceil(len))
    /\ IF len = 0 THEN UNCHANGED <<pages, mem, next_frame>>
       ELSE map(p, Floor(addr), Floor(addr) + Ceil(len), prot, "mmap")
    /\ UNCHANGED <<alive, heap_bottom, program_brk, halted, holes>>

mmap_panic(p) ==
    /\ Running(p)
    /\ \E addr \in Address, len \in Lengths, prot \in Prots \ {{}, NoProt} :
          /\ Aligned(addr)
          /\ PageRange(addr, len) \subseteq Page
          /\ len > 0
          /\ IsFree(p, addr, len)
          /\ IF PageRange(addr, len) \cap Mapped(p) # {}
             THEN Halt("overlap", "mmap")
             ELSE NewPagesRefused("mmap", Ceil(len))

(* Mutant: pages are unmapped as the loop goes, up to the first hole.      *)
UnmappedSoFar(p, addr, len) ==
    {v \in PageRange(addr, len) : Floor(addr) .. v \subseteq Mapped(p)}

(* munmap of a range with a hole in it leaves every page as it is.         *)
UnmappedOnRefusal(p, addr, len) == {}

munmap_refused(p, addr, len) ==
    /\ Running(p)
    /\ ~Aligned(addr) \/ ~(PageRange(addr, len) \subseteq Mapped(p))
    /\ unmap(p, IF Aligned(addr) THEN UnmappedOnRefusal(p, addr, len) ELSE {})
    /\ UNCHANGED <<alive, heap_bottom, program_brk, mem, next_frame, halted, holes>>

munmap(p, addr, len) ==
    /\ Running(p)
    /\ Aligned(addr)
    /\ PageRange(addr, len) \subseteq Mapped(p)
    /\ unmap(p, PageRange(addr, len))
    /\ holes' = [holes EXCEPT ![p] = @ \cup (PageRange(addr, len) \cap HeapPages(p))]
    /\ UNCHANGED <<alive, heap_bottom, program_brk, mem, next_frame, halted>>

(* len + PAGE_SIZE - 1, or addr + len_aligned, beyond usize: the checked   *)
(* build panics.                                                           *)
length_overflow(p) ==
    Running(p) /\ \E call \in {"mmap", "munmap"} : Halt("overflow", call)

-----------------------------------------------------------------------------
(*                       Loads and stores                                  *)

(* A store of the program itself; without the right to it, the process     *)
(* ends (End).                                                             *)
Stored(p, v, x) ==
    /\ Running(p)
    /\ v \in Mapped(p)
    /\ mem' = [mem EXCEPT ![pages[p][v].frame] = x]
    /\ UNCHANGED <<alive, pages, heap_bottom, program_brk, next_frame, halted, holes>>

(* Mutant: the flags of the page are not looked at.                        *)
Present(p, v) == v \in Mapped(p)

(* translate with WRITABLE, and with READABLE.                             *)
Writable(p, v) == v \in Mapped(p) /\ "W" \in pages[p][v].flags

Readable(p, v) == v \in Mapped(p) /\ "R" \in pages[p][v].flags

UserStore(p) == \E v \in Page, x \in Data : Writable(p, v) /\ Stored(p, v, x)

(* read of x into the n pages from v on (and what wait, clock_gettime      *)
(* and trace store): the pointer is translated once, at the start of the   *)
(* buffer, and the bytes go to the physical pages from there on.           *)
read(p, v, n, x) ==
    /\ Running(p)
    /\ Writable(p, v)
    /\ v + n - 1 \in Page
    /\ pages[p][v].frame + n - 1 \in Frame
    /\ mem' = [f \in Frame |->
                  IF f \in pages[p][v].frame .. pages[p][v].frame + n - 1
                  THEN x ELSE mem[f]]
    /\ UNCHANGED <<alive, pages, heap_bottom, program_brk, next_frame, halted, holes>>

read_refused(p) ==
    /\ Running(p)
    /\ \E v \in Page : ~Writable(p, v)
    /\ Unchanged

ShutDown == halted # NotHalted /\ UNCHANGED vars

-----------------------------------------------------------------------------
Call(p) ==
    \/ exec(p) \/ exec_panic(p) \/ spawn(p) \/ spawn_panic(p)
    \/ fork(p) \/ fork_panic(p) \/ End(p)
    \/ \E size \in Sizes : sbrk_refused(p, size) \/ sbrk_grow(p, size) \/ sbrk_shrink(p, size)
    \/ \E addr \in Address, len \in Lengths, prot \in Prots : mmap(p, addr, len, prot)
    \/ \E addr \in Address, len \in Lengths :
          munmap_refused(p, addr, len) \/ munmap(p, addr, len)
    \/ sbrk_panic(p) \/ mmap_refused(p) \/ mmap_panic(p) \/ length_overflow(p)
    \/ UserStore(p) \/ read_refused(p)
    \/ \E v \in Page, n \in 1..MaxSpan, x \in Data : read(p, v, n, x)

AllEnded == alive = {} /\ UNCHANGED vars

Next == ShutDown \/ AllEnded \/ \E p \in Proc : Call(p)

Spec == Init /\ [][Next]_vars

-----------------------------------------------------------------------------
(*                             Properties                                  *)

TypeOK ==
    /\ alive \subseteq Proc
    /\ pages \in [Proc -> [Page -> {NoPage} \cup MappedPage]]
    /\ heap_bottom \in [Proc -> 0 .. PageCount * PAGE_SIZE]
    /\ program_brk \in [Proc -> 0 .. PageCount * PAGE_SIZE]
    /\ mem \in [Frame -> Value]
    /\ next_frame \in 0..FrameCount
    /\ halted \in {"no", "no_memory", "overlap", "overflow"}
                  \X {"none", "exec", "spawn", "fork", "sbrk", "mmap", "munmap"}
    /\ holes \in [Proc -> SUBSET Page]

(* No physical page is mapped twice, in one address space or in two, and   *)
(* none that could be allocated again: what sbrk, mmap, fork and exec hand *)
(* out is always new.                                                      *)
FramesPrivate ==
    \A p, q \in alive : \A u \in Mapped(p), v \in Mapped(q) :
        /\ pages[p][u].frame = pages[q][v].frame => p = q /\ u = v
        /\ pages[p][u].frame < next_frame

(* Whatever the order of growing, shrinking, mmap, munmap, fork and exec,  *)
(* the pages of the heap area lie between heap_bottom and the break, and   *)
(* every page there is mapped but those the process itself unmapped.       *)
HeapExact ==
    \A p \in alive :
        /\ heap_bottom[p] <= program_brk[p]
        /\ \A v \in Mapped(p) : pages[p][v].area = "heap" => v \in HeapPages(p)
        /\ HeapPages(p) \subseteq Mapped(p) \cup holes[p]

(* A munmap that meets a hole in its range takes nothing away, neither     *)
(* before the hole nor after it.                                           *)
MunmapAllOrNothing ==
    [][\A p \in Proc :
          (\E addr \in Address, len \in Lengths : munmap_refused(p, addr, len)) =>
              UNCHANGED pages]_vars

(* mmap never maps a page that is mapped already; only sbrk, which does    *)
(* not look, can run into one.                                             *)
MmapNeverOverlaps == halted # <<"overlap", "mmap">>

(* ch4/exercise.md: mmap answers -1 when there is no physical memory left. *)
MmapReportsShortage == halted # <<"no_memory", "mmap">>

-----------------------------------------------------------------------------
(*              Every process has a memory of its own                      *)

viewBar ==
    [p \in Proc |->
        [v \in Page |-> IF pages[p][v] = NoPage THEN NoPage
                        ELSE mem[pages[p][v].frame]]]

Images ==
    {[v \in Page |-> IF v < Ceil(end) THEN "program"
                     ELSE IF v = StackPage THEN "zero" ELSE NoPage] : end \in ElfEnds}

Private ==
    INSTANCE PrivateMemory WITH
        Process <- Proc, First <- 0, Zero <- "zero", Absent <- NoPage, view <- viewBar

(* Every step is a store, a map, an unmap, a fork, an exec or an end of    *)
(* one process, and invisible to all the others.                           *)
PrivateSpec == Private!Spec
=============================================================================
