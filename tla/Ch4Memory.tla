------------------------------ MODULE Ch4Memory ------------------------------
(***************************************************************************)
(* The whole of chapter 4: the process list of Ch4Kernel and the address   *)
(* spaces of its processes (UserMemory, whose operations chapters 4 and 5  *)
(* share line for line).  Every program of the image has its pages before  *)
(* the first one runs, and the frames of those that ended are not used     *)
(* again.  The programs are the memory tests of os/tg-user/src/bin, as     *)
(* sequences of instructions, or programs that make other calls in any     *)
(* order.                                                                  *)
(***************************************************************************)
EXTENDS Ch4Kernel, Scripts, FiniteSets

CONSTANTS
    Builds,      \* the images of an instance: a program for each of App
    PageCount, FrameCount, PAGE_SIZE, NoProt, NoPage,  \* see UserMemory
    SleepRounds  \* bound: how often a sleep looks at the clock

VARIABLES
    image,       \* image[a]: the program linked as a; never changes
    pos,         \* the next instruction of each
    origin_brk,  \* the variable of this name in sbrk.rs
    broken,      \* programs with a failed assertion or an unexpected fault
    alive, pages, heap_bottom, program_brk, mem, next_frame, halted, holes

memoryVars ==
    <<alive, pages, heap_bottom, program_brk, mem, next_frame, halted, holes>>

allVars == <<vars, image, pos, origin_brk, broken, memoryVars>>

(* Bytes the tests store: 111, 22 and 33 of ch4_trace, and of any other.   *)
Byte == {"111", "22", "33", "byte"}

ElfEnd == PAGE_SIZE

Memory ==
    INSTANCE UserMemory WITH
        MaxProc <- Apps, ElfEnds <- {ElfEnd}, Sizes <- {}, Lengths <- {},
        Prots <- {}, Data <- Byte, MaxSpan <- 0

(* A byte as trace answers it; those of the text and of a loop of stores   *)
(* stand for any.                                                          *)
Number(x) ==
    CASE x = "111" -> 111 [] x = "22" -> 22 [] x = "33" -> 33
      [] x = "zero" -> 0 [] OTHER -> 255

-----------------------------------------------------------------------------
(*                  The memory tests (os/tg-user/src/bin)                  *)

RW == {"R", "W"}

(* start (0x10000000), with free pages around it; an address of the kernel *)
(* and isize::MAX, which no page of a user address space covers.           *)
StartPage == PageCount - 6
start == StartPage * PAGE_SIZE
len == PAGE_SIZE
KernelAddress == (PageCount - 2) * PAGE_SIZE
isize_MAX == PageCount * PAGE_SIZE

TextAddress == 0
VarPage == Memory!StackPage
var == VarPage * PAGE_SIZE

Expect(answers) == <<"expect", answers>>

(* Stores and loads of every byte of the pages first..last.                *)
StoreAll(first, last) ==
    ForEach((last + 1 - first) * PAGE_SIZE,
            LAMBDA i : <<<<"store", first + (i - 1) \div PAGE_SIZE, "byte">>>>)

LoadAll(first, last) ==
    ForEach((last + 1 - first) * PAGE_SIZE,
            LAMBDA i : <<<<"load", first + (i - 1) \div PAGE_SIZE, {"byte"}>>>>)

ch4_mmap ==
    << <<"mmap", start, len, RW>>, Expect({0}) >>
    \o StoreAll(StartPage, StartPage) \o LoadAll(StartPage, StartPage)
    \o << Exit(0) >>

(* The store kills the test.                                               *)
ch4_mmap1 ==
    << <<"mmap", start, len, {"R"}>>, Expect({0}),
       <<"store", StartPage, "byte">>, <<"fail">> >>

ch4_mmap2 ==
    << <<"mmap", start, len, {"W"}>>, Expect({0}),
       <<"load", StartPage, Memory!Value>>, <<"fail">> >>

ch4_mmap3 ==
    << <<"mmap", start, len, RW>>, Expect({0}),
       <<"mmap", start - len, len + 1, RW>>, Expect({-1}),
       <<"mmap", start + len + 1, len, RW>>, Expect({-1}),
       <<"mmap", start + len, len, {}>>, Expect({-1}),
       <<"mmap", start + len, len, NoProt>>, Expect({-1}),
       Exit(0) >>

ch4_unmap ==
    << <<"mmap", start, len, RW>>, Expect({0}),
       <<"mmap", start + len, len * 2, RW>>, Expect({0}),
       <<"munmap", start, len>>, Expect({0}),
       <<"mmap", start - len, len + 1, RW>>, Expect({0}) >>
    \o StoreAll(StartPage - 1, StartPage + 2) \o LoadAll(StartPage - 1, StartPage + 2)
    \o << Exit(0) >>

ch4_unmap2 ==
    << <<"mmap", start, len, RW>>, Expect({0}),
       <<"munmap", start, len + 1>>, Expect({-1}),
       <<"munmap", start + 1, len - 1>>, Expect({-1}),
       Exit(0) >>

(* trace_read of lib.rs makes None of -1, and Some of a byte.              *)
ReadNone(addr) == << <<"trace_read", addr>>, Expect({-1}) >>
ReadSome(addr) == << <<"trace_read", addr>>, Expect(0..255) >>
WriteFails(addr) == << <<"trace_write", addr, "byte">>, Expect({-1}) >>

ch4_trace ==
    << <<"store", VarPage, "111">>, <<"trace_read", var>>, Expect({111}),
       <<"store", VarPage, "22">>, <<"trace_read", var>>, Expect({22}),
       <<"trace_write", var, "33">>, Expect({0}) >>
    \o ReadNone(isize_MAX) \o WriteFails(isize_MAX)
    \o ReadNone(KernelAddress) \o WriteFails(KernelAddress)
    \o << <<"mmap", start, len, {"R"}>>, Expect({0}) >>
    \o ReadSome(start) \o WriteFails(start)
    \o << <<"munmap", start, len>>, Expect({0}) >>
    \o ReadNone(start) \o WriteFails(start)
    \o << Exit(0) >>

(* The page at origin_brk is written while it is there, and after it is    *)
(* gone, which kills the test.                                             *)
StoreNewPage == Times(PAGE_SIZE, << <<"store_new", "byte">> >>)

sbrk_test ==
    << <<"sbrk", 0>>, <<"origin">>,
       <<"sbrk", PAGE_SIZE>>, <<"same">>, <<"sbrk", 0>> >>
    \o StoreNewPage
    \o << <<"sbrk", PAGE_SIZE * 10>>, <<"sbrk", 0>>,
          <<"sbrk", PAGE_SIZE * (-11)>>, <<"sbrk", 0>>,
          <<"sbrk", PAGE_SIZE * (-1)>>, Expect({-1}),
          <<"store_new", "byte">>, <<"fail">> >>

(* sleep and get_time of lib.rs.                                           *)
get_time == << <<"call", "clock_gettime">> >>

sleep ==
    get_time
    \o Times(SleepRounds, get_time \o << <<"call", "sched_yield">> >>)
    \o get_time

count_syscall(id, answers) == << <<"trace_query", id>>, Expect(answers) >>

Calls == 0 .. 2 * SleepRounds + 100   \* more than any test makes

(* println! makes two calls of write; main is in the text of the program.  *)
ch3_trace ==
    get_time \o get_time \o sleep \o get_time \o get_time
    \o count_syscall("clock_gettime", {n \in Calls : 3 <= n})
    \o count_syscall("trace", {2})
    \o count_syscall("write", {0})
    \o count_syscall("sched_yield", {n \in Calls : 0 < n})
    \o count_syscall("exit", {0})
    \o Times(2, << <<"call", "write">> >>)
    \o get_time \o get_time
    \o count_syscall("clock_gettime", {n \in Calls : 5 <= n})
    \o count_syscall("trace", {7})
    \o count_syscall("write", {2})
    \o count_syscall("sched_yield", {n \in Calls : 0 < n})
    \o count_syscall("exit", {0})
    \o << <<"store", VarPage, "111">>, <<"trace_read", var>>, Expect({111}),
          <<"trace_write", var, "byte">>, <<"load", VarPage, {"byte"}>> >>
    \o ReadSome(TextAddress) \o << Exit(0) >>

(* "any" is a program that only makes calls that leave memory alone.       *)
script ==
    [ch4_mmap |-> ch4_mmap, ch4_mmap1 |-> ch4_mmap1, ch4_mmap2 |-> ch4_mmap2,
     ch4_mmap3 |-> ch4_mmap3, ch4_unmap |-> ch4_unmap, ch4_unmap2 |-> ch4_unmap2,
     ch4_trace |-> ch4_trace, sbrk |-> sbrk_test, ch3_trace |-> ch3_trace,
     any |-> <<>>]

(* The pages the tests name lie in the window, and one program at least    *)
(* fits in the kernel heap, as in UserMemory.                              *)
ASSUME Ch4MemoryAssumption ==
    /\ Builds \subseteq [App -> DOMAIN script]
    /\ SleepRounds \in Nat \ {0}
    /\ PageCount \in Nat /\ PageCount >= 7
    /\ FrameCount \in Nat /\ FrameCount >= 2
    /\ PAGE_SIZE \in Nat \ {0}
    /\ NoPage \notin Memory!MappedPage \cup Memory!Value

(* What the tests take for granted: an address between two pages, a free   *)
(* page below start, bits beyond those of a right, and counters for the    *)
(* calls ch3_trace asks about.                                             *)
ASSUME TestsAssumption ==
    /\ PAGE_SIZE >= 2
    /\ PageCount >= 8
    /\ \A prot \in SUBSET {"R", "W", "X"} : prot # NoProt
    /\ {"trace", "write", "clock_gettime", "sched_yield", "exit"} \subseteq CountedIds

-----------------------------------------------------------------------------
(*                          Boot and process list                          *)

Init4 ==
    /\ Init
    /\ image \in Builds
    /\ pos = [a \in App |-> 1]
    /\ origin_brk = [a \in App |-> 0]
    /\ broken = {}
    /\ alive = {}
    /\ pages = [p \in Memory!Proc |-> Memory!Unmapped]
    /\ heap_bottom = [p \in Memory!Proc |-> 0]
    /\ program_brk = heap_bottom
    /\ mem = [f \in Memory!Frame |-> "zero"]
    /\ next_frame = 0
    /\ halted = Memory!NotHalted
    /\ holes = [p \in Memory!Proc |-> {}]

programVars == <<image, pos, origin_brk, broken>>

(* Process::new gives an accepted program its pages.                       *)
LoadProgram ==
    /\ Load
    /\ IF loading \in accepted THEN Memory!from_elf(loading, ElfEnd)
       ELSE UNCHANGED memoryVars
    /\ UNCHANGED programVars

(* The list and the memory know a process no more.                         *)
Leave ==
    /\ Drop
    /\ Memory!End(Current)
    /\ UNCHANGED <<image, pos, origin_brk>>

AnyProgram ==
    /\ Running
    /\ image[Current] = "any"
    /\ AnyCall
    /\ IF PROCESSES' = PROCESSES THEN UNCHANGED memoryVars ELSE Memory!End(Current)
    /\ UNCHANGED programVars

-----------------------------------------------------------------------------
(*                    Instructions of the memory tests                     *)

Instruction == script[image[Current]][pos[Current]]

Performs(ops) ==
    /\ Running
    /\ image[Current] # "any"
    /\ Instruction[1] \in ops

Advance ==
    /\ pos' = [pos EXCEPT ![Current] = @ + 1]
    /\ UNCHANGED <<image, broken>>

answer == ctx[Current].a0

call ==
    /\ Performs({"call"})
    /\ IF Instruction[2] = "sched_yield" THEN sched_yield ELSE other_call(Instruction[2])
    /\ Advance
    /\ UNCHANGED <<origin_brk, memoryVars>>

query ==
    /\ Performs({"trace_query"})
    /\ trace_query(Instruction[2])
    /\ Advance
    /\ UNCHANGED <<origin_brk, memoryVars>>

MemoryCall(ret) ==
    /\ Called("memory")
    /\ Return(ret)
    /\ Advance
    /\ UNCHANGED origin_brk

mmap ==
    /\ Performs({"mmap"})
    /\ LET addr == Instruction[2]
           length == Instruction[3]
           prot == Instruction[4]
       IN \/ /\ Memory!BadMapping(Current, addr, length, prot)
             /\ UNCHANGED memoryVars
             /\ MemoryCall(-1)
          \/ /\ ~Memory!BadMapping(Current, addr, length, prot)
             /\ Memory!mmap(Current, addr, length, prot)
             /\ MemoryCall(0)

munmap ==
    /\ Performs({"munmap"})
    /\ \/ Memory!munmap_refused(Current, Instruction[2], Instruction[3]) /\ MemoryCall(-1)
       \/ Memory!munmap(Current, Instruction[2], Instruction[3]) /\ MemoryCall(0)

(* The answer is the old break.                                            *)
sbrk ==
    /\ Performs({"sbrk"})
    /\ \/ Memory!sbrk_refused(Current, Instruction[2]) /\ MemoryCall(-1)
       \/ /\ \/ Memory!sbrk_grow(Current, Instruction[2])
             \/ Memory!sbrk_shrink(Current, Instruction[2])
          /\ MemoryCall(program_brk[Current])

PageOf(addr) == Memory!Floor(addr)

Traced(ret) ==
    /\ Called("trace")
    /\ Return(ret)
    /\ Advance
    /\ UNCHANGED origin_brk

(* trace(0).                                                               *)
trace_read ==
    /\ Performs({"trace_read"})
    /\ LET v == PageOf(Instruction[2])
       IN Traced(IF Memory!Readable(Current, v)
                 THEN Number(mem[pages[Current][v].frame]) ELSE -1)
    /\ UNCHANGED memoryVars

(* trace(1).                                                               *)
trace_write ==
    /\ Performs({"trace_write"})
    /\ LET v == PageOf(Instruction[2])
       IN IF Memory!Writable(Current, v)
          THEN Memory!Stored(Current, v, Instruction[3]) /\ Traced(0)
          ELSE UNCHANGED memoryVars /\ Traced(-1)

-----------------------------------------------------------------------------
(*                 Loads, stores and what they may lead to                 *)

(* A claim of the test: when it fails, the test is over (a panic, or a     *)
(* return of -1).                                                          *)
AdvanceOrPanic(claim) ==
    IF claim
    THEN Advance /\ UNCHANGED <<vars, origin_brk, memoryVars>>
    ELSE Leave /\ broken' = broken \cup {Current}

(* "same": sbrk answered the same break as the first time.  "fail" is a    *)
(* line the test must not reach.                                           *)
expect ==
    /\ Performs({"expect", "same", "fail"})
    /\ AdvanceOrPanic(
           CASE Instruction[1] = "expect" -> answer \in Instruction[2]
             [] Instruction[1] = "same" -> answer = origin_brk[Current]
             [] Instruction[1] = "fail" -> FALSE)

(* The page an instruction loads from or stores to.                        *)
Target ==
    IF Instruction[1] = "store_new" THEN PageOf(origin_brk[Current])
    ELSE Instruction[2]

load ==
    /\ Performs({"load"})
    /\ Memory!Readable(Current, Target)
    /\ AdvanceOrPanic(mem[pages[Current][Target].frame] \in Instruction[3])

store ==
    /\ Performs({"store", "store_new"})
    /\ Memory!Writable(Current, Target)
    /\ Memory!Stored(Current, Target, Instruction[Len(Instruction)])
    /\ Advance
    /\ UNCHANGED <<vars, origin_brk>>

(* A page fault, for which the kernel drops the process: what the test     *)
(* means to happen when only "fail" would come next.                       *)
fault ==
    /\ Performs({"load", "store", "store_new"})
    /\ IF Instruction[1] = "load" THEN ~Memory!Readable(Current, Target)
       ELSE ~Memory!Writable(Current, Target)
    /\ Leave
    /\ broken' = IF script[image[Current]][pos[Current] + 1] = <<"fail">> THEN broken
                 ELSE broken \cup {Current}

keep_origin ==
    /\ Performs({"origin"})
    /\ origin_brk' = [origin_brk EXCEPT ![Current] = answer]
    /\ Advance
    /\ UNCHANGED <<vars, memoryVars>>

exit ==
    /\ Performs({"exit"})
    /\ Leave
    /\ UNCHANGED broken

Step ==
    \/ call \/ query \/ mmap \/ munmap \/ sbrk \/ trace_read \/ trace_write
    \/ expect \/ load \/ store \/ fault \/ keep_origin \/ exit

Other(A) == A /\ UNCHANGED <<programVars, memoryVars>>

Next4 == LoadProgram \/ Other(Start) \/ AnyProgram \/ Step \/ Other(ShutDown) \/ Other(Stopped)

Spec4 == Init4 /\ [][Next4]_allVars

-----------------------------------------------------------------------------
(*                             Properties                                  *)

Types ==
    /\ TypeOK
    /\ Memory!TypeOK
    /\ image \in Builds
    /\ \A a \in App : pos[a] \in 1 .. Len(script[image[a]]) + 1
    /\ origin_brk \in [App -> 0 .. PageCount * PAGE_SIZE]

(* Every test sees the answers and the bytes it asserts, and is killed     *)
(* where it is meant to be, whatever ran before it on the same frames.     *)
MemoryTestsPass == broken = {}

(* A process that waits in the list has the memory it was loaded with:     *)
(* text, stack and an empty heap, whatever the processes before it mapped, *)
(* unmapped or stored.                                                     *)
WaitingAsLoaded ==
    \A k \in DOMAIN PROCESSES :
        k > 1 =>
            LET p == PROCESSES[k]
            IN /\ Memory!viewBar[p] \in Memory!Images
               /\ program_brk[p] = heap_bottom[p]
=============================================================================
