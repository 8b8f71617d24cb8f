--------------------------- MODULE Ch4Memory_proofs ---------------------------
(***************************************************************************)
(* Proofs about chapter 4: the programs of Ch4Memory (what they are made   *)
(* of, and that each ends with an instruction that ends the process,       *)
(* whatever their loops are unrolled to), the process list, and what the   *)
(* composition with UserMemory keeps, for any number of programs and any   *)
(* image. Then that every memory test passes: what each instruction and    *)
(* each call does to the program at the head, what the program has at each *)
(* line of its test, and that programs that wait are left alone.           *)
(***************************************************************************)
EXTENDS Ch4Memory, SequenceFacts

-----------------------------------------------------------------------------
(*                        Loops whose rounds are alike                     *)

LEMMA TimesTyped ==
    ASSUME NEW S, NEW n \in Nat, NEW s \in Seq(S)
    PROVE  Times(n, s) \in Seq(S)
<1>1. [i \in 1..n |-> s] \in [1..n -> Seq(S)]
  OBVIOUS
<1>2. QED
  BY <1>1, FlattenTyped DEF Times

-----------------------------------------------------------------------------
(*                      The instructions of the tests                      *)

(* A prot of the tests: bits of the three, or others.                      *)
Rights == (SUBSET {"R", "W", "X"}) \cup {NoProt}

(* The instructions of the tests, apart from "origin".                     *)
MemoryCalls ==
    {<<"mmap", addr, length, prot>> :
        addr \in Memory!Address, length \in Nat, prot \in Rights}
    \cup {<<"munmap", addr, length>> : addr \in Memory!Address, length \in Nat}
    \cup {<<"sbrk", size>> : size \in Int}

Accesses ==
    {<<"store", v, x>> : v \in Int, x \in Byte}
    \cup {<<"store_new", x>> : x \in Byte}
    \cup {<<"load", v, values>> : v \in Int, values \in SUBSET Memory!Value}
    \cup {<<"trace_write", addr, x>> : addr \in Int, x \in Byte}
    \cup {<<"trace_read", addr>> : addr \in Int}

OtherInstructions ==
    {<<"call", id>> : id \in Ids} \cup {<<"trace_query", id>> : id \in Ids}
    \cup {<<"expect", answers>> : answers \in SUBSET Int}
    \cup {<<"exit", c>> : c \in Int}
    \cup {<<"same">>, <<"fail">>}

Instructions == MemoryCalls \cup Accesses \cup OtherInstructions

LEMMA Geometry ==
    /\ PAGE_SIZE \in Nat \ {0} /\ PageCount \in Nat /\ PageCount >= 7
    /\ StartPage \in Nat /\ len = PAGE_SIZE /\ TextAddress = 0
    /\ start \in Memory!Address /\ start - len \in Memory!Address
    /\ start + len \in Memory!Address
    /\ start + 1 \in Memory!Address /\ start + len + 1 \in Memory!Address
    /\ KernelAddress \in Int /\ isize_MAX \in Int /\ var \in Int /\ VarPage \in Int
<1>1. PAGE_SIZE \in Nat \ {0} /\ PageCount \in Nat /\ PageCount >= 7
  BY Ch4MemoryAssumption
<1>2. StartPage \in Nat /\ len = PAGE_SIZE /\ VarPage \in Int /\ TextAddress = 0
  BY <1>1 DEF StartPage, len, VarPage, Memory!StackPage, TextAddress
<1> DEFINE P == PAGE_SIZE
           n == PageCount
<1>3. (n - 6) * P = (n - 7) * P + P /\ (n - 7) * P \in Nat
  BY <1>1, Z3
<1>4. n * P = (n - 6) * P + 6 * P /\ n * P \in Int /\ (n - 2) * P \in Int /\ (n - 6) * P \in Int
      /\ (n - 1) * P \in Int
  BY <1>1, Z3
<1> DEFINE a == (n - 6) * P
           b == (n - 7) * P
           c == n * P
<1>5. /\ start = a /\ Memory!Address = 0 .. c - 1
      /\ a = b + P /\ b \in Nat /\ c = a + 6 * P /\ P \in Nat \ {0}
      /\ KernelAddress = (n - 2) * P /\ isize_MAX = c /\ var = (n - 1) * P
  BY <1>1, <1>3, <1>4 DEF start, StartPage, Memory!Address, KernelAddress, isize_MAX, var,
       VarPage, Memory!StackPage
<1> HIDE DEF a, b, c
<1>6. a \in Nat /\ c \in Nat /\ a + P + 1 <= c - 1
  BY <1>5
<1>7. /\ a \in 0 .. c - 1 /\ a - P \in 0 .. c - 1 /\ a + P \in 0 .. c - 1
      /\ a + 1 \in 0 .. c - 1 /\ a + P + 1 \in 0 .. c - 1
  BY <1>5, <1>6
<1>8. QED
  BY <1>1, <1>2, <1>4, <1>5, <1>6, <1>7

(* Instructions one by one.                                                *)
LEMMA MemoryInstructions ==
    /\ \A addr \in Memory!Address, length \in Nat :
          /\ \A prot \in Rights : <<"mmap", addr, length, prot>> \in Instructions
          /\ <<"munmap", addr, length>> \in Instructions
    /\ \A size \in Int : <<"sbrk", size>> \in Instructions
BY DEF Instructions, MemoryCalls

LEMMA AccessInstructions ==
    \A n \in Int :
       /\ <<"trace_read", n>> \in Instructions
       /\ \A x \in Byte : /\ <<"store", n, x>> \in Instructions
                          /\ <<"store_new", x>> \in Instructions
                          /\ <<"trace_write", n, x>> \in Instructions
       /\ \A values \in SUBSET Memory!Value : <<"load", n, values>> \in Instructions
BY DEF Instructions, Accesses

LEMMA OtherInstructionFacts ==
    /\ \A id \in Ids : <<"call", id>> \in Instructions /\ <<"trace_query", id>> \in Instructions
    /\ \A answers \in SUBSET Int : Expect(answers) \in Instructions
    /\ \A c \in Int : Exit(c) \in Instructions
    /\ <<"same">> \in Instructions /\ <<"fail">> \in Instructions
BY DEF Instructions, OtherInstructions, Expect, Exit

(* What a reader of an instruction may rely on.                            *)
LEMMA InstructionFacts ==
    ASSUME NEW i \in Instructions
    PROVE  /\ i[1] = "mmap" => /\ i[2] \in Memory!Address /\ i[3] \in Nat
                               /\ i[4] \in Rights
           /\ i[1] = "munmap" => i[2] \in Memory!Address /\ i[3] \in Nat
           /\ i[1] = "sbrk" => i[2] \in Int
           /\ i[1] \in {"store", "store_new"} => i[Len(i)] \in Byte
           /\ i[1] = "trace_write" => i[3] \in Byte
           /\ i[1] # "origin"
<1>1. CASE i \in MemoryCalls
  <2>1. CASE i \in {<<"mmap", addr, length, prot>> :
                       addr \in Memory!Address, length \in Nat, prot \in Rights}
    BY <2>1
  <2>2. CASE i \in {<<"munmap", addr, length>> : addr \in Memory!Address, length \in Nat}
    BY <2>2
  <2>3. CASE i \in {<<"sbrk", size>> : size \in Int}
    BY <2>3
  <2>4. QED
    BY <1>1, <2>1, <2>2, <2>3 DEF MemoryCalls
<1>2. CASE i \in Accesses
  <2>1. CASE i \in {<<"store", v, x>> : v \in Int, x \in Byte}
    BY <2>1
  <2>2. CASE i \in {<<"store_new", x>> : x \in Byte}
    BY <2>2
  <2>3. CASE i \in {<<"load", v, values>> : v \in Int, values \in SUBSET Memory!Value}
    BY <2>3
  <2>4. CASE i \in {<<"trace_write", addr, x>> : addr \in Int, x \in Byte}
    BY <2>4
  <2>5. CASE i \in {<<"trace_read", addr>> : addr \in Int}
    BY <2>5
  <2>6. QED
    BY <1>2, <2>1, <2>2, <2>3, <2>4, <2>5 DEF Accesses
<1>3. CASE i \in OtherInstructions
  BY <1>3 DEF OtherInstructions
<1>4. QED
  BY <1>1, <1>2, <1>3 DEF Instructions

LEMMA StoreAllTyped ==
    ASSUME NEW first \in Int, NEW last \in Int, first <= last + 1
    PROVE  StoreAll(first, last) \in Seq(Instructions) /\ LoadAll(first, last) \in Seq(Instructions)
<1> DEFINE n == (last + 1 - first) * PAGE_SIZE
           page(i) == first + (i - 1) \div PAGE_SIZE
<1>1. n \in Nat
  <2>1. last + 1 - first \in Nat
    OBVIOUS
  <2> DEFINE k == last + 1 - first
  <2> HIDE DEF k
  <2>2. k \in Nat => k * PAGE_SIZE \in Nat
    BY Geometry, Z3
  <2>3. QED
    BY <2>1, <2>2 DEF k
<1>2. \A i \in 1..n : page(i) \in Int
  BY Geometry
<1> HIDE DEF n, page
<1>3. "byte" \in Byte /\ {"byte"} \in SUBSET Memory!Value
  BY DEF Byte, Memory!Value
<1>4. \A i \in 1..n : /\ <<<<"store", page(i), "byte">>>> \in Seq(Instructions)
                      /\ <<<<"load", page(i), {"byte"}>>>> \in Seq(Instructions)
  <2>1. \A i \in 1..n : /\ <<"store", page(i), "byte">> \in Instructions
                        /\ <<"load", page(i), {"byte"}>> \in Instructions
    BY <1>2, <1>3, AccessInstructions
  <2>2. \A x \in Instructions : <<x>> \in Seq(Instructions)
    OBVIOUS
  <2>3. QED
    BY <2>1, <2>2
<1>5. /\ [i \in 1..n |-> <<<<"store", page(i), "byte">>>>] \in [1..n -> Seq(Instructions)]
      /\ [i \in 1..n |-> <<<<"load", page(i), {"byte"}>>>>] \in [1..n -> Seq(Instructions)]
  BY <1>4
<1>6. /\ StoreAll(first, last) = FlattenSeq([i \in 1..n |-> <<<<"store", page(i), "byte">>>>])
      /\ LoadAll(first, last) = FlattenSeq([i \in 1..n |-> <<<<"load", page(i), {"byte"}>>>>])
  BY DEF StoreAll, LoadAll, ForEach, n, page
<1>7. QED
  BY <1>1, <1>5, <1>6, FlattenTyped

-----------------------------------------------------------------------------
(*                                The tests                                *)

LEMMA SequencesOfInstructions ==
    ASSUME NEW a \in Instructions, NEW b \in Instructions, NEW c \in Instructions,
           NEW d \in Instructions
    PROVE  /\ <<a>> \in Seq(Instructions) /\ <<a, b>> \in Seq(Instructions)
           /\ <<a, b, c>> \in Seq(Instructions) /\ <<a, b, c, d>> \in Seq(Instructions)
OBVIOUS

(* The last instruction ends the process, whatever happens before.         *)
Ends(s) == Len(s) > 0 /\ s[Len(s)][1] \in {"exit", "fail"}

LEMMA ConcatEnds ==
    ASSUME NEW S, NEW s \in Seq(S), NEW t \in Seq(S), Ends(t)
    PROVE  Ends(s \o t)
<1>1. /\ Len(s) \in Nat /\ Len(t) \in Nat /\ Len(s \o t) = Len(s) + Len(t)
      /\ \A i \in 1..Len(s) + Len(t) : (s \o t)[i] = IF i <= Len(s) THEN s[i] ELSE t[i - Len(s)]
  BY ConcatProperties, LenProperties
<1> DEFINE n == Len(s) + Len(t)
<1>2. n \in 1..n /\ ~(n <= Len(s)) /\ n - Len(s) = Len(t)
  BY <1>1 DEF Ends
<1>3. (s \o t)[n] = t[Len(t)]
  BY <1>1, <1>2
<1>4. QED
  BY <1>1, <1>2, <1>3 DEF Ends

(* Every "origin" comes right after the sbrk(0) whose answer it keeps.     *)
Text(s) ==
    /\ s \in Seq(Instructions \cup {<<"origin">>})
    /\ \A i \in 1..Len(s) : s[i][1] = "origin" => i > 1 /\ s[i - 1] = <<"sbrk", 0>>

LEMMA PlainText ==
    ASSUME NEW s \in Seq(Instructions)
    PROVE  Text(s)
<1>1. \A i \in 1..Len(s) : s[i] \in Instructions
  BY ElementOfSeq
<1>2. \A i \in 1..Len(s) : s[i][1] # "origin"
  BY <1>1, InstructionFacts
<1>3. s \in Seq(Instructions \cup {<<"origin">>})
  BY <1>1
<1>4. QED
  BY <1>2, <1>3 DEF Text

LEMMA ConcatText ==
    ASSUME NEW s, Text(s), NEW t \in Seq(Instructions)
    PROVE  Text(s \o t)
<1> DEFINE S == Instructions \cup {<<"origin">>}
<1>1. Text(t)
  BY PlainText
<1>2. s \in Seq(S) /\ t \in Seq(S)
  BY <1>1 DEF Text
<1> HIDE DEF S
<1>3. /\ Len(s) \in Nat /\ Len(t) \in Nat /\ s \o t \in Seq(S)
      /\ Len(s \o t) = Len(s) + Len(t)
      /\ \A i \in 1..Len(s) + Len(t) : (s \o t)[i] = IF i <= Len(s) THEN s[i] ELSE t[i - Len(s)]
  BY <1>2, ConcatProperties, LenProperties
<1>4. ASSUME NEW i \in 1..Len(s) + Len(t), (s \o t)[i][1] = "origin"
      PROVE  i > 1 /\ (s \o t)[i - 1] = <<"sbrk", 0>>
  <2>1. CASE i <= Len(s)
    <3>1. i \in 1..Len(s) /\ s[i][1] = "origin"
      BY <1>3, <1>4, <2>1
    <3>2. i > 1 /\ s[i - 1] = <<"sbrk", 0>>
      BY <3>1 DEF Text
    <3>3. i - 1 \in 1..Len(s) + Len(t) /\ i - 1 <= Len(s)
      BY <1>3, <3>1, <3>2
    <3>4. QED
      BY <1>3, <3>2, <3>3
  <2>2. CASE ~(i <= Len(s))
    <3>1. i - Len(s) \in 1..Len(t) /\ t[i - Len(s)][1] = "origin"
      BY <1>3, <1>4, <2>2
    <3>2. t[i - Len(s)] \in Instructions
      BY <3>1, ElementOfSeq
    <3>3. QED
      BY <3>1, <3>2, InstructionFacts
  <2>3. QED
    BY <2>1, <2>2
<1>5. QED
  BY <1>3, <1>4 DEF Text, S

(* A script all of whose instructions say what they mean by themselves.    *)
Plain(s) == s \in Seq(Instructions) /\ Ends(s)

LEMMA PlainConcat ==
    ASSUME NEW s \in Seq(Instructions), NEW t, Plain(t)
    PROVE  Plain(s \o t)
BY ConcatEnds, ConcatProperties DEF Plain

LEMMA ExitPlain == Plain(<< Exit(0) >>)
<1>1. Exit(0) \in Instructions
  BY OtherInstructionFacts DEF Ids, Supported
<1>2. <<Exit(0)>> \in Seq(Instructions)
  BY <1>1
<1>3. QED
  BY <1>2 DEF Plain, Ends, Exit

LEMMA RightsFacts ==
    RW \in Rights /\ {"R"} \in Rights /\ {"W"} \in Rights /\ {} \in Rights /\ NoProt \in Rights
BY DEF RW, Rights

LEMMA ExpectFacts ==
    /\ Expect({0}) \in Instructions /\ Expect({-1}) \in Instructions
    /\ Expect({111}) \in Instructions /\ Expect({22}) \in Instructions
    /\ Expect(0..255) \in Instructions /\ <<"fail">> \in Instructions
    /\ <<"same">> \in Instructions
<1>1. /\ {0} \in SUBSET Int /\ {-1} \in SUBSET Int /\ {111} \in SUBSET Int
      /\ {22} \in SUBSET Int /\ 0..255 \in SUBSET Int /\ "write" \in Ids /\ 0 \in Int
  BY DEF Ids, Supported
<1>2. QED
  BY <1>1, OtherInstructionFacts

LEMMA ScriptMmap == Plain(ch4_mmap)
<1> DEFINE head == << <<"mmap", start, len, RW>>, Expect({0}) >>
<1>1. <<"mmap", start, len, RW>> \in Instructions
  BY Geometry, RightsFacts, MemoryInstructions
<1>2. head \in Seq(Instructions)
  BY <1>1, ExpectFacts
<1>3. /\ StoreAll(StartPage, StartPage) \in Seq(Instructions)
      /\ LoadAll(StartPage, StartPage) \in Seq(Instructions)
  <2>1. StartPage \in Int /\ StartPage <= StartPage + 1
    BY Geometry
  <2>2. QED
    BY <2>1, StoreAllTyped
<1> HIDE DEF head
<1>4. /\ head \o StoreAll(StartPage, StartPage) \in Seq(Instructions)
      /\ head \o StoreAll(StartPage, StartPage) \o LoadAll(StartPage, StartPage) \in Seq(Instructions)
  BY <1>2, <1>3, ConcatProperties
<1>5. QED
  BY <1>4, ExitPlain, PlainConcat DEF ch4_mmap, head

(* The mappings several tests make.                                        *)
LEMMA MappingFacts ==
    /\ \A prot \in Rights : /\ <<"mmap", start, len, prot>> \in Instructions
                            /\ <<"mmap", start - len, len + 1, prot>> \in Instructions
                            /\ <<"mmap", start + len, len, prot>> \in Instructions
                            /\ <<"mmap", start + len, len * 2, prot>> \in Instructions
                            /\ <<"mmap", start + len + 1, len, prot>> \in Instructions
    /\ <<"munmap", start, len>> \in Instructions
    /\ <<"munmap", start, len + 1>> \in Instructions
    /\ <<"munmap", start + 1, len - 1>> \in Instructions
<1>1. /\ len \in Nat /\ len + 1 \in Nat /\ len - 1 \in Nat /\ len * 2 \in Nat
  BY Geometry
<1>2. QED
  BY <1>1, Geometry, MemoryInstructions

LEMMA AccessFacts ==
    /\ <<"store", StartPage, "byte">> \in Instructions
    /\ \A values \in SUBSET Memory!Value : <<"load", StartPage, values>> \in Instructions
    /\ \A x \in Byte : <<"store", VarPage, x>> \in Instructions
    /\ \A values \in SUBSET Memory!Value : <<"load", VarPage, values>> \in Instructions
    /\ \A x \in Byte : <<"trace_write", var, x>> \in Instructions
    /\ <<"trace_read", var>> \in Instructions
<1>1. StartPage \in Int /\ VarPage \in Int /\ var \in Int /\ "byte" \in Byte
  BY Geometry DEF Byte
<1>2. QED
  BY <1>1, AccessInstructions

LEMMA ScriptMmap1 == Plain(ch4_mmap1)
<1>1. ch4_mmap1 \in Seq(Instructions)
  BY MappingFacts, AccessFacts, RightsFacts, ExpectFacts, SequencesOfInstructions DEF ch4_mmap1
<1>2. Ends(ch4_mmap1)
  BY DEF ch4_mmap1, Ends
<1>3. QED
  BY <1>1, <1>2 DEF Plain

LEMMA ScriptMmap2 == Plain(ch4_mmap2)
<1>1. ch4_mmap2 \in Seq(Instructions)
  BY MappingFacts, AccessFacts, RightsFacts, ExpectFacts, SequencesOfInstructions DEF ch4_mmap2
<1>2. Ends(ch4_mmap2)
  BY DEF ch4_mmap2, Ends
<1>3. QED
  BY <1>1, <1>2 DEF Plain

LEMMA ScriptMmap3 == Plain(ch4_mmap3)
<1>1. Exit(0) \in Instructions
  BY OtherInstructionFacts
<1>2. /\ <<"mmap", start, len, RW>> \in Instructions
      /\ <<"mmap", start - len, len + 1, RW>> \in Instructions
      /\ <<"mmap", start + len + 1, len, RW>> \in Instructions
      /\ <<"mmap", start + len, len, {}>> \in Instructions
      /\ <<"mmap", start + len, len, NoProt>> \in Instructions
  BY MappingFacts, RightsFacts
<1>3. ch4_mmap3 \in Seq(Instructions)
  BY <1>1, <1>2, ExpectFacts DEF ch4_mmap3
<1>4. Ends(ch4_mmap3)
  BY DEF ch4_mmap3, Ends, Exit
<1>5. QED
  BY <1>3, <1>4 DEF Plain

LEMMA ScriptUnmap == Plain(ch4_unmap)
<1> DEFINE head == << <<"mmap", start, len, RW>>, Expect({0}),
                      <<"mmap", start + len, len * 2, RW>>, Expect({0}),
                      <<"munmap", start, len>>, Expect({0}),
                      <<"mmap", start - len, len + 1, RW>>, Expect({0}) >>
           stores == StoreAll(StartPage - 1, StartPage + 2)
           loads == LoadAll(StartPage - 1, StartPage + 2)
<1>1. head \in Seq(Instructions)
  <2>1. /\ <<"mmap", start, len, RW>> \in Instructions
        /\ <<"mmap", start + len, len * 2, RW>> \in Instructions
        /\ <<"munmap", start, len>> \in Instructions
        /\ <<"mmap", start - len, len + 1, RW>> \in Instructions
    BY MappingFacts, RightsFacts
  <2>2. QED
    BY <2>1, ExpectFacts
<1>2. stores \in Seq(Instructions) /\ loads \in Seq(Instructions)
  <2>1. /\ StartPage - 1 \in Int /\ StartPage + 2 \in Int
        /\ StartPage - 1 <= (StartPage + 2) + 1
    BY Geometry
  <2>2. QED
    BY <2>1, StoreAllTyped
<1>3. ch4_unmap = head \o stores \o loads \o << Exit(0) >>
  BY DEF ch4_unmap
<1> HIDE DEF head, stores, loads
<1>4. head \o stores \in Seq(Instructions)
  BY <1>1, <1>2, ConcatProperties
<1>5. head \o stores \o loads \in Seq(Instructions)
  BY <1>2, <1>4, ConcatProperties
<1>6. QED
  BY <1>3, <1>5, ExitPlain, PlainConcat

LEMMA ScriptUnmap2 == Plain(ch4_unmap2)
<1>1. Exit(0) \in Instructions
  BY OtherInstructionFacts
<1>2. /\ <<"mmap", start, len, RW>> \in Instructions
      /\ <<"munmap", start, len + 1>> \in Instructions
      /\ <<"munmap", start + 1, len - 1>> \in Instructions
  BY MappingFacts, RightsFacts
<1>3. ch4_unmap2 \in Seq(Instructions)
  BY <1>1, <1>2, ExpectFacts DEF ch4_unmap2
<1>4. Ends(ch4_unmap2)
  BY DEF ch4_unmap2, Ends, Exit
<1>5. QED
  BY <1>3, <1>4 DEF Plain

(* trace(0) and trace(1) of any address.                                   *)
LEMMA TraceTyped ==
    ASSUME NEW addr \in Int
    PROVE  /\ ReadNone(addr) \in Seq(Instructions) /\ ReadSome(addr) \in Seq(Instructions)
           /\ WriteFails(addr) \in Seq(Instructions)
<1>1. <<"trace_read", addr>> \in Instructions /\ <<"trace_write", addr, "byte">> \in Instructions
  BY AccessInstructions DEF Byte
<1>2. QED
  BY <1>1, ExpectFacts DEF ReadNone, ReadSome, WriteFails

LEMMA ScriptTrace == Plain(ch4_trace)
<1> DEFINE s1 == << <<"store", VarPage, "111">>, <<"trace_read", var>>, Expect({111}),
                    <<"store", VarPage, "22">>, <<"trace_read", var>>, Expect({22}),
                    <<"trace_write", var, "33">>, Expect({0}) >>
           s2 == << <<"mmap", start, len, {"R"}>>, Expect({0}) >>
           s3 == << <<"munmap", start, len>>, Expect({0}) >>
<1>1. "111" \in Byte /\ "22" \in Byte /\ "33" \in Byte
  BY DEF Byte
<1>2. s1 \in Seq(Instructions)
  BY <1>1, AccessFacts, ExpectFacts
<1>3. s2 \in Seq(Instructions) /\ s3 \in Seq(Instructions)
  <2>1. <<"mmap", start, len, {"R"}>> \in Instructions /\ <<"munmap", start, len>> \in Instructions
    BY MappingFacts, RightsFacts
  <2>2. QED
    BY <2>1, ExpectFacts
<1>4. /\ ReadNone(isize_MAX) \in Seq(Instructions) /\ WriteFails(isize_MAX) \in Seq(Instructions)
      /\ ReadNone(KernelAddress) \in Seq(Instructions) /\ WriteFails(KernelAddress) \in Seq(Instructions)
      /\ ReadSome(start) \in Seq(Instructions) /\ WriteFails(start) \in Seq(Instructions)
      /\ ReadNone(start) \in Seq(Instructions)
  <2>1. isize_MAX \in Int /\ KernelAddress \in Int /\ start \in Int
    BY Geometry DEF start, StartPage
  <2>2. QED
    BY <2>1, TraceTyped
<1>5. ch4_trace = s1 \o ReadNone(isize_MAX) \o WriteFails(isize_MAX)
                  \o ReadNone(KernelAddress) \o WriteFails(KernelAddress) \o s2
                  \o ReadSome(start) \o WriteFails(start) \o s3
                  \o ReadNone(start) \o WriteFails(start) \o << Exit(0) >>
  BY DEF ch4_trace
<1> HIDE DEF s1, s2, s3
<1>6. \A s, t \in Seq(Instructions) : s \o t \in Seq(Instructions)
  BY ConcatProperties
<1>7. s1 \o ReadNone(isize_MAX) \o WriteFails(isize_MAX)
         \o ReadNone(KernelAddress) \o WriteFails(KernelAddress) \o s2
         \o ReadSome(start) \o WriteFails(start) \o s3
         \o ReadNone(start) \o WriteFails(start) \in Seq(Instructions)
  BY <1>2, <1>3, <1>4, <1>6
<1>8. QED
  BY <1>5, <1>7, ExitPlain, PlainConcat

LEMMA CallFacts ==
    /\ \A id \in {"clock_gettime", "sched_yield", "write"} : << <<"call", id>> >> \in Seq(Instructions)
    /\ get_time \in Seq(Instructions)
<1>1. \A id \in {"clock_gettime", "sched_yield", "write"} : id \in Ids
  BY DEF Ids, Supported
<1>2. \A id \in {"clock_gettime", "sched_yield", "write"} : <<"call", id>> \in Instructions
  BY <1>1, OtherInstructionFacts
<1>3. QED
  BY <1>2 DEF get_time

LEMMA SleepTyped == sleep \in Seq(Instructions)
<1> DEFINE round == get_time \o << <<"call", "sched_yield">> >>
<1>1. \A s, t \in Seq(Instructions) : s \o t \in Seq(Instructions)
  BY ConcatProperties
<1>2. round \in Seq(Instructions)
  BY <1>1, CallFacts
<1>3. SleepRounds \in Nat
  BY Ch4MemoryAssumption
<1>4. Times(SleepRounds, round) \in Seq(Instructions)
  BY <1>2, <1>3, TimesTyped
<1>5. sleep = get_time \o Times(SleepRounds, round) \o get_time
  BY DEF sleep
<1> HIDE DEF round
<1>6. QED
  BY <1>1, <1>4, <1>5, CallFacts

LEMMA CountTyped ==
    ASSUME NEW id \in Ids, NEW answers \in SUBSET Int
    PROVE  count_syscall(id, answers) \in Seq(Instructions)
<1>1. <<"trace_query", id>> \in Instructions /\ Expect(answers) \in Instructions
  BY OtherInstructionFacts
<1>2. QED
  BY <1>1 DEF count_syscall

LEMMA ScriptCh3Trace == Plain(ch3_trace)
<1> DEFINE c1 == count_syscall("clock_gettime", {n \in Calls : 3 <= n})
           c2 == count_syscall("trace", {2})
           c3 == count_syscall("write", {0})
           c4 == count_syscall("sched_yield", {n \in Calls : 0 < n})
           c5 == count_syscall("exit", {0})
           w == Times(2, << <<"call", "write">> >>)
           d1 == count_syscall("clock_gettime", {n \in Calls : 5 <= n})
           d2 == count_syscall("trace", {7})
           d3 == count_syscall("write", {2})
           v == << <<"store", VarPage, "111">>, <<"trace_read", var>>, Expect({111}),
                   <<"trace_write", var, "byte">>, <<"load", VarPage, {"byte"}>> >>
<1>1. /\ c1 \in Seq(Instructions) /\ c2 \in Seq(Instructions) /\ c3 \in Seq(Instructions)
      /\ c4 \in Seq(Instructions) /\ c5 \in Seq(Instructions) /\ d1 \in Seq(Instructions)
      /\ d2 \in Seq(Instructions) /\ d3 \in Seq(Instructions)
  <2>1. /\ {n \in Calls : 3 <= n} \in SUBSET Int /\ {n \in Calls : 0 < n} \in SUBSET Int
        /\ {n \in Calls : 5 <= n} \in SUBSET Int
        /\ {2} \in SUBSET Int /\ {0} \in SUBSET Int /\ {7} \in SUBSET Int
    BY DEF Calls
  <2>2. /\ "clock_gettime" \in Ids /\ "trace" \in Ids /\ "write" \in Ids
        /\ "sched_yield" \in Ids /\ "exit" \in Ids
    BY DEF Ids, Supported
  <2>3. QED
    BY <2>1, <2>2, CountTyped
<1>2. w \in Seq(Instructions)
  <2>1. 2 \in Nat /\ << <<"call", "write">> >> \in Seq(Instructions)
    BY CallFacts
  <2>2. QED
    BY <2>1, TimesTyped
<1>3. v \in Seq(Instructions)
  <2>1. "111" \in Byte /\ "byte" \in Byte /\ {"byte"} \in SUBSET Memory!Value
    BY DEF Byte, Memory!Value
  <2>2. QED
    BY <2>1, AccessFacts, ExpectFacts
<1>4. ReadSome(TextAddress) \in Seq(Instructions)
  BY Geometry, TraceTyped
<1>5. ch3_trace =
         get_time \o get_time \o sleep \o get_time \o get_time
         \o c1 \o c2 \o c3 \o c4 \o c5 \o w \o get_time \o get_time
         \o d1 \o d2 \o d3 \o c4 \o c5 \o v \o ReadSome(TextAddress) \o << Exit(0) >>
  BY DEF ch3_trace
<1> HIDE DEF c1, c2, c3, c4, c5, w, d1, d2, d3, v
<1>6. \A s, t \in Seq(Instructions) : s \o t \in Seq(Instructions)
  BY ConcatProperties
<1> DEFINE one == get_time \o get_time \o sleep \o get_time \o get_time
           two == one \o c1 \o c2 \o c3 \o c4 \o c5 \o w \o get_time \o get_time
           three == two \o d1 \o d2 \o d3 \o c4 \o c5 \o v \o ReadSome(TextAddress)
<1>7. one \in Seq(Instructions)
  BY <1>6, CallFacts, SleepTyped
<1>8. ch3_trace = three \o << Exit(0) >>
  BY <1>5
<1> HIDE DEF one
<1>9. two \in Seq(Instructions)
  BY <1>1, <1>2, <1>6, <1>7, CallFacts
<1> HIDE DEF two
<1>10. three \in Seq(Instructions)
  BY <1>1, <1>3, <1>4, <1>6, <1>9
<1> HIDE DEF three
<1>11. QED
  BY <1>8, <1>10, ExitPlain, PlainConcat

LEMMA ScriptSbrk == Text(sbrk_test) /\ Ends(sbrk_test)
<1> DEFINE S == Instructions \cup {<<"origin">>}
           head == << <<"sbrk", 0>>, <<"origin">>,
                      <<"sbrk", PAGE_SIZE>>, <<"same">>, <<"sbrk", 0>> >>
           rest == << <<"sbrk", PAGE_SIZE * 10>>, <<"sbrk", 0>>,
                      <<"sbrk", PAGE_SIZE * (-11)>>, <<"sbrk", 0>>,
                      <<"sbrk", PAGE_SIZE * (-1)>>, Expect({-1}),
                      <<"store_new", "byte">>, <<"fail">> >>
<1>1. /\ <<"sbrk", 0>> \in Instructions /\ <<"sbrk", PAGE_SIZE>> \in Instructions
      /\ <<"sbrk", PAGE_SIZE * 10>> \in Instructions
      /\ <<"sbrk", PAGE_SIZE * (-11)>> \in Instructions
      /\ <<"sbrk", PAGE_SIZE * (-1)>> \in Instructions
  <2>1. /\ 0 \in Int /\ PAGE_SIZE \in Int /\ PAGE_SIZE * 10 \in Int /\ PAGE_SIZE * (-11) \in Int
        /\ PAGE_SIZE * (-1) \in Int
    BY Geometry
  <2>2. QED
    BY <2>1, MemoryInstructions
<1>2. <<"store_new", "byte">> \in Instructions
  <2>1. 0 \in Int /\ "byte" \in Byte
    BY DEF Byte
  <2>2. QED
    BY <2>1, AccessInstructions
<1>3. Text(head)
  <2>1. head \in Seq(S)
    BY <1>1, ExpectFacts
  <2>2. Len(head) = 5
    OBVIOUS
  <2>3. ASSUME NEW i \in 1..5, head[i][1] = "origin"
        PROVE  i > 1 /\ head[i - 1] = <<"sbrk", 0>>
    <3>1. i = 1 \/ i = 2 \/ i = 3 \/ i = 4 \/ i = 5
      OBVIOUS
    <3>2. /\ head[1] = <<"sbrk", 0>> /\ head[3] = <<"sbrk", PAGE_SIZE>>
          /\ head[4] = <<"same">> /\ head[5] = <<"sbrk", 0>>
      OBVIOUS
    <3>3. i = 2
      BY <2>3, <3>1, <3>2
    <3>4. QED
      BY <3>2, <3>3
  <2>4. QED
    BY <2>1, <2>2, <2>3 DEF Text
<1>4. StoreNewPage \in Seq(Instructions)
  <2>1. PAGE_SIZE \in Nat /\ << <<"store_new", "byte">> >> \in Seq(Instructions)
    BY <1>2, Geometry
  <2>2. QED
    BY <2>1, TimesTyped DEF StoreNewPage
<1>5. rest \in Seq(Instructions)
  BY <1>1, <1>2, ExpectFacts
<1>6. Ends(rest)
  BY DEF Ends
<1>7. sbrk_test = head \o StoreNewPage \o rest
  BY DEF sbrk_test
<1> HIDE DEF head, rest
<1>8. Text(head \o StoreNewPage)
  BY <1>3, <1>4, ConcatText
<1>9. Text(sbrk_test)
  BY <1>5, <1>7, <1>8, ConcatText
<1>10. Ends(sbrk_test)
  <2>1. head \o StoreNewPage \in Seq(S) /\ rest \in Seq(S)
    BY <1>5, <1>8 DEF Text
  <2>2. QED
    BY <1>6, <1>7, <2>1, ConcatEnds
<1>11. QED
  BY <1>9, <1>10

(* The instructions of every script, and where it ends.                    *)
LEMMA ScriptFacts ==
    /\ script["any"] = <<>>
    /\ \A t \in DOMAIN script \ {"any"} : Text(script[t]) /\ Ends(script[t])
<1>1. /\ Plain(script["ch4_mmap"]) /\ Plain(script["ch4_mmap1"]) /\ Plain(script["ch4_mmap2"])
      /\ Plain(script["ch4_mmap3"]) /\ Plain(script["ch4_unmap"]) /\ Plain(script["ch4_unmap2"])
      /\ Plain(script["ch4_trace"]) /\ Plain(script["ch3_trace"])
      /\ Text(script["sbrk"]) /\ Ends(script["sbrk"]) /\ script["any"] = <<>>
      /\ DOMAIN script = {"ch4_mmap", "ch4_mmap1", "ch4_mmap2", "ch4_mmap3", "ch4_unmap",
                          "ch4_unmap2", "ch4_trace", "sbrk", "ch3_trace", "any"}
  BY ScriptMmap, ScriptMmap1, ScriptMmap2, ScriptMmap3, ScriptUnmap, ScriptUnmap2, ScriptTrace,
     ScriptCh3Trace, ScriptSbrk DEF script
<1>2. \A s : Plain(s) => Text(s) /\ Ends(s)
  BY PlainText DEF Plain
<1>3. QED
  BY <1>1, <1>2

-----------------------------------------------------------------------------
(*                      What any step does to the list                     *)

ListStep ==
    \/ Load
    \/ Start
    \/ Running /\ Drop
    \/ \E id, ret : Called(id) /\ Return(ret)
    \/ ShutDown
    \/ UNCHANGED vars

(* A load, a store, an instruction of the test's own or a call: the list   *)
(* sees at most a call that returns, or the end of the head.               *)
LEMMA StepIsListStep == Step => ListStep
<1>1. ASSUME NEW ret, MemoryCall(ret) PROVE ListStep
  BY <1>1 DEF MemoryCall, ListStep
<1>2. ASSUME NEW ret, Traced(ret) PROVE ListStep
  BY <1>2 DEF Traced, ListStep
<1>3. ASSUME NEW ops, Performs(ops), Leave PROVE ListStep
  BY <1>3 DEF Performs, Leave, ListStep
<1>4. ASSUME NEW ops, Performs(ops), NEW claim, AdvanceOrPanic(claim) PROVE ListStep
  <2>1. Leave \/ UNCHANGED vars
    BY <1>4 DEF AdvanceOrPanic
  <2>2. QED
    BY <1>3, <1>4, <2>1 DEF ListStep
<1>5. CASE call \/ query
  BY <1>5 DEF call, query, ListStep, sched_yield, other_call, trace_query
<1>6. CASE mmap \/ munmap \/ sbrk
  BY <1>1, <1>6 DEF mmap, munmap, sbrk
<1>7. CASE trace_read \/ trace_write
  BY <1>2, <1>7 DEF trace_read, trace_write
<1>8. CASE expect \/ load
  BY <1>4, <1>8 DEF expect, load
<1>9. CASE fault \/ exit
  BY <1>3, <1>9 DEF fault, exit
<1>10. CASE store \/ keep_origin
  BY <1>10 DEF store, keep_origin, ListStep
<1>11. QED
  BY <1>5, <1>6, <1>7, <1>8, <1>9, <1>10 DEF Step

LEMMA Next4IsListStep == [Next4]_allVars => ListStep
<1>1. AnyProgram => ListStep
  BY DEF AnyProgram, ListStep, AnyCall, Killed, EndByCall, other_call, sched_yield, trace_query
<1>2. LoadProgram => ListStep
  BY DEF LoadProgram, ListStep
<1>3. Other(Start) \/ Other(ShutDown) \/ Other(Stopped) => ListStep
  BY DEF Other, ListStep, Stopped
<1>4. UNCHANGED allVars => ListStep
  BY DEF allVars, ListStep
<1>5. QED
  BY <1>1, <1>2, <1>3, <1>4, StepIsListStep DEF Next4

-----------------------------------------------------------------------------
(*                       The inductive invariant                           *)

(* Programs that are not loaded have not run; those in the list are loaded.*)
NotYetRun ==
    /\ \A a \in App : a >= loading => ctx[a] = Fresh /\ made[a] = NoCalls
    /\ \A k \in DOMAIN PROCESSES : PROCESSES[k] < loading

(* An accepted program waits to be loaded, is in the list, or has been at  *)
(* its head.                                                               *)
AcceptedKept ==
    IF mode = "load"
    THEN \A b \in accepted : b < loading => \E k \in DOMAIN PROCESSES : PROCESSES[k] = b
    ELSE /\ loading > Apps
         /\ PROCESSES # <<>> =>
               \A b \in accepted :
                   b >= Current => \E k \in DOMAIN PROCESSES : PROCESSES[k] = b

IInv ==
    /\ TypeOK
    /\ ctx = [a \in App |-> ctx[a]]
    /\ OneAfterTheOther
    /\ NotYetRun
    /\ AcceptedKept

LEMMA InitIInv == Init => IInv
<1> SUFFICES ASSUME Init PROVE IInv
  OBVIOUS
<1>1. NoCalls \in [CountedIds -> Nat]
  BY DEF NoCalls
<1>2. PROCESSES = <<>> /\ PROCESSES \in Seq(App) /\ DOMAIN PROCESSES = {}
  BY EmptySeq DEF Init
<1>3. TypeOK
  BY <1>1, <1>2, Ch4Assumption DEF Init, TypeOK
<1>4. OneAfterTheOther /\ NotYetRun /\ AcceptedKept
  BY <1>2, Ch4Assumption DEF Init, OneAfterTheOther, NotYetRun, AcceptedKept, App
<1>5. QED
  BY <1>3, <1>4 DEF Init, IInv

(* DOMAIN of the list, and its head, as the SMT backend knows them.        *)
LEMMA ListFacts ==
    ASSUME TypeOK
    PROVE  /\ Len(PROCESSES) \in Nat
           /\ DOMAIN PROCESSES = 1..Len(PROCESSES)
           /\ \A k \in 1..Len(PROCESSES) : PROCESSES[k] \in App
           /\ PROCESSES # <<>> => Len(PROCESSES) > 0 /\ Current \in App
<1>1. PROCESSES \in Seq(App)
  BY DEF TypeOK
<1>2. Len(PROCESSES) \in Nat /\ DOMAIN PROCESSES = 1..Len(PROCESSES)
  BY <1>1, LenProperties
<1>3. \A k \in 1..Len(PROCESSES) : PROCESSES[k] \in App
  BY <1>1, ElementOfSeq
<1>4. PROCESSES # <<>> => Len(PROCESSES) > 0
  BY <1>1, <1>2, EmptySeq
<1>5. QED
  BY <1>2, <1>3, <1>4 DEF Current

LEMMA LoadKeepsIInv == IInv /\ Load => IInv'
<1> SUFFICES ASSUME IInv, Load PROVE IInv'
  OBVIOUS
<1>1. /\ mode = "load" /\ mode' = "load" /\ loading' = loading + 1 /\ loading \in App
      /\ UNCHANGED <<accepted, count, ctx, made>>
  BY DEF Load
<1>2. TypeOK /\ Apps \in Nat /\ loading \in Int
  BY <1>1, Ch4Assumption DEF IInv, App
<1>3. CASE loading \in accepted
  <2>1. PROCESSES' = Append(PROCESSES, loading)
    BY <1>3 DEF Load
  <2>2. /\ PROCESSES' \in Seq(App) /\ Len(PROCESSES') = Len(PROCESSES) + 1
        /\ \A k \in 1..Len(PROCESSES) : PROCESSES'[k] = PROCESSES[k]
        /\ PROCESSES'[Len(PROCESSES) + 1] = loading
    BY <1>1, <1>2, <2>1, AppendProperties DEF TypeOK
  <2>3. DOMAIN PROCESSES' = 1..Len(PROCESSES) + 1
    BY <2>2, LenProperties
  <2>4. TypeOK'
    BY <1>1, <1>2, <2>2 DEF TypeOK, App
  <2> DEFINE n == Len(PROCESSES)
  <2>5. /\ n \in Nat /\ DOMAIN PROCESSES = 1..n
        /\ \A k \in 1..n : PROCESSES[k] < loading /\ PROCESSES[k] \in Int
    BY <1>2, ListFacts DEF IInv, NotYetRun, App
  <2>6. \A k \in 1..n + 1 : k \in 1..n \/ k = n + 1
    BY <2>5
  <2> HIDE DEF n
  <2>7. OneAfterTheOther'
    <3>1. \A j, k \in 1..n + 1 : j < k => PROCESSES'[j] < PROCESSES'[k]
      BY <1>2, <2>2, <2>5, <2>6 DEF IInv, OneAfterTheOther, n
    <3>2. \A k \in 1..n + 1 : k > 1 =>
              ctx[PROCESSES'[k]] = Fresh /\ made[PROCESSES'[k]] = NoCalls
      <4>1. ctx[loading] = Fresh /\ made[loading] = NoCalls
        BY <1>1, <1>2 DEF IInv, NotYetRun
      <4>2. \A k \in 1..n : k > 1 =>
                ctx[PROCESSES[k]] = Fresh /\ made[PROCESSES[k]] = NoCalls
        BY <2>5 DEF IInv, OneAfterTheOther
      <4>3. \A k \in 1..n : PROCESSES'[k] = PROCESSES[k]
        BY <2>2 DEF n
      <4>4. PROCESSES'[n + 1] = loading
        BY <2>2 DEF n
      <4>5. QED
        BY <2>6, <4>1, <4>2, <4>3, <4>4
    <3>3. QED
      BY <1>1, <2>3, <3>1, <3>2 DEF OneAfterTheOther, n
  <2>8. NotYetRun'
    <3>1. \A k \in 1..n + 1 : PROCESSES'[k] < loading + 1
      BY <1>2, <2>2, <2>5, <2>6 DEF n
    <3>2. \A a \in App : a >= loading + 1 => a >= loading
      BY <1>2 DEF App
    <3>3. QED
      BY <1>1, <2>3, <3>1, <3>2 DEF IInv, NotYetRun, n
  <2>9. AcceptedKept'
    <3> SUFFICES ASSUME NEW b \in accepted, b < loading + 1
                 PROVE  \E k \in 1..n + 1 : PROCESSES'[k] = b
      BY <1>1, <2>3 DEF AcceptedKept, n
    <3>1. b \in Int /\ (b < loading \/ b = loading)
      BY <1>2 DEF TypeOK, App
    <3>2. b < loading => \E k \in 1..n : PROCESSES[k] = b
      BY <1>1, <2>5 DEF IInv, AcceptedKept
    <3>3. QED
      BY <2>2, <2>5, <3>1, <3>2 DEF n
  <2>10. QED
    BY <1>1, <2>4, <2>7, <2>8, <2>9 DEF IInv
<1>4. CASE loading \notin accepted
  <2>1. PROCESSES' = PROCESSES
    BY <1>4 DEF Load
  <2>2. TypeOK'
    BY <1>1, <1>2, <2>1 DEF TypeOK, App
  <2>3. OneAfterTheOther'
    BY <1>1, <2>1 DEF IInv, OneAfterTheOther
  <2>4. NotYetRun'
    <3>1. \A a \in App : a >= loading + 1 => a >= loading
      BY <1>2 DEF App
    <3>2. \A k \in DOMAIN PROCESSES : PROCESSES[k] < loading + 1
      BY <1>2, ListFacts DEF IInv, NotYetRun, App
    <3>3. QED
      BY <1>1, <2>1, <3>1, <3>2 DEF IInv, NotYetRun
  <2>5. AcceptedKept'
    <3> SUFFICES ASSUME NEW b \in accepted, b < loading + 1
                 PROVE  \E k \in DOMAIN PROCESSES : PROCESSES[k] = b
      BY <1>1, <2>1 DEF AcceptedKept
    <3>1. b \in Int /\ b # loading
      BY <1>2, <1>4 DEF TypeOK, App
    <3>2. b < loading
      BY <1>2, <3>1
    <3>3. QED
      BY <1>1, <3>2 DEF IInv, AcceptedKept
  <2>6. QED
    BY <1>1, <2>2, <2>3, <2>4, <2>5 DEF IInv
<1>5. QED
  BY <1>3, <1>4

LEMMA DropKeepsIInv == IInv /\ Running /\ Drop => IInv'
<1> SUFFICES ASSUME IInv, Running, Drop PROVE IInv'
  OBVIOUS
<1> DEFINE n == Len(PROCESSES)
           p == Current
<1>1. /\ PROCESSES' = Tail(PROCESSES) /\ PROCESSES # <<>>
      /\ mode = "run" /\ UNCHANGED <<accepted, mode, loading>>
      /\ count' = [count EXCEPT ![p] = NoCalls] /\ made' = [made EXCEPT ![p] = NoCalls]
      /\ ctx' = [ctx EXCEPT ![p] = Fresh]
  BY DEF Running, Drop, Removed
<1>2. TypeOK /\ PROCESSES \in Seq(App) /\ loading \in Int /\ App \subseteq Int
  BY DEF IInv, TypeOK, App
<1>3. /\ n \in Nat /\ n > 0 /\ DOMAIN PROCESSES = 1..n /\ p \in App /\ p = PROCESSES[1]
      /\ \A k \in 1..n : PROCESSES[k] \in App
  BY <1>1, <1>2, ListFacts DEF Current
<1> HIDE DEF n, p
<1>4. /\ PROCESSES' \in Seq(App) /\ Len(PROCESSES') = n - 1
      /\ \A k \in 1..n - 1 : PROCESSES'[k] = PROCESSES[k + 1]
  BY <1>1, <1>2, HeadTailProperties DEF n
<1>5. DOMAIN PROCESSES' = 1..n - 1
  BY <1>4, LenProperties
<1>6. /\ \A a \in App : a # p => ctx'[a] = ctx[a] /\ made'[a] = made[a]
      /\ ctx'[p] = Fresh /\ made'[p] = NoCalls
      /\ ctx' = [a \in App |-> ctx'[a]]
  BY <1>1, <1>2, <1>3 DEF IInv, TypeOK
<1>7. \A k \in 1..n - 1 : k + 1 \in 1..n /\ PROCESSES[1] < PROCESSES[k + 1]
  <2>1. \A j, k \in 1..n : j < k => PROCESSES[j] < PROCESSES[k]
    BY <1>3 DEF IInv, OneAfterTheOther
  <2>2. \A k \in 1..n - 1 : k + 1 \in 1..n /\ 1 \in 1..n /\ 1 < k + 1
    BY <1>3
  <2>3. QED
    BY <2>1, <2>2
<1>8. TypeOK'
  <2>1. NoCalls \in [CountedIds -> Nat]
    BY DEF NoCalls
  <2>2. QED
    BY <1>1, <1>2, <1>3, <1>4, <2>1 DEF TypeOK
<1>9. OneAfterTheOther'
  <2>1. \A j, k \in 1..n - 1 : j < k => PROCESSES'[j] < PROCESSES'[k]
    <3> SUFFICES ASSUME NEW j \in 1..n - 1, NEW k \in 1..n - 1, j < k
                 PROVE  PROCESSES'[j] < PROCESSES'[k]
      OBVIOUS
    <3>1. j + 1 \in 1..n /\ k + 1 \in 1..n /\ j + 1 < k + 1
      BY <1>3
    <3>2. PROCESSES[j + 1] < PROCESSES[k + 1]
      BY <1>3, <3>1 DEF IInv, OneAfterTheOther
    <3>3. QED
      BY <1>4, <3>2
  <2>2. \A k \in 1..n - 1 :
            ctx'[PROCESSES'[k]] = Fresh /\ made'[PROCESSES'[k]] = NoCalls
    <3> SUFFICES ASSUME NEW k \in 1..n - 1
                 PROVE  ctx'[PROCESSES'[k]] = Fresh /\ made'[PROCESSES'[k]] = NoCalls
      OBVIOUS
    <3>1. k + 1 \in 1..n /\ k + 1 > 1 /\ PROCESSES[k + 1] \in App
      BY <1>3
    <3>2. ctx[PROCESSES[k + 1]] = Fresh /\ made[PROCESSES[k + 1]] = NoCalls
      BY <1>3, <3>1 DEF IInv, OneAfterTheOther
    <3>3. QED
      BY <1>4, <1>6, <3>1, <3>2
  <2>3. QED
    BY <1>5, <2>1, <2>2 DEF OneAfterTheOther
<1>10. NotYetRun'
  <2>1. \A a \in App : a >= loading => ctx'[a] = Fresh /\ made'[a] = NoCalls
    BY <1>6 DEF IInv, NotYetRun
  <2>2. \A k \in 1..n - 1 : PROCESSES'[k] < loading
    BY <1>3, <1>4, <1>7 DEF IInv, NotYetRun
  <2>3. QED
    BY <1>1, <1>5, <2>1, <2>2 DEF NotYetRun
<1>11. AcceptedKept'
  <2> SUFFICES ASSUME PROCESSES' # <<>>, NEW b \in accepted, b >= PROCESSES'[1]
               PROVE  \E k \in 1..n - 1 : PROCESSES'[k] = b
    BY <1>1, <1>5 DEF IInv, AcceptedKept, Current
  <2>1. 1 \in 1..n - 1
    BY <1>3, <1>4, EmptySeq
  <2>2. PROCESSES[1] < PROCESSES'[1] /\ b \in Int /\ PROCESSES'[1] \in Int /\ PROCESSES[1] \in Int
    BY <1>2, <1>3, <1>4, <1>7, <2>1 DEF TypeOK
  <2>3. b > PROCESSES[1]
    BY <2>2
  <2>4. PICK k \in 1..n : PROCESSES[k] = b
    BY <1>1, <1>3, <2>2, <2>3 DEF IInv, AcceptedKept, p
  <2>5. k # 1
    BY <2>2, <2>3, <2>4
  <2>6. k - 1 \in 1..n - 1 /\ (k - 1) + 1 = k
    BY <1>3, <2>5
  <2>7. QED
    BY <1>4, <2>4, <2>6
<1>12. QED
  BY <1>6, <1>8, <1>9, <1>10, <1>11 DEF IInv

(* A call is counted for the process that made it, and for no other.       *)
LEMMA CalledFacts ==
    ASSUME TypeOK, NEW id, Called(id)
    PROVE  /\ count' \in [App -> [CountedIds -> Nat]]
           /\ count' = made'
           /\ \A a \in App : a # Current => made'[a] = made[a]
<1>1. Current \in App
  BY ListFacts DEF Called, Running
<1>2. CASE id \in CountedIds
  <2>1. count' = [count EXCEPT ![Current][id] = @ + 1] /\ made' = count'
    BY <1>2 DEF Called, CountedOne, TypeOK
  <2>2. count[Current] \in [CountedIds -> Nat] /\ count[Current][id] + 1 \in Nat
    BY <1>1, <1>2 DEF TypeOK
  <2>3. QED
    BY <1>1, <1>2, <2>1, <2>2 DEF TypeOK
<1>3. CASE id \notin CountedIds
  BY <1>3 DEF Called, TypeOK
<1>4. QED
  BY <1>2, <1>3

LEMMA CallKeepsIInv ==
    ASSUME IInv, NEW id, NEW ret, Called(id), Return(ret)
    PROVE  IInv'
<1>1. /\ mode = "run" /\ PROCESSES # <<>>
      /\ UNCHANGED <<accepted, mode, loading, PROCESSES>>
      /\ ctx' = [ctx EXCEPT ![Current] = [pc |-> "after", a0 |-> ret]]
  BY DEF Called, Return, Running
<1>2. TypeOK /\ loading \in Int /\ App \subseteq Int
  BY DEF IInv, TypeOK, App
<1>3. /\ Len(PROCESSES) \in Nat /\ Len(PROCESSES) > 0 /\ Current \in App
      /\ DOMAIN PROCESSES = 1..Len(PROCESSES) /\ Current = PROCESSES[1]
      /\ \A k \in 1..Len(PROCESSES) : PROCESSES[k] \in App
  BY <1>1, <1>2, ListFacts DEF Current
<1>4. /\ count' \in [App -> [CountedIds -> Nat]] /\ count' = made'
      /\ \A a \in App : a # Current => made'[a] = made[a]
  BY <1>2, CalledFacts
<1>5. /\ \A a \in App : a # Current => ctx'[a] = ctx[a]
      /\ ctx' = [a \in App |-> ctx'[a]]
  BY <1>1, <1>3 DEF IInv
<1>6. TypeOK'
  BY <1>1, <1>2, <1>4 DEF TypeOK
<1>7. OneAfterTheOther'
  <2> SUFFICES ASSUME NEW k \in 1..Len(PROCESSES), k > 1
               PROVE  ctx'[PROCESSES[k]] = Fresh /\ made'[PROCESSES[k]] = NoCalls
    BY <1>1, <1>3 DEF IInv, OneAfterTheOther
  <2>1. 1 \in 1..Len(PROCESSES) /\ PROCESSES[1] < PROCESSES[k]
    BY <1>3 DEF IInv, OneAfterTheOther
  <2>2. PROCESSES[k] # Current /\ PROCESSES[k] \in App
    BY <1>2, <1>3, <2>1
  <2>3. ctx[PROCESSES[k]] = Fresh /\ made[PROCESSES[k]] = NoCalls
    BY <1>3 DEF IInv, OneAfterTheOther
  <2>4. QED
    BY <1>4, <1>5, <2>2, <2>3
<1>8. NotYetRun'
  <2>1. Current < loading
    BY <1>3 DEF IInv, NotYetRun
  <2>2. \A a \in App : a >= loading => a # Current
    BY <1>2, <1>3, <2>1
  <2>3. QED
    BY <1>1, <1>4, <1>5, <2>2 DEF IInv, NotYetRun
<1>9. AcceptedKept'
  BY <1>1 DEF IInv, AcceptedKept, Current
<1>10. QED
  BY <1>5, <1>6, <1>7, <1>8, <1>9 DEF IInv

LEMMA ListStepKeepsIInv == IInv /\ ListStep => IInv'
<1> SUFFICES ASSUME IInv, ListStep PROVE IInv'
  OBVIOUS
<1> USE DEF IInv, TypeOK, OneAfterTheOther, NotYetRun
<1>1. CASE Start
  <2>1. \A b \in accepted : b < loading
    BY <1>1, Ch4Assumption DEF Start, App
  <2>2. AcceptedKept'
    BY <1>1, <2>1 DEF Start, AcceptedKept, Current
  <2>3. QED
    BY <1>1, <2>2 DEF Start
<1>2. CASE ShutDown
  BY <1>2 DEF ShutDown, AcceptedKept, Current
<1>3. CASE UNCHANGED vars
  BY <1>3 DEF vars, AcceptedKept, Current
<1>4. QED
  BY <1>1, <1>2, <1>3, LoadKeepsIInv, DropKeepsIInv, CallKeepsIInv DEF ListStep

LEMMA Invariant == Spec4 => []IInv
<1>1. Init4 => IInv
  BY InitIInv DEF Init4
<1>2. IInv /\ [Next4]_allVars => IInv'
  BY Next4IsListStep, ListStepKeepsIInv
<1>3. QED
  BY <1>1, <1>2, PTL DEF Spec4

-----------------------------------------------------------------------------
(*                             Theorems                                    *)

(* Programs run one after the other, in the order of the image: those that *)
(* wait have made no call and start at their entry, whatever the programs  *)
(* before them did to their memory.                                        *)
THEOREM OrderCorrect == Spec4 => []OneAfterTheOther
<1>1. IInv => OneAfterTheOther
  BY DEF IInv
<1>2. QED
  BY <1>1, Invariant, PTL

(* A step that takes a program off the list takes the head, and every      *)
(* accepted program behind it is still there.                              *)
LEMMA ListStepSkipsNone ==
    ASSUME IInv, ListStep, NEW a \in App,
           a \in ToSet(PROCESSES), a \notin ToSet(PROCESSES')
    PROVE  a = Current /\ \A b \in accepted : b > a => b \in ToSet(PROCESSES')
<1>1. TypeOK /\ App \subseteq Int
  BY DEF IInv, App
<1>2. /\ Len(PROCESSES) \in Nat /\ DOMAIN PROCESSES = 1..Len(PROCESSES)
  BY <1>1, ListFacts
<1>3. PICK j \in 1..Len(PROCESSES) : a = PROCESSES[j]
  BY <1>2 DEF ToSet
<1>4. Running /\ Drop
  <2>1. CASE Load
    <3>1. PROCESSES' = PROCESSES \/ (loading \in App /\ PROCESSES' = Append(PROCESSES, loading))
      BY <2>1 DEF Load
    <3>2. CASE PROCESSES' = Append(PROCESSES, loading) /\ loading \in App
      <4>1. /\ PROCESSES' \in Seq(App) /\ Len(PROCESSES') = Len(PROCESSES) + 1
            /\ \A k \in 1..Len(PROCESSES) : PROCESSES'[k] = PROCESSES[k]
        BY <1>1, <3>2, AppendProperties DEF TypeOK
      <4>2. DOMAIN PROCESSES' = 1..Len(PROCESSES) + 1
        BY <4>1, LenProperties
      <4>3. j \in DOMAIN PROCESSES' /\ PROCESSES'[j] = a
        BY <1>2, <1>3, <4>1, <4>2
      <4>4. QED
        BY <4>3 DEF ToSet
    <3>3. QED
      BY <3>1, <3>2
  <2>2. ASSUME UNCHANGED PROCESSES PROVE FALSE
    BY <2>2
  <2>3. QED
    BY <2>1, <2>2 DEF ListStep, Start, Return, ShutDown, vars
<1>5. /\ PROCESSES' = Tail(PROCESSES) /\ PROCESSES # <<>> /\ PROCESSES \in Seq(App)
      /\ mode = "run" /\ Current = PROCESSES[1]
  BY <1>1, <1>4 DEF Running, Drop, Removed, TypeOK, Current
<1>6. /\ Len(PROCESSES') = Len(PROCESSES) - 1 /\ PROCESSES' \in Seq(App)
      /\ \A k \in 1..Len(PROCESSES) - 1 : PROCESSES'[k] = PROCESSES[k + 1]
  BY <1>5, HeadTailProperties
<1>7. DOMAIN PROCESSES' = 1..Len(PROCESSES) - 1
  BY <1>6, LenProperties
<1>8. ASSUME NEW k \in 1..Len(PROCESSES), k # 1
      PROVE  PROCESSES[k] \in ToSet(PROCESSES')
  <2>1. k - 1 \in 1..Len(PROCESSES) - 1 /\ (k - 1) + 1 = k
    BY <1>2, <1>8
  <2>2. PROCESSES'[k - 1] = PROCESSES[k] /\ k - 1 \in DOMAIN PROCESSES'
    BY <1>6, <1>7, <2>1
  <2>3. QED
    BY <2>2 DEF ToSet
<1>9. a = Current
  BY <1>3, <1>5, <1>8
<1>10. ASSUME NEW b \in accepted, b > a PROVE b \in ToSet(PROCESSES')
  <2>1. b >= Current /\ b # Current
    BY <1>1, <1>9, <1>10 DEF TypeOK
  <2>2. PICK k \in 1..Len(PROCESSES) : PROCESSES[k] = b
    BY <1>2, <1>5, <2>1 DEF IInv, AcceptedKept
  <2>3. QED
    BY <1>5, <1>8, <2>1, <2>2
<1>11. QED
  BY <1>9, <1>10

(* Every accepted program gets to the head of the list.                    *)
THEOREM NoneSkippedCorrect == Spec4 => NoneSkipped
<1>1. ASSUME IInv, [Next4]_allVars
      PROVE  [\A a \in App :
                (a \in ToSet(PROCESSES) /\ a \notin ToSet(PROCESSES')) =>
                    /\ a = Current
                    /\ \A b \in accepted : b > a => b \in ToSet(PROCESSES')]_vars
  BY <1>1, Next4IsListStep, ListStepSkipsNone
<1>2. IInv /\ [Next4]_allVars =>
        [\A a \in App :
            (a \in ToSet(PROCESSES) /\ a \notin ToSet(PROCESSES')) =>
                /\ a = Current
                /\ \A b \in accepted : b > a => b \in ToSet(PROCESSES')]_vars
  BY <1>1
<1>3. QED
  BY <1>2, Invariant, PTL DEF Spec4, NoneSkipped

(* trace(2, id) answers what this process has called, this call included,  *)
(* also when programs with other calls have run before it.                 *)
THEOREM Ch4TraceCorrect == Spec4 => TraceAnswers
<1>1. ASSUME IInv, [Next4]_allVars
      PROVE  [\A id \in CountedIds :
                trace_query(id) => ctx'[Current].a0 = made'[Current][id]]_vars
  <2> SUFFICES ASSUME NEW id \in CountedIds, trace_query(id)
               PROVE  ctx'[Current].a0 = made'[Current][id]
    OBVIOUS
  <2>1. Current \in App
    BY <1>1, ListFacts DEF IInv, trace_query, Called, Running
  <2>2. ctx' = [ctx EXCEPT ![Current] = [pc |-> "after", a0 |-> count'[Current][id]]]
    BY DEF trace_query, Return, Queried
  <2>3. ctx'[Current] = [pc |-> "after", a0 |-> count'[Current][id]]
    BY <1>1, <2>1, <2>2 DEF IInv
  <2>4. count' = made'
    BY <1>1, Next4IsListStep, ListStepKeepsIInv DEF IInv, TypeOK
  <2>5. QED
    BY <2>3, <2>4
<1>2. IInv /\ [Next4]_allVars =>
        [\A id \in CountedIds :
            trace_query(id) => ctx'[Current].a0 = made'[Current][id]]_vars
  BY <1>1
<1>3. QED
  BY <1>2, Invariant, PTL DEF Spec4, TraceAnswers

-----------------------------------------------------------------------------
(*                  Chapter 4 as an instance of UserMemory                 *)

(* The address spaces with everything that is proved of them, for any calls*)
(* of sbrk, mmap and munmap.                                               *)
MP ==
    INSTANCE UserMemory_proofs WITH
        MaxProc <- Apps, ElfEnds <- {ElfEnd}, Sizes <- Int, Lengths <- Nat,
        Prots <- Rights, Data <- Byte, MaxSpan <- 0

(* What UserMemory assumes of its constants.                               *)
LEMMA MemoryParameters ==
    /\ Apps \in Nat
    /\ PageCount \in Nat /\ FrameCount \in Nat
    /\ PAGE_SIZE \in Nat \ {0}
    /\ Int \subseteq Int /\ Nat \subseteq Nat
    /\ {ElfEnd} \subseteq 0..(PageCount - 1) * PAGE_SIZE
    /\ Rights \subseteq (SUBSET {"R", "W", "X"}) \cup {NoProt}
    /\ 0 \in Nat
<1>1. /\ PAGE_SIZE \in Nat \ {0} /\ PageCount \in Nat /\ PageCount >= 7 /\ FrameCount \in Nat
      /\ Apps \in Nat
  BY Ch4MemoryAssumption, Ch4Assumption
<1>2. 1 * PAGE_SIZE <= (PageCount - 1) * PAGE_SIZE /\ (PageCount - 1) * PAGE_SIZE \in Nat
  <2>1. PageCount - 1 = (PageCount - 2) + 1 /\ PageCount - 2 \in Nat
    BY <1>1
  <2> DEFINE k == PageCount - 2
  <2>2. (k + 1) * PAGE_SIZE = k * PAGE_SIZE + PAGE_SIZE /\ k * PAGE_SIZE \in Nat
    BY <1>1, <2>1, Z3
  <2> HIDE DEF k
  <2>3. PageCount - 1 = k + 1
    BY <2>1 DEF k
  <2>4. QED
    BY <1>1, <2>2, <2>3
<1>3. QED
  BY <1>1, <1>2 DEF ElfEnd, Rights

LEMMA BootParameters ==
    /\ \E end \in {ElfEnd} : MP!Ceil(end) + 1 <= FrameCount
    /\ NoPage \notin MP!MappedPage \cup MP!Value
<1>1. /\ PAGE_SIZE \in Nat \ {0} /\ FrameCount \in Nat /\ FrameCount >= 2
      /\ NoPage \notin Memory!MappedPage \cup Memory!Value
  BY Ch4MemoryAssumption
<1>2. (PAGE_SIZE + PAGE_SIZE - 1) \div PAGE_SIZE = 1
  <2> DEFINE a == PAGE_SIZE + PAGE_SIZE - 1
             q == a \div PAGE_SIZE
  <2>1. a \in Nat
    BY <1>1
  <2>2. q \in Int /\ q * PAGE_SIZE <= a /\ a < q * PAGE_SIZE + PAGE_SIZE
    BY <1>1, <2>1, Z3
  <2> HIDE DEF q
  <2>3. q < 2
    <3>1. q >= 2 => q * PAGE_SIZE >= 2 * PAGE_SIZE
      BY <1>1, <2>2, Z3
    <3>2. QED
      BY <1>1, <2>2, <3>1
  <2>4. q > 0
    <3>1. q <= 0 => q * PAGE_SIZE <= 0
      BY <1>1, <2>2, Z3
    <3>2. QED
      BY <1>1, <2>2, <3>1
  <2>5. QED
    BY <2>2, <2>3, <2>4 DEF q
<1>3. QED
  BY <1>1, <1>2 DEF MP!Ceil, ElfEnd, MP!MappedPage, MP!Value, Memory!MappedPage, Memory!Value,
       MP!Frame, Memory!Frame


(* The names of the two instances stand for the same things.               *)
LEMMA SameSets ==
    /\ Memory!Proc = MP!Proc /\ Memory!Page = MP!Page /\ Memory!Frame = MP!Frame
    /\ Memory!Value = MP!Value /\ Memory!MappedPage = MP!MappedPage
    /\ Memory!Unmapped = MP!Unmapped /\ Memory!NotHalted = MP!NotHalted
    /\ Memory!Address = MP!Address
    /\ \A a : Memory!Floor(a) = MP!Floor(a) /\ Memory!Ceil(a) = MP!Ceil(a)
    /\ \A S : Memory!Cardinality(S) = MP!Cardinality(S)
<1>1. Memory!Proc = MP!Proc /\ Memory!Page = MP!Page /\ Memory!Frame = MP!Frame
  BY DEF Memory!Proc, MP!Proc, Memory!Page, MP!Page, Memory!Frame, MP!Frame
<1>2. Memory!Value = MP!Value /\ Memory!NotHalted = MP!NotHalted /\ Memory!Address = MP!Address
  BY DEF Memory!Value, MP!Value, Memory!NotHalted, MP!NotHalted, Memory!Address, MP!Address
<1>3. Memory!MappedPage = MP!MappedPage /\ Memory!Unmapped = MP!Unmapped
  BY <1>1 DEF Memory!MappedPage, MP!MappedPage, Memory!Unmapped, MP!Unmapped
<1>4. \A a : Memory!Floor(a) = MP!Floor(a) /\ Memory!Ceil(a) = MP!Ceil(a)
  BY DEF Memory!Floor, MP!Floor, Memory!Ceil, MP!Ceil
<1>5. \A S : Memory!Cardinality(S) = MP!Cardinality(S)
  BY DEF Memory!Cardinality, MP!Cardinality
<1>6. QED
  BY <1>1, <1>2, <1>3, <1>4, <1>5

LEMMA SameState ==
    ASSUME NEW p
    PROVE  /\ Memory!Mapped(p) = MP!Mapped(p)
           /\ Memory!HeapPages(p) = MP!HeapPages(p)
           /\ Memory!Running(p) <=> MP!Running(p)
           /\ \A n : Memory!Shortage(n) <=> MP!Shortage(n)
           /\ \A v : Memory!Writable(p, v) <=> MP!Writable(p, v)
<1>1. Memory!Mapped(p) = MP!Mapped(p)
  BY SameSets DEF Memory!Mapped, MP!Mapped
<1>2. Memory!HeapPages(p) = MP!HeapPages(p)
  BY SameSets DEF Memory!HeapPages, MP!HeapPages
<1>3. Memory!Running(p) <=> MP!Running(p)
  BY SameSets DEF Memory!Running, MP!Running
<1>4. \A n : Memory!Shortage(n) <=> MP!Shortage(n)
  BY DEF Memory!Shortage, MP!Shortage
<1>5. \A v : Memory!Writable(p, v) <=> MP!Writable(p, v)
  BY <1>1 DEF Memory!Writable, MP!Writable
<1>6. QED
  BY <1>1, <1>2, <1>3, <1>4, <1>5

LEMMA SameMap ==
    /\ \A p, lo, hi, flags, area :
          Memory!map(p, lo, hi, flags, area) => MP!map(p, lo, hi, flags, area)
    /\ \A p, S : Memory!unmap(p, S) => MP!unmap(p, S)
<1>1. \A p, lo, hi, flags, area :
          Memory!map(p, lo, hi, flags, area) => MP!map(p, lo, hi, flags, area)
  BY DEF Memory!map, MP!map, Memory!NewPage, MP!NewPage, Memory!FramesAfter, MP!FramesAfter,
      Memory!Zeroed, MP!Zeroed, Memory!Page, MP!Page, Memory!Frame, MP!Frame
<1>2. \A p, S : Memory!unmap(p, S) => MP!unmap(p, S)
  BY DEF Memory!unmap, MP!unmap, Memory!Page, MP!Page
<1>3. QED
  BY <1>1, <1>2

LEMMA SameFromElf ==
    ASSUME NEW p, NEW end, Memory!from_elf(p, end)
    PROVE  MP!from_elf(p, end)
<1>1. Memory!Ceil(end) = MP!Ceil(end) /\ Memory!StackPage = MP!StackPage
  BY SameSets DEF Memory!StackPage, MP!StackPage
<1>2. \A first : /\ Memory!ProgramPages(end, first) = MP!ProgramPages(end, first)
                 /\ Memory!ProgramMem(end, first) = MP!ProgramMem(end, first)
  BY <1>1, SameSets DEF Memory!ProgramPages, MP!ProgramPages, Memory!ProgramMem, MP!ProgramMem
<1>3. Memory!BreakAtBottom(p, end) = MP!BreakAtBottom(p, end)
  BY <1>1 DEF Memory!BreakAtBottom, MP!BreakAtBottom
<1>4. \A n : (Memory!Shortage(n) <=> MP!Shortage(n)) /\ Memory!FramesAfter(n) = MP!FramesAfter(n)
  BY SameState DEF Memory!FramesAfter, MP!FramesAfter
<1>5. QED
  BY <1>1, <1>2, <1>3, <1>4 DEF Memory!from_elf, MP!from_elf

LEMMA SameEnd ==
    ASSUME NEW p, Memory!End(p)
    PROVE  MP!End(p)
BY SameSets, SameState DEF Memory!End, MP!End

LEMMA SameNewBreak ==
    ASSUME NEW p, NEW size, Memory!NewBreak(p, size)
    PROVE  MP!NewBreak(p, size)
BY SameState DEF Memory!NewBreak, MP!NewBreak

LEMMA SameSbrk ==
    ASSUME NEW p, NEW size,
           Memory!sbrk_refused(p, size) \/ Memory!sbrk_grow(p, size) \/ Memory!sbrk_shrink(p, size)
    PROVE  MP!sbrk_refused(p, size) \/ MP!sbrk_grow(p, size) \/ MP!sbrk_shrink(p, size)
<1>1. CASE Memory!sbrk_refused(p, size)
  BY <1>1, SameState DEF Memory!sbrk_refused, MP!sbrk_refused, Memory!Unchanged, MP!Unchanged
<1>2. CASE Memory!sbrk_grow(p, size)
  <2>1. /\ Memory!Grown(p, size) = MP!Grown(p, size)
        /\ Memory!Ceil(program_brk[p]) = MP!Ceil(program_brk[p])
        /\ Memory!Ceil(program_brk[p] + size) = MP!Ceil(program_brk[p] + size)
        /\ Memory!Mapped(p) = MP!Mapped(p)
    BY SameSets, SameState DEF Memory!Grown, MP!Grown
  <2>2. \A S : ~Memory!Shortage(Memory!Cardinality(S)) => ~MP!Shortage(MP!Cardinality(S))
    BY SameSets, SameState
  <2>3. QED
    BY <1>2, <2>1, <2>2, SameMap, SameNewBreak DEF Memory!sbrk_grow, MP!sbrk_grow
<1>3. CASE Memory!sbrk_shrink(p, size)
  <2>1. Memory!Shrunk(p, size) = MP!Shrunk(p, size)
    BY SameSets DEF Memory!Shrunk, MP!Shrunk
  <2>2. QED
    BY <1>3, <2>1, SameMap, SameNewBreak DEF Memory!sbrk_shrink, MP!sbrk_shrink
<1>4. QED
  BY <1>1, <1>2, <1>3

LEMMA SameMmap ==
    ASSUME NEW p, NEW addr, NEW length, NEW prot, Memory!mmap(p, addr, length, prot)
    PROVE  MP!mmap(p, addr, length, prot)
<1>1. /\ Memory!PageRange(addr, length) = MP!PageRange(addr, length)
      /\ Memory!Floor(addr) = MP!Floor(addr) /\ Memory!Ceil(length) = MP!Ceil(length)
      /\ Memory!Mapped(p) = MP!Mapped(p) /\ Memory!Page = MP!Page
  BY SameSets, SameState DEF Memory!PageRange, MP!PageRange
<1>2. /\ Memory!IsFree(p, addr, length) => MP!IsFree(p, addr, length)
      /\ Memory!Aligned(addr) => MP!Aligned(addr)
      /\ Memory!Running(p) => MP!Running(p)
      /\ ~Memory!Shortage(Memory!Ceil(length)) => ~MP!Shortage(MP!Ceil(length))
  BY <1>1, SameState DEF Memory!IsFree, MP!IsFree, Memory!Aligned, MP!Aligned
<1>3. QED
  BY <1>1, <1>2, SameMap DEF Memory!mmap, MP!mmap

LEMMA SameMunmap ==
    ASSUME NEW p, NEW addr, NEW length,
           Memory!munmap_refused(p, addr, length) \/ Memory!munmap(p, addr, length)
    PROVE  MP!munmap_refused(p, addr, length) \/ MP!munmap(p, addr, length)
<1>1. /\ Memory!PageRange(addr, length) = MP!PageRange(addr, length)
      /\ Memory!Mapped(p) = MP!Mapped(p) /\ Memory!HeapPages(p) = MP!HeapPages(p)
      /\ Memory!Running(p) => MP!Running(p)
      /\ Memory!Aligned(addr) <=> MP!Aligned(addr)
      /\ Memory!UnmappedOnRefusal(p, addr, length) = MP!UnmappedOnRefusal(p, addr, length)
  BY SameSets, SameState DEF Memory!PageRange, MP!PageRange, Memory!Aligned, MP!Aligned,
       Memory!UnmappedOnRefusal, MP!UnmappedOnRefusal
<1>2. CASE Memory!munmap_refused(p, addr, length)
  BY <1>1, <1>2, SameMap DEF Memory!munmap_refused, MP!munmap_refused
<1>3. CASE Memory!munmap(p, addr, length)
  BY <1>1, <1>3, SameMap DEF Memory!munmap, MP!munmap
<1>4. QED
  BY <1>2, <1>3

LEMMA SameStore ==
    ASSUME NEW p, NEW v, NEW x, x \in Byte, Memory!Writable(p, v), Memory!Stored(p, v, x)
    PROVE  MP!UserStore(p)
<1>1. v \in MP!Page /\ MP!Writable(p, v)
  BY SameState DEF MP!Writable, MP!Mapped
<1>2. MP!Stored(p, v, x)
  BY SameState DEF Memory!Stored, MP!Stored
<1>3. QED
  BY <1>1, <1>2 DEF MP!UserStore

LEMMA SameTypes == MP!TypeOK => Memory!TypeOK
BY SameSets DEF MP!TypeOK, Memory!TypeOK

LEMMA SameView ==
    Memory!viewBar = MP!viewBar /\ MP!Image(ElfEnd) \in Memory!Images
<1>1. Memory!viewBar = MP!viewBar
  BY SameSets DEF Memory!viewBar, MP!viewBar
<1>2. Memory!StackPage = MP!StackPage
  BY DEF Memory!StackPage, MP!StackPage
<1>3. MP!Image(ElfEnd) \in Memory!Images
  BY <1>2, SameSets DEF MP!Image, Memory!Images
<1>4. QED
  BY <1>1, <1>3

-----------------------------------------------------------------------------
(*                The invariant of list, memory and programs               *)

Brk == 0 .. PageCount * PAGE_SIZE

InTest(a) == image[a] # "any"

(* A test never runs past its last instruction; the other programs have    *)
(* none.                                                                   *)
WithinScript ==
    /\ image \in Builds
    /\ pos \in [App -> Int]
    /\ \A a \in App : IF InTest(a) THEN pos[a] \in 1 .. Len(script[image[a]])
                      ELSE pos[a] = 1

(* What "origin" is about to keep is a break: the sbrk(0) before it was    *)
(* not refused.                                                            *)
OriginKnown ==
    /\ origin_brk \in [App -> Brk]
    /\ \A a \in App :
          (InTest(a) /\ script[image[a]][pos[a]] = <<"origin">>) => ctx[a].a0 \in Brk

(* The processes in memory are those in the list.                          *)
Listed == alive = {PROCESSES[k] : k \in DOMAIN PROCESSES}

(* WaitingAsLoaded, and the head too as long as nothing runs.              *)
AsLoaded ==
    \A k \in DOMAIN PROCESSES :
        k > 1 \/ mode = "load" =>
            /\ MP!viewBar[PROCESSES[k]] = MP!Image(ElfEnd)
            /\ program_brk[PROCESSES[k]] = heap_bottom[PROCESSES[k]]

MemoryInv4 == MP!MemoryInv /\ MP!HeapExact

IInv4 == IInv /\ MemoryInv4 /\ Listed /\ AsLoaded /\ WithinScript /\ OriginKnown


(* The instruction that comes next.                                        *)
LEMMA InstructionKnown ==
    ASSUME IInv, WithinScript, Running, InTest(Current)
    PROVE  /\ Current \in App
           /\ pos[Current] \in 1 .. Len(script[image[Current]])
           /\ Text(script[image[Current]]) /\ Ends(script[image[Current]])
           /\ Instruction \in Instructions \cup {<<"origin">>}
<1>1. Current \in App
  BY ListFacts DEF IInv, Running
<1>2. pos[Current] \in 1 .. Len(script[image[Current]])
  BY <1>1 DEF WithinScript
<1>3. image[Current] \in DOMAIN script \ {"any"}
  BY <1>1, Ch4MemoryAssumption DEF WithinScript, InTest
<1>4. Text(script[image[Current]]) /\ Ends(script[image[Current]])
  BY <1>3, ScriptFacts
<1> DEFINE s == script[image[Current]]
           S == Instructions \cup {<<"origin">>}
<1>5. s \in Seq(S)
  BY <1>4 DEF Text
<1> HIDE DEF s, S
<1>6. \A k \in 1 .. Len(s) : s[k] \in S
  BY <1>5, ElementOfSeq
<1>7. Instruction \in S
  BY <1>2, <1>6 DEF Instruction, s
<1>8. QED
  BY <1>1, <1>2, <1>4, <1>7 DEF S

-----------------------------------------------------------------------------
(*                          What a step is to them                         *)

LoadStep ==
    /\ Load
    /\ IF loading \in accepted THEN MP!from_elf(loading, ElfEnd) ELSE UNCHANGED memoryVars
    /\ UNCHANGED <<image, pos, origin_brk>>

EndStep ==
    /\ Running
    /\ Drop
    /\ MP!End(Current)
    /\ UNCHANGED <<image, pos, origin_brk>>

(* An instruction that is not the last of its test.                        *)
InstructionStep ==
    /\ Running
    /\ InTest(Current)
    /\ Instruction[1] \notin {"exit", "fail"}
    /\ pos' = [pos EXCEPT ![Current] = @ + 1]
    /\ \A a \in App : a # Current => ctx'[a] = ctx[a]
    /\ Instruction = <<"sbrk", 0>> => ctx'[Current].a0 \in Brk
    /\ \/ UNCHANGED origin_brk
       \/ /\ Instruction[1] = "origin"
          /\ origin_brk' = [origin_brk EXCEPT ![Current] = answer]

StayStep ==
    /\ UNCHANGED <<PROCESSES, alive, image>>
    /\ mode' = "load" => mode = "load"
    /\ UNCHANGED memoryVars \/ (Running /\ MP!Call(Current))
    /\ \/ /\ UNCHANGED <<pos, origin_brk>>
          /\ \A a \in App : InTest(a) => ctx'[a] = ctx[a]
       \/ InstructionStep

Kind == LoadStep \/ EndStep \/ StayStep

LEMMA LeaveKind == Running /\ Leave => EndStep
BY SameEnd DEF Leave, EndStep

(* A call of a test that does not end it.                                  *)
LEMMA ReturnKind ==
    ASSUME IInv, NEW ops, Performs(ops), "sbrk" \notin ops, "exit" \notin ops, "fail" \notin ops,
           NEW id, Called(id), NEW ret, Return(ret), Advance, UNCHANGED <<alive, origin_brk>>,
           UNCHANGED memoryVars \/ MP!Call(Current)
    PROVE  StayStep
<1>1. Running /\ InTest(Current) /\ Instruction[1] \in ops
  BY DEF Performs, InTest
<1>2. Instruction # <<"sbrk", 0>> /\ Instruction[1] \notin {"exit", "fail"}
  BY <1>1
<1>3. Current \in App
  BY <1>1, ListFacts DEF IInv, Running
<1>4. /\ UNCHANGED <<PROCESSES, mode>>
      /\ \A a \in App : a # Current => ctx'[a] = ctx[a]
  BY <1>3 DEF Return, IInv
<1>5. InstructionStep
  BY <1>1, <1>2, <1>4 DEF InstructionStep, Advance
<1>6. QED
  BY <1>1, <1>4, <1>5 DEF StayStep, Advance

LEMMA ClaimKind ==
    ASSUME NEW ops, Performs(ops), "sbrk" \notin ops, "exit" \notin ops,
           NEW claim, Instruction[1] = "fail" => ~claim, AdvanceOrPanic(claim)
    PROVE  Kind
<1>1. Running /\ InTest(Current) /\ Instruction[1] \in ops
  BY DEF Performs, InTest
<1>2. CASE claim
  <2>1. Advance /\ UNCHANGED <<vars, origin_brk, memoryVars>>
    BY <1>2 DEF AdvanceOrPanic
  <2>2. Instruction # <<"sbrk", 0>> /\ Instruction[1] \notin {"exit", "fail"}
    BY <1>1, <1>2
  <2>3. InstructionStep
    BY <1>1, <2>1, <2>2 DEF InstructionStep, Advance, vars
  <2>4. QED
    BY <2>1, <2>3 DEF Kind, StayStep, Advance, vars, memoryVars
<1>3. CASE ~claim
  BY <1>1, <1>3, LeaveKind DEF AdvanceOrPanic, Kind
<1>4. QED
  BY <1>2, <1>3

LEMMA MmapKind == IInv4 /\ mmap => Kind
<1> SUFFICES ASSUME IInv4, mmap PROVE Kind
  OBVIOUS
<1>1. Running /\ InTest(Current) /\ Instruction[1] = "mmap" /\ Performs({"mmap"})
  BY DEF mmap, Performs, InTest
<1>2. Instruction \in Instructions
  BY <1>1, InstructionKnown DEF IInv4
<1> DEFINE addr == Instruction[2]
           length == Instruction[3]
           prot == Instruction[4]
<1>3. addr \in MP!Address /\ length \in Nat /\ prot \in Rights
  BY <1>1, <1>2, InstructionFacts, SameSets
<1>4. PICK ret : MemoryCall(ret) /\ (UNCHANGED memoryVars \/ Memory!mmap(Current, addr, length, prot))
  BY DEF mmap
<1> HIDE DEF addr, length, prot
<1>5. ASSUME Memory!mmap(Current, addr, length, prot)
      PROVE  MP!Call(Current)
  <2>1. MP!mmap(Current, addr, length, prot)
    BY <1>5, SameMmap
  <2>2. QED
    BY <1>3, <2>1 DEF MP!Call
<1>6. UNCHANGED alive
  BY <1>4 DEF Memory!mmap, memoryVars
<1>7. QED
  BY <1>1, <1>4, <1>5, <1>6, ReturnKind DEF MemoryCall, Kind, IInv4

LEMMA MunmapKind == IInv4 /\ munmap => Kind
<1> SUFFICES ASSUME IInv4, munmap PROVE Kind
  OBVIOUS
<1>1. Running /\ InTest(Current) /\ Instruction[1] = "munmap" /\ Performs({"munmap"})
  BY DEF munmap, Performs, InTest
<1>2. Instruction \in Instructions
  BY <1>1, InstructionKnown DEF IInv4
<1> DEFINE addr == Instruction[2]
           length == Instruction[3]
<1>3. addr \in MP!Address /\ length \in Nat
  BY <1>1, <1>2, InstructionFacts, SameSets
<1>4. PICK ret : /\ MemoryCall(ret)
                 /\ \/ Memory!munmap_refused(Current, addr, length)
                    \/ Memory!munmap(Current, addr, length)
  BY DEF munmap
<1> HIDE DEF addr, length
<1>5. MP!Call(Current)
  <2>1. MP!munmap_refused(Current, addr, length) \/ MP!munmap(Current, addr, length)
    BY <1>4, SameMunmap
  <2>2. QED
    BY <1>3, <2>1 DEF MP!Call
<1>6. UNCHANGED alive
  BY <1>4 DEF Memory!munmap, Memory!munmap_refused
<1>7. QED
  BY <1>1, <1>4, <1>5, <1>6, ReturnKind DEF MemoryCall, Kind, IInv4

(* sbrk(0) is never refused: the break is not below the bottom.            *)
LEMMA SbrkKind == IInv4 /\ sbrk => Kind
<1> SUFFICES ASSUME IInv4, sbrk PROVE Kind
  OBVIOUS
<1> DEFINE size == Instruction[2]
           p == Current
<1>1. Running /\ InTest(Current) /\ Instruction[1] = "sbrk"
  BY DEF sbrk, Performs, InTest
<1>2. Instruction \in Instructions /\ p \in App
  BY <1>1, InstructionKnown DEF IInv4
<1>3. size \in Int
  BY <1>1, <1>2, InstructionFacts
<1>4. PICK ret : /\ MemoryCall(ret)
                 /\ \/ Memory!sbrk_refused(p, size)
                    \/ /\ Memory!sbrk_grow(p, size) \/ Memory!sbrk_shrink(p, size)
                       /\ ret = program_brk[p]
  BY DEF sbrk
<1>5. Instruction = <<"sbrk", 0>> => size = 0
  OBVIOUS
<1>6. /\ p \in alive /\ heap_bottom[p] \in Brk /\ program_brk[p] \in Brk
      /\ heap_bottom[p] \in Int /\ program_brk[p] \in Int
      /\ heap_bottom[p] <= program_brk[p]
  <2>1. p \in alive
    BY <1>1, ListFacts DEF IInv4, IInv, Running, Listed, Current
  <2>2. p \in MP!Proc
    BY <1>2 DEF App, MP!Proc
  <2>3. heap_bottom[p] \in Brk /\ program_brk[p] \in Brk
    BY <2>2 DEF IInv4, MemoryInv4, MP!MemoryInv, MP!TypeOK, Brk
  <2>4. QED
    BY <2>1, <2>3 DEF IInv4, MemoryInv4, MP!HeapExact, Brk
<1> HIDE DEF size, p
<1>7. MP!Call(Current)
  <2>1. MP!sbrk_refused(p, size) \/ MP!sbrk_grow(p, size) \/ MP!sbrk_shrink(p, size)
    BY <1>4, SameSbrk
  <2>2. QED
    BY <1>3, <2>1 DEF MP!Call, p
<1>8. UNCHANGED alive
  BY <1>4 DEF Memory!sbrk_refused, Memory!Unchanged, Memory!sbrk_grow, Memory!sbrk_shrink,
       Memory!NewBreak
<1>9. Instruction = <<"sbrk", 0>> => ret \in Brk
  <2>1. ASSUME size = 0 PROVE ~Memory!sbrk_refused(p, size)
    <3>1. ~(program_brk[p] + 0 < heap_bottom[p])
      BY <1>6
    <3>2. QED
      BY <2>1, <3>1 DEF Memory!sbrk_refused
  <2>2. QED
    BY <1>4, <1>5, <1>6, <2>1
<1>10. /\ UNCHANGED <<PROCESSES, mode, origin_brk>> /\ Advance
       /\ \A a \in App : a # Current => ctx'[a] = ctx[a]
       /\ ctx'[Current].a0 = ret
  BY <1>2, <1>4 DEF MemoryCall, Return, IInv4, IInv, p
<1>11. InstructionStep
  BY <1>1, <1>9, <1>10 DEF InstructionStep, Advance
<1>12. QED
  BY <1>1, <1>7, <1>8, <1>10, <1>11 DEF StayStep, Kind, Advance

LEMMA WriteKind == IInv4 /\ (trace_read \/ trace_write) => Kind
<1> SUFFICES ASSUME IInv4, trace_read \/ trace_write PROVE Kind
  OBVIOUS
<1>1. PICK ops \in {{"trace_read"}, {"trace_write"}} : Performs(ops)
  BY DEF trace_read, trace_write
<1>2. PICK ret : Traced(ret)
  BY DEF trace_read, trace_write
<1>3. UNCHANGED memoryVars \/ (MP!Call(Current) /\ UNCHANGED alive)
  <2>1. CASE trace_read
    BY <2>1 DEF trace_read
  <2>2. CASE trace_write /\ ~UNCHANGED memoryVars
    <3> DEFINE v == PageOf(Instruction[2])
               x == Instruction[3]
    <3>1. /\ Memory!Writable(Current, v) /\ Memory!Stored(Current, v, x)
          /\ Running /\ InTest(Current) /\ Instruction[1] = "trace_write"
      BY <2>2 DEF trace_write, Performs, InTest
    <3>2. x \in Byte
      BY <3>1, InstructionKnown, InstructionFacts DEF IInv4
    <3> HIDE DEF v, x
    <3>3. MP!UserStore(Current)
      BY <3>1, <3>2, SameStore
    <3>4. QED
      BY <3>1, <3>3 DEF MP!Call, Memory!Stored
  <2>3. QED
    BY <2>1, <2>2
<1>4. UNCHANGED alive
  BY <1>3 DEF memoryVars
<1>5. QED
  BY <1>1, <1>2, <1>3, <1>4, ReturnKind DEF Traced, Kind, IInv4

LEMMA StoreKind == IInv4 /\ store => Kind
<1> SUFFICES ASSUME IInv4, store PROVE Kind
  OBVIOUS
<1> DEFINE x == Instruction[Len(Instruction)]
<1>1. /\ Memory!Writable(Current, Target) /\ Memory!Stored(Current, Target, x)
      /\ Running /\ InTest(Current) /\ Instruction[1] \in {"store", "store_new"}
      /\ Advance /\ UNCHANGED <<vars, origin_brk>>
  BY DEF store, Performs, InTest
<1>2. x \in Byte
  BY <1>1, InstructionKnown, InstructionFacts DEF IInv4
<1> HIDE DEF x
<1>3. MP!UserStore(Current)
  BY <1>1, <1>2, SameStore
<1>4. MP!Call(Current) /\ UNCHANGED alive
  BY <1>1, <1>3 DEF MP!Call, Memory!Stored
<1>5. InstructionStep
  <2>1. Instruction # <<"sbrk", 0>> /\ Instruction[1] \notin {"exit", "fail"}
    BY <1>1
  <2>2. QED
    BY <1>1, <2>1 DEF InstructionStep, Advance, vars
<1>6. QED
  BY <1>1, <1>4, <1>5 DEF Kind, StayStep, Advance, vars

LEMMA StepKind == IInv4 /\ [Next4]_allVars => Kind
<1> SUFFICES ASSUME IInv4, [Next4]_allVars PROVE Kind
  OBVIOUS
<1>1. CASE LoadProgram
  BY <1>1, SameFromElf DEF LoadProgram, programVars, Kind, LoadStep
<1>2. CASE Other(Start) \/ Other(ShutDown) \/ Other(Stopped)
  <2>1. UNCHANGED <<PROCESSES, ctx, programVars, memoryVars>> /\ (mode' = "load" => mode = "load")
    BY <1>2 DEF Other, Start, ShutDown, Stopped, vars
  <2>2. QED
    BY <2>1 DEF Kind, StayStep, programVars, memoryVars
<1>3. CASE UNCHANGED allVars
  BY <1>3 DEF allVars, vars, memoryVars, Kind, StayStep
<1>4. CASE AnyProgram
  <2>1. /\ Running /\ image[Current] = "any" /\ AnyCall /\ UNCHANGED programVars /\ mode' = mode
        /\ IF PROCESSES' = PROCESSES THEN UNCHANGED memoryVars ELSE Memory!End(Current)
    BY <1>4 DEF AnyProgram, AnyCall, Killed, EndByCall, Drop, other_call, sched_yield,
         trace_query, Return
  <2>2. PROCESSES \in Seq(App) /\ PROCESSES # <<>>
    BY <2>1 DEF Running, IInv4, IInv, TypeOK
  <2>3. CASE Drop
    <3>1. PROCESSES' # PROCESSES
      BY <2>2, <2>3, HeadTailProperties, EmptySeq DEF Drop, Removed
    <3>2. QED
      BY <2>1, <2>3, <3>1, SameEnd DEF EndStep, Kind, programVars
  <2>4. CASE \E ret : Return(ret)
    <3>1. PROCESSES' = PROCESSES /\ \A a \in App : a # Current => ctx'[a] = ctx[a]
      BY <2>2, <2>4, ListFacts DEF Return, IInv4, IInv
    <3>2. QED
      BY <2>1, <3>1 DEF Kind, StayStep, programVars, memoryVars, InTest
  <2>5. QED
    BY <2>1, <2>3, <2>4 DEF AnyCall, Killed, EndByCall, other_call, sched_yield, trace_query
<1>5. CASE call \/ query
  <2>1. PICK ops \in {{"call"}, {"trace_query"}} : Performs(ops)
    BY <1>5 DEF call, query
  <2>2. PICK id, ret : Called(id) /\ Return(ret) /\ Advance /\ UNCHANGED <<origin_brk, memoryVars>>
    BY <1>5 DEF call, query, sched_yield, other_call, trace_query
  <2>3. UNCHANGED alive
    BY <2>2 DEF memoryVars
  <2>4. QED
    BY <2>1, <2>2, <2>3, ReturnKind DEF Kind, IInv4
<1>6. CASE expect
  <2> DEFINE claim == CASE Instruction[1] = "expect" -> answer \in Instruction[2]
                        [] Instruction[1] = "same" -> answer = origin_brk[Current]
                        [] Instruction[1] = "fail" -> FALSE
  <2>1. Performs({"expect", "same", "fail"}) /\ AdvanceOrPanic(claim)
    BY <1>6 DEF expect
  <2>2. Instruction[1] = "fail" => ~claim
    OBVIOUS
  <2> HIDE DEF claim
  <2>3. QED
    BY <2>1, <2>2, ClaimKind
<1>7. CASE load
  <2> DEFINE claim == mem[pages[Current][Target].frame] \in Instruction[3]
  <2>1. Performs({"load"}) /\ AdvanceOrPanic(claim)
    BY <1>7 DEF load
  <2>2. Instruction[1] # "fail"
    BY <2>1 DEF Performs
  <2> HIDE DEF claim
  <2>3. QED
    BY <2>1, <2>2, ClaimKind
<1>8. CASE fault \/ exit
  BY <1>8, LeaveKind DEF fault, exit, Performs, Kind
<1>9. CASE keep_origin
  <2>1. Running /\ InTest(Current) /\ Instruction[1] = "origin"
    BY <1>9 DEF keep_origin, Performs, InTest
  <2>2. Instruction # <<"sbrk", 0>> /\ Instruction[1] \notin {"exit", "fail"}
    BY <2>1
  <2>3. InstructionStep
    BY <1>9, <2>1, <2>2 DEF keep_origin, InstructionStep, Advance, vars
  <2>4. QED
    BY <1>9, <2>3 DEF keep_origin, Kind, StayStep, Advance, vars, memoryVars
<1>10. QED
  BY <1>1, <1>2, <1>3, <1>4, <1>5, <1>6, <1>7, <1>8, <1>9, MmapKind, MunmapKind, SbrkKind,
     WriteKind, StoreKind DEF Next4, Step

-----------------------------------------------------------------------------
(*                      Every step keeps the invariant                     *)

LEMMA LoadKeeps == IInv4 /\ LoadStep => MemoryInv4' /\ Listed' /\ AsLoaded' /\ WithinScript' /\ OriginKnown'
<1> SUFFICES ASSUME IInv4, LoadStep
             PROVE  MemoryInv4' /\ Listed' /\ AsLoaded' /\ WithinScript' /\ OriginKnown'
  OBVIOUS
<1> DEFINE n == Len(PROCESSES)
<1>1. /\ mode = "load" /\ loading \in App
      /\ UNCHANGED <<mode, ctx, image, pos, origin_brk>>
  BY DEF LoadStep, Load
<1>2. TypeOK /\ n \in Nat /\ DOMAIN PROCESSES = 1 .. n
  BY ListFacts DEF IInv4, IInv
<1>3. WithinScript' /\ OriginKnown'
  BY <1>1 DEF IInv4, WithinScript, OriginKnown, InTest, Brk
<1>4. CASE loading \notin accepted
  <2>1. UNCHANGED <<PROCESSES, memoryVars>>
    BY <1>4 DEF LoadStep, Load
  <2>2. UNCHANGED MP!viewBar
    BY <2>1 DEF MP!viewBar, memoryVars
  <2>3. MemoryInv4'
    <3>1. UNCHANGED MP!vars
      BY <2>1 DEF memoryVars, MP!vars
    <3>2. [MP!Next]_(MP!vars)
      BY <3>1
    <3>3. QED
      BY <3>2, MemoryParameters, BootParameters, MP!TypeStep, MP!PrivateStep, MP!DeadStep,
         MP!HeapStep DEF IInv4, MemoryInv4, MP!MemoryInv
  <2>4. Listed' /\ AsLoaded'
    BY <1>1, <2>1, <2>2 DEF IInv4, Listed, AsLoaded, memoryVars
  <2>5. QED
    BY <1>3, <2>3, <2>4
<1>5. CASE loading \in accepted
  <2>1. MP!from_elf(loading, ElfEnd) /\ PROCESSES' = Append(PROCESSES, loading)
    BY <1>5 DEF LoadStep, Load
  <2>2. loading \in MP!Proc
    BY <1>1 DEF App, MP!Proc
  <2>3. /\ MemoryInv4'
        /\ alive' = alive \cup {loading}
        /\ MP!viewBar'[loading] = MP!Image(ElfEnd) /\ program_brk'[loading] = heap_bottom'[loading]
        /\ \A q \in alive : q # loading =>
              /\ MP!viewBar'[q] = MP!viewBar[q]
              /\ program_brk'[q] = program_brk[q] /\ heap_bottom'[q] = heap_bottom[q]
    BY <2>1, <2>2, MemoryParameters, BootParameters, MP!ProgramKeepsMemory
       DEF IInv4, MemoryInv4
  <2>4. /\ Len(PROCESSES') = n + 1 /\ PROCESSES' \in Seq(App)
        /\ \A k \in 1 .. n : PROCESSES'[k] = PROCESSES[k]
        /\ PROCESSES'[n + 1] = loading
    BY <1>1, <1>2, <2>1, AppendProperties DEF TypeOK
  <2>5. DOMAIN PROCESSES' = 1 .. n + 1
    BY <2>4, LenProperties
  <2>6. \A k \in 1 .. n : PROCESSES[k] \in alive /\ PROCESSES[k] # loading
    <3>1. \A k \in 1 .. n : PROCESSES[k] < loading /\ PROCESSES[k] \in App
      BY <1>2, ListFacts DEF IInv4, IInv, NotYetRun
    <3>2. QED
      BY <1>1, <1>2, <3>1 DEF IInv4, Listed, App
  <2>7. \A k \in 1 .. n + 1 : k \in 1 .. n \/ k = n + 1
    BY <1>2
  <2>8. \A k \in 1 .. n : k \in 1 .. n + 1 /\ n + 1 \in 1 .. n + 1
    BY <1>2
  <2> HIDE DEF n
  <2>9. Listed'
    <3>1. \A x : (\E k \in 1 .. n + 1 : x = PROCESSES'[k])
                 <=> (\E k \in 1 .. n : x = PROCESSES[k]) \/ x = loading
      BY <2>4, <2>7, <2>8, <1>2
    <3>2. \A x : x \in alive <=> \E k \in 1 .. n : x = PROCESSES[k]
      BY <1>2 DEF IInv4, Listed, n
    <3>3. \A x : x \in alive' <=> \E k \in 1 .. n + 1 : x = PROCESSES'[k]
      BY <2>3, <3>1, <3>2
    <3>4. QED
      BY <2>5, <3>3 DEF Listed
  <2>10. AsLoaded'
    <3> SUFFICES ASSUME NEW k \in 1 .. n + 1
                 PROVE  /\ MP!viewBar'[PROCESSES'[k]] = MP!Image(ElfEnd)
                        /\ program_brk'[PROCESSES'[k]] = heap_bottom'[PROCESSES'[k]]
      BY <2>5 DEF AsLoaded
    <3>1. CASE k = n + 1
      BY <2>3, <2>4, <3>1
    <3>2. CASE k \in 1 .. n
      BY <1>1, <1>2, <2>3, <2>4, <2>6, <3>2 DEF IInv4, AsLoaded
    <3>3. QED
      BY <2>7, <3>1, <3>2
  <2>11. QED
    BY <1>3, <2>3, <2>9, <2>10
<1>6. QED
  BY <1>4, <1>5

(* The head of the list is a process of the memory, and no other is it.    *)
LEMMA HeadFacts ==
    ASSUME IInv4, Running
    PROVE  /\ Current \in App /\ Current \in MP!Proc /\ Current \in alive
           /\ Len(PROCESSES) \in Nat /\ Len(PROCESSES) > 0
           /\ DOMAIN PROCESSES = 1 .. Len(PROCESSES) /\ Current = PROCESSES[1]
           /\ \A k \in 1 .. Len(PROCESSES) : PROCESSES[k] \in alive
           /\ \A k \in 1 .. Len(PROCESSES) : k > 1 => PROCESSES[k] # Current
<1>1. /\ TypeOK /\ PROCESSES # <<>>
  BY DEF IInv4, IInv, Running
<1>2. /\ Len(PROCESSES) \in Nat /\ Len(PROCESSES) > 0 /\ Current \in App
      /\ DOMAIN PROCESSES = 1 .. Len(PROCESSES) /\ Current = PROCESSES[1]
      /\ \A k \in 1 .. Len(PROCESSES) : PROCESSES[k] \in App
  BY <1>1, ListFacts DEF Current
<1>3. \A k \in 1 .. Len(PROCESSES) : PROCESSES[k] \in alive
  BY <1>2 DEF IInv4, Listed
<1>4. 1 \in 1 .. Len(PROCESSES)
  BY <1>2
<1>5. \A k \in 1 .. Len(PROCESSES) : k > 1 => PROCESSES[1] < PROCESSES[k]
  BY <1>2, <1>4 DEF IInv4, IInv, OneAfterTheOther
<1>6. QED
  BY <1>2, <1>3, <1>4, <1>5 DEF App, MP!Proc

(* What a call of the head means for memory.                               *)
LEMMA HeadCall ==
    ASSUME IInv4, Running, MP!Call(Current)
    PROVE  /\ MemoryInv4'
           /\ \A q \in alive : q # Current =>
                 /\ MP!viewBar'[q] = MP!viewBar[q]
                 /\ program_brk'[q] = program_brk[q] /\ heap_bottom'[q] = heap_bottom[q]
<1>1. PICK p \in MP!Proc : p = Current
  BY HeadFacts
<1>2. MP!Call(p)
  BY <1>1
<1>3. MemoryInv4'
  BY <1>2, MemoryParameters, BootParameters, MP!CallKeepsMemory DEF IInv4, MemoryInv4
<1>4. 0 <= 1
  OBVIOUS
<1>5. \A q \in alive : q # p =>
          /\ MP!viewBar'[q] = MP!viewBar[q]
          /\ program_brk'[q] = program_brk[q] /\ heap_bottom'[q] = heap_bottom[q]
  BY <1>2, <1>4, MemoryParameters, BootParameters, MP!CallLeavesOthers DEF IInv4, MemoryInv4
<1>6. QED
  BY <1>1, <1>3, <1>5

LEMMA EndKeeps == IInv4 /\ EndStep => MemoryInv4' /\ Listed' /\ AsLoaded' /\ WithinScript' /\ OriginKnown'
<1> SUFFICES ASSUME IInv4, EndStep
             PROVE  MemoryInv4' /\ Listed' /\ AsLoaded' /\ WithinScript' /\ OriginKnown'
  OBVIOUS
<1> DEFINE n == Len(PROCESSES)
<1>1. /\ Running /\ mode = "run" /\ UNCHANGED <<mode, image, pos, origin_brk>>
      /\ PROCESSES' = Tail(PROCESSES) /\ PROCESSES # <<>> /\ PROCESSES \in Seq(App)
      /\ ctx' = [ctx EXCEPT ![Current] = Fresh] /\ alive' = alive \ {Current}
  BY DEF EndStep, Drop, Running, Removed, MP!End, IInv4, IInv, TypeOK
<1>2. /\ Current \in App /\ n \in Nat /\ n > 0
      /\ DOMAIN PROCESSES = 1 .. n /\ Current = PROCESSES[1]
      /\ \A k \in 1 .. n : PROCESSES[k] \in alive
      /\ \A k \in 1 .. n : k > 1 => PROCESSES[k] # Current
  BY <1>1, HeadFacts
<1>3. MP!Call(Current)
  BY DEF EndStep, MP!Call
<1>4. /\ MemoryInv4'
      /\ \A q \in alive : q # Current =>
            /\ MP!viewBar'[q] = MP!viewBar[q]
            /\ program_brk'[q] = program_brk[q] /\ heap_bottom'[q] = heap_bottom[q]
  BY <1>1, <1>3, HeadCall
<1>5. /\ Len(PROCESSES') = n - 1 /\ PROCESSES' \in Seq(App)
      /\ \A k \in 1 .. n - 1 : PROCESSES'[k] = PROCESSES[k + 1]
  BY <1>1, HeadTailProperties
<1>6. DOMAIN PROCESSES' = 1 .. n - 1
  BY <1>5, LenProperties
<1> HIDE DEF n
<1>7. \A k \in 1 .. n - 1 : k + 1 \in 1 .. n /\ k + 1 > 1
  BY <1>2
<1>8. \A k \in 1 .. n : k > 1 => k - 1 \in 1 .. n - 1 /\ (k - 1) + 1 = k
  BY <1>2
<1>9. Listed'
  <2>1. \A x : (\E k \in 1 .. n - 1 : x = PROCESSES'[k]) <=> x \in alive \ {Current}
    <3>1. ASSUME NEW k \in 1 .. n - 1 PROVE PROCESSES'[k] \in alive \ {Current}
      BY <1>2, <1>5, <1>7
    <3>2. ASSUME NEW x \in alive, x # Current PROVE \E k \in 1 .. n - 1 : x = PROCESSES'[k]
      <4>1. PICK k \in 1 .. n : x = PROCESSES[k]
        BY <1>2 DEF IInv4, Listed
      <4>2. k > 1
        BY <1>2, <3>2, <4>1
      <4>3. QED
        BY <1>5, <1>8, <4>1, <4>2
    <3>3. QED
      BY <3>1, <3>2
  <2>2. QED
    BY <1>1, <1>6, <2>1 DEF Listed
<1>10. AsLoaded'
  <2> SUFFICES ASSUME NEW k \in 1 .. n - 1
               PROVE  /\ MP!viewBar'[PROCESSES'[k]] = MP!Image(ElfEnd)
                      /\ program_brk'[PROCESSES'[k]] = heap_bottom'[PROCESSES'[k]]
    BY <1>6 DEF AsLoaded
  <2>1. k + 1 \in 1 .. n /\ k + 1 > 1 /\ PROCESSES'[k] = PROCESSES[k + 1]
    BY <1>5, <1>7
  <2>2. PROCESSES[k + 1] \in alive /\ PROCESSES[k + 1] # Current
    BY <1>2, <2>1
  <2>3. /\ MP!viewBar[PROCESSES[k + 1]] = MP!Image(ElfEnd)
        /\ program_brk[PROCESSES[k + 1]] = heap_bottom[PROCESSES[k + 1]]
    BY <1>2, <2>1 DEF IInv4, AsLoaded
  <2>4. QED
    BY <1>4, <2>1, <2>2, <2>3
<1>11. WithinScript'
  BY <1>1 DEF IInv4, WithinScript, InTest
<1>12. OriginKnown'
  <2>1. ctx'[Current].a0 = 0 /\ \A a \in App : a # Current => ctx'[a] = ctx[a]
    BY <1>1, <1>2 DEF IInv4, IInv, Fresh
  <2>2. 0 \in Brk
    <3>1. PageCount * PAGE_SIZE \in Nat
      BY Geometry
    <3>2. QED
      BY <3>1 DEF Brk
  <2>3. QED
    BY <1>1, <2>1, <2>2 DEF IInv4, OriginKnown, InTest, Brk
<1>13. QED
  BY <1>4, <1>9, <1>10, <1>11, <1>12

LEMMA SameMemory ==
    ASSUME IInv4, UNCHANGED memoryVars
    PROVE  MemoryInv4' /\ UNCHANGED <<MP!viewBar, program_brk, heap_bottom, alive>>
<1>1. UNCHANGED MP!vars /\ UNCHANGED <<program_brk, heap_bottom, alive>>
  BY DEF memoryVars, MP!vars
<1>2. [MP!Next]_(MP!vars)
  BY <1>1
<1>3. MemoryInv4'
  BY <1>2, MemoryParameters, BootParameters, MP!TypeStep, MP!PrivateStep, MP!DeadStep,
     MP!HeapStep DEF IInv4, MemoryInv4, MP!MemoryInv
<1>4. UNCHANGED MP!viewBar
  BY DEF memoryVars, MP!viewBar
<1>5. QED
  BY <1>1, <1>3, <1>4

(* The next instruction is there, and if it keeps an answer, that answer   *)
(* is a break.                                                             *)
LEMMA InstructionKeeps ==
    ASSUME IInv4, InstructionStep, UNCHANGED image
    PROVE  WithinScript' /\ OriginKnown'
<1> DEFINE p == Current
           s == script[image[p]]
           k == pos[p]
<1>1. /\ p \in App /\ k \in 1 .. Len(s) /\ Text(s) /\ Ends(s) /\ InTest(p)
      /\ Instruction = s[k] /\ Instruction \in Instructions \cup {<<"origin">>}
  BY InstructionKnown DEF InstructionStep, Instruction, IInv4
<1>2. s \in Seq(Instructions \cup {<<"origin">>}) /\ Len(s) \in Nat
  BY <1>1, LenProperties DEF Text
<1>3. /\ pos' = [pos EXCEPT ![p] = k + 1] /\ pos \in [App -> Int]
      /\ image \in Builds
  BY DEF InstructionStep, IInv4, WithinScript
<1> HIDE DEF p, s, k
<1>4. k # Len(s)
  BY <1>1 DEF InstructionStep, Ends
<1>5. k + 1 \in 1 .. Len(s) /\ k \in Int /\ (k + 1) - 1 = k
  BY <1>1, <1>2, <1>4
<1>6. /\ pos' \in [App -> Int] /\ pos'[p] = k + 1
      /\ \A a \in App : a # p => pos'[a] = pos[a]
  BY <1>1, <1>3, <1>5
<1>7. WithinScript'
  <2>1. \A a \in App : a # p => IF InTest(a) THEN pos'[a] \in 1 .. Len(script[image[a]])
                                ELSE pos'[a] = 1
    BY <1>6 DEF IInv4, WithinScript
  <2>2. pos'[p] \in 1 .. Len(script[image[p]])
    BY <1>5, <1>6 DEF s
  <2>3. QED
    BY <1>1, <1>3, <1>6, <2>1, <2>2 DEF WithinScript, InTest
<1>8. origin_brk' \in [App -> Brk]
  <2>1. origin_brk \in [App -> Brk]
    BY DEF IInv4, OriginKnown
  <2>2. CASE UNCHANGED origin_brk
    BY <2>1, <2>2
  <2>3. CASE /\ Instruction[1] = "origin"
             /\ origin_brk' = [origin_brk EXCEPT ![p] = answer]
    <3>1. Instruction = <<"origin">>
      BY <1>1, <2>3, InstructionFacts
    <3>2. answer \in Brk
      BY <1>1, <3>1 DEF IInv4, OriginKnown, answer, p, s, k
    <3>3. QED
      BY <1>1, <2>1, <2>3, <3>2
  <2>4. QED
    BY <2>2, <2>3 DEF InstructionStep, p
<1>9. ASSUME s[k + 1] = <<"origin">> PROVE ctx'[p].a0 \in Brk
  <2>1. s[k] = <<"sbrk", 0>>
    BY <1>1, <1>5, <1>9 DEF Text
  <2>2. QED
    BY <1>1, <2>1 DEF InstructionStep, p
<1>10. \A a \in App : a # p => ctx'[a] = ctx[a]
  BY DEF InstructionStep, p
<1>11. ASSUME NEW a \in App, InTest(a), script[image[a]][pos'[a]] = <<"origin">>
       PROVE  ctx'[a].a0 \in Brk
  <2>1. CASE a = p
    BY <1>6, <1>9, <1>11, <2>1 DEF s
  <2>2. CASE a # p
    BY <1>6, <1>10, <1>11, <2>2 DEF IInv4, OriginKnown
  <2>3. QED
    BY <2>1, <2>2
<1>12. OriginKnown'
  BY <1>8, <1>11 DEF OriginKnown, InTest, Brk
<1>13. QED
  BY <1>7, <1>12

LEMMA StayKeeps == IInv4 /\ StayStep => MemoryInv4' /\ Listed' /\ AsLoaded' /\ WithinScript' /\ OriginKnown'
<1> SUFFICES ASSUME IInv4, StayStep
             PROVE  MemoryInv4' /\ Listed' /\ AsLoaded' /\ WithinScript' /\ OriginKnown'
  OBVIOUS
<1>1. /\ UNCHANGED <<PROCESSES, alive, image>> /\ (mode' = "load" => mode = "load")
      /\ UNCHANGED memoryVars \/ (Running /\ MP!Call(Current))
  BY DEF StayStep
<1>2. Listed'
  BY <1>1 DEF IInv4, Listed
<1>3. MemoryInv4'
  BY <1>1, SameMemory, HeadCall
<1>4. AsLoaded'
  <2>1. CASE UNCHANGED memoryVars
    BY <1>1, <2>1, SameMemory DEF IInv4, AsLoaded
  <2>2. CASE Running /\ MP!Call(Current)
    <3> SUFFICES ASSUME NEW k \in DOMAIN PROCESSES, k > 1
                 PROVE  /\ MP!viewBar'[PROCESSES[k]] = MP!Image(ElfEnd)
                        /\ program_brk'[PROCESSES[k]] = heap_bottom'[PROCESSES[k]]
      BY <1>1, <2>2 DEF AsLoaded, Running
    <3>1. PROCESSES[k] \in alive /\ PROCESSES[k] # Current
      BY <2>2, HeadFacts
    <3>2. /\ MP!viewBar[PROCESSES[k]] = MP!Image(ElfEnd)
          /\ program_brk[PROCESSES[k]] = heap_bottom[PROCESSES[k]]
      BY DEF IInv4, AsLoaded
    <3>3. QED
      BY <2>2, <3>1, <3>2, HeadCall
  <2>3. QED
    BY <1>1, <2>1, <2>2
<1>5. CASE /\ UNCHANGED <<pos, origin_brk>>
           /\ \A a \in App : InTest(a) => ctx'[a] = ctx[a]
  <2>1. WithinScript' /\ OriginKnown'
    BY <1>1, <1>5 DEF IInv4, WithinScript, OriginKnown, InTest, Brk
  <2>2. QED
    BY <1>2, <1>3, <1>4, <2>1
<1>6. QED
  BY <1>1, <1>2, <1>3, <1>4, <1>5, InstructionKeeps DEF StayStep

LEMMA InitIInv4 == Init4 => IInv4
<1> SUFFICES ASSUME Init4 PROVE IInv4
  OBVIOUS
<1>1. IInv
  BY InitIInv DEF Init4
<1>2. PROCESSES = <<>> /\ DOMAIN PROCESSES = {} /\ alive = {}
  BY EmptySeq DEF Init4, Init
<1>3. Listed /\ AsLoaded
  BY <1>2 DEF Listed, AsLoaded
<1>4. 0 \in Brk
  <2>1. PageCount * PAGE_SIZE \in Nat
    BY Geometry
  <2>2. QED
    BY <2>1 DEF Brk
<1>5. MemoryInv4
  <2>1. /\ alive = {} /\ pages = [p \in MP!Proc |-> MP!Unmapped]
        /\ heap_bottom = [p \in MP!Proc |-> 0] /\ program_brk = heap_bottom
        /\ mem = [f \in MP!Frame |-> "zero"] /\ next_frame = 0 /\ halted = MP!NotHalted
        /\ holes = [p \in MP!Proc |-> {}]
    BY SameSets DEF Init4
  <2>2. 0 \in 0 .. FrameCount /\ "zero" \in MP!Value
    BY Ch4MemoryAssumption DEF MP!Value
  <2>3. MP!TypeOK
    BY <1>4, <2>1, <2>2 DEF MP!TypeOK, MP!Unmapped, MP!NotHalted, Brk
  <2>4. MP!FramesPrivate /\ MP!DeadEmpty /\ MP!HeapExact
    BY <2>1 DEF MP!FramesPrivate, MP!DeadEmpty, MP!HeapExact
  <2>5. QED
    BY <2>3, <2>4 DEF MemoryInv4, MP!MemoryInv
<1>6. WithinScript
  <2>1. image \in Builds /\ pos = [a \in App |-> 1]
    BY DEF Init4
  <2>2. ASSUME NEW a \in App, InTest(a) PROVE 1 \in 1 .. Len(script[image[a]])
    <3>1. image[a] \in DOMAIN script \ {"any"}
      BY <2>1, <2>2, Ch4MemoryAssumption DEF InTest
    <3>2. Text(script[image[a]]) /\ Ends(script[image[a]])
      BY <3>1, ScriptFacts
    <3>3. Len(script[image[a]]) \in Nat
      BY <3>2, LenProperties DEF Text
    <3>4. QED
      BY <3>2, <3>3 DEF Ends
  <2>3. QED
    BY <2>1, <2>2 DEF WithinScript
<1>7. OriginKnown
  BY <1>4 DEF Init4, Init, OriginKnown, Fresh
<1>8. QED
  BY <1>1, <1>3, <1>5, <1>6, <1>7 DEF IInv4

LEMMA WholeInvariant == Spec4 => []IInv4
<1>1. IInv4 /\ [Next4]_allVars => IInv4'
  <2>1. IInv4 /\ [Next4]_allVars => IInv'
    BY Next4IsListStep, ListStepKeepsIInv DEF IInv4
  <2>2. QED
    BY <2>1, StepKind, LoadKeeps, EndKeeps, StayKeeps DEF Kind, IInv4
<1>2. QED
  BY <1>1, InitIInv4, PTL DEF Spec4

-----------------------------------------------------------------------------
(*                          Theorems about memory                          *)

(* A process that waits has the text, the stack and the empty heap it was  *)
(* loaded with, for any image and any sizes of pages, memory and tests.    *)
THEOREM WaitingCorrect == Spec4 => []WaitingAsLoaded
<1>1. IInv4 => WaitingAsLoaded
  BY SameView DEF IInv4, AsLoaded, WaitingAsLoaded
<1>2. QED
  BY <1>1, WholeInvariant, PTL

(* Every state of chapter 4 is one its kernel can be in: the list, the     *)
(* address spaces, and programs that never run past their last instruction.*)
THEOREM Ch4TypeCorrect == Spec4 => []Types
<1>1. IInv4 => Types
  <2> SUFFICES ASSUME IInv4 PROVE Types
    OBVIOUS
  <2>1. ASSUME NEW a \in App PROVE pos[a] \in 1 .. Len(script[image[a]]) + 1
    <3>1. image[a] \in DOMAIN script /\ image \in Builds
      BY Ch4MemoryAssumption DEF IInv4, WithinScript
    <3>2. CASE InTest(a)
      <4>1. Len(script[image[a]]) \in Nat
        BY <3>1, <3>2, ScriptFacts, LenProperties DEF InTest, Text
      <4>2. QED
        BY <3>2, <4>1 DEF IInv4, WithinScript
    <3>3. CASE ~InTest(a)
      <4>1. Len(script[image[a]]) = 0
        BY <3>3, ScriptFacts, EmptySeq DEF InTest
      <4>2. QED
        BY <3>3, <4>1 DEF IInv4, WithinScript
    <3>4. QED
      BY <3>2, <3>3
  <2>2. Memory!TypeOK
    BY SameTypes DEF IInv4, MemoryInv4, MP!MemoryInv
  <2>3. QED
    BY <2>1, <2>2 DEF IInv4, IInv, WithinScript, OriginKnown, Types, Brk
<1>2. QED
  BY <1>1, WholeInvariant, PTL

(* In chapter 4 no physical page is in two address spaces or in one twice, *)
(* and a heap is the pages between its bottom and its break, while every   *)
(* program of the image is in memory from the start.                       *)
THEOREM Ch4MemoryCorrect == Spec4 => [](Memory!FramesPrivate /\ Memory!HeapExact)
<1>1. MP!FramesPrivate => Memory!FramesPrivate
  BY SameState DEF MP!FramesPrivate, Memory!FramesPrivate
<1>2. MP!HeapExact => Memory!HeapExact
  BY SameState DEF MP!HeapExact, Memory!HeapExact
<1>3. IInv4 => Memory!FramesPrivate /\ Memory!HeapExact
  BY <1>1, <1>2 DEF IInv4, MemoryInv4, MP!MemoryInv
<1>4. QED
  BY <1>3, WholeInvariant, PTL

-----------------------------------------------------------------------------
(*                     Where the tests look and store                      *)

LEMMA Window ==
    /\ PAGE_SIZE \in Nat /\ PAGE_SIZE >= 2 /\ StartPage \in Nat /\ StartPage >= 2
    /\ VarPage = StartPage + 5 /\ PageCount = StartPage + 6
    /\ Memory!Page = 0 .. StartPage + 5 /\ len = PAGE_SIZE
BY Ch4MemoryAssumption, TestsAssumption DEF StartPage, VarPage, Memory!StackPage, Memory!Page, len

(* Addresses k * PAGE_SIZE + d, page by page.                              *)
LEMMA PageFacts ==
    ASSUME NEW k \in Nat
    PROVE  /\ k * PAGE_SIZE \in Nat /\ PageOf(k * PAGE_SIZE) = k /\ Memory!Aligned(k * PAGE_SIZE)
           /\ Memory!Ceil(k * PAGE_SIZE) = k
           /\ ~Memory!Aligned(k * PAGE_SIZE + 1)
<1> DEFINE P == PAGE_SIZE
           a == k * P
<1>1. P \in Nat \ {0} /\ P >= 2
  BY Window
<1>2. a \in Nat /\ a \div P = k /\ Memory!Ceil(a) = k
  BY MemoryParameters, BootParameters, SameSets, MP!BoundaryFacts
<1> HIDE DEF P
<1>3. a % P = 0
  BY <1>1, Z3
<1>4. (a + 1) % P # 0
  <2>1. (a + 1) \div P = k
    BY <1>1, <1>2, MP!DivUnique
  <2>2. a + 1 = P * k + 1 /\ a + 1 \in Nat
    BY <1>1, Z3
  <2>3. (a + 1) = P * ((a + 1) \div P) + ((a + 1) % P)
    BY <1>1, <2>2, Z3
  <2>4. (a + 1) % P \in Int /\ P * k \in Int
    BY <1>1, <2>2, Z3
  <2> DEFINE m == (a + 1) % P
             w == P * k
  <2>5. a + 1 = w + m /\ a + 1 = w + 1 /\ m \in Int /\ w \in Int
    BY <2>1, <2>2, <2>3, <2>4
  <2> HIDE DEF m, w
  <2>6. m = 1
    BY <2>5
  <2>7. QED
    BY <2>6 DEF m
<1>5. QED
  BY <1>2, <1>3, <1>4 DEF P, PageOf, Memory!Floor, Memory!Aligned

LEMMA Places ==
    /\ start = StartPage * PAGE_SIZE /\ start - len = (StartPage - 1) * PAGE_SIZE
    /\ start + len = (StartPage + 1) * PAGE_SIZE
    /\ PageOf(start) = StartPage /\ PageOf(var) = VarPage
    /\ PageOf(KernelAddress) = StartPage + 4 /\ PageOf(isize_MAX) = StartPage + 6
    /\ PageOf(TextAddress) = 0 /\ PageOf(PAGE_SIZE) = 1
    /\ Memory!Aligned(start) /\ Memory!Aligned(start - len) /\ Memory!Aligned(start + len)
    /\ ~Memory!Aligned(start + len + 1) /\ ~Memory!Aligned(start + 1)
<1> DEFINE P == PAGE_SIZE
           n == StartPage
           a == n * P
<1>1. P \in Nat /\ n \in Nat /\ n >= 2 /\ a \in Nat /\ len = P /\ PageCount = n + 6
      /\ VarPage = n + 5
  BY Window
<1> HIDE DEF P, n
<1>2. (n - 1) * P = a - P /\ (n + 1) * P = a + P /\ 0 * P = 0 /\ 1 * P = P
  BY <1>1, Z3
<1>3. start = a /\ start - len = (n - 1) * P /\ start + len = (n + 1) * P
  BY <1>1, <1>2 DEF start, P, n
<1>4. n - 1 \in Nat /\ n + 1 \in Nat /\ n + 4 \in Nat /\ n + 5 \in Nat /\ n + 6 \in Nat
      /\ 0 \in Nat /\ 1 \in Nat
  BY <1>1
<1>5. var = (n + 5) * P /\ KernelAddress = (n + 4) * P /\ isize_MAX = (n + 6) * P
  <2>1. PageCount - 2 = n + 4
    BY <1>1
  <2>2. QED
    BY <1>1, <2>1 DEF var, KernelAddress, isize_MAX, P
<1>6. \A k \in Nat : /\ PageOf(k * P) = k /\ Memory!Aligned(k * P)
                     /\ ~Memory!Aligned(k * P + 1)
  BY PageFacts DEF P
<1>7. PageOf(0) = 0 /\ PageOf(P) = 1
  BY <1>2, <1>4, <1>6
<1>8. PageOf(start) = n /\ PageOf(var) = VarPage /\ PageOf(KernelAddress) = n + 4
      /\ PageOf(isize_MAX) = n + 6
  BY <1>1, <1>3, <1>4, <1>5, <1>6
<1>9. /\ Memory!Aligned(start) /\ Memory!Aligned(start - len) /\ Memory!Aligned(start + len)
      /\ ~Memory!Aligned(start + len + 1) /\ ~Memory!Aligned(start + 1)
  BY <1>1, <1>3, <1>4, <1>6
<1>10. QED
  BY <1>3, <1>7, <1>8, <1>9 DEF P, n, TextAddress

LEMMA Lengths ==
    /\ Memory!Ceil(len) = 1 /\ Memory!Ceil(len + 1) = 2 /\ Memory!Ceil(len * 2) = 2
<1> DEFINE P == PAGE_SIZE
<1>1. P \in Nat /\ P >= 2 /\ len = P
  BY Window
<1>2. 1 * P = P /\ 2 * P = P * 2 /\ P + 1 \in Nat /\ P + 1 <= 2 * P /\ 1 \in Nat /\ 2 \in Nat
  BY <1>1, Z3
<1>3. Memory!Ceil(1 * P) = 1 /\ Memory!Ceil(2 * P) = 2
  BY <1>2, PageFacts
<1>4. Memory!Ceil(P + 1) = 2
  <2> DEFINE c == Memory!Ceil(P + 1)
  <2>1. c \in Nat /\ P + 1 <= c * P /\ c <= 2
    BY <1>2, MemoryParameters, BootParameters, SameSets, MP!CeilFacts, MP!CeilBelow
  <2> HIDE DEF c
  <2>2. c = 0 \/ c = 1 \/ c = 2
    BY <2>1
  <2>3. 0 * P = 0 /\ ~(P + 1 <= P) /\ ~(P + 1 <= 0)
    BY <1>1
  <2>4. QED
    BY <1>2, <2>1, <2>2, <2>3 DEF c
<1>5. QED
  BY <1>1, <1>2, <1>3, <1>4

(* The pages the tests map and unmap.                                      *)
LEMMA Ranges ==
    /\ Memory!PageRange(start, len) = {StartPage}
    /\ Memory!PageRange(start, len + 1) = {StartPage, StartPage + 1}
    /\ Memory!PageRange(start + len, len) = {StartPage + 1}
    /\ Memory!PageRange(start + len, len * 2) = {StartPage + 1, StartPage + 2}
    /\ Memory!PageRange(start - len, len + 1) = {StartPage - 1, StartPage}
<1> DEFINE n == StartPage
<1>1. n \in Nat /\ n >= 2 /\ n - 1 \in Nat /\ n + 1 \in Nat
  BY Window
<1>2. /\ Memory!Floor(start) = n /\ Memory!Floor(start + len) = n + 1
      /\ Memory!Floor(start - len) = n - 1
  BY <1>1, Places, PageFacts DEF PageOf
<1> HIDE DEF n
<1>3. /\ n .. n + 1 - 1 = {n} /\ n .. n + 2 - 1 = {n, n + 1}
      /\ (n + 1) .. (n + 1) + 1 - 1 = {n + 1} /\ (n + 1) .. (n + 1) + 2 - 1 = {n + 1, n + 2}
      /\ (n - 1) .. (n - 1) + 2 - 1 = {n - 1, n}
  BY <1>1
<1>4. QED
  BY <1>2, <1>3, Lengths DEF Memory!PageRange, n

-----------------------------------------------------------------------------
(*                    Instruction by instruction                           *)

(* A loop with one instruction a round.                                    *)
LEMMA LoopAt ==
    ASSUME NEW S, NEW n \in Nat, NEW f \in [1..n -> S]
    PROVE  /\ FlattenSeq([i \in 1..n |-> <<f[i]>>]) \in Seq(S)
           /\ Len(FlattenSeq([i \in 1..n |-> <<f[i]>>])) = n
           /\ \A k \in 1..n : FlattenSeq([i \in 1..n |-> <<f[i]>>])[k] = f[k]
<1> DEFINE rounds == [i \in 1..n |-> <<f[i]>>]
<1>1. \A x \in S : <<x>> \in Seq(S) /\ Len(<<x>>) = 1 /\ <<x>>[1] = x
  OBVIOUS
<1>2. \A i \in 1..n : f[i] \in S
  OBVIOUS
<1>3. rounds \in [1..n -> Row(S, 1)] /\ rounds \in [1..n -> Seq(S)]
  BY <1>1, <1>2 DEF Row
<1>4. \A k \in 1..n : rounds[k][1] = f[k]
  BY <1>1, <1>2
<1> HIDE DEF rounds
<1>5. HasRows(FlattenSeq(rounds), rounds, n, 1)
  BY <1>3, FlattenRows
<1>6. FlattenSeq(rounds) \in Seq(S)
  BY <1>3, FlattenTyped
<1>7. Len(FlattenSeq(rounds)) = n
  BY <1>5 DEF HasRows
<1>8. ASSUME NEW k \in 1..n PROVE FlattenSeq(rounds)[k] = f[k]
  <2>1. (k - 1) * 1 + 1 = k
    OBVIOUS
  <2>2. FlattenSeq(rounds)[(k - 1) * 1 + 1] = rounds[k][1]
    BY <1>5 DEF HasRows
  <2>3. QED
    BY <1>4, <2>1, <2>2
<1>9. QED
  BY <1>6, <1>7, <1>8 DEF rounds

(* The k-th byte of the pages from first on.                               *)
PageOfByte(first, k) == first + (k - 1) \div PAGE_SIZE

LEMMA ByteFacts ==
    ASSUME NEW first \in Nat, NEW c \in Nat, NEW k \in 1 .. c * PAGE_SIZE
    PROVE  PageOfByte(first, k) \in first .. first + c - 1
<1> DEFINE P == PAGE_SIZE
           q == (k - 1) \div P
           w == c * P
<1>1. P \in Nat \ {0}
  BY Window
<1>2. w \in Nat
  BY <1>1, Z3
<1>3. k - 1 \in Nat /\ k - 1 < w
  <2> HIDE DEF w
  <2>1. k \in 1 .. w
    BY DEF w
  <2>2. QED
    BY <1>2, <2>1
<1>4. q \in Nat /\ q * P <= k - 1
  BY <1>1, <1>3, MP!DivFacts
<1> HIDE DEF q
<1>5. q < c
  <2>1. q >= c => q * P >= c * P
    BY <1>1, <1>4, ProductFacts
  <2>2. q * P \in Int
    BY <1>1, <1>4, ProductFacts
  <2> HIDE DEF P
  <2>3. QED
    BY <1>2, <1>3, <1>4, <2>1, <2>2
<1>6. first + q \in first .. first + c - 1
  BY <1>4, <1>5
<1>7. QED
  BY <1>6 DEF PageOfByte, q

LEMMA BytesAt ==
    ASSUME NEW first \in Nat, NEW c \in Nat
    PROVE  LET n == c * PAGE_SIZE
               stores == StoreAll(first, first + c - 1)
               loads == LoadAll(first, first + c - 1)
           IN  /\ n \in Nat
               /\ stores \in Seq(Instructions) /\ Len(stores) = n
               /\ loads \in Seq(Instructions) /\ Len(loads) = n
               /\ \A k \in 1..n : /\ stores[k] = <<"store", PageOfByte(first, k), "byte">>
                                  /\ loads[k] = <<"load", PageOfByte(first, k), {"byte"}>>
<1> DEFINE n == c * PAGE_SIZE
           last == first + c - 1
           f == [i \in 1..n |-> <<"store", PageOfByte(first, i), "byte">>]
           g == [i \in 1..n |-> <<"load", PageOfByte(first, i), {"byte"}>>]
<1>1. n \in Nat
  BY Window, ProductFacts
<1>2. last + 1 - first = c
  OBVIOUS
<1>3. \A k \in 1..n : PageOfByte(first, k) \in Int
  <2>1. \A k \in 1..n : PageOfByte(first, k) \in first .. first + c - 1
    BY ByteFacts
  <2> HIDE DEF n
  <2>2. QED
    BY <2>1
<1>4. f \in [1..n -> Instructions] /\ g \in [1..n -> Instructions]
  <2>1. "byte" \in Byte /\ {"byte"} \in SUBSET Memory!Value
    BY DEF Byte, Memory!Value
  <2>2. QED
    BY <1>3, <2>1, AccessInstructions
<1>5. /\ StoreAll(first, last) = FlattenSeq([i \in 1..n |-> <<f[i]>>])
      /\ LoadAll(first, last) = FlattenSeq([i \in 1..n |-> <<g[i]>>])
  <2> DEFINE a(i) == <<"store", PageOfByte(first, i), "byte">>
             b(i) == <<"load", PageOfByte(first, i), {"byte"}>>
  <2>1. /\ StoreAll(first, last) = FlattenSeq([i \in 1..n |-> <<a(i)>>])
        /\ LoadAll(first, last) = FlattenSeq([i \in 1..n |-> <<b(i)>>])
    BY <1>2 DEF StoreAll, LoadAll, ForEach, PageOfByte
  <2>2. /\ [i \in 1..n |-> <<a(i)>>] = [i \in 1..n |-> <<f[i]>>]
        /\ [i \in 1..n |-> <<b(i)>>] = [i \in 1..n |-> <<g[i]>>]
    OBVIOUS
  <2>3. QED
    BY <2>1, <2>2
<1>6. \A k \in 1..n : /\ f[k] = <<"store", PageOfByte(first, k), "byte">>
                      /\ g[k] = <<"load", PageOfByte(first, k), {"byte"}>>
  OBVIOUS
<1> HIDE DEF n, f, g
<1>7. \A h \in [1..n -> Instructions] :
         /\ FlattenSeq([i \in 1..n |-> <<h[i]>>]) \in Seq(Instructions)
         /\ Len(FlattenSeq([i \in 1..n |-> <<h[i]>>])) = n
         /\ \A k \in 1..n : FlattenSeq([i \in 1..n |-> <<h[i]>>])[k] = h[k]
  <2> HIDE DEF Instructions
  <2>1. QED
    BY <1>1, LoopAt
<1>8. /\ StoreAll(first, last) \in Seq(Instructions) /\ Len(StoreAll(first, last)) = n
      /\ \A k \in 1..n : StoreAll(first, last)[k] = f[k]
  BY <1>4, <1>5, <1>7, Zenon
<1>9. /\ LoadAll(first, last) \in Seq(Instructions) /\ Len(LoadAll(first, last)) = n
      /\ \A k \in 1..n : LoadAll(first, last)[k] = g[k]
  BY <1>4, <1>5, <1>7, Zenon
<1>10. QED
  BY <1>1, <1>6, <1>8, <1>9 DEF n

-----------------------------------------------------------------------------
(*                   The instructions of each memory test                  *)

(* x is s, of length m, and t, of length n, one after the other.           *)
Joins(x, s, m, t, n, S) ==
    /\ x \in Seq(S) /\ Len(x) = m + n
    /\ \A k \in 1..m : x[k] = s[k]
    /\ \A k \in 1..n : x[m + k] = t[k]

LEMMA JoinFacts ==
    ASSUME NEW S, NEW s \in Seq(S), NEW t \in Seq(S), NEW m, m = Len(s), NEW n, n = Len(t)
    PROVE  Joins(s \o t, s, m, t, n, S)
<1> DEFINE x == s \o t
<1>1. /\ x \in Seq(S) /\ Len(x) = Len(s) + Len(t)
      /\ \A k \in 1..Len(s) : x[k] = s[k]
      /\ \A k \in 1..Len(t) : x[Len(s) + k] = t[k]
  BY ConcatAt
<1> HIDE DEF x
<1>2. Joins(x, s, m, t, n, S)
  BY <1>1 DEF Joins
<1>3. QED
  BY <1>2 DEF x

(* After the h instructions of head, stores and loads of n bytes; the end. *)
BytesTest(s, head, h, first, n) ==
    /\ Len(s) = h + n + n + 1
    /\ \A k \in 1..h : s[k] = head[k]
    /\ \A k \in 1..n : /\ s[h + k] = <<"store", PageOfByte(first, k), "byte">>
                       /\ s[h + n + k] = <<"load", PageOfByte(first, k), {"byte"}>>
    /\ s[h + n + n + 1] = <<"exit", 0>>

(* A test that stores and loads every byte of c pages, and exits.          *)
LEMMA BytesText ==
    ASSUME NEW head \in Seq(Instructions), NEW first \in Nat, NEW c \in Nat, NEW s,
           s = head \o StoreAll(first, first + c - 1) \o LoadAll(first, first + c - 1) \o << Exit(0) >>
    PROVE  BytesTest(s, head, Len(head), first, c * PAGE_SIZE) /\ c * PAGE_SIZE \in Nat
<1> DEFINE h == Len(head)
           n == c * PAGE_SIZE
           stores == StoreAll(first, first + c - 1)
           loads == LoadAll(first, first + c - 1)
           a == head \o stores
           b == a \o loads
           e == << Exit(0) >>
           S == Instructions
<1>1. /\ n \in Nat /\ stores \in Seq(S) /\ Len(stores) = n /\ loads \in Seq(S) /\ Len(loads) = n
      /\ \A k \in 1..n : /\ stores[k] = <<"store", PageOfByte(first, k), "byte">>
                         /\ loads[k] = <<"load", PageOfByte(first, k), {"byte"}>>
  BY BytesAt
<1>2. h \in Nat /\ head \in Seq(S) /\ e \in Seq(S) /\ Len(e) = 1 /\ e[1] = <<"exit", 0>>
  BY ExitPlain, LenProperties DEF Plain, Exit
<1>3. s = b \o e
  OBVIOUS
<1> HIDE DEF n, stores, loads, e, S
<1>4. /\ a \in Seq(S) /\ Len(a) = h + n
      /\ \A k \in 1..h : a[k] = head[k]
      /\ \A k \in 1..n : a[h + k] = stores[k]
  <2>1. Joins(head \o stores, head, h, stores, n, S)
    BY <1>1, <1>2, JoinFacts
  <2>2. QED
    BY <2>1 DEF Joins
<1> HIDE DEF h, a
<1>5. /\ b \in Seq(S) /\ Len(b) = h + n + n
      /\ \A k \in 1..h + n : b[k] = a[k]
      /\ \A k \in 1..n : b[h + n + k] = loads[k]
  <2>1. Joins(a \o loads, a, h + n, loads, n, S)
    BY <1>1, <1>4, JoinFacts
  <2>2. QED
    BY <2>1 DEF Joins
<1> HIDE DEF b
<1>6. /\ Len(s) = h + n + n + 1
      /\ \A k \in 1..h + n + n : s[k] = b[k]
      /\ s[h + n + n + 1] = e[1]
  <2>1. Joins(b \o e, b, h + n + n, e, 1, S)
    BY <1>2, <1>5, JoinFacts
  <2>2. 1 \in 1..1
    OBVIOUS
  <2>3. QED
    BY <1>3, <2>1, <2>2 DEF Joins
<1>7. \A k \in 1..h : k \in 1..h + n /\ k \in 1..h + n + n
  BY <1>1, <1>2 DEF h
<1>8. \A k \in 1..n : h + k \in 1..h + n /\ h + k \in 1..h + n + n /\ h + n + k \in 1..h + n + n
  BY <1>1, <1>2 DEF h
<1>9. \A k \in 1..h : s[k] = head[k]
  BY <1>4, <1>5, <1>6, <1>7
<1>10. \A k \in 1..n : s[h + k] = stores[k] /\ s[h + n + k] = loads[k]
  BY <1>4, <1>5, <1>6, <1>8
<1>11. QED
  BY <1>1, <1>2, <1>6, <1>9, <1>10 DEF h, n, BytesTest

LEMMA MmapText ==
    LET s == ch4_mmap
        P == PAGE_SIZE
    IN  /\ Len(s) = 3 + P + P
        /\ s[1] = <<"mmap", start, len, RW>> /\ s[2] = <<"expect", {0}>>
        /\ \A k \in 1..P : /\ s[2 + k] = <<"store", StartPage, "byte">>
                           /\ s[2 + P + k] = <<"load", StartPage, {"byte"}>>
        /\ s[3 + P + P] = <<"exit", 0>>
<1> DEFINE head == << <<"mmap", start, len, RW>>, Expect({0}) >>
           s == ch4_mmap
           P == PAGE_SIZE
<1>1. head \in Seq(Instructions)
  <2>1. <<"mmap", start, len, RW>> \in Instructions
    BY MappingFacts, RightsFacts
  <2>2. QED
    BY <2>1, ExpectFacts
<1>2. /\ Len(head) = 2 /\ head[1] = <<"mmap", start, len, RW>> /\ head[2] = <<"expect", {0}>>
  BY DEF Expect
<1>3. P \in Nat /\ 1 * P = P /\ StartPage \in Nat /\ StartPage + 1 - 1 = StartPage
  BY Window
<1>4. s = head \o StoreAll(StartPage, StartPage + 1 - 1) \o LoadAll(StartPage, StartPage + 1 - 1)
               \o << Exit(0) >>
  BY <1>3 DEF ch4_mmap
<1>5. \A k \in 1..P : PageOfByte(StartPage, k) = StartPage
  <2>1. \A k \in 1 .. 1 * P : PageOfByte(StartPage, k) \in StartPage .. StartPage + 1 - 1
    BY <1>3, ByteFacts
  <2>2. \A x \in StartPage .. StartPage + 1 - 1 : x = StartPage
    BY <1>3
  <2>3. QED
    BY <1>3, <2>1, <2>2
<1> HIDE DEF head, s, P
<1>6. /\ Len(s) = 2 + P + P + 1
      /\ \A k \in 1..2 : s[k] = head[k]
      /\ \A k \in 1..P : /\ s[2 + k] = <<"store", PageOfByte(StartPage, k), "byte">>
                         /\ s[2 + P + k] = <<"load", PageOfByte(StartPage, k), {"byte"}>>
      /\ s[2 + P + P + 1] = <<"exit", 0>>
  <2>1. BytesTest(s, head, Len(head), StartPage, 1 * PAGE_SIZE)
    BY <1>1, <1>3, <1>4, BytesText
  <2>2. BytesTest(s, head, 2, StartPage, P)
    BY <1>2, <1>3, <2>1 DEF P
  <2>3. QED
    BY <2>2 DEF BytesTest
<1>7. 2 + P + P + 1 = 3 + P + P /\ 1 \in 1..2 /\ 2 \in 1..2
  BY <1>3
<1>8. QED
  BY <1>2, <1>5, <1>6, <1>7 DEF s, P

LEMMA UnmapText ==
    LET s == ch4_unmap
        n == 4 * PAGE_SIZE
    IN  /\ n \in Nat /\ Len(s) = 9 + n + n
        /\ s[1] = <<"mmap", start, len, RW>> /\ s[2] = <<"expect", {0}>>
        /\ s[3] = <<"mmap", start + len, len * 2, RW>> /\ s[4] = <<"expect", {0}>>
        /\ s[5] = <<"munmap", start, len>> /\ s[6] = <<"expect", {0}>>
        /\ s[7] = <<"mmap", start - len, len + 1, RW>> /\ s[8] = <<"expect", {0}>>
        /\ \A k \in 1..n :
              /\ s[8 + k] = <<"store", PageOfByte(StartPage - 1, k), "byte">>
              /\ s[8 + n + k] = <<"load", PageOfByte(StartPage - 1, k), {"byte"}>>
        /\ s[9 + n + n] = <<"exit", 0>>
<1> DEFINE head == << <<"mmap", start, len, RW>>, Expect({0}),
                      <<"mmap", start + len, len * 2, RW>>, Expect({0}),
                      <<"munmap", start, len>>, Expect({0}),
                      <<"mmap", start - len, len + 1, RW>>, Expect({0}) >>
           s == ch4_unmap
           n == 4 * PAGE_SIZE
           first == StartPage - 1
<1>1. head \in Seq(Instructions)
  <2>1. /\ <<"mmap", start, len, RW>> \in Instructions
        /\ <<"mmap", start + len, len * 2, RW>> \in Instructions
        /\ <<"munmap", start, len>> \in Instructions
        /\ <<"mmap", start - len, len + 1, RW>> \in Instructions
    BY MappingFacts, RightsFacts
  <2>2. QED
    BY <2>1, ExpectFacts
<1>2. /\ Len(head) = 8 /\ head[1] = <<"mmap", start, len, RW>> /\ head[2] = <<"expect", {0}>>
      /\ head[3] = <<"mmap", start + len, len * 2, RW>> /\ head[4] = <<"expect", {0}>>
      /\ head[5] = <<"munmap", start, len>> /\ head[6] = <<"expect", {0}>>
      /\ head[7] = <<"mmap", start - len, len + 1, RW>> /\ head[8] = <<"expect", {0}>>
  BY DEF Expect
<1>3. first \in Nat /\ first + 4 - 1 = StartPage + 2
  BY Window
<1>4. s = head \o StoreAll(first, first + 4 - 1) \o LoadAll(first, first + 4 - 1) \o << Exit(0) >>
  BY <1>3 DEF ch4_unmap
<1> HIDE DEF head, s, first
<1>5. /\ n \in Nat /\ Len(s) = 8 + n + n + 1
      /\ \A k \in 1..8 : s[k] = head[k]
      /\ \A k \in 1..n : /\ s[8 + k] = <<"store", PageOfByte(first, k), "byte">>
                         /\ s[8 + n + k] = <<"load", PageOfByte(first, k), {"byte"}>>
      /\ s[8 + n + n + 1] = <<"exit", 0>>
  <2>1. BytesTest(s, head, Len(head), first, n) /\ n \in Nat
    BY <1>1, <1>3, <1>4, BytesText
  <2> HIDE DEF n
  <2>2. BytesTest(s, head, 8, first, n)
    BY <1>2, <2>1
  <2>3. QED
    BY <2>1, <2>2 DEF BytesTest
<1> HIDE DEF n
<1>6. 8 + n + n + 1 = 9 + n + n /\ 1 \in 1..8 /\ 2 \in 1..8 /\ 3 \in 1..8 /\ 4 \in 1..8
      /\ 5 \in 1..8 /\ 6 \in 1..8 /\ 7 \in 1..8 /\ 8 \in 1..8
  BY <1>5
<1>7. QED
  BY <1>2, <1>5, <1>6 DEF s, n, first

LEMMA SbrkText ==
    LET s == sbrk_test
        P == PAGE_SIZE
    IN  /\ Len(s) = 13 + P
        /\ s[1] = <<"sbrk", 0>> /\ s[2] = <<"origin">> /\ s[3] = <<"sbrk", P>>
        /\ s[4] = <<"same">> /\ s[5] = <<"sbrk", 0>>
        /\ \A k \in 1..P : s[5 + k] = <<"store_new", "byte">>
        /\ s[6 + P] = <<"sbrk", P * 10>> /\ s[7 + P] = <<"sbrk", 0>>
        /\ s[8 + P] = <<"sbrk", P * (-11)>> /\ s[9 + P] = <<"sbrk", 0>>
        /\ s[10 + P] = <<"sbrk", P * (-1)>> /\ s[11 + P] = <<"expect", {-1}>>
        /\ s[12 + P] = <<"store_new", "byte">> /\ s[13 + P] = <<"fail">>
<1> DEFINE P == PAGE_SIZE
           S == Instructions \cup {<<"origin">>}
           head == << <<"sbrk", 0>>, <<"origin">>, <<"sbrk", P>>, <<"same">>, <<"sbrk", 0>> >>
           rest == << <<"sbrk", P * 10>>, <<"sbrk", 0>>, <<"sbrk", P * (-11)>>, <<"sbrk", 0>>,
                      <<"sbrk", P * (-1)>>, Expect({-1}),
                      <<"store_new", "byte">>, <<"fail">> >>
<1>1. P \in Nat /\ P * 10 \in Int /\ P * (-11) \in Int /\ P * (-1) \in Int /\ 0 \in Int /\ P \in Int
  BY Window
<1>2. "byte" \in Byte
  BY DEF Byte
<1>3. /\ <<"sbrk", 0>> \in Instructions /\ <<"sbrk", P>> \in Instructions
      /\ <<"sbrk", P * 10>> \in Instructions
      /\ <<"sbrk", P * (-11)>> \in Instructions
      /\ <<"sbrk", P * (-1)>> \in Instructions
      /\ <<"store_new", "byte">> \in Instructions
  BY <1>1, <1>2, MemoryInstructions, AccessInstructions
<1>4. head \in Seq(S) /\ rest \in Seq(S)
  BY <1>3, ExpectFacts
<1>5. /\ Len(head) = 5 /\ head[1] = <<"sbrk", 0>> /\ head[2] = <<"origin">>
      /\ head[3] = <<"sbrk", P>> /\ head[4] = <<"same">> /\ head[5] = <<"sbrk", 0>>
  OBVIOUS
<1>6. /\ Len(rest) = 8 /\ rest[1] = <<"sbrk", P * 10>> /\ rest[2] = <<"sbrk", 0>>
      /\ rest[3] = <<"sbrk", P * (-11)>> /\ rest[4] = <<"sbrk", 0>>
      /\ rest[5] = <<"sbrk", P * (-1)>> /\ rest[6] = <<"expect", {-1}>>
      /\ rest[7] = <<"store_new", "byte">> /\ rest[8] = <<"fail">>
  BY DEF Expect
<1>7. sbrk_test = head \o StoreNewPage \o rest
  BY DEF sbrk_test
<1>8. /\ StoreNewPage \in Seq(S) /\ Len(StoreNewPage) = P
      /\ \A k \in 1..P : StoreNewPage[k] = <<"store_new", "byte">>
  <2> DEFINE x == <<"store_new", "byte">>
             f == [i \in 1..P |-> x]
  <2>1. x \in S
    BY <1>3
  <2>2. f \in [1..P -> S] /\ \A k \in 1..P : f[k] = x
    BY <2>1
  <2>3. StoreNewPage = FlattenSeq([i \in 1..P |-> <<x>>])
    BY DEF StoreNewPage, Times
  <2>4. [i \in 1..P |-> <<x>>] = [i \in 1..P |-> <<f[i]>>]
    OBVIOUS
  <2> DEFINE loop == FlattenSeq([i \in 1..P |-> <<f[i]>>])
  <2> HIDE DEF f, S, P
  <2>5. loop \in Seq(S) /\ Len(loop) = P /\ \A k \in 1..P : loop[k] = f[k]
    <3>1. \A h \in [1..P -> S] :
             /\ FlattenSeq([i \in 1..P |-> <<h[i]>>]) \in Seq(S)
             /\ Len(FlattenSeq([i \in 1..P |-> <<h[i]>>])) = P
             /\ \A k \in 1..P : FlattenSeq([i \in 1..P |-> <<h[i]>>])[k] = h[k]
      BY <1>1, LoopAt
    <3>2. QED
      BY <2>2, <3>1, Zenon
  <2>6. StoreNewPage = loop
    BY <2>3, <2>4
  <2> HIDE DEF loop
  <2>7. QED
    BY <2>2, <2>5, <2>6
<1> HIDE DEF head, rest, S
<1> DEFINE a == head \o StoreNewPage
<1>9. /\ a \in Seq(S) /\ Len(a) = 5 + P
      /\ \A k \in 1..5 : a[k] = head[k]
      /\ \A k \in 1..P : a[5 + k] = StoreNewPage[k]
  <2>1. Joins(head \o StoreNewPage, head, 5, StoreNewPage, P, S)
    BY <1>4, <1>5, <1>8, JoinFacts
  <2>2. QED
    BY <2>1 DEF Joins
<1>10. sbrk_test = a \o rest
  BY <1>7
<1> HIDE DEF a, P
<1>11. /\ Len(sbrk_test) = 5 + P + 8
       /\ \A k \in 1..5 + P : sbrk_test[k] = a[k]
       /\ \A k \in 1..8 : sbrk_test[5 + P + k] = rest[k]
  <2>1. Joins(a \o rest, a, 5 + P, rest, 8, S)
    BY <1>4, <1>6, <1>9, JoinFacts
  <2>2. QED
    BY <1>10, <2>1 DEF Joins
<1>12. \A k \in 1..P : 5 + k \in 1..5 + P
  BY <1>1
<1>13. \A k \in 1..5 : k \in 1..5 + P
  BY <1>1
<1>14. /\ 5 + P + 1 = 6 + P /\ 5 + P + 2 = 7 + P /\ 5 + P + 3 = 8 + P /\ 5 + P + 4 = 9 + P
       /\ 5 + P + 5 = 10 + P /\ 5 + P + 6 = 11 + P /\ 5 + P + 7 = 12 + P /\ 5 + P + 8 = 13 + P
       /\ 1 \in 1..5 /\ 2 \in 1..5 /\ 3 \in 1..5 /\ 4 \in 1..5 /\ 5 \in 1..5
       /\ 1 \in 1..8 /\ 2 \in 1..8 /\ 3 \in 1..8 /\ 4 \in 1..8 /\ 5 \in 1..8 /\ 6 \in 1..8
       /\ 7 \in 1..8 /\ 8 \in 1..8
  BY <1>1
<1>15. /\ sbrk_test[6 + P] = rest[1] /\ sbrk_test[7 + P] = rest[2] /\ sbrk_test[8 + P] = rest[3]
       /\ sbrk_test[9 + P] = rest[4] /\ sbrk_test[10 + P] = rest[5] /\ sbrk_test[11 + P] = rest[6]
       /\ sbrk_test[12 + P] = rest[7] /\ sbrk_test[13 + P] = rest[8]
  BY <1>11, <1>14
<1>16. /\ sbrk_test[1] = head[1] /\ sbrk_test[2] = head[2] /\ sbrk_test[3] = head[3]
       /\ sbrk_test[4] = head[4] /\ sbrk_test[5] = head[5]
  <2>1. \A k \in 1..5 : sbrk_test[k] = head[k]
    BY <1>9, <1>11, <1>13
  <2>2. QED
    BY <2>1
<1>17. \A k \in 1..P : sbrk_test[5 + k] = <<"store_new", "byte">>
  BY <1>8, <1>9, <1>11, <1>12
<1>18. QED
  BY <1>5, <1>6, <1>11, <1>14, <1>15, <1>16, <1>17 DEF P

(* x has the first m instructions of y.                                    *)
Agrees(x, y, m) == \A k \in 1..m : x[k] = y[k]

(* What a sequence has of the two instructions a join ends with.           *)
LEMMA LastTwo ==
    ASSUME NEW x, NEW y, NEW s, NEW t, NEW S, NEW m \in Nat, Joins(y, s, m, t, 2, S),
           NEW l, l = m + 2, Agrees(x, y, l)
    PROVE  Agrees(x, s, m) /\ x[m + 1] = t[1] /\ x[l] = t[2]
<1>1. /\ \A k \in 1..m : k \in 1..l
      /\ m + 1 \in 1..l /\ m + 2 \in 1..l /\ 1 \in 1..2 /\ 2 \in 1..2
  OBVIOUS
<1>2. \A k \in 1..l : x[k] = y[k]
  BY DEF Agrees
<1>3. (\A k \in 1..m : y[k] = s[k]) /\ \A k \in 1..2 : y[m + k] = t[k]
  BY DEF Joins
<1>4. \A k \in 1..m : x[k] = s[k]
  BY <1>1, <1>2, <1>3, Zenon
<1>5. x[m + 1] = t[1] /\ x[m + 2] = t[2]
  BY <1>1, <1>2, <1>3
<1>6. QED
  BY <1>4, <1>5 DEF Agrees

LEMMA TraceText ==
    LET s == ch4_trace
    IN  /\ Len(s) = 29
        /\ s[1] = <<"store", VarPage, "111">> /\ s[2] = <<"trace_read", var>>
        /\ s[3] = <<"expect", {111}>> /\ s[4] = <<"store", VarPage, "22">>
        /\ s[5] = <<"trace_read", var>> /\ s[6] = <<"expect", {22}>>
        /\ s[7] = <<"trace_write", var, "33">> /\ s[8] = <<"expect", {0}>>
        /\ s[9] = <<"trace_read", isize_MAX>> /\ s[10] = <<"expect", {-1}>>
        /\ s[11] = <<"trace_write", isize_MAX, "byte">> /\ s[12] = <<"expect", {-1}>>
        /\ s[13] = <<"trace_read", KernelAddress>> /\ s[14] = <<"expect", {-1}>>
        /\ s[15] = <<"trace_write", KernelAddress, "byte">> /\ s[16] = <<"expect", {-1}>>
        /\ s[17] = <<"mmap", start, len, {"R"}>> /\ s[18] = <<"expect", {0}>>
        /\ s[19] = <<"trace_read", start>> /\ s[20] = <<"expect", 0..255>>
        /\ s[21] = <<"trace_write", start, "byte">> /\ s[22] = <<"expect", {-1}>>
        /\ s[23] = <<"munmap", start, len>> /\ s[24] = <<"expect", {0}>>
        /\ s[25] = <<"trace_read", start>> /\ s[26] = <<"expect", {-1}>>
        /\ s[27] = <<"trace_write", start, "byte">> /\ s[28] = <<"expect", {-1}>>
        /\ s[29] = <<"exit", 0>>
<1> DEFINE S == Instructions
           t0 == << <<"store", VarPage, "111">>, <<"trace_read", var>>, Expect({111}),
                    <<"store", VarPage, "22">>, <<"trace_read", var>>, Expect({22}),
                    <<"trace_write", var, "33">>, Expect({0}) >>
           p1 == ReadNone(isize_MAX)
           p2 == WriteFails(isize_MAX)
           p3 == ReadNone(KernelAddress)
           p4 == WriteFails(KernelAddress)
           p5 == << <<"mmap", start, len, {"R"}>>, Expect({0}) >>
           p6 == ReadSome(start)
           p7 == WriteFails(start)
           p8 == << <<"munmap", start, len>>, Expect({0}) >>
           p9 == ReadNone(start)
           p10 == WriteFails(start)
           e == << Exit(0) >>
<1>1. "111" \in Byte /\ "22" \in Byte /\ "33" \in Byte
  BY DEF Byte
<1>2. t0 \in Seq(S)
  BY <1>1, AccessFacts, ExpectFacts
<1>3. p5 \in Seq(S) /\ p8 \in Seq(S)
  <2>1. <<"mmap", start, len, {"R"}>> \in Instructions /\ <<"munmap", start, len>> \in Instructions
    BY MappingFacts, RightsFacts
  <2>2. QED
    BY <2>1, ExpectFacts
<1>4. /\ p1 \in Seq(S) /\ p2 \in Seq(S) /\ p3 \in Seq(S) /\ p4 \in Seq(S)
      /\ p6 \in Seq(S) /\ p7 \in Seq(S) /\ p9 \in Seq(S) /\ p10 \in Seq(S)
  <2>1. isize_MAX \in Int /\ KernelAddress \in Int /\ start \in Int
    BY Geometry DEF start, StartPage
  <2>2. QED
    BY <2>1, TraceTyped
<1>5. e \in Seq(S) /\ Len(e) = 1 /\ e[1] = <<"exit", 0>>
  BY ExitPlain DEF Plain, Exit
<1>6. /\ Len(t0) = 8 /\ t0[1] = <<"store", VarPage, "111">> /\ t0[2] = <<"trace_read", var>>
      /\ t0[3] = <<"expect", {111}>> /\ t0[4] = <<"store", VarPage, "22">>
      /\ t0[5] = <<"trace_read", var>> /\ t0[6] = <<"expect", {22}>>
      /\ t0[7] = <<"trace_write", var, "33">> /\ t0[8] = <<"expect", {0}>>
  BY DEF Expect
<1>7. /\ Len(p1) = 2 /\ p1[1] = <<"trace_read", isize_MAX>> /\ p1[2] = <<"expect", {-1}>>
      /\ Len(p2) = 2 /\ p2[1] = <<"trace_write", isize_MAX, "byte">> /\ p2[2] = <<"expect", {-1}>>
      /\ Len(p3) = 2 /\ p3[1] = <<"trace_read", KernelAddress>> /\ p3[2] = <<"expect", {-1}>>
      /\ Len(p4) = 2 /\ p4[1] = <<"trace_write", KernelAddress, "byte">>
      /\ p4[2] = <<"expect", {-1}>>
  BY DEF ReadNone, WriteFails, Expect
<1>8. /\ Len(p5) = 2 /\ p5[1] = <<"mmap", start, len, {"R"}>> /\ p5[2] = <<"expect", {0}>>
      /\ Len(p6) = 2 /\ p6[1] = <<"trace_read", start>> /\ p6[2] = <<"expect", 0..255>>
      /\ Len(p7) = 2 /\ p7[1] = <<"trace_write", start, "byte">> /\ p7[2] = <<"expect", {-1}>>
      /\ Len(p8) = 2 /\ p8[1] = <<"munmap", start, len>> /\ p8[2] = <<"expect", {0}>>
  BY DEF ReadSome, WriteFails, Expect
<1>9. /\ Len(p9) = 2 /\ p9[1] = <<"trace_read", start>> /\ p9[2] = <<"expect", {-1}>>
      /\ Len(p10) = 2 /\ p10[1] = <<"trace_write", start, "byte">> /\ p10[2] = <<"expect", {-1}>>
  BY DEF ReadNone, WriteFails, Expect
<1> DEFINE t1 == t0 \o p1
           t2 == t1 \o p2
           t3 == t2 \o p3
           t4 == t3 \o p4
           t5 == t4 \o p5
           t6 == t5 \o p6
           t7 == t6 \o p7
           t8 == t7 \o p8
           t9 == t8 \o p9
           t10 == t9 \o p10
           t11 == t10 \o e
<1>10. ch4_trace = t11
  BY DEF ch4_trace
<1> HIDE DEF S, t0, p1, p2, p3, p4, p5, p6, p7, p8, p9, p10, e
<1>12. Joins(t1, t0, 8, p1, 2, S) /\ t1 \in Seq(S) /\ Len(t1) = 10
  <2>1. Joins(t1, t0, 8, p1, 2, S)
    BY <1>2, <1>6, <1>4, <1>7, JoinFacts
  <2> HIDE DEF t1
  <2>2. QED
    BY <2>1 DEF Joins
<1> HIDE DEF t1
<1>13. Joins(t2, t1, 10, p2, 2, S) /\ t2 \in Seq(S) /\ Len(t2) = 12
  <2>1. Joins(t2, t1, 10, p2, 2, S)
    BY <1>12, <1>4, <1>7, JoinFacts
  <2> HIDE DEF t2
  <2>2. QED
    BY <2>1 DEF Joins
<1> HIDE DEF t2
<1>14. Joins(t3, t2, 12, p3, 2, S) /\ t3 \in Seq(S) /\ Len(t3) = 14
  <2>1. Joins(t3, t2, 12, p3, 2, S)
    BY <1>13, <1>4, <1>7, JoinFacts
  <2> HIDE DEF t3
  <2>2. QED
    BY <2>1 DEF Joins
<1> HIDE DEF t3
<1>15. Joins(t4, t3, 14, p4, 2, S) /\ t4 \in Seq(S) /\ Len(t4) = 16
  <2>1. Joins(t4, t3, 14, p4, 2, S)
    BY <1>14, <1>4, <1>7, JoinFacts
  <2> HIDE DEF t4
  <2>2. QED
    BY <2>1 DEF Joins
<1> HIDE DEF t4
<1>16. Joins(t5, t4, 16, p5, 2, S) /\ t5 \in Seq(S) /\ Len(t5) = 18
  <2>1. Joins(t5, t4, 16, p5, 2, S)
    BY <1>15, <1>3, <1>8, JoinFacts
  <2> HIDE DEF t5
  <2>2. QED
    BY <2>1 DEF Joins
<1> HIDE DEF t5
<1>17. Joins(t6, t5, 18, p6, 2, S) /\ t6 \in Seq(S) /\ Len(t6) = 20
  <2>1. Joins(t6, t5, 18, p6, 2, S)
    BY <1>16, <1>4, <1>8, JoinFacts
  <2> HIDE DEF t6
  <2>2. QED
    BY <2>1 DEF Joins
<1> HIDE DEF t6
<1>18. Joins(t7, t6, 20, p7, 2, S) /\ t7 \in Seq(S) /\ Len(t7) = 22
  <2>1. Joins(t7, t6, 20, p7, 2, S)
    BY <1>17, <1>4, <1>8, JoinFacts
  <2> HIDE DEF t7
  <2>2. QED
    BY <2>1 DEF Joins
<1> HIDE DEF t7
<1>19. Joins(t8, t7, 22, p8, 2, S) /\ t8 \in Seq(S) /\ Len(t8) = 24
  <2>1. Joins(t8, t7, 22, p8, 2, S)
    BY <1>18, <1>3, <1>8, JoinFacts
  <2> HIDE DEF t8
  <2>2. QED
    BY <2>1 DEF Joins
<1> HIDE DEF t8
<1>20. Joins(t9, t8, 24, p9, 2, S) /\ t9 \in Seq(S) /\ Len(t9) = 26
  <2>1. Joins(t9, t8, 24, p9, 2, S)
    BY <1>19, <1>4, <1>9, JoinFacts
  <2> HIDE DEF t9
  <2>2. QED
    BY <2>1 DEF Joins
<1> HIDE DEF t9
<1>21. Joins(t10, t9, 26, p10, 2, S) /\ t10 \in Seq(S) /\ Len(t10) = 28
  <2>1. Joins(t10, t9, 26, p10, 2, S)
    BY <1>20, <1>4, <1>9, JoinFacts
  <2> HIDE DEF t10
  <2>2. QED
    BY <2>1 DEF Joins
<1> HIDE DEF t10
<1>22. Joins(t11, t10, 28, e, 1, S) /\ t11 \in Seq(S) /\ Len(t11) = 29
  <2>1. Joins(t11, t10, 28, e, 1, S)
    BY <1>21, <1>5, JoinFacts
  <2> HIDE DEF t11
  <2>2. QED
    BY <2>1 DEF Joins
<1> DEFINE x == ch4_trace
<1>23. Agrees(x, t11, 29)
  BY <1>10 DEF Agrees
<1> HIDE DEF t11, x
<1>24. Agrees(x, t10, 28) /\ x[29] = e[1]
  <2>1. \A k \in 1..28 : k \in 1..29
    OBVIOUS
  <2>2. Agrees(x, t10, 28)
    BY <1>22, <1>23, <2>1, Zenon DEF Joins, Agrees
  <2>3. x[29] = e[1]
    <3>1. 29 \in 1..29 /\ 1 \in 1..1 /\ 28 + 1 = 29
      OBVIOUS
    <3>2. x[29] = t11[29]
      BY <1>23, <3>1 DEF Agrees
    <3>3. t11[28 + 1] = e[1]
      BY <1>22, <3>1 DEF Joins
    <3>4. QED
      BY <3>2, <3>3
  <2>4. QED
    BY <2>2, <2>3
<1>25. Agrees(x, t9, 26) /\ x[27] = p10[1] /\ x[28] = p10[2]
  <2>1. \A k \in 1..26 : k \in 1..28
    OBVIOUS
  <2>2. Agrees(x, t9, 26)
    BY <1>21, <1>24, <2>1, Zenon DEF Joins, Agrees
  <2>3. x[27] = p10[1]
    <3>1. 27 \in 1..28 /\ 1 \in 1..2 /\ 26 + 1 = 27
      OBVIOUS
    <3>2. x[27] = t10[27]
      BY <1>24, <3>1 DEF Agrees
    <3>3. t10[26 + 1] = p10[1]
      BY <1>21, <3>1 DEF Joins
    <3>4. QED
      BY <3>2, <3>3
  <2>4. x[28] = p10[2]
    <3>1. 28 \in 1..28 /\ 2 \in 1..2 /\ 26 + 2 = 28
      OBVIOUS
    <3>2. x[28] = t10[28]
      BY <1>24, <3>1 DEF Agrees
    <3>3. t10[26 + 2] = p10[2]
      BY <1>21, <3>1 DEF Joins
    <3>4. QED
      BY <3>2, <3>3
  <2>5. QED
    BY <2>2, <2>3, <2>4
<1>26. Agrees(x, t8, 24) /\ x[25] = p9[1] /\ x[26] = p9[2]
  BY <1>20, <1>25, LastTwo
<1>27. Agrees(x, t7, 22) /\ x[23] = p8[1] /\ x[24] = p8[2]
  BY <1>19, <1>26, LastTwo
<1>28. Agrees(x, t6, 20) /\ x[21] = p7[1] /\ x[22] = p7[2]
  BY <1>18, <1>27, LastTwo
<1>29. Agrees(x, t5, 18) /\ x[19] = p6[1] /\ x[20] = p6[2]
  BY <1>17, <1>28, LastTwo
<1>30. Agrees(x, t4, 16) /\ x[17] = p5[1] /\ x[18] = p5[2]
  BY <1>16, <1>29, LastTwo
<1>31. Agrees(x, t3, 14) /\ x[15] = p4[1] /\ x[16] = p4[2]
  BY <1>15, <1>30, LastTwo
<1>32. Agrees(x, t2, 12) /\ x[13] = p3[1] /\ x[14] = p3[2]
  BY <1>14, <1>31, LastTwo
<1>33. Agrees(x, t1, 10) /\ x[11] = p2[1] /\ x[12] = p2[2]
  BY <1>13, <1>32, LastTwo
<1>34. Agrees(x, t0, 8) /\ x[9] = p1[1] /\ x[10] = p1[2]
  BY <1>12, <1>33, LastTwo
<1>35. Len(x) = 29
  BY <1>10, <1>22 DEF x
<1>36. \A k \in 1..8 : x[k] = t0[k]
  BY <1>34 DEF Agrees
<1>37. /\ x[1] = t0[1] /\ x[2] = t0[2] /\ x[3] = t0[3] /\ x[4] = t0[4]
       /\ x[5] = t0[5] /\ x[6] = t0[6] /\ x[7] = t0[7] /\ x[8] = t0[8]
  BY <1>36
<1>38. QED
  BY <1>5, <1>6, <1>7, <1>8, <1>9, <1>24, <1>25, <1>26, <1>27, <1>28, <1>29, <1>30, <1>31, <1>32,
     <1>33, <1>34, <1>35, <1>37 DEF x

clock == <<"call", "clock_gettime">>
yield == <<"call", "sched_yield">>

(* What ch3_trace does before it looks at its counters, and how long it is.*)
Opening == get_time \o get_time \o sleep \o get_time \o get_time

FrontLength == 2 * SleepRounds + 6

LEMMA FrontText ==
    /\ Opening \in Seq({clock, yield}) /\ Len(Opening) = FrontLength
    /\ Opening[1] = clock /\ Opening[2] = clock /\ Opening[3] = clock /\ Opening[5] = yield
<1> DEFINE S == {clock, yield}
           R == SleepRounds
           g == get_time
           round == << clock, yield >>
           loop == Times(R, round)
           a1 == g \o g
           b1 == g \o loop
           b2 == b1 \o g
           a2 == a1 \o b2
           a3 == a2 \o g
           a4 == a3 \o g
<1>1. R \in Nat /\ R >= 1
  BY Ch4MemoryAssumption
<1>2. g \in Seq(S) /\ Len(g) = 1 /\ g[1] = clock
  BY DEF get_time, clock
<1>3. round \in Seq(S) /\ Len(round) = 2 /\ round[1] = clock /\ round[2] = yield
  OBVIOUS
<1>4. get_time \o << <<"call", "sched_yield">> >> = round
  <2> DEFINE c == <<"call", "clock_gettime">>
             y == <<"call", "sched_yield">>
  <2>1. Joins(<<c>> \o <<y>>, <<c>>, 1, <<y>>, 1, {c, y})
    <3>1. <<c>> \in Seq({c, y}) /\ <<y>> \in Seq({c, y}) /\ Len(<<c>>) = 1 /\ Len(<<y>>) = 1
      OBVIOUS
    <3> HIDE DEF c, y
    <3>2. QED
      BY <3>1, JoinFacts
  <2> HIDE DEF c, y
  <2> DEFINE z == <<c>> \o <<y>>
  <2>2. z \in Seq({c, y}) /\ Len(z) = 2 /\ z[1] = c /\ z[2] = y
    <3> HIDE DEF z
    <3>1. Joins(z, <<c>>, 1, <<y>>, 1, {c, y})
      BY <2>1 DEF z
    <3>2. 1 \in 1..1 /\ 1 + 1 = 2
      OBVIOUS
    <3>3. QED
      BY <3>1, <3>2 DEF Joins
  <2> HIDE DEF z
  <2>3. z = <<c, y>>
    BY <2>2
  <2>4. QED
    BY <2>3 DEF z, get_time, clock, yield, c, y
<1>5. Opening = a4
  BY <1>4 DEF Opening, sleep
<1>6. loop \in Seq(S) /\ Len(loop) = 2 * R /\ loop[1] = clock /\ loop[2] = yield
  <2> DEFINE f == [i \in 1..R |-> round]
  <2>1. f \in [1..R -> Row(S, 2)] /\ f \in [1..R -> Seq(S)] /\ f[1] = round
    BY <1>1, <1>3 DEF Row
  <2>2. loop = FlattenSeq(f)
    BY DEF Times
  <2> HIDE DEF f, S, round
  <2>3. HasRows(FlattenSeq(f), f, R, 2) /\ FlattenSeq(f) \in Seq(S)
    BY <1>1, <2>1, FlattenRows, FlattenTyped
  <2> DEFINE x == FlattenSeq(f)
  <2> HIDE DEF x
  <2>4. /\ Len(x) = R * 2
        /\ \A k \in 1..R, j \in 1..2 : x[(k - 1) * 2 + j] = f[k][j]
    BY <2>3 DEF HasRows, x
  <2>5. 1 \in 1..R /\ 1 \in 1..2 /\ 2 \in 1..2 /\ (1 - 1) * 2 + 1 = 1 /\ (1 - 1) * 2 + 2 = 2
        /\ R * 2 = 2 * R
    BY <1>1
  <2>6. x[1] = f[1][1] /\ x[2] = f[1][2]
    <3>1. x[(1 - 1) * 2 + 1] = f[1][1] /\ x[(1 - 1) * 2 + 2] = f[1][2]
      BY <2>4, <2>5
    <3>2. QED
      BY <2>5, <3>1
  <2>7. QED
    BY <1>3, <2>1, <2>2, <2>3, <2>4, <2>5, <2>6 DEF x
<1> HIDE DEF S, g, loop, R
<1>7. Joins(a1, g, 1, g, 1, S) /\ a1 \in Seq(S) /\ Len(a1) = 2
  <2>1. Joins(a1, g, 1, g, 1, S)
    BY <1>2, JoinFacts
  <2> HIDE DEF a1
  <2>2. QED
    BY <2>1 DEF Joins
<1>8. Joins(b1, g, 1, loop, 2 * R, S) /\ b1 \in Seq(S) /\ Len(b1) = 2 * R + 1
  <2>1. Joins(b1, g, 1, loop, 2 * R, S)
    BY <1>1, <1>2, <1>6, JoinFacts
  <2> HIDE DEF b1
  <2>2. QED
    BY <1>1, <2>1 DEF Joins
<1> HIDE DEF a1, b1
<1>9. Joins(b2, b1, 2 * R + 1, g, 1, S) /\ b2 \in Seq(S) /\ Len(b2) = 2 * R + 2
  <2>1. Joins(b2, b1, 2 * R + 1, g, 1, S)
    BY <1>1, <1>2, <1>8, JoinFacts
  <2> HIDE DEF b2
  <2>2. QED
    BY <1>1, <2>1 DEF Joins
<1> HIDE DEF b2
<1>10. Joins(a2, a1, 2, b2, 2 * R + 2, S) /\ a2 \in Seq(S) /\ Len(a2) = 2 * R + 4
  <2>1. Joins(a2, a1, 2, b2, 2 * R + 2, S)
    BY <1>1, <1>7, <1>9, JoinFacts
  <2> HIDE DEF a2
  <2>2. QED
    BY <1>1, <2>1 DEF Joins
<1> HIDE DEF a2
<1>11. Joins(a3, a2, 2 * R + 4, g, 1, S) /\ a3 \in Seq(S) /\ Len(a3) = 2 * R + 5
  <2>1. Joins(a3, a2, 2 * R + 4, g, 1, S)
    BY <1>1, <1>2, <1>10, JoinFacts
  <2> HIDE DEF a3
  <2>2. QED
    BY <1>1, <2>1 DEF Joins
<1> HIDE DEF a3
<1>12. Joins(a4, a3, 2 * R + 5, g, 1, S) /\ a4 \in Seq(S) /\ Len(a4) = 2 * R + 6
  <2>1. Joins(a4, a3, 2 * R + 5, g, 1, S)
    BY <1>1, <1>2, <1>11, JoinFacts
  <2> HIDE DEF a4
  <2>2. QED
    BY <1>1, <2>1 DEF Joins
<1> HIDE DEF a4
<1>13. \A k \in 1..5 : k \in 1..2 * R + 5 /\ k \in 1..2 * R + 4
  BY <1>1
<1>14. \A k \in 1..5 : a4[k] = a2[k]
  BY <1>11, <1>12, <1>13 DEF Joins
<1>15. a4[1] = a2[1] /\ a4[2] = a2[2] /\ a4[3] = a2[3] /\ a4[5] = a2[5]
  BY <1>14
<1>16. a2[1] = a1[1] /\ a2[2] = a1[2] /\ a2[3] = b2[1] /\ a2[5] = b2[3]
  <2>1. 1 \in 1..2 /\ 2 \in 1..2 /\ 1 \in 1..2 * R + 2 /\ 3 \in 1..2 * R + 2
        /\ 2 + 1 = 3 /\ 2 + 3 = 5
    BY <1>1
  <2>2. a2[2 + 1] = b2[1] /\ a2[2 + 3] = b2[3]
    BY <1>10, <2>1 DEF Joins
  <2>3. QED
    BY <1>10, <2>1, <2>2 DEF Joins
<1>17. a1[1] = clock /\ a1[2] = clock
  <2>1. 1 \in 1..1 /\ 1 + 1 = 2
    OBVIOUS
  <2>2. a1[1] = g[1] /\ a1[1 + 1] = g[1]
    BY <1>7, <2>1 DEF Joins
  <2>3. QED
    BY <1>2, <2>1, <2>2
<1>18. b2[1] = clock /\ b2[3] = yield
  <2>1. 1 \in 1..1 /\ 1 + 2 = 3 /\ 2 \in 1..2 * R /\ 1 \in 1..2 * R + 1 /\ 3 \in 1..2 * R + 1
    BY <1>1
  <2>2. b2[1] = b1[1] /\ b2[3] = b1[3]
    BY <1>9, <2>1 DEF Joins
  <2>3. b1[1] = g[1] /\ b1[1 + 2] = loop[2]
    BY <1>8, <2>1 DEF Joins
  <2>4. QED
    BY <1>2, <1>6, <2>1, <2>2, <2>3
<1>19. QED
  BY <1>5, <1>12, <1>15, <1>16, <1>17, <1>18 DEF FrontLength, R, S

CountersAsked(s, B) ==
    /\ s[B + 1] = <<"trace_query", "clock_gettime">>
    /\ s[B + 2] = <<"expect", {n \in Calls : 3 <= n}>>
    /\ s[B + 3] = <<"trace_query", "trace">>
    /\ s[B + 4] = <<"expect", {2}>>
    /\ s[B + 5] = <<"trace_query", "write">>
    /\ s[B + 6] = <<"expect", {0}>>
    /\ s[B + 7] = <<"trace_query", "sched_yield">>
    /\ s[B + 8] = <<"expect", {n \in Calls : 0 < n}>>
    /\ s[B + 9] = <<"trace_query", "exit">>
    /\ s[B + 10] = <<"expect", {0}>>
    /\ s[B + 11] = <<"call", "write">>
    /\ s[B + 12] = <<"call", "write">>
    /\ s[B + 13] = clock
    /\ s[B + 14] = clock
    /\ s[B + 15] = <<"trace_query", "clock_gettime">>
    /\ s[B + 16] = <<"expect", {n \in Calls : 5 <= n}>>
    /\ s[B + 17] = <<"trace_query", "trace">>
    /\ s[B + 18] = <<"expect", {7}>>
    /\ s[B + 19] = <<"trace_query", "write">>
    /\ s[B + 20] = <<"expect", {2}>>
    /\ s[B + 21] = <<"trace_query", "sched_yield">>
    /\ s[B + 22] = <<"expect", {n \in Calls : 0 < n}>>
    /\ s[B + 23] = <<"trace_query", "exit">>
    /\ s[B + 24] = <<"expect", {0}>>
    /\ s[B + 25] = <<"store", VarPage, "111">>
    /\ s[B + 26] = <<"trace_read", var>>
    /\ s[B + 27] = <<"expect", {111}>>
    /\ s[B + 28] = <<"trace_write", var, "byte">>
    /\ s[B + 29] = <<"load", VarPage, {"byte"}>>
    /\ s[B + 30] = <<"trace_read", TextAddress>>
    /\ s[B + 31] = <<"expect", 0..255>>
    /\ s[B + 32] = <<"exit", 0>>

LEMMA Ch3TraceText ==
    /\ FrontLength \in Nat /\ Len(ch3_trace) = FrontLength + 32
    /\ \A k \in 1..FrontLength : ch3_trace[k] = Opening[k]
    /\ CountersAsked(ch3_trace, FrontLength)
<1> DEFINE B == FrontLength
           S == Instructions
           c1 == count_syscall("clock_gettime", {n \in Calls : 3 <= n})
           c2 == count_syscall("trace", {2})
           c3 == count_syscall("write", {0})
           c4 == count_syscall("sched_yield", {n \in Calls : 0 < n})
           c5 == count_syscall("exit", {0})
           c6 == count_syscall("clock_gettime", {n \in Calls : 5 <= n})
           c7 == count_syscall("trace", {7})
           c8 == count_syscall("write", {2})
           c9 == count_syscall("sched_yield", {n \in Calls : 0 < n})
           c10 == count_syscall("exit", {0})
           w == Times(2, << <<"call", "write">> >>)
           g == get_time
           t == << <<"store", VarPage, "111">>, <<"trace_read", var>>, Expect({111}),
                   <<"trace_write", var, "byte">>, <<"load", VarPage, {"byte"}>> >>
           r == ReadSome(TextAddress)
           e == << Exit(0) >>
           x0 == Opening
           x1 == x0 \o c1
           x2 == x1 \o c2
           x3 == x2 \o c3
           x4 == x3 \o c4
           x5 == x4 \o c5
           x6 == x5 \o w
           x7 == x6 \o g
           x8 == x7 \o g
           x9 == x8 \o c6
           x10 == x9 \o c7
           x11 == x10 \o c8
           x12 == x11 \o c9
           x13 == x12 \o c10
           x14 == x13 \o t
           x15 == x14 \o r
           x16 == x15 \o e
<1>1. B \in Nat
  BY Ch4MemoryAssumption DEF FrontLength
<1>2. x0 \in Seq(S) /\ Len(x0) = B
  <2>1. clock \in S /\ yield \in S
    <3>1. "clock_gettime" \in Ids /\ "sched_yield" \in Ids
      BY DEF Ids, Supported
    <3>2. QED
      BY <3>1, OtherInstructionFacts DEF clock, yield
  <2> HIDE DEF S
  <2>2. Seq({clock, yield}) \subseteq Seq(S)
    BY <2>1
  <2>3. QED
    BY <2>2, FrontText
<1>3. \A id \in Ids, A \in SUBSET Int :
         /\ count_syscall(id, A) \in Seq(S) /\ Len(count_syscall(id, A)) = 2
         /\ count_syscall(id, A)[1] = <<"trace_query", id>>
         /\ count_syscall(id, A)[2] = <<"expect", A>>
  <2>1. \A id \in Ids, A \in SUBSET Int : count_syscall(id, A) \in Seq(S)
    BY CountTyped
  <2>2. QED
    BY <2>1 DEF count_syscall, Expect
<1>4. /\ {n \in Calls : 3 <= n} \in SUBSET Int /\ {n \in Calls : 5 <= n} \in SUBSET Int
      /\ {n \in Calls : 0 < n} \in SUBSET Int /\ {2} \in SUBSET Int /\ {0} \in SUBSET Int
      /\ {7} \in SUBSET Int
  BY DEF Calls
<1>5. /\ "clock_gettime" \in Ids /\ "trace" \in Ids /\ "write" \in Ids
      /\ "sched_yield" \in Ids /\ "exit" \in Ids
  BY DEF Ids, Supported
<1> HIDE DEF S
<1>6. c1 \in Seq(S) /\ Len(c1) = 2 /\ c1[1] = <<"trace_query", "clock_gettime">>
      /\ c1[2] = <<"expect", {n \in Calls : 3 <= n}>>
  BY <1>3, <1>4, <1>5
<1>7. c2 \in Seq(S) /\ Len(c2) = 2 /\ c2[1] = <<"trace_query", "trace">>
      /\ c2[2] = <<"expect", {2}>>
  BY <1>3, <1>4, <1>5
<1>8. c3 \in Seq(S) /\ Len(c3) = 2 /\ c3[1] = <<"trace_query", "write">>
      /\ c3[2] = <<"expect", {0}>>
  BY <1>3, <1>4, <1>5
<1>9. c4 \in Seq(S) /\ Len(c4) = 2 /\ c4[1] = <<"trace_query", "sched_yield">>
      /\ c4[2] = <<"expect", {n \in Calls : 0 < n}>>
  BY <1>3, <1>4, <1>5
<1>10. c5 \in Seq(S) /\ Len(c5) = 2 /\ c5[1] = <<"trace_query", "exit">>
       /\ c5[2] = <<"expect", {0}>>
  BY <1>3, <1>4, <1>5
<1>11. c6 \in Seq(S) /\ Len(c6) = 2 /\ c6[1] = <<"trace_query", "clock_gettime">>
       /\ c6[2] = <<"expect", {n \in Calls : 5 <= n}>>
  BY <1>3, <1>4, <1>5
<1>12. c7 \in Seq(S) /\ Len(c7) = 2 /\ c7[1] = <<"trace_query", "trace">>
       /\ c7[2] = <<"expect", {7}>>
  BY <1>3, <1>4, <1>5
<1>13. c8 \in Seq(S) /\ Len(c8) = 2 /\ c8[1] = <<"trace_query", "write">>
       /\ c8[2] = <<"expect", {2}>>
  BY <1>3, <1>4, <1>5
<1>14. c9 \in Seq(S) /\ Len(c9) = 2 /\ c9[1] = <<"trace_query", "sched_yield">>
       /\ c9[2] = <<"expect", {n \in Calls : 0 < n}>>
  BY <1>3, <1>4, <1>5
<1>15. c10 \in Seq(S) /\ Len(c10) = 2 /\ c10[1] = <<"trace_query", "exit">>
       /\ c10[2] = <<"expect", {0}>>
  BY <1>3, <1>4, <1>5
<1>16. w \in Seq(S) /\ Len(w) = 2 /\ w[1] = <<"call", "write">> /\ w[2] = <<"call", "write">>
  <2> DEFINE x == <<"call", "write">>
             f == [i \in 1..2 |-> x]
  <2>1. x \in S
    BY <1>5, OtherInstructionFacts DEF S
  <2>2. f \in [1..2 -> S] /\ f[1] = x /\ f[2] = x
    BY <2>1
  <2>3. w = FlattenSeq([i \in 1..2 |-> <<x>>])
    BY DEF Times
  <2>4. [i \in 1..2 |-> <<x>>] = [i \in 1..2 |-> <<f[i]>>]
    OBVIOUS
  <2> DEFINE loop == FlattenSeq([i \in 1..2 |-> <<f[i]>>])
  <2> HIDE DEF f
  <2>5. loop \in Seq(S) /\ Len(loop) = 2 /\ \A k \in 1..2 : loop[k] = f[k]
    <3>1. 2 \in Nat
      OBVIOUS
    <3>2. \A h \in [1..2 -> S] :
             /\ FlattenSeq([i \in 1..2 |-> <<h[i]>>]) \in Seq(S)
             /\ Len(FlattenSeq([i \in 1..2 |-> <<h[i]>>])) = 2
             /\ \A k \in 1..2 : FlattenSeq([i \in 1..2 |-> <<h[i]>>])[k] = h[k]
      BY <3>1, LoopAt
    <3>3. QED
      BY <2>2, <3>2, Zenon
  <2>6. w = loop
    BY <2>3, <2>4
  <2> HIDE DEF loop
  <2>7. QED
    BY <2>2, <2>5, <2>6
<1>17. g \in Seq(S) /\ Len(g) = 1 /\ g[1] = clock
  BY CallFacts DEF get_time, clock, S
<1>18. /\ t \in Seq(S) /\ Len(t) = 5 /\ t[1] = <<"store", VarPage, "111">>
       /\ t[2] = <<"trace_read", var>>
      /\ t[3] = <<"expect", {111}>> /\ t[4] = <<"trace_write", var, "byte">>
      /\ t[5] = <<"load", VarPage, {"byte"}>>
  <2>1. "111" \in Byte /\ "byte" \in Byte /\ {"byte"} \in SUBSET Memory!Value
    BY DEF Byte, Memory!Value
  <2>2. t \in Seq(S)
    BY <2>1, AccessFacts, ExpectFacts DEF S
  <2>3. QED
    BY <2>2 DEF Expect
<1>19. r \in Seq(S) /\ Len(r) = 2 /\ r[1] = <<"trace_read", TextAddress>>
       /\ r[2] = <<"expect", 0..255>>
  BY TraceTyped DEF ReadSome, Expect, S, TextAddress
<1>20. e \in Seq(S) /\ Len(e) = 1 /\ e[1] = <<"exit", 0>>
  BY ExitPlain DEF Plain, Exit, S
<1>21. ch3_trace = x16
  BY DEF ch3_trace, Opening
<1> HIDE DEF B, x0, c1, c2, c3, c4, c5, c6, c7, c8, c9, c10, w, g, t, r, e
<1>22. Joins(x1, x0, B, c1, 2, S) /\ x1 \in Seq(S) /\ Len(x1) = B + 2
  <2>1. Joins(x1, x0, B, c1, 2, S)
    BY <1>1, <1>2, <1>6, JoinFacts
  <2> HIDE DEF x1
  <2>2. QED
    BY <1>1, <2>1 DEF Joins
<1> HIDE DEF x1
<1>23. Joins(x2, x1, B + 2, c2, 2, S) /\ x2 \in Seq(S) /\ Len(x2) = B + 4
  <2>1. Joins(x2, x1, B + 2, c2, 2, S)
    BY <1>1, <1>22, <1>7, JoinFacts
  <2> HIDE DEF x2
  <2>2. QED
    BY <1>1, <2>1 DEF Joins
<1> HIDE DEF x2
<1>24. Joins(x3, x2, B + 4, c3, 2, S) /\ x3 \in Seq(S) /\ Len(x3) = B + 6
  <2>1. Joins(x3, x2, B + 4, c3, 2, S)
    BY <1>1, <1>23, <1>8, JoinFacts
  <2> HIDE DEF x3
  <2>2. QED
    BY <1>1, <2>1 DEF Joins
<1> HIDE DEF x3
<1>25. Joins(x4, x3, B + 6, c4, 2, S) /\ x4 \in Seq(S) /\ Len(x4) = B + 8
  <2>1. Joins(x4, x3, B + 6, c4, 2, S)
    BY <1>1, <1>24, <1>9, JoinFacts
  <2> HIDE DEF x4
  <2>2. QED
    BY <1>1, <2>1 DEF Joins
<1> HIDE DEF x4
<1>26. Joins(x5, x4, B + 8, c5, 2, S) /\ x5 \in Seq(S) /\ Len(x5) = B + 10
  <2>1. Joins(x5, x4, B + 8, c5, 2, S)
    BY <1>1, <1>25, <1>10, JoinFacts
  <2> HIDE DEF x5
  <2>2. QED
    BY <1>1, <2>1 DEF Joins
<1> HIDE DEF x5
<1>27. Joins(x6, x5, B + 10, w, 2, S) /\ x6 \in Seq(S) /\ Len(x6) = B + 12
  <2>1. Joins(x6, x5, B + 10, w, 2, S)
    BY <1>1, <1>26, <1>16, JoinFacts
  <2> HIDE DEF x6
  <2>2. QED
    BY <1>1, <2>1 DEF Joins
<1> HIDE DEF x6
<1>28. Joins(x7, x6, B + 12, g, 1, S) /\ x7 \in Seq(S) /\ Len(x7) = B + 13
  <2>1. Joins(x7, x6, B + 12, g, 1, S)
    BY <1>1, <1>27, <1>17, JoinFacts
  <2> HIDE DEF x7
  <2>2. QED
    BY <1>1, <2>1 DEF Joins
<1> HIDE DEF x7
<1>29. Joins(x8, x7, B + 13, g, 1, S) /\ x8 \in Seq(S) /\ Len(x8) = B + 14
  <2>1. Joins(x8, x7, B + 13, g, 1, S)
    BY <1>1, <1>28, <1>17, JoinFacts
  <2> HIDE DEF x8
  <2>2. QED
    BY <1>1, <2>1 DEF Joins
<1> HIDE DEF x8
<1>30. Joins(x9, x8, B + 14, c6, 2, S) /\ x9 \in Seq(S) /\ Len(x9) = B + 16
  <2>1. Joins(x9, x8, B + 14, c6, 2, S)
    BY <1>1, <1>29, <1>11, JoinFacts
  <2> HIDE DEF x9
  <2>2. QED
    BY <1>1, <2>1 DEF Joins
<1> HIDE DEF x9
<1>31. Joins(x10, x9, B + 16, c7, 2, S) /\ x10 \in Seq(S) /\ Len(x10) = B + 18
  <2>1. Joins(x10, x9, B + 16, c7, 2, S)
    BY <1>1, <1>30, <1>12, JoinFacts
  <2> HIDE DEF x10
  <2>2. QED
    BY <1>1, <2>1 DEF Joins
<1> HIDE DEF x10
<1>32. Joins(x11, x10, B + 18, c8, 2, S) /\ x11 \in Seq(S) /\ Len(x11) = B + 20
  <2>1. Joins(x11, x10, B + 18, c8, 2, S)
    BY <1>1, <1>31, <1>13, JoinFacts
  <2> HIDE DEF x11
  <2>2. QED
    BY <1>1, <2>1 DEF Joins
<1> HIDE DEF x11
<1>33. Joins(x12, x11, B + 20, c9, 2, S) /\ x12 \in Seq(S) /\ Len(x12) = B + 22
  <2>1. Joins(x12, x11, B + 20, c9, 2, S)
    BY <1>1, <1>32, <1>14, JoinFacts
  <2> HIDE DEF x12
  <2>2. QED
    BY <1>1, <2>1 DEF Joins
<1> HIDE DEF x12
<1>34. Joins(x13, x12, B + 22, c10, 2, S) /\ x13 \in Seq(S) /\ Len(x13) = B + 24
  <2>1. Joins(x13, x12, B + 22, c10, 2, S)
    BY <1>1, <1>33, <1>15, JoinFacts
  <2> HIDE DEF x13
  <2>2. QED
    BY <1>1, <2>1 DEF Joins
<1> HIDE DEF x13
<1>35. Joins(x14, x13, B + 24, t, 5, S) /\ x14 \in Seq(S) /\ Len(x14) = B + 29
  <2>1. Joins(x14, x13, B + 24, t, 5, S)
    BY <1>1, <1>34, <1>18, JoinFacts
  <2> HIDE DEF x14
  <2>2. QED
    BY <1>1, <2>1 DEF Joins
<1> HIDE DEF x14
<1>36. Joins(x15, x14, B + 29, r, 2, S) /\ x15 \in Seq(S) /\ Len(x15) = B + 31
  <2>1. Joins(x15, x14, B + 29, r, 2, S)
    BY <1>1, <1>35, <1>19, JoinFacts
  <2> HIDE DEF x15
  <2>2. QED
    BY <1>1, <2>1 DEF Joins
<1> HIDE DEF x15
<1>37. Joins(x16, x15, B + 31, e, 1, S) /\ x16 \in Seq(S) /\ Len(x16) = B + 32
  <2>1. Joins(x16, x15, B + 31, e, 1, S)
    BY <1>1, <1>36, <1>20, JoinFacts
  <2> HIDE DEF x16
  <2>2. QED
    BY <1>1, <2>1 DEF Joins
<1> DEFINE x == ch3_trace
<1>38. Agrees(x, x16, B + 32)
  BY <1>21 DEF Agrees
<1>39. Len(x) = B + 32
  BY <1>21, <1>37
<1> HIDE DEF x16, x
<1>40. Agrees(x, x15, B + 31) /\ x[B + 32] = <<"exit", 0>>
  <2>1. \A j \in 1..B + 31 : j \in 1..B + 32
    BY <1>1
  <2>2. Agrees(x, x15, B + 31)
    BY <1>37, <1>38, <2>1, Zenon DEF Joins, Agrees
  <2>3. \A j \in 1..1 : B + 31 + j \in 1..B + 32
    BY <1>1
  <2>4. \A j \in 1..1 : x[B + 31 + j] = e[j]
    BY <1>37, <1>38, <2>3, Zenon DEF Joins, Agrees
  <2>5. 1 \in 1..1 /\ B + 31 + 1 = B + 32
    BY <1>1
  <2>6. QED
    BY <1>20, <2>2, <2>4, <2>5
<1>41. Agrees(x, x14, B + 29) /\ x[B + 30] = <<"trace_read", TextAddress>>
       /\ x[B + 31] = <<"expect", 0..255>>
  <2>1. \A j \in 1..B + 29 : j \in 1..B + 31
    BY <1>1
  <2>2. Agrees(x, x14, B + 29)
    BY <1>36, <1>40, <2>1, Zenon DEF Joins, Agrees
  <2>3. \A j \in 1..2 : B + 29 + j \in 1..B + 31
    BY <1>1
  <2>4. \A j \in 1..2 : x[B + 29 + j] = r[j]
    BY <1>36, <1>40, <2>3, Zenon DEF Joins, Agrees
  <2>5. 1 \in 1..2 /\ 2 \in 1..2 /\ B + 29 + 1 = B + 30 /\ B + 29 + 2 = B + 31
    BY <1>1
  <2>6. QED
    BY <1>19, <2>2, <2>4, <2>5
<1>42. Agrees(x, x13, B + 24) /\ x[B + 25] = <<"store", VarPage, "111">>
       /\ x[B + 26] = <<"trace_read", var>> /\ x[B + 27] = <<"expect", {111}>>
       /\ x[B + 28] = <<"trace_write", var, "byte">>
       /\ x[B + 29] = <<"load", VarPage, {"byte"}>>
  <2>1. \A j \in 1..B + 24 : j \in 1..B + 29
    BY <1>1
  <2>2. Agrees(x, x13, B + 24)
    BY <1>35, <1>41, <2>1, Zenon DEF Joins, Agrees
  <2>3. \A j \in 1..5 : B + 24 + j \in 1..B + 29
    BY <1>1
  <2>4. \A j \in 1..5 : x[B + 24 + j] = t[j]
    BY <1>35, <1>41, <2>3, Zenon DEF Joins, Agrees
  <2>5. 1 \in 1..5 /\ 2 \in 1..5 /\ 3 \in 1..5 /\ 4 \in 1..5 /\ 5 \in 1..5
        /\ B + 24 + 1 = B + 25 /\ B + 24 + 2 = B + 26 /\ B + 24 + 3 = B + 27
        /\ B + 24 + 4 = B + 28 /\ B + 24 + 5 = B + 29
    BY <1>1
  <2>6. QED
    BY <1>18, <2>2, <2>4, <2>5
<1>43. Agrees(x, x12, B + 22) /\ x[B + 23] = <<"trace_query", "exit">>
       /\ x[B + 24] = <<"expect", {0}>>
  <2>1. \A j \in 1..B + 22 : j \in 1..B + 24
    BY <1>1
  <2>2. Agrees(x, x12, B + 22)
    BY <1>34, <1>42, <2>1, Zenon DEF Joins, Agrees
  <2>3. \A j \in 1..2 : B + 22 + j \in 1..B + 24
    BY <1>1
  <2>4. \A j \in 1..2 : x[B + 22 + j] = c10[j]
    BY <1>34, <1>42, <2>3, Zenon DEF Joins, Agrees
  <2>5. 1 \in 1..2 /\ 2 \in 1..2 /\ B + 22 + 1 = B + 23 /\ B + 22 + 2 = B + 24
    BY <1>1
  <2>6. QED
    BY <1>15, <2>2, <2>4, <2>5
<1>44. Agrees(x, x11, B + 20) /\ x[B + 21] = <<"trace_query", "sched_yield">>
       /\ x[B + 22] = <<"expect", {n \in Calls : 0 < n}>>
  <2>1. \A j \in 1..B + 20 : j \in 1..B + 22
    BY <1>1
  <2>2. Agrees(x, x11, B + 20)
    BY <1>33, <1>43, <2>1, Zenon DEF Joins, Agrees
  <2>3. \A j \in 1..2 : B + 20 + j \in 1..B + 22
    BY <1>1
  <2>4. \A j \in 1..2 : x[B + 20 + j] = c9[j]
    BY <1>33, <1>43, <2>3, Zenon DEF Joins, Agrees
  <2>5. 1 \in 1..2 /\ 2 \in 1..2 /\ B + 20 + 1 = B + 21 /\ B + 20 + 2 = B + 22
    BY <1>1
  <2>6. QED
    BY <1>14, <2>2, <2>4, <2>5
<1>45. Agrees(x, x10, B + 18) /\ x[B + 19] = <<"trace_query", "write">>
       /\ x[B + 20] = <<"expect", {2}>>
  <2>1. \A j \in 1..B + 18 : j \in 1..B + 20
    BY <1>1
  <2>2. Agrees(x, x10, B + 18)
    BY <1>32, <1>44, <2>1, Zenon DEF Joins, Agrees
  <2>3. \A j \in 1..2 : B + 18 + j \in 1..B + 20
    BY <1>1
  <2>4. \A j \in 1..2 : x[B + 18 + j] = c8[j]
    BY <1>32, <1>44, <2>3, Zenon DEF Joins, Agrees
  <2>5. 1 \in 1..2 /\ 2 \in 1..2 /\ B + 18 + 1 = B + 19 /\ B + 18 + 2 = B + 20
    BY <1>1
  <2>6. QED
    BY <1>13, <2>2, <2>4, <2>5
<1>46. Agrees(x, x9, B + 16) /\ x[B + 17] = <<"trace_query", "trace">>
       /\ x[B + 18] = <<"expect", {7}>>
  <2>1. \A j \in 1..B + 16 : j \in 1..B + 18
    BY <1>1
  <2>2. Agrees(x, x9, B + 16)
    BY <1>31, <1>45, <2>1, Zenon DEF Joins, Agrees
  <2>3. \A j \in 1..2 : B + 16 + j \in 1..B + 18
    BY <1>1
  <2>4. \A j \in 1..2 : x[B + 16 + j] = c7[j]
    BY <1>31, <1>45, <2>3, Zenon DEF Joins, Agrees
  <2>5. 1 \in 1..2 /\ 2 \in 1..2 /\ B + 16 + 1 = B + 17 /\ B + 16 + 2 = B + 18
    BY <1>1
  <2>6. QED
    BY <1>12, <2>2, <2>4, <2>5
<1>47. Agrees(x, x8, B + 14) /\ x[B + 15] = <<"trace_query", "clock_gettime">>
       /\ x[B + 16] = <<"expect", {n \in Calls : 5 <= n}>>
  <2>1. \A j \in 1..B + 14 : j \in 1..B + 16
    BY <1>1
  <2>2. Agrees(x, x8, B + 14)
    BY <1>30, <1>46, <2>1, Zenon DEF Joins, Agrees
  <2>3. \A j \in 1..2 : B + 14 + j \in 1..B + 16
    BY <1>1
  <2>4. \A j \in 1..2 : x[B + 14 + j] = c6[j]
    BY <1>30, <1>46, <2>3, Zenon DEF Joins, Agrees
  <2>5. 1 \in 1..2 /\ 2 \in 1..2 /\ B + 14 + 1 = B + 15 /\ B + 14 + 2 = B + 16
    BY <1>1
  <2>6. QED
    BY <1>11, <2>2, <2>4, <2>5
<1>48. Agrees(x, x7, B + 13) /\ x[B + 14] = clock
  <2>1. \A j \in 1..B + 13 : j \in 1..B + 14
    BY <1>1
  <2>2. Agrees(x, x7, B + 13)
    BY <1>29, <1>47, <2>1, Zenon DEF Joins, Agrees
  <2>3. \A j \in 1..1 : B + 13 + j \in 1..B + 14
    BY <1>1
  <2>4. \A j \in 1..1 : x[B + 13 + j] = g[j]
    BY <1>29, <1>47, <2>3, Zenon DEF Joins, Agrees
  <2>5. 1 \in 1..1 /\ B + 13 + 1 = B + 14
    BY <1>1
  <2>6. QED
    BY <1>17, <2>2, <2>4, <2>5
<1>49. Agrees(x, x6, B + 12) /\ x[B + 13] = clock
  <2>1. \A j \in 1..B + 12 : j \in 1..B + 13
    BY <1>1
  <2>2. Agrees(x, x6, B + 12)
    BY <1>28, <1>48, <2>1, Zenon DEF Joins, Agrees
  <2>3. \A j \in 1..1 : B + 12 + j \in 1..B + 13
    BY <1>1
  <2>4. \A j \in 1..1 : x[B + 12 + j] = g[j]
    BY <1>28, <1>48, <2>3, Zenon DEF Joins, Agrees
  <2>5. 1 \in 1..1 /\ B + 12 + 1 = B + 13
    BY <1>1
  <2>6. QED
    BY <1>17, <2>2, <2>4, <2>5
<1>50. Agrees(x, x5, B + 10) /\ x[B + 11] = <<"call", "write">> /\ x[B + 12] = <<"call", "write">>
  <2>1. \A j \in 1..B + 10 : j \in 1..B + 12
    BY <1>1
  <2>2. Agrees(x, x5, B + 10)
    BY <1>27, <1>49, <2>1, Zenon DEF Joins, Agrees
  <2>3. \A j \in 1..2 : B + 10 + j \in 1..B + 12
    BY <1>1
  <2>4. \A j \in 1..2 : x[B + 10 + j] = w[j]
    BY <1>27, <1>49, <2>3, Zenon DEF Joins, Agrees
  <2>5. 1 \in 1..2 /\ 2 \in 1..2 /\ B + 10 + 1 = B + 11 /\ B + 10 + 2 = B + 12
    BY <1>1
  <2>6. QED
    BY <1>16, <2>2, <2>4, <2>5
<1>51. Agrees(x, x4, B + 8) /\ x[B + 9] = <<"trace_query", "exit">> /\ x[B + 10] = <<"expect", {0}>>
  <2>1. \A j \in 1..B + 8 : j \in 1..B + 10
    BY <1>1
  <2>2. Agrees(x, x4, B + 8)
    BY <1>26, <1>50, <2>1, Zenon DEF Joins, Agrees
  <2>3. \A j \in 1..2 : B + 8 + j \in 1..B + 10
    BY <1>1
  <2>4. \A j \in 1..2 : x[B + 8 + j] = c5[j]
    BY <1>26, <1>50, <2>3, Zenon DEF Joins, Agrees
  <2>5. 1 \in 1..2 /\ 2 \in 1..2 /\ B + 8 + 1 = B + 9 /\ B + 8 + 2 = B + 10
    BY <1>1
  <2>6. QED
    BY <1>10, <2>2, <2>4, <2>5
<1>52. Agrees(x, x3, B + 6) /\ x[B + 7] = <<"trace_query", "sched_yield">>
       /\ x[B + 8] = <<"expect", {n \in Calls : 0 < n}>>
  <2>1. \A j \in 1..B + 6 : j \in 1..B + 8
    BY <1>1
  <2>2. Agrees(x, x3, B + 6)
    BY <1>25, <1>51, <2>1, Zenon DEF Joins, Agrees
  <2>3. \A j \in 1..2 : B + 6 + j \in 1..B + 8
    BY <1>1
  <2>4. \A j \in 1..2 : x[B + 6 + j] = c4[j]
    BY <1>25, <1>51, <2>3, Zenon DEF Joins, Agrees
  <2>5. 1 \in 1..2 /\ 2 \in 1..2 /\ B + 6 + 1 = B + 7 /\ B + 6 + 2 = B + 8
    BY <1>1
  <2>6. QED
    BY <1>9, <2>2, <2>4, <2>5
<1>53. Agrees(x, x2, B + 4) /\ x[B + 5] = <<"trace_query", "write">> /\ x[B + 6] = <<"expect", {0}>>
  <2>1. \A j \in 1..B + 4 : j \in 1..B + 6
    BY <1>1
  <2>2. Agrees(x, x2, B + 4)
    BY <1>24, <1>52, <2>1, Zenon DEF Joins, Agrees
  <2>3. \A j \in 1..2 : B + 4 + j \in 1..B + 6
    BY <1>1
  <2>4. \A j \in 1..2 : x[B + 4 + j] = c3[j]
    BY <1>24, <1>52, <2>3, Zenon DEF Joins, Agrees
  <2>5. 1 \in 1..2 /\ 2 \in 1..2 /\ B + 4 + 1 = B + 5 /\ B + 4 + 2 = B + 6
    BY <1>1
  <2>6. QED
    BY <1>8, <2>2, <2>4, <2>5
<1>54. Agrees(x, x1, B + 2) /\ x[B + 3] = <<"trace_query", "trace">> /\ x[B + 4] = <<"expect", {2}>>
  <2>1. \A j \in 1..B + 2 : j \in 1..B + 4
    BY <1>1
  <2>2. Agrees(x, x1, B + 2)
    BY <1>23, <1>53, <2>1, Zenon DEF Joins, Agrees
  <2>3. \A j \in 1..2 : B + 2 + j \in 1..B + 4
    BY <1>1
  <2>4. \A j \in 1..2 : x[B + 2 + j] = c2[j]
    BY <1>23, <1>53, <2>3, Zenon DEF Joins, Agrees
  <2>5. 1 \in 1..2 /\ 2 \in 1..2 /\ B + 2 + 1 = B + 3 /\ B + 2 + 2 = B + 4
    BY <1>1
  <2>6. QED
    BY <1>7, <2>2, <2>4, <2>5
<1>55. Agrees(x, x0, B) /\ x[B + 1] = <<"trace_query", "clock_gettime">>
       /\ x[B + 2] = <<"expect", {n \in Calls : 3 <= n}>>
  <2>1. \A j \in 1..B : j \in 1..B + 2
    BY <1>1
  <2>2. Agrees(x, x0, B)
    BY <1>22, <1>54, <2>1, Zenon DEF Joins, Agrees
  <2>3. \A j \in 1..2 : B + j \in 1..B + 2
    BY <1>1
  <2>4. \A j \in 1..2 : x[B + j] = c1[j]
    BY <1>22, <1>54, <2>3, Zenon DEF Joins, Agrees
  <2>5. 1 \in 1..2 /\ 2 \in 1..2 /\ B + 1 = B + 1 /\ B + 2 = B + 2
    BY <1>1
  <2>6. QED
    BY <1>6, <2>2, <2>4, <2>5
<1>56. QED
  BY <1>1, <1>39, <1>40, <1>41, <1>42, <1>43, <1>44, <1>45, <1>46, <1>47, <1>48, <1>49, <1>50,
     <1>51, <1>52, <1>53, <1>54, <1>55 DEF CountersAsked, Agrees, x, x0, B

-----------------------------------------------------------------------------
(*                  What the program at the head does                      *)

Answer(p) == ctx[p].a0

Sees(p, v) == MP!viewBar[p][v]

(* Text, stack and the pages of S, to which the process has these rights.  *)
HasPages(p, S, rights) ==
    /\ Memory!Mapped(p) = S \cup {0, VarPage}
    /\ pages[p][0].flags = {"R", "X"} /\ pages[p][VarPage].flags = RW
    /\ \A v \in S : pages[p][v].flags = rights

(* The next instruction, without a failed assertion.                       *)
Goes(p) ==
    /\ PROCESSES' = PROCESSES /\ image' = image /\ broken' = broken
    /\ pos' = [pos EXCEPT ![p] = @ + 1]

(* The end, where the test means it to be.                                 *)
EndsWell == Leave /\ broken' = broken

(* A call: it is counted, and answers.                                     *)
Counted(p, id) == id \in CountedIds => count'[p] = [count[p] EXCEPT ![id] = @ + 1]

Quiet == UNCHANGED <<ctx, count>>

LEMMA HeadInApp ==
    ASSUME IInv4, Running
    PROVE  /\ Current \in App /\ Current \in MP!Proc /\ Current \in alive
           /\ pos \in [App -> Int] /\ count \in [App -> [CountedIds -> Nat]]
           /\ ctx = [a \in App |-> ctx[a]]
  BY HeadFacts DEF IInv4, IInv, TypeOK, WithinScript

LEMMA TestStep ==
    ASSUME Running, InTest(Current), Next4
    PROVE  Step
<1>1. ~LoadProgram
  BY DEF LoadProgram, Load, Running
<1>2. ~Other(Start) /\ ~Other(ShutDown) /\ ~Other(Stopped)
  BY DEF Other, Start, ShutDown, Stopped, Running
<1>3. ~AnyProgram
  BY DEF AnyProgram, InTest
<1>4. QED
  BY <1>1, <1>2, <1>3 DEF Next4

(* The instruction says which action it is.                                *)
LEMMA StepByInstruction ==
    ASSUME Step, NEW i, i = Instruction
    PROVE  /\ i[1] = "call" => call
           /\ i[1] = "trace_query" => query
           /\ i[1] = "mmap" => mmap
           /\ i[1] = "munmap" => munmap
           /\ i[1] = "sbrk" => sbrk
           /\ i[1] = "trace_read" => trace_read
           /\ i[1] = "trace_write" => trace_write
           /\ i[1] \in {"expect", "same", "fail"} => expect
           /\ i[1] = "load" => load \/ fault
           /\ i[1] \in {"store", "store_new"} => store \/ fault
           /\ i[1] = "origin" => keep_origin
           /\ i[1] = "exit" => exit
<1>1. (call => Instruction[1] = "call") /\ (query => Instruction[1] = "trace_query")
  BY DEF call, query, Performs
<1>2. (mmap => Instruction[1] = "mmap") /\ (munmap => Instruction[1] = "munmap")
  BY DEF mmap, munmap, Performs
<1>3. (sbrk => Instruction[1] = "sbrk") /\ (trace_read => Instruction[1] = "trace_read")
      /\ (trace_write => Instruction[1] = "trace_write")
  BY DEF sbrk, trace_read, trace_write, Performs
<1>4. (expect => Instruction[1] \in {"expect", "same", "fail"}) /\ (load => Instruction[1] = "load")
      /\ (store => Instruction[1] \in {"store", "store_new"})
  BY DEF expect, load, store, Performs
<1>5. (fault => Instruction[1] \in {"load", "store", "store_new"})
      /\ (keep_origin => Instruction[1] = "origin") /\ (exit => Instruction[1] = "exit")
  BY DEF fault, keep_origin, exit, Performs
<1>6. QED
  BY <1>1, <1>2, <1>3, <1>4, <1>5 DEF Step

LEMMA CallEffect ==
    ASSUME IInv4, NEW p, p = Current, NEW id, Instruction = <<"call", id>>, call
    PROVE  Goes(p) /\ UNCHANGED memoryVars /\ Counted(p, id)
<1>1. Running /\ Advance /\ UNCHANGED memoryVars
      /\ \/ id = "sched_yield" /\ sched_yield
         \/ id # "sched_yield" /\ other_call(id)
  BY DEF call, Performs
<1>2. Called(id) /\ Return(0)
  BY <1>1 DEF sched_yield, other_call
<1>3. p \in App /\ count \in [App -> [CountedIds -> Nat]]
  BY <1>1, HeadInApp
<1>4. Counted(p, id)
  BY <1>2, <1>3 DEF Called, CountedOne, Counted
<1>5. QED
  BY <1>1, <1>2, <1>4 DEF Goes, Advance, Return

LEMMA QueryEffect ==
    ASSUME IInv4, NEW p, p = Current, NEW id, Instruction = <<"trace_query", id>>, query
    PROVE  /\ Goes(p) /\ UNCHANGED memoryVars /\ Counted(p, "trace")
           /\ Answer(p)' = count'[p][id]
<1>1. Running /\ Advance /\ UNCHANGED memoryVars /\ Called("trace") /\ Return(Queried(id))
  BY DEF query, Performs, trace_query
<1>2. p \in App /\ count \in [App -> [CountedIds -> Nat]] /\ ctx = [a \in App |-> ctx[a]]
  BY <1>1, HeadInApp
<1>3. Counted(p, "trace")
  BY <1>1, <1>2 DEF Called, CountedOne, Counted
<1>4. Answer(p)' = count'[p][id]
  BY <1>1, <1>2 DEF Return, Queried, Answer
<1>5. QED
  BY <1>1, <1>3, <1>4 DEF Goes, Advance, Return

LEMMA ExpectEffect ==
    ASSUME NEW p, p = Current, NEW A, Instruction = <<"expect", A>>, Answer(p) \in A, expect
    PROVE  Goes(p) /\ UNCHANGED memoryVars /\ Quiet /\ origin_brk' = origin_brk
<1> DEFINE claim == CASE Instruction[1] = "expect" -> answer \in Instruction[2]
                      [] Instruction[1] = "same" -> answer = origin_brk[Current]
                      [] Instruction[1] = "fail" -> FALSE
<1>1. AdvanceOrPanic(claim)
  BY DEF expect
<1>2. Instruction[1] = "expect" /\ answer = Answer(p) /\ Instruction[2] = A
  BY DEF answer, Answer
<1>3. claim
  BY <1>2
<1> HIDE DEF claim
<1>4. QED
  BY <1>1, <1>3 DEF AdvanceOrPanic, Goes, Advance, vars, Quiet

LEMMA SameEffect ==
    ASSUME NEW p, p = Current, Instruction = <<"same">>, Answer(p) = origin_brk[p], expect
    PROVE  Goes(p) /\ UNCHANGED memoryVars /\ Quiet /\ origin_brk' = origin_brk
<1> DEFINE claim == CASE Instruction[1] = "expect" -> answer \in Instruction[2]
                      [] Instruction[1] = "same" -> answer = origin_brk[Current]
                      [] Instruction[1] = "fail" -> FALSE
<1>1. AdvanceOrPanic(claim)
  BY DEF expect
<1>2. Instruction[1] = "same" /\ answer = Answer(p)
  BY DEF answer, Answer
<1>3. claim
  BY <1>2
<1> HIDE DEF claim
<1>4. QED
  BY <1>1, <1>3 DEF AdvanceOrPanic, Goes, Advance, vars, Quiet

LEMMA OriginEffect ==
    ASSUME IInv4, NEW p, p = Current, Instruction = <<"origin">>, keep_origin
    PROVE  /\ Goes(p) /\ UNCHANGED memoryVars /\ Quiet
           /\ origin_brk'[p] = Answer(p)
<1>1. Running
  BY DEF keep_origin, Performs
<1>2. p \in App
  BY <1>1, HeadInApp
<1>3. origin_brk \in [App -> Brk]
  BY DEF IInv4, OriginKnown
<1>4. origin_brk' = [origin_brk EXCEPT ![p] = Answer(p)]
  BY DEF keep_origin, answer, Answer
<1>5. Advance /\ UNCHANGED <<vars, memoryVars>>
  BY DEF keep_origin
<1>6. QED
  BY <1>2, <1>3, <1>4, <1>5 DEF Goes, Advance, vars, Quiet

LEMMA ExitEffect ==
    ASSUME exit
    PROVE  EndsWell
BY DEF exit, EndsWell

-----------------------------------------------------------------------------
(*                       Pages the head has or has not                     *)

Inner == 1 .. VarPage - 1

LEMMA PageRights ==
    ASSUME NEW p, NEW S, S \subseteq Inner, NEW rights, HasPages(p, S, rights)
    PROVE  /\ \A v \in S : /\ Memory!Readable(p, v) <=> "R" \in rights
                           /\ Memory!Writable(p, v) <=> "W" \in rights
           /\ Memory!Readable(p, VarPage) /\ Memory!Writable(p, VarPage) /\ Memory!Readable(p, 0)
           /\ \A v : v \notin S \cup {0, VarPage} => ~Memory!Readable(p, v) /\ ~Memory!Writable(p, v)
BY DEF HasPages, Memory!Readable, Memory!Writable, RW

LEMMA SamePages ==
    ASSUME NEW p, UNCHANGED memoryVars
    PROVE  /\ \A S, rights : HasPages(p, S, rights)' <=> HasPages(p, S, rights)
           /\ \A v : Sees(p, v)' = Sees(p, v)
           /\ program_brk'[p] = program_brk[p] /\ heap_bottom'[p] = heap_bottom[p]
BY DEF memoryVars, HasPages, Memory!Mapped, Sees, MP!viewBar

(* What a load finds.                                                      *)
LEMMA Seen ==
    ASSUME IInv4, NEW p \in MP!Proc, NEW v \in Memory!Mapped(p)
    PROVE  /\ mem[pages[p][v].frame] = Sees(p, v)
           /\ Sees(p, v) \in Memory!Value
<1>1. v \in MP!Page /\ pages[p][v] # NoPage
  BY SameSets DEF Memory!Mapped
<1>2. Sees(p, v) = MP!Content(p, v)
  BY <1>1, MemoryParameters, BootParameters, MP!ViewFacts DEF Sees
<1>3. MP!Content(p, v) = mem[pages[p][v].frame]
  BY <1>1 DEF MP!Content
<1>4. pages[p][v].frame \in MP!Frame /\ mem \in [MP!Frame -> MP!Value]
  BY <1>1, MemoryParameters, BootParameters, MP!ContentFacts
     DEF IInv4, MemoryInv4, MP!MemoryInv, MP!TypeOK
<1>5. QED
  BY <1>2, <1>3, <1>4, SameSets

-----------------------------------------------------------------------------
(*                     Calls that change the pages                         *)

(* The rows of the page tables have their types.                           *)
LEMMA RowFacts ==
    ASSUME IInv4, NEW p \in MP!Proc
    PROVE  /\ MP!TypeOK /\ MP!MemoryInv
           /\ pages \in [MP!Proc -> MP!Row] /\ next_frame \in Nat
           /\ program_brk[p] \in Int /\ heap_bottom[p] \in Int
           /\ NoPage \notin MP!MappedPage
           /\ Memory!Page = 0 .. VarPage /\ MP!Page = 0 .. VarPage /\ VarPage \in Nat
<1>1. MP!TypeOK /\ MP!MemoryInv
  BY DEF IInv4, MemoryInv4, MP!MemoryInv
<1>2. pages \in [MP!Proc -> MP!Row] /\ next_frame \in Nat
  BY <1>1 DEF MP!TypeOK, MP!Row
<1>3. program_brk[p] \in Int /\ heap_bottom[p] \in Int
  <2>1. program_brk[p] \in 0 .. PageCount * PAGE_SIZE /\ heap_bottom[p] \in 0 .. PageCount * PAGE_SIZE
    BY <1>1 DEF MP!TypeOK
  <2>2. QED
    BY <2>1
<1>4. NoPage \notin MP!MappedPage
  BY BootParameters
<1>5. Memory!Page = 0 .. VarPage /\ MP!Page = 0 .. VarPage /\ VarPage \in Nat
  BY Window, SameSets
<1>6. QED
  BY <1>1, <1>2, <1>3, <1>4, <1>5

LEMMA MapPages ==
    ASSUME IInv4, NEW p \in MP!Proc, NEW S, S \subseteq Inner, NEW rights, HasPages(p, S, rights),
           NEW lo \in Int, NEW hi \in Int, lo <= hi, lo .. hi - 1 \subseteq Inner,
           next_frame + (hi - lo) <= FrameCount,
           NEW flags \in SUBSET {"R", "W", "X"}, S = {} \/ flags = rights,
           NEW area \in {"elf", "heap", "mmap", "stack"},
           MP!map(p, lo, hi, flags, area)
    PROVE  HasPages(p, S \cup (lo .. hi - 1), flags)'
<1> DEFINE T == lo .. hi - 1
           new(v) == MP!NewPage(v, lo, flags, area)
<1>1. /\ pages \in [MP!Proc -> MP!Row] /\ next_frame \in Nat /\ NoPage \notin MP!MappedPage
      /\ Memory!Page = 0 .. VarPage /\ MP!Page = 0 .. VarPage /\ VarPage \in Nat
  BY RowFacts
<1>2. \A v \in 0 .. VarPage : pages'[p][v] = IF v \in T THEN new(v) ELSE pages[p][v]
  BY <1>1 DEF MP!map
<1>3. \A v \in T : new(v) # NoPage /\ new(v).flags = flags
  <2>1. \A v \in T : new(v) \in MP!MappedPage
    <3> SUFFICES ASSUME NEW v \in T PROVE new(v) \in MP!MappedPage
      OBVIOUS
    <3>1. v \in Int
      OBVIOUS
    <3>2. QED
      BY <1>1, <3>1, MemoryParameters, BootParameters, MP!NewPageTyped
  <2>2. QED
    BY <1>1, <2>1 DEF MP!NewPage
<1>4. /\ T \subseteq 0 .. VarPage /\ 0 \notin T /\ VarPage \notin T
      /\ 0 \in 0 .. VarPage /\ VarPage \in 0 .. VarPage /\ S \subseteq 0 .. VarPage
  BY <1>1 DEF Inner
<1> HIDE DEF T, new
<1>5. Memory!Mapped(p)' = S \cup T \cup {0, VarPage}
  <2>1. \A v \in 0 .. VarPage : pages'[p][v] # NoPage <=> v \in S \cup T \cup {0, VarPage}
    <3> SUFFICES ASSUME NEW v \in 0 .. VarPage
                 PROVE  pages'[p][v] # NoPage <=> v \in S \cup T \cup {0, VarPage}
      OBVIOUS
    <3>1. pages[p][v] # NoPage <=> v \in S \cup {0, VarPage}
      BY <1>1 DEF HasPages, Memory!Mapped
    <3>2. QED
      BY <1>2, <1>3, <3>1
  <2>2. QED
    BY <1>1, <1>4, <2>1 DEF Memory!Mapped
<1>6. pages'[p][0].flags = {"R", "X"} /\ pages'[p][VarPage].flags = RW
  BY <1>2, <1>4 DEF HasPages
<1>7. \A v \in S \cup T : pages'[p][v].flags = flags
  BY <1>2, <1>3, <1>4 DEF HasPages
<1>8. QED
  BY <1>5, <1>6, <1>7 DEF HasPages, T

LEMMA UnmapPages ==
    ASSUME IInv4, NEW p \in MP!Proc, NEW S, S \subseteq Inner, NEW rights, HasPages(p, S, rights),
           NEW T, 0 \notin T, VarPage \notin T, MP!unmap(p, T)
    PROVE  HasPages(p, S \ T, rights)'
<1>1. /\ pages \in [MP!Proc -> MP!Row]
      /\ Memory!Page = 0 .. VarPage /\ MP!Page = 0 .. VarPage /\ VarPage \in Nat
  BY RowFacts
<1>2. \A v \in 0 .. VarPage : pages'[p][v] = IF v \in T THEN NoPage ELSE pages[p][v]
  BY <1>1 DEF MP!unmap
<1>3. 0 \in 0 .. VarPage /\ VarPage \in 0 .. VarPage /\ S \subseteq 0 .. VarPage
  BY <1>1 DEF Inner
<1>4. Memory!Mapped(p)' = (S \ T) \cup {0, VarPage}
  <2>1. \A v \in 0 .. VarPage : pages'[p][v] # NoPage <=> v \in (S \ T) \cup {0, VarPage}
    <3> SUFFICES ASSUME NEW v \in 0 .. VarPage
                 PROVE  pages'[p][v] # NoPage <=> v \in (S \ T) \cup {0, VarPage}
      OBVIOUS
    <3>1. pages[p][v] # NoPage <=> v \in S \cup {0, VarPage}
      BY <1>1 DEF HasPages, Memory!Mapped
    <3>2. QED
      BY <1>2, <3>1
  <2>2. QED
    BY <1>1, <1>3, <2>1 DEF Memory!Mapped
<1>5. QED
  BY <1>2, <1>3, <1>4 DEF HasPages

LEMMA MemoryReturn ==
    ASSUME IInv4, Running, NEW p, p = Current, NEW ret, MemoryCall(ret)
    PROVE  Goes(p) /\ Answer(p)' = ret /\ origin_brk' = origin_brk
<1>1. p \in App /\ ctx = [a \in App |-> ctx[a]]
  BY HeadInApp
<1>2. QED
  BY <1>1 DEF MemoryCall, Return, Goes, Advance, Answer

LEMMA MmapRefused ==
    ASSUME IInv4, NEW p, p = Current, NEW addr, NEW length, NEW prot,
           Instruction = <<"mmap", addr, length, prot>>, mmap,
           Memory!BadMapping(p, addr, length, prot)
    PROVE  Goes(p) /\ UNCHANGED memoryVars /\ Answer(p)' = -1
<1>1. Running /\ UNCHANGED memoryVars /\ MemoryCall(-1)
  BY DEF mmap, Performs
<1>2. QED
  BY <1>1, MemoryReturn

LEMMA MmapEffect ==
    ASSUME IInv4, NEW p, p = Current, NEW addr, NEW length, NEW prot,
           Instruction = <<"mmap", addr, length, prot>>, InTest(p), mmap,
           NEW S, S \subseteq Inner, NEW rights, HasPages(p, S, rights), S = {} \/ prot = rights,
           Memory!Aligned(addr), prot \notin {{}, NoProt}, length > 0,
           NEW T, T = Memory!PageRange(addr, length), T \subseteq Inner, T \cap S = {}
    PROVE  Goes(p) /\ Answer(p)' = 0 /\ HasPages(p, S \cup T, prot)'
<1>1. Running
  BY DEF mmap, Performs
<1>2. p \in MP!Proc /\ p \in App
  BY <1>1, HeadInApp
<1>3. VarPage \notin Inner /\ 0 \notin Inner /\ VarPage \in Nat
  BY RowFacts, <1>2 DEF Inner
<1>4. ~Memory!BadMapping(p, addr, length, prot)
  <2>1. T \cap Memory!Mapped(p) = {}
    BY <1>3 DEF HasPages
  <2>2. QED
    BY <2>1 DEF Memory!BadMapping, Memory!IsFree
<1>5. Memory!mmap(p, addr, length, prot) /\ MemoryCall(0)
  BY <1>4 DEF mmap
<1>6. addr \in MP!Address /\ length \in Nat /\ prot \in Rights
  <2>1. Instruction \in Instructions \cup {<<"origin">>}
    BY <1>1, InstructionKnown DEF IInv4
  <2>2. Instruction \in Instructions
    BY <2>1
  <2>3. QED
    BY <2>2, InstructionFacts, SameSets
<1> DEFINE lo == MP!Floor(addr)
           hi == MP!Floor(addr) + MP!Ceil(length)
<1>7. MP!mmap(p, addr, length, prot)
  BY <1>5, SameMmap
<1>8. /\ lo \in Nat /\ hi \in Nat /\ lo <= hi /\ next_frame + (hi - lo) <= FrameCount
      /\ prot \in SUBSET {"R", "W", "X"}
  BY <1>2, <1>6, <1>7, RowFacts, MemoryParameters, BootParameters, MP!MmapFacts
<1>9. MP!map(p, lo, hi, prot, "mmap")
  <2>1. length # 0
    BY <1>6
  <2>2. QED
    BY <1>7, <2>1 DEF MP!mmap
<1>10. T = lo .. hi - 1
  <2> DEFINE f == Memory!Floor(addr)
             c == Memory!Ceil(length)
  <2>1. lo = f /\ hi = f + c
    BY SameSets
  <2>2. T = f .. f + c - 1
    BY DEF Memory!PageRange
  <2>3. f \in Int /\ c \in Int
    BY <1>6, <1>8, <2>1, SameSets, MemoryParameters, BootParameters, MP!CeilFacts
  <2> HIDE DEF lo, hi, f, c
  <2>4. QED
    BY <2>1, <2>2, <2>3
<1> HIDE DEF lo, hi
<1>11. HasPages(p, S \cup T, prot)'
  <2>1. lo \in Int /\ hi \in Int /\ lo .. hi - 1 \subseteq Inner
    BY <1>8, <1>10
  <2>2. HasPages(p, S \cup (lo .. hi - 1), prot)'
    BY <1>2, <1>8, <1>9, <2>1, MapPages
  <2>3. QED
    BY <1>10, <2>2
<1>12. QED
  BY <1>1, <1>5, <1>11, MemoryReturn

LEMMA MunmapRefused ==
    ASSUME IInv4, NEW p, p = Current, NEW addr, NEW length,
           Instruction = <<"munmap", addr, length>>, munmap,
           NEW S, S \subseteq Inner, NEW rights, HasPages(p, S, rights),
           ~Memory!Aligned(addr) \/ ~(Memory!PageRange(addr, length) \subseteq Memory!Mapped(p))
    PROVE  Goes(p) /\ Answer(p)' = -1 /\ HasPages(p, S, rights)'
<1>1. Running
  BY DEF munmap, Performs
<1>2. ~Memory!munmap(p, addr, length)
  BY DEF Memory!munmap
<1>3. Memory!munmap_refused(p, addr, length) /\ MemoryCall(-1)
  BY <1>2 DEF munmap
<1>4. MP!unmap(p, {})
  BY <1>3, SameMap DEF Memory!munmap_refused, Memory!UnmappedOnRefusal
<1>5. p \in MP!Proc
  BY <1>1, HeadInApp
<1>6. HasPages(p, S \ {}, rights)'
  BY <1>4, <1>5, UnmapPages
<1>7. S \ {} = S
  OBVIOUS
<1>8. QED
  BY <1>1, <1>3, <1>6, <1>7, MemoryReturn

LEMMA MunmapEffect ==
    ASSUME IInv4, NEW p, p = Current, NEW addr, NEW length,
           Instruction = <<"munmap", addr, length>>, munmap,
           NEW S, S \subseteq Inner, NEW rights, HasPages(p, S, rights),
           Memory!Aligned(addr), NEW T, T = Memory!PageRange(addr, length), T \subseteq S
    PROVE  Goes(p) /\ Answer(p)' = 0 /\ HasPages(p, S \ T, rights)'
<1>1. Running
  BY DEF munmap, Performs
<1>2. T \subseteq Memory!Mapped(p)
  BY DEF HasPages
<1>3. ~Memory!munmap_refused(p, addr, length)
  BY <1>2 DEF Memory!munmap_refused
<1>4. Memory!munmap(p, addr, length) /\ MemoryCall(0)
  BY <1>3 DEF munmap
<1>5. MP!unmap(p, T)
  BY <1>4, SameMap DEF Memory!munmap
<1>6. p \in MP!Proc
  BY <1>1, HeadInApp
<1>7. 0 \notin T /\ VarPage \notin T
  BY <1>6, RowFacts DEF Inner
<1>8. HasPages(p, S \ T, rights)'
  BY <1>5, <1>6, <1>7, UnmapPages
<1>9. QED
  BY <1>1, <1>4, <1>8, MemoryReturn

LEMMA SbrkRefused ==
    ASSUME IInv4, NEW p, p = Current, NEW size, Instruction = <<"sbrk", size>>, sbrk,
           program_brk[p] + size < heap_bottom[p], size \in Int
    PROVE  Goes(p) /\ UNCHANGED memoryVars /\ Answer(p)' = -1 /\ origin_brk' = origin_brk
<1>1. Running
  BY DEF sbrk, Performs
<1>2. program_brk[p] \in Int /\ heap_bottom[p] \in Int
  BY <1>1, HeadInApp, RowFacts
<1>3. ~Memory!NewBreak(p, size)
  <2> SUFFICES ASSUME Memory!NewBreak(p, size) PROVE FALSE
    OBVIOUS
  <2>1. program_brk[p] + size \in heap_bottom[p] .. PageCount * PAGE_SIZE
    BY DEF Memory!NewBreak
  <2>2. PageCount * PAGE_SIZE \in Int
    BY Geometry
  <2>3. QED
    BY <1>2, <2>1, <2>2
<1>4. Memory!sbrk_refused(p, size) /\ MemoryCall(-1)
  BY <1>3 DEF sbrk, Memory!sbrk_grow, Memory!sbrk_shrink
<1>5. UNCHANGED memoryVars
  BY <1>4 DEF Memory!sbrk_refused, Memory!Unchanged, memoryVars
<1>6. QED
  BY <1>1, <1>4, <1>5, MemoryReturn

LEMMA BreakMoves ==
    ASSUME IInv4, NEW p, p = Current, NEW size, Instruction = <<"sbrk", size>>, sbrk,
           program_brk[p] + size >= heap_bottom[p], size \in Int
    PROVE  /\ Goes(p) /\ Answer(p)' = program_brk[p] /\ origin_brk' = origin_brk
           /\ program_brk'[p] = program_brk[p] + size /\ heap_bottom'[p] = heap_bottom[p]
           /\ program_brk[p] + size <= PageCount * PAGE_SIZE
           /\ Memory!sbrk_grow(p, size) \/ Memory!sbrk_shrink(p, size)
<1>1. Running
  BY DEF sbrk, Performs
<1>2. /\ p \in MP!Proc /\ program_brk[p] \in Int /\ heap_bottom[p] \in Int
      /\ program_brk \in [MP!Proc -> 0 .. PageCount * PAGE_SIZE]
      /\ PageCount * PAGE_SIZE \in Int
  BY <1>1, HeadInApp, RowFacts, Geometry DEF MP!TypeOK
<1>3. ~Memory!sbrk_refused(p, size)
  BY <1>2 DEF Memory!sbrk_refused
<1>4. /\ MemoryCall(program_brk[p])
      /\ Memory!sbrk_grow(p, size) \/ Memory!sbrk_shrink(p, size)
  BY <1>3 DEF sbrk
<1>5. Memory!NewBreak(p, size)
  BY <1>4 DEF Memory!sbrk_grow, Memory!sbrk_shrink
<1>6. /\ program_brk' = [program_brk EXCEPT ![p] = @ + size] /\ heap_bottom' = heap_bottom
      /\ program_brk[p] + size \in heap_bottom[p] .. PageCount * PAGE_SIZE
  BY <1>5 DEF Memory!NewBreak
<1>7. QED
  BY <1>1, <1>2, <1>4, <1>6, MemoryReturn

(* k pages more than j.                                                    *)
LEMMA LastPages ==
    PAGE_SIZE \in Nat /\ PAGE_SIZE >= 2 /\ VarPage \in Nat /\ PageCount = VarPage + 1
BY Window

LEMMA SbrkGrows ==
    ASSUME IInv4, NEW p, p = Current, NEW size, Instruction = <<"sbrk", size>>, sbrk,
           NEW S, S \subseteq Inner, HasPages(p, S, RW),
           NEW j \in Nat, NEW k \in Nat, j >= 1, k >= 1, program_brk[p] = j * PAGE_SIZE,
           heap_bottom[p] = PAGE_SIZE, size = k * PAGE_SIZE,
           NEW n \in Nat, n = j + k
    PROVE  /\ Goes(p) /\ Answer(p)' = program_brk[p] /\ origin_brk' = origin_brk
           /\ program_brk'[p] = n * PAGE_SIZE /\ heap_bottom'[p] = heap_bottom[p]
           /\ HasPages(p, S \cup (j .. n - 1), RW)'
           /\ j .. n - 1 \subseteq Inner
<1> DEFINE P == PAGE_SIZE
<1>1. Running
  BY DEF sbrk, Performs
<1>2. p \in MP!Proc /\ P \in Nat /\ P >= 2 /\ VarPage \in Nat /\ PageCount = VarPage + 1
  <2>1. p \in MP!Proc
    BY <1>1, HeadInApp
  <2>2. P \in Nat /\ P >= 2 /\ VarPage \in Nat /\ PageCount = VarPage + 1
    BY LastPages, Zenon
  <2>3. QED
    BY <2>1, <2>2, Zenon
<1>3. /\ j * P + k * P = n * P /\ n \in Nat /\ size \in Int /\ size > 0
      /\ j * P + size >= P
  <2>1. j * P + k * P = n * P
    BY <1>2, Z3
  <2>2. j * P \in Nat /\ k * P \in Nat /\ 1 * P <= j * P /\ 1 * P <= k * P
    BY <1>2, ProductFacts
  <2>3. 1 * P = P
    BY <1>2
  <2> DEFINE a == j * P
             b == k * P
  <2>4. a \in Nat /\ b \in Nat /\ P <= a /\ P <= b /\ size = b
    BY <2>2, <2>3
  <2> HIDE DEF a, b, P
  <2>5. size \in Int /\ size > 0 /\ a + size >= P
    BY <1>2, <2>4
  <2>6. QED
    BY <2>1, <2>5 DEF a
<1>4. /\ Goes(p) /\ Answer(p)' = program_brk[p] /\ origin_brk' = origin_brk
      /\ program_brk'[p] = n * P /\ heap_bottom'[p] = heap_bottom[p]
      /\ Memory!sbrk_grow(p, size) \/ Memory!sbrk_shrink(p, size)
      /\ n * P <= PageCount * P
  <2>1. program_brk[p] + size >= heap_bottom[p] /\ program_brk[p] + size = n * P
    BY <1>3
  <2> HIDE DEF P
  <2>2. QED
    BY <1>3, <2>1, BreakMoves DEF P
<1>5. Memory!sbrk_grow(p, size)
  BY <1>3, <1>4 DEF Memory!sbrk_shrink
<1>6. Memory!Ceil(program_brk[p]) = j /\ Memory!Ceil(program_brk[p] + size) = n
  BY <1>3, PageFacts
<1>7. j .. n - 1 \subseteq Inner /\ j <= n
  <2>1. (j .. n - 1) \cap Memory!Mapped(p) = {}
    BY <1>5, <1>6 DEF Memory!sbrk_grow, Memory!Grown
  <2>2. VarPage \notin j .. n - 1
    BY <2>1 DEF HasPages
  <2>3. n <= PageCount
    <3>1. n > PageCount => (PageCount + 1) * P <= n * P
      <4>1. PageCount + 1 \in Nat /\ (n > PageCount => PageCount + 1 <= n)
        BY <1>2
      <4>2. QED
        BY <1>2, <1>3, <4>1, ProductFacts
    <3>2. (PageCount + 1) * P = PageCount * P + P /\ PageCount * P \in Nat
      BY <1>2, ProductFacts
    <3>3. n * P \in Nat
      BY <1>2, <1>3, ProductFacts
    <3> DEFINE x == n * P
               y == PageCount * P
               z == (PageCount + 1) * P
    <3>4. x \in Nat /\ y \in Nat /\ z = y + P /\ x <= y /\ (n > PageCount => z <= x)
      BY <1>4, <3>1, <3>2, <3>3
    <3> HIDE DEF x, y, z, P
    <3>5. QED
      BY <1>2, <1>3, <3>4
  <2>4. QED
    BY <1>2, <2>2, <2>3 DEF Inner
<1>8. HasPages(p, S \cup (j .. n - 1), RW)'
  <2>1. (j .. n - 1) # {}
    <3>1. j \in j .. n - 1
      OBVIOUS
    <3>2. QED
      BY <3>1
  <2>2. Memory!map(p, j, n, {"R", "W"}, "heap")
    BY <1>5, <1>6, <2>1 DEF Memory!sbrk_grow, Memory!Grown
  <2>3. MP!map(p, j, n, {"R", "W"}, "heap")
    BY <2>2, SameMap
  <2>4. next_frame + (n - j) <= FrameCount
    <3>1. MP!sbrk_grow(p, size)
      <4>1. ~MP!sbrk_refused(p, size) /\ ~MP!sbrk_shrink(p, size)
        <5>1. program_brk[p] \in Int /\ heap_bottom[p] \in Int
          BY <1>2, RowFacts
        <5>2. program_brk[p] + size >= heap_bottom[p]
          BY <1>3
        <5>3. ~(program_brk[p] + size < heap_bottom[p])
          BY <1>3, <5>1, <5>2
        <5>4. QED
          BY <1>3, <5>3 DEF MP!sbrk_refused, MP!sbrk_shrink
      <4>2. QED
        BY <1>5, <4>1, SameSbrk
    <3>2. MP!Ceil(program_brk[p]) = j /\ MP!Ceil(program_brk[p] + size) = n
      BY <1>6, SameSets
    <3>3. MP!TypeOK
      BY <1>2, RowFacts
    <3>4. size \in Int
      BY <1>3
    <3>5. next_frame + (MP!Ceil(program_brk[p] + size) - MP!Ceil(program_brk[p])) <= FrameCount
      BY <1>2, <3>1, <3>3, <3>4, MemoryParameters, BootParameters, MP!GrowFacts
    <3>6. QED
      BY <3>2, <3>5
  <2>5. /\ j \in Int /\ n \in Int /\ {"R", "W"} \in SUBSET {"R", "W", "X"} /\ {"R", "W"} = RW
        /\ "heap" \in {"elf", "heap", "mmap", "stack"}
    BY DEF RW
  <2> DEFINE lo == j
             hi == n
  <2>6. /\ lo \in Int /\ hi \in Int /\ lo <= hi /\ lo .. hi - 1 \subseteq Inner
        /\ next_frame + (hi - lo) <= FrameCount /\ MP!map(p, lo, hi, RW, "heap")
        /\ RW \in SUBSET {"R", "W", "X"}
    BY <1>7, <2>3, <2>4, <2>5
  <2> HIDE DEF lo, hi
  <2>7. HasPages(p, S \cup (lo .. hi - 1), RW)'
    BY <1>2, <2>5, <2>6, MapPages
  <2>8. QED
    BY <2>7 DEF lo, hi
<1>9. QED
  BY <1>4, <1>7, <1>8

LEMMA SbrkShrinks ==
    ASSUME IInv4, NEW p, p = Current, NEW size, Instruction = <<"sbrk", size>>, sbrk,
           NEW S, S \subseteq Inner, HasPages(p, S, RW),
           NEW j \in Nat, NEW k \in Nat, 1 <= j, j <= VarPage,
           program_brk[p] = j * PAGE_SIZE + k * PAGE_SIZE,
           heap_bottom[p] = PAGE_SIZE, size \in Int, program_brk[p] + size = j * PAGE_SIZE,
           j + k <= VarPage
    PROVE  /\ Goes(p) /\ Answer(p)' = program_brk[p] /\ origin_brk' = origin_brk
           /\ program_brk'[p] = j * PAGE_SIZE /\ heap_bottom'[p] = heap_bottom[p]
           /\ HasPages(p, S \ (j .. j + k - 1), RW)'
<1> DEFINE P == PAGE_SIZE
<1>1. Running
  BY DEF sbrk, Performs
<1>2. p \in MP!Proc /\ P \in Nat /\ P >= 2 /\ VarPage \in Nat
  <2>1. p \in MP!Proc
    BY <1>1, HeadInApp
  <2>2. P \in Nat /\ P >= 2 /\ VarPage \in Nat
    BY LastPages, Zenon
  <2>3. QED
    BY <2>1, <2>2
<1>3. j * P + k * P = (j + k) * P /\ j + k \in Nat /\ P <= j * P /\ ~(size > 0)
      /\ j * P \in Nat
  <2>1. j * P + k * P = (j + k) * P
    BY <1>2, Z3
  <2>2. j * P \in Nat /\ k * P \in Nat /\ 1 * P <= j * P
    BY <1>2, ProductFacts
  <2>3. 1 * P = P
    BY <1>2
  <2> DEFINE a == j * P
             b == k * P
  <2>4. a \in Nat /\ b \in Nat /\ P <= a /\ a + b + size = a
    BY <2>2, <2>3
  <2> HIDE DEF a, b, P
  <2>5. ~(size > 0)
    BY <2>4
  <2>6. QED
    BY <2>1, <2>4, <2>5 DEF a
<1>4. /\ Goes(p) /\ Answer(p)' = program_brk[p] /\ origin_brk' = origin_brk
      /\ program_brk'[p] = j * P /\ heap_bottom'[p] = heap_bottom[p]
      /\ Memory!sbrk_grow(p, size) \/ Memory!sbrk_shrink(p, size)
  <2>1. program_brk[p] + size >= heap_bottom[p]
    BY <1>3
  <2> HIDE DEF P
  <2>2. QED
    BY <1>3, <2>1, BreakMoves DEF P
<1>5. Memory!sbrk_shrink(p, size)
  BY <1>3, <1>4 DEF Memory!sbrk_grow
<1>6. Memory!Ceil(program_brk[p] + size) = j /\ Memory!Ceil(program_brk[p]) = j + k
  BY <1>3, PageFacts
<1>7. MP!unmap(p, j .. j + k - 1)
  BY <1>5, <1>6, SameMap DEF Memory!sbrk_shrink, Memory!Shrunk
<1>8. 0 \notin j .. j + k - 1 /\ VarPage \notin j .. j + k - 1
  BY <1>2
<1>9. HasPages(p, S \ (j .. j + k - 1), RW)'
  BY <1>2, <1>7, <1>8, UnmapPages
<1>10. QED
  BY <1>4, <1>9

-----------------------------------------------------------------------------
(*                Calls and instructions that reach the bytes              *)

(* v sees x, and the rest of p is as it was.                               *)
Stores(p, v, x) ==
    /\ \A S, rights : HasPages(p, S, rights) => HasPages(p, S, rights)'
    /\ Sees(p, v)' = x
    /\ \A w \in Memory!Page : w # v => Sees(p, w)' = Sees(p, w)
    /\ program_brk'[p] = program_brk[p] /\ heap_bottom'[p] = heap_bottom[p]

LEMMA StoredSeen ==
    ASSUME IInv4, NEW p \in MP!Proc, NEW v \in Memory!Mapped(p), p \in alive, NEW x,
           Memory!Stored(p, v, x)
    PROVE  Stores(p, v, x)
<1>1. MP!MemoryInv /\ v \in MP!Mapped(p) /\ v \in MP!Page /\ Memory!Page = MP!Page
  BY RowFacts, SameState, SameSets DEF Memory!Mapped
<1>2. /\ mem' = [mem EXCEPT ![pages[p][v].frame] = x] /\ pages' = pages
      /\ program_brk' = program_brk /\ heap_bottom' = heap_bottom
  BY DEF Memory!Stored
<1>3. \A f \in MP!Frame : mem'[f] = IF f = pages[p][v].frame THEN x ELSE mem[f]
  <2>1. mem \in [MP!Frame -> MP!Value]
    BY <1>1 DEF MP!MemoryInv, MP!TypeOK
  <2>2. QED
    BY <1>2, <2>1
<1>4. MP!viewBar' = [MP!viewBar EXCEPT ![p][v] = x]
  BY <1>1, <1>2, <1>3, MemoryParameters, BootParameters, MP!StoreView
<1>5. MP!viewBar \in [MP!Proc -> [MP!Page -> {MP!viewBar[q][w] : q \in MP!Proc, w \in MP!Page}]]
  BY DEF MP!viewBar
<1>6. /\ MP!viewBar'[p][v] = x
      /\ \A w \in MP!Page : w # v => MP!viewBar'[p][w] = MP!viewBar[p][w]
  BY <1>1, <1>4, <1>5
<1>7. \A S, rights : HasPages(p, S, rights) => HasPages(p, S, rights)'
  BY <1>2 DEF HasPages, Memory!Mapped
<1>8. QED
  BY <1>1, <1>2, <1>6, <1>7 DEF Stores, Sees

LEMMA TracedReturn ==
    ASSUME IInv4, Running, NEW p, p = Current, NEW ret, Traced(ret)
    PROVE  Goes(p) /\ Answer(p)' = ret /\ origin_brk' = origin_brk /\ Counted(p, "trace")
<1>1. /\ p \in App /\ ctx = [a \in App |-> ctx[a]]
      /\ count \in [App -> [CountedIds -> Nat]]
  BY HeadInApp
<1>2. Counted(p, "trace")
  BY <1>1 DEF Traced, Called, CountedOne, Counted
<1>3. QED
  BY <1>1, <1>2 DEF Traced, Return, Goes, Advance, Answer

LEMMA TraceReadEffect ==
    ASSUME IInv4, NEW p, p = Current, NEW addr, Instruction = <<"trace_read", addr>>, trace_read,
           NEW v, v = PageOf(addr)
    PROVE  /\ Goes(p) /\ UNCHANGED memoryVars /\ Counted(p, "trace")
           /\ Memory!Readable(p, v) => Answer(p)' = Number(Sees(p, v))
           /\ ~Memory!Readable(p, v) => Answer(p)' = -1
<1> DEFINE ret == IF Memory!Readable(p, v) THEN Number(mem[pages[p][v].frame]) ELSE -1
<1>1. Running /\ Traced(ret) /\ UNCHANGED memoryVars
  BY DEF trace_read, Performs
<1>2. p \in MP!Proc
  BY <1>1, HeadInApp
<1>3. Memory!Readable(p, v) => ret = Number(Sees(p, v))
  BY <1>2, Seen DEF Memory!Readable
<1>4. ~Memory!Readable(p, v) => ret = -1
  OBVIOUS
<1> HIDE DEF ret
<1>5. QED
  BY <1>1, <1>3, <1>4, TracedReturn

LEMMA TraceWriteEffect ==
    ASSUME IInv4, NEW p, p = Current, NEW addr, NEW x, Instruction = <<"trace_write", addr, x>>,
           trace_write, NEW v, v = PageOf(addr)
    PROVE  /\ Goes(p) /\ Counted(p, "trace")
           /\ Memory!Writable(p, v) => Stores(p, v, x) /\ Answer(p)' = 0
           /\ ~Memory!Writable(p, v) => UNCHANGED memoryVars /\ Answer(p)' = -1
<1>1. Running
  BY DEF trace_write, Performs
<1>2. p \in MP!Proc /\ p \in alive
  BY <1>1, HeadInApp
<1>3. /\ Memory!Writable(p, v) => Memory!Stored(p, v, x) /\ Traced(0)
      /\ ~Memory!Writable(p, v) => UNCHANGED memoryVars /\ Traced(-1)
  BY DEF trace_write
<1>4. CASE Memory!Writable(p, v)
  <2>1. v \in Memory!Mapped(p) /\ Memory!Stored(p, v, x) /\ Traced(0)
    BY <1>3, <1>4 DEF Memory!Writable
  <2>2. Stores(p, v, x)
    BY <1>2, <2>1, StoredSeen
  <2>3. QED
    BY <1>1, <1>4, <2>1, <2>2, TracedReturn
<1>5. CASE ~Memory!Writable(p, v)
  BY <1>1, <1>3, <1>5, TracedReturn
<1>6. QED
  BY <1>4, <1>5

LEMMA LoadEffect ==
    ASSUME IInv4, NEW p, p = Current, NEW v, NEW A, Instruction = <<"load", v, A>>, load \/ fault,
           Memory!Readable(p, v), Sees(p, v) \in A
    PROVE  Goes(p) /\ UNCHANGED memoryVars /\ Quiet
<1>1. Instruction[1] = "load" /\ Instruction[2] = v /\ Instruction[3] = A /\ Target = v
  BY DEF Target
<1>2. load
  BY <1>1 DEF fault
<1>3. Running /\ AdvanceOrPanic(mem[pages[p][v].frame] \in A)
  BY <1>1, <1>2 DEF load, Performs
<1>4. p \in MP!Proc
  BY <1>3, HeadInApp
<1>5. mem[pages[p][v].frame] \in A
  BY <1>4, Seen DEF Memory!Readable
<1>6. QED
  BY <1>3, <1>5 DEF AdvanceOrPanic, Goes, Advance, vars, Quiet

(* store_new stores to the page at origin_brk.                             *)
LEMMA StoreEffect ==
    ASSUME IInv4, NEW p, p = Current, NEW v, NEW x,
           \/ Instruction = <<"store", v, x>>
           \/ Instruction = <<"store_new", x>> /\ v = PageOf(origin_brk[p]),
           store \/ fault, Memory!Writable(p, v)
    PROVE  Goes(p) /\ Stores(p, v, x) /\ Quiet /\ origin_brk' = origin_brk
<1>1. /\ Instruction[1] \in {"store", "store_new"} /\ Target = v
      /\ Instruction[Len(Instruction)] = x
  BY DEF Target
<1>2. store
  BY <1>1 DEF fault
<1>3. Running /\ Memory!Stored(p, v, x) /\ Advance /\ UNCHANGED <<vars, origin_brk>>
  BY <1>1, <1>2 DEF store, Performs
<1>4. p \in MP!Proc /\ p \in alive /\ v \in Memory!Mapped(p)
  BY <1>3, HeadInApp DEF Memory!Writable
<1>5. Stores(p, v, x)
  BY <1>3, <1>4, StoredSeen
<1>6. QED
  BY <1>3, <1>5 DEF Goes, Advance, vars, Quiet

(* The fault that a test means to happen.                                  *)
LEMMA FaultEffect ==
    ASSUME NEW p, p = Current, NEW v,
           \/ /\ \E A : Instruction = <<"load", v, A>>
              /\ ~Memory!Readable(p, v) /\ (load \/ fault)
           \/ /\ \E x : \/ Instruction = <<"store", v, x>>
                        \/ Instruction = <<"store_new", x>> /\ v = PageOf(origin_brk[p])
              /\ ~Memory!Writable(p, v) /\ (store \/ fault),
           script[image[p]][pos[p] + 1] = <<"fail">>
    PROVE  EndsWell
<1>1. Target = v
  BY DEF Target
<1>2. fault
  BY <1>1 DEF load, store
<1>3. QED
  BY <1>2 DEF fault, EndsWell

-----------------------------------------------------------------------------
(*          The memory tests: what holds at each of their lines            *)

LEMMA TestAt ==
    ASSUME IInv4, Running, Next4, NEW p, p = Current, InTest(p), NEW s, s = script[image[p]],
           NEW i, i = pos[p]
    PROVE  /\ Step /\ i \in 1 .. Len(s) /\ Instruction = s[i] /\ script[image[p]][i + 1] = s[i + 1]
           /\ p \in MP!Proc /\ i \in Int
           /\ Goes(p) => pos'[p] = i + 1
<1>1. p \in App /\ p \in MP!Proc /\ pos \in [App -> Int]
  BY HeadInApp
<1>2. i \in 1 .. Len(s) /\ i \in Int
  BY <1>1 DEF IInv4, WithinScript
<1>3. Goes(p) => pos'[p] = i + 1
  BY <1>1 DEF Goes
<1>4. QED
  BY <1>1, <1>2, <1>3, TestStep DEF Instruction

(* The page at start, and the rights to it.                                *)
LEMMA StartFacts ==
    /\ StartPage \in Inner /\ {StartPage} \subseteq Inner /\ {} \subseteq Inner
    /\ StartPage + 1 \in Inner /\ StartPage + 2 \in Inner /\ StartPage - 1 \in Inner
    /\ len > 0 /\ len * 2 > 0 /\ len + 1 > 0
    /\ RW \notin {{}, NoProt} /\ {"R"} \notin {{}, NoProt} /\ {"W"} \notin {{}, NoProt}
    /\ StartPage # VarPage /\ VarPage \in Memory!Page /\ StartPage \in Memory!Page
<1>1. /\ PAGE_SIZE \in Nat /\ PAGE_SIZE >= 2 /\ StartPage \in Nat /\ StartPage >= 2
      /\ VarPage = StartPage + 5 /\ len = PAGE_SIZE /\ Memory!Page = 0 .. StartPage + 5
  BY Window
<1>2. len > 0 /\ len * 2 > 0 /\ len + 1 > 0
  BY <1>1
<1>3. RW # NoProt /\ {"R"} # NoProt /\ {"W"} # NoProt
  BY TestsAssumption DEF RW
<1>4. StartPage \in Inner /\ StartPage + 1 \in Inner /\ StartPage + 2 \in Inner /\ StartPage - 1 \in Inner
  BY <1>1 DEF Inner
<1>5. StartPage # VarPage /\ VarPage \in Memory!Page /\ StartPage \in Memory!Page
  BY <1>1
<1>6. RW # {} /\ {"R"} # {} /\ {"W"} # {}
  BY DEF RW
<1>7. QED
  BY <1>2, <1>3, <1>4, <1>5, <1>6

(* mmap of the page at start, which is free.                               *)
LEMMA MapStart ==
    ASSUME IInv4, NEW p, p = Current, InTest(p), Step,
           NEW prot, prot \notin {{}, NoProt}, Instruction = <<"mmap", start, len, prot>>,
           NEW rights, HasPages(p, {}, rights)
    PROVE  Goes(p) /\ Answer(p)' = 0 /\ HasPages(p, {StartPage}, prot)'
<1>1. mmap
  BY StepByInstruction
<1>2. /\ Memory!Aligned(start) /\ len > 0 /\ {StartPage} = Memory!PageRange(start, len)
      /\ {StartPage} \subseteq Inner /\ {} \subseteq Inner
  BY Places, Ranges, StartFacts
<1>3. {StartPage} \cap {} = {} /\ {} \cup {StartPage} = {StartPage}
  OBVIOUS
<1>4. QED
  BY <1>1, <1>2, <1>3, MmapEffect

(* A claim that holds.                                                     *)
LEMMA Expected ==
    ASSUME NEW p, p = Current, Step, NEW A, Instruction = <<"expect", A>>, Answer(p) \in A
    PROVE  /\ Goes(p) /\ Quiet /\ origin_brk' = origin_brk /\ UNCHANGED memoryVars
           /\ \A S, rights : HasPages(p, S, rights)' <=> HasPages(p, S, rights)
           /\ \A v : Sees(p, v)' = Sees(p, v)
           /\ program_brk'[p] = program_brk[p] /\ heap_bottom'[p] = heap_bottom[p]
<1>1. expect
  BY StepByInstruction
<1>2. QED
  BY <1>1, ExpectEffect, SamePages

-----------------------------------------------------------------------------
MmapAt(p, i) ==
    /\ i = 1 => HasPages(p, {}, RW)
    /\ i > 1 => HasPages(p, {StartPage}, RW)
    /\ i = 2 => Answer(p) = 0
    /\ i > 3 => Sees(p, StartPage) = "byte"

LEMMA MmapStep ==
    ASSUME IInv4, Running, Next4, NEW p, p = Current, image[p] = "ch4_mmap",
           NEW i, i = pos[p], MmapAt(p, i)
    PROVE  EndsWell \/ (Goes(p) /\ MmapAt(p, i + 1)')
<1> DEFINE s == ch4_mmap
           P == PAGE_SIZE
<1>1. /\ Len(s) = 3 + P + P
      /\ s[1] = <<"mmap", start, len, RW>> /\ s[2] = <<"expect", {0}>>
      /\ \A k \in 1..P : /\ s[2 + k] = <<"store", StartPage, "byte">>
                         /\ s[2 + P + k] = <<"load", StartPage, {"byte"}>>
      /\ s[3 + P + P] = <<"exit", 0>>
  BY MmapText
<1>2. P \in Nat
  BY Window
<1>3. InTest(p) /\ s = script[image[p]]
  BY DEF InTest, script
<1> HIDE DEF s, P
<1>4. Step /\ i \in 1 .. Len(s) /\ Instruction = s[i] /\ i \in Int /\ p \in MP!Proc
  BY <1>3, TestAt
<1>5. \/ i = 1 \/ i = 2 \/ i = 3 + P + P
      \/ i - 2 \in 1..P \/ i - 2 - P \in 1..P
  BY <1>1, <1>2, <1>4
<1>6. CASE i = 1
  <2>1. Goes(p) /\ Answer(p)' = 0 /\ HasPages(p, {StartPage}, RW)'
    BY <1>1, <1>3, <1>4, <1>6, MapStart, StartFacts DEF MmapAt
  <2>2. QED
    BY <1>6, <2>1 DEF MmapAt
<1>7. CASE i = 2
  <2>1. Answer(p) \in {0} /\ Instruction = <<"expect", {0}>>
    BY <1>1, <1>4, <1>7 DEF MmapAt
  <2>2. QED
    BY <1>4, <1>7, <2>1, Expected DEF MmapAt
<1>8. CASE i - 2 \in 1..P
  <2>1. Instruction = <<"store", StartPage, "byte">>
    <3>1. i = 2 + (i - 2)
      BY <1>4
    <3>2. QED
      BY <1>1, <1>4, <1>8, <3>1
  <2>2. i > 1 /\ HasPages(p, {StartPage}, RW)
    BY <1>4, <1>8 DEF MmapAt
  <2>3. Memory!Writable(p, StartPage)
    BY <2>2, StartFacts, PageRights DEF RW
  <2>4. store \/ fault
    BY <1>4, <2>1, StepByInstruction
  <2>5. Goes(p) /\ Stores(p, StartPage, "byte")
    BY <2>1, <2>3, <2>4, StoreEffect
  <2>6. QED
    BY <1>4, <2>2, <2>5 DEF MmapAt, Stores
<1>9. CASE i - 2 - P \in 1..P
  <2>1. Instruction = <<"load", StartPage, {"byte"}>>
    <3>1. i = 2 + P + (i - 2 - P)
      BY <1>2, <1>4
    <3>2. QED
      BY <1>1, <1>4, <1>9, <3>1
  <2>2. P >= 1 /\ i > 3 /\ i > 1
    BY <1>2, <1>4, <1>9, Window DEF P
  <2>3. HasPages(p, {StartPage}, RW) /\ Sees(p, StartPage) = "byte"
    BY <2>2 DEF MmapAt
  <2>4. Memory!Readable(p, StartPage)
    BY <2>3, StartFacts, PageRights DEF RW
  <2>5. load \/ fault
    BY <1>4, <2>1, StepByInstruction
  <2>6. Goes(p) /\ UNCHANGED memoryVars
    BY <2>1, <2>3, <2>4, <2>5, LoadEffect
  <2>7. HasPages(p, {StartPage}, RW)' /\ Sees(p, StartPage)' = "byte"
    BY <2>3, <2>6, SamePages
  <2>8. QED
    BY <1>4, <2>2, <2>6, <2>7 DEF MmapAt
<1>10. CASE i = 3 + P + P
  BY <1>1, <1>4, <1>10, StepByInstruction, ExitEffect
<1>11. QED
  BY <1>5, <1>6, <1>7, <1>8, <1>9, <1>10

(* The page cannot be written: the store faults, "fail" is not reached.    *)
Mmap1At(p, i) ==
    /\ i \in 1..3
    /\ i = 1 => HasPages(p, {}, RW)
    /\ i > 1 => HasPages(p, {StartPage}, {"R"})
    /\ i = 2 => Answer(p) = 0

LEMMA Mmap1Step ==
    ASSUME IInv4, Running, Next4, NEW p, p = Current, image[p] = "ch4_mmap1",
           NEW i, i = pos[p], Mmap1At(p, i)
    PROVE  EndsWell \/ (Goes(p) /\ Mmap1At(p, i + 1)')
<1> DEFINE s == ch4_mmap1
<1>1. /\ s[1] = <<"mmap", start, len, {"R"}>> /\ s[2] = <<"expect", {0}>>
      /\ s[3] = <<"store", StartPage, "byte">> /\ s[4] = <<"fail">>
  BY DEF ch4_mmap1, Expect
<1>2. InTest(p) /\ s = script[image[p]]
  BY DEF InTest, script
<1> HIDE DEF s
<1>3. /\ Step /\ Instruction = s[i] /\ p \in MP!Proc
      /\ script[image[p]][i + 1] = s[i + 1]
  BY <1>2, TestAt
<1>4. i = 1 \/ i = 2 \/ i = 3
  BY DEF Mmap1At
<1>5. CASE i = 1
  <2>1. Goes(p) /\ Answer(p)' = 0 /\ HasPages(p, {StartPage}, {"R"})'
    BY <1>1, <1>2, <1>3, <1>5, MapStart, StartFacts DEF Mmap1At
  <2>2. QED
    BY <1>5, <2>1 DEF Mmap1At
<1>6. CASE i = 2
  <2>1. Answer(p) \in {0} /\ Instruction = <<"expect", {0}>>
    BY <1>1, <1>3, <1>6 DEF Mmap1At
  <2>2. QED
    BY <1>3, <1>6, <2>1, Expected DEF Mmap1At
<1>7. CASE i = 3
  <2>1. HasPages(p, {StartPage}, {"R"})
    BY <1>7 DEF Mmap1At
  <2>2. ~Memory!Writable(p, StartPage)
    BY <2>1, StartFacts, PageRights
  <2>3. Instruction = <<"store", StartPage, "byte">> /\ script[image[p]][pos[p] + 1] = <<"fail">>
    BY <1>1, <1>3, <1>7
  <2>4. store \/ fault
    BY <1>3, <2>3, StepByInstruction
  <2>5. EndsWell
    BY <2>2, <2>3, <2>4, FaultEffect
  <2>6. QED
    BY <2>5
<1>8. QED
  BY <1>4, <1>5, <1>6, <1>7

(* The page cannot be read: the load faults.                               *)
Mmap2At(p, i) ==
    /\ i \in 1..3
    /\ i = 1 => HasPages(p, {}, RW)
    /\ i > 1 => HasPages(p, {StartPage}, {"W"})
    /\ i = 2 => Answer(p) = 0

LEMMA Mmap2Step ==
    ASSUME IInv4, Running, Next4, NEW p, p = Current, image[p] = "ch4_mmap2",
           NEW i, i = pos[p], Mmap2At(p, i)
    PROVE  EndsWell \/ (Goes(p) /\ Mmap2At(p, i + 1)')
<1> DEFINE s == ch4_mmap2
<1>1. /\ s[1] = <<"mmap", start, len, {"W"}>> /\ s[2] = <<"expect", {0}>>
      /\ s[3] = <<"load", StartPage, Memory!Value>> /\ s[4] = <<"fail">>
  BY DEF ch4_mmap2, Expect
<1>2. InTest(p) /\ s = script[image[p]]
  BY DEF InTest, script
<1> HIDE DEF s
<1>3. /\ Step /\ Instruction = s[i] /\ p \in MP!Proc
      /\ script[image[p]][i + 1] = s[i + 1]
  BY <1>2, TestAt
<1>4. i = 1 \/ i = 2 \/ i = 3
  BY DEF Mmap2At
<1>5. CASE i = 1
  <2>1. Goes(p) /\ Answer(p)' = 0 /\ HasPages(p, {StartPage}, {"W"})'
    BY <1>1, <1>2, <1>3, <1>5, MapStart, StartFacts DEF Mmap2At
  <2>2. QED
    BY <1>5, <2>1 DEF Mmap2At
<1>6. CASE i = 2
  <2>1. Answer(p) \in {0} /\ Instruction = <<"expect", {0}>>
    BY <1>1, <1>3, <1>6 DEF Mmap2At
  <2>2. QED
    BY <1>3, <1>6, <2>1, Expected DEF Mmap2At
<1>7. CASE i = 3
  <2>1. HasPages(p, {StartPage}, {"W"})
    BY <1>7 DEF Mmap2At
  <2>2. ~Memory!Readable(p, StartPage)
    BY <2>1, StartFacts, PageRights
  <2>3. Instruction = <<"load", StartPage, Memory!Value>> /\ script[image[p]][pos[p] + 1] = <<"fail">>
    BY <1>1, <1>3, <1>7
  <2>4. load \/ fault
    BY <1>3, <2>3, StepByInstruction
  <2>5. EndsWell
    BY <2>2, <2>3, <2>4, FaultEffect
  <2>6. QED
    BY <2>5
<1>8. QED
  BY <1>4, <1>5, <1>6, <1>7

-----------------------------------------------------------------------------
(* A call of mmap that is refused, and the -1 that is expected of it.      *)
LEMMA Refused ==
    ASSUME IInv4, NEW p, p = Current, Step, NEW addr, NEW length, NEW prot,
           Instruction = <<"mmap", addr, length, prot>>,
           Memory!BadMapping(p, addr, length, prot)
    PROVE  /\ Goes(p) /\ Answer(p)' = -1
           /\ \A S, rights : HasPages(p, S, rights)' <=> HasPages(p, S, rights)
<1>1. mmap
  BY StepByInstruction
<1>2. QED
  BY <1>1, MmapRefused, SamePages

Mmap3At(p, i) ==
    /\ i = 1 => HasPages(p, {}, RW)
    /\ i > 1 => HasPages(p, {StartPage}, RW)
    /\ i = 2 => Answer(p) = 0
    /\ i \in {4, 6, 8, 10} => Answer(p) = -1

LEMMA Mmap3Step ==
    ASSUME IInv4, Running, Next4, NEW p, p = Current, image[p] = "ch4_mmap3",
           NEW i, i = pos[p], Mmap3At(p, i)
    PROVE  EndsWell \/ (Goes(p) /\ Mmap3At(p, i + 1)')
<1> DEFINE s == ch4_mmap3
<1>1. /\ Len(s) = 11
      /\ s[1] = <<"mmap", start, len, RW>> /\ s[2] = <<"expect", {0}>>
      /\ s[3] = <<"mmap", start - len, len + 1, RW>>
      /\ s[5] = <<"mmap", start + len + 1, len, RW>>
      /\ s[7] = <<"mmap", start + len, len, {}>>
      /\ s[9] = <<"mmap", start + len, len, NoProt>>
      /\ s[4] = <<"expect", {-1}>> /\ s[6] = <<"expect", {-1}>>
      /\ s[8] = <<"expect", {-1}>> /\ s[10] = <<"expect", {-1}>>
      /\ s[11] = <<"exit", 0>>
  BY DEF ch4_mmap3, Expect, Exit
<1>2. InTest(p) /\ s = script[image[p]]
  BY DEF InTest, script
<1> HIDE DEF s
<1>3. Step /\ Instruction = s[i] /\ p \in MP!Proc /\ i \in 1 .. Len(s)
  BY <1>2, TestAt
<1>4. i = 1 \/ i = 2 \/ i \in {3, 5, 7, 9} \/ i \in {4, 6, 8, 10} \/ i = 11
  BY <1>1, <1>3
<1>5. CASE i = 1
  <2>1. Goes(p) /\ Answer(p)' = 0 /\ HasPages(p, {StartPage}, RW)'
    BY <1>1, <1>2, <1>3, <1>5, MapStart, StartFacts DEF Mmap3At
  <2>2. QED
    BY <1>5, <2>1 DEF Mmap3At
<1>6. CASE i = 2
  <2>1. Answer(p) \in {0} /\ Instruction = <<"expect", {0}>>
    BY <1>1, <1>3, <1>6 DEF Mmap3At
  <2>2. QED
    BY <1>3, <1>6, <2>1, Expected DEF Mmap3At
<1>7. CASE i \in {3, 5, 7, 9}
  <2>1. HasPages(p, {StartPage}, RW)
    BY <1>7 DEF Mmap3At
  <2>2. Memory!BadMapping(p, start - len, len + 1, RW)
    <3>1. StartPage \in Memory!PageRange(start - len, len + 1) \cap Memory!Mapped(p)
      BY <2>1, Ranges DEF HasPages
    <3>2. QED
      BY <3>1, StartFacts DEF Memory!BadMapping, Memory!IsFree
  <2>3. Memory!BadMapping(p, start + len + 1, len, RW)
    BY Places DEF Memory!BadMapping
  <2>4. /\ Memory!BadMapping(p, start + len, len, {})
        /\ Memory!BadMapping(p, start + len, len, NoProt)
    BY DEF Memory!BadMapping
  <2>5. \E addr, length, prot : /\ Instruction = <<"mmap", addr, length, prot>>
                                /\ Memory!BadMapping(p, addr, length, prot)
    BY <1>1, <1>3, <1>7, <2>2, <2>3, <2>4
  <2>6. Goes(p) /\ Answer(p)' = -1 /\ HasPages(p, {StartPage}, RW)'
    BY <1>3, <2>1, <2>5, Refused
  <2>7. QED
    BY <1>7, <2>6 DEF Mmap3At
<1>8. CASE i \in {4, 6, 8, 10}
  <2>1. Answer(p) \in {-1} /\ Instruction = <<"expect", {-1}>>
    BY <1>1, <1>3, <1>8 DEF Mmap3At
  <2>2. HasPages(p, {StartPage}, RW)
    BY <1>8 DEF Mmap3At
  <2>3. Goes(p) /\ HasPages(p, {StartPage}, RW)'
    BY <1>3, <2>1, <2>2, Expected
  <2>4. QED
    BY <1>8, <2>3 DEF Mmap3At
<1>9. CASE i = 11
  BY <1>1, <1>3, <1>9, StepByInstruction, ExitEffect
<1>10. QED
  BY <1>4, <1>5, <1>6, <1>7, <1>8, <1>9

-----------------------------------------------------------------------------
Unmap2At(p, i) ==
    /\ i = 1 => HasPages(p, {}, RW)
    /\ i > 1 => HasPages(p, {StartPage}, RW)
    /\ i = 2 => Answer(p) = 0
    /\ i \in {4, 6} => Answer(p) = -1

LEMMA Unmap2Step ==
    ASSUME IInv4, Running, Next4, NEW p, p = Current, image[p] = "ch4_unmap2",
           NEW i, i = pos[p], Unmap2At(p, i)
    PROVE  EndsWell \/ (Goes(p) /\ Unmap2At(p, i + 1)')
<1> DEFINE s == ch4_unmap2
<1>1. /\ Len(s) = 7
      /\ s[1] = <<"mmap", start, len, RW>> /\ s[2] = <<"expect", {0}>>
      /\ s[3] = <<"munmap", start, len + 1>> /\ s[5] = <<"munmap", start + 1, len - 1>>
      /\ s[4] = <<"expect", {-1}>> /\ s[6] = <<"expect", {-1}>>
      /\ s[7] = <<"exit", 0>>
  BY DEF ch4_unmap2, Expect, Exit
<1>2. InTest(p) /\ s = script[image[p]]
  BY DEF InTest, script
<1> HIDE DEF s
<1>3. Step /\ Instruction = s[i] /\ p \in MP!Proc /\ i \in 1 .. Len(s)
  BY <1>2, TestAt
<1>4. i = 1 \/ i = 2 \/ i \in {3, 5} \/ i \in {4, 6} \/ i = 7
  BY <1>1, <1>3
<1>5. CASE i = 1
  <2>1. Goes(p) /\ Answer(p)' = 0 /\ HasPages(p, {StartPage}, RW)'
    BY <1>1, <1>2, <1>3, <1>5, MapStart, StartFacts DEF Unmap2At
  <2>2. QED
    BY <1>5, <2>1 DEF Unmap2At
<1>6. CASE i = 2
  <2>1. Answer(p) \in {0} /\ Instruction = <<"expect", {0}>>
    BY <1>1, <1>3, <1>6 DEF Unmap2At
  <2>2. QED
    BY <1>3, <1>6, <2>1, Expected DEF Unmap2At
<1>7. CASE i \in {3, 5}
  <2>1. HasPages(p, {StartPage}, RW)
    BY <1>7 DEF Unmap2At
  <2>2. ~(Memory!PageRange(start, len + 1) \subseteq Memory!Mapped(p))
    <3>1. StartPage + 1 \in Memory!PageRange(start, len + 1)
      BY Ranges
    <3>2. StartPage + 1 \notin {StartPage} \cup {0, VarPage}
      BY Window
    <3>3. QED
      BY <2>1, <3>1, <3>2 DEF HasPages
  <2>3. \E addr, length :
           /\ Instruction = <<"munmap", addr, length>>
           /\ \/ ~Memory!Aligned(addr)
              \/ ~(Memory!PageRange(addr, length) \subseteq Memory!Mapped(p))
    BY <1>1, <1>3, <1>7, <2>2, Places
  <2>4. munmap
    BY <1>3, <2>3, StepByInstruction
  <2>5. Goes(p) /\ Answer(p)' = -1 /\ HasPages(p, {StartPage}, RW)'
    BY <2>1, <2>3, <2>4, StartFacts, MunmapRefused
  <2>6. QED
    BY <1>7, <2>5 DEF Unmap2At
<1>8. CASE i \in {4, 6}
  <2>1. Answer(p) \in {-1} /\ Instruction = <<"expect", {-1}>>
    BY <1>1, <1>3, <1>8 DEF Unmap2At
  <2>2. HasPages(p, {StartPage}, RW)
    BY <1>8 DEF Unmap2At
  <2>3. Goes(p) /\ HasPages(p, {StartPage}, RW)'
    BY <1>3, <2>1, <2>2, Expected
  <2>4. QED
    BY <1>8, <2>3 DEF Unmap2At
<1>9. CASE i = 7
  BY <1>1, <1>3, <1>9, StepByInstruction, ExitEffect
<1>10. QED
  BY <1>4, <1>5, <1>6, <1>7, <1>8, <1>9

-----------------------------------------------------------------------------
(* The pages that are mapped after each of the calls of ch4_unmap.         *)
UnmapAt(p, i) ==
    LET v == StartPage
    IN  /\ i = 1 => HasPages(p, {}, RW)
        /\ i \in {2, 3} => HasPages(p, {v}, RW)
        /\ i \in {4, 5} => HasPages(p, {v, v + 1, v + 2}, RW)
        /\ i \in {6, 7} => HasPages(p, {v + 1, v + 2}, RW)
        /\ i >= 8 => HasPages(p, {v - 1, v, v + 1, v + 2}, RW)
        /\ i \in {2, 4, 6, 8} => Answer(p) = 0
        /\ \A k \in 1 .. 4 * PAGE_SIZE : 8 + k < i => Sees(p, PageOfByte(v - 1, k)) = "byte"

LEMMA UnmapStep ==
    ASSUME IInv4, Running, Next4, NEW p, p = Current, image[p] = "ch4_unmap",
           NEW i, i = pos[p], UnmapAt(p, i)
    PROVE  EndsWell \/ (Goes(p) /\ UnmapAt(p, i + 1)')
<1> DEFINE s == ch4_unmap
           n == 4 * PAGE_SIZE
           v == StartPage
           at(k) == PageOfByte(v - 1, k)
           four == {v - 1, v, v + 1, v + 2}
           seen(j) == \A k \in 1..n : 8 + k < j => Sees(p, at(k)) = "byte"
<1>1. /\ n \in Nat /\ Len(s) = 9 + n + n
      /\ s[1] = <<"mmap", start, len, RW>> /\ s[2] = <<"expect", {0}>>
      /\ s[3] = <<"mmap", start + len, len * 2, RW>> /\ s[4] = <<"expect", {0}>>
      /\ s[5] = <<"munmap", start, len>> /\ s[6] = <<"expect", {0}>>
      /\ s[7] = <<"mmap", start - len, len + 1, RW>> /\ s[8] = <<"expect", {0}>>
      /\ \A k \in 1..n : s[8 + k] = <<"store", at(k), "byte">>
                         /\ s[8 + n + k] = <<"load", at(k), {"byte"}>>
      /\ s[9 + n + n] = <<"exit", 0>>
  BY UnmapText
<1>2. /\ v \in Nat /\ v >= 2 /\ four \subseteq Inner /\ Inner \subseteq Memory!Page
      /\ v - 1 \in Nat
  BY Window, StartFacts DEF Inner
<1>3. \A k \in 1..n : at(k) \in four
  <2>1. \A k \in 1..n : at(k) \in v - 1 .. v - 1 + 4 - 1
    BY <1>2, ByteFacts
  <2> HIDE DEF at, n
  <2>2. v - 1 .. v - 1 + 4 - 1 = four
    BY <1>2
  <2>3. QED
    BY <2>1, <2>2
<1>4. InTest(p) /\ s = script[image[p]]
  BY DEF InTest, script
<1>5. /\ i = 1 => HasPages(p, {}, RW)
      /\ i \in {2, 3} => HasPages(p, {v}, RW)
      /\ i \in {4, 5} => HasPages(p, {v, v + 1, v + 2}, RW)
      /\ i \in {6, 7} => HasPages(p, {v + 1, v + 2}, RW)
      /\ i >= 8 => HasPages(p, four, RW)
      /\ i \in {2, 4, 6, 8} => Answer(p) = 0
      /\ seen(i)
  BY DEF UnmapAt
<1> HIDE DEF s, n
<1>6. Step /\ i \in 1 .. Len(s) /\ Instruction = s[i] /\ i \in Int /\ p \in MP!Proc
  BY <1>4, TestAt
<1>a. n \in Nat /\ i \in Int /\ 1 <= i /\ i <= 9 + n + n
  <2>1. n \in Nat /\ Len(s) = 9 + n + n
    BY <1>1
  <2>2. QED
    BY <1>6, <2>1
<1>7. i \in {1, 2, 3, 4, 5, 6, 7, 8} \/ i - 8 \in 1..n \/ i - 8 - n \in 1..n \/ i = 9 + n + n
  BY <1>a
<1>8. SUFFICES ASSUME ~EndsWell
      PROVE  /\ Goes(p)
             /\ i + 1 \in {2, 3} => HasPages(p, {v}, RW)'
             /\ i + 1 \in {4, 5} => HasPages(p, {v, v + 1, v + 2}, RW)'
             /\ i + 1 \in {6, 7} => HasPages(p, {v + 1, v + 2}, RW)'
             /\ i + 1 >= 8 => HasPages(p, four, RW)'
             /\ i + 1 \in {2, 4, 6, 8} => Answer(p)' = 0
             /\ seen(i + 1)'
  BY <1>6 DEF UnmapAt, n
<1> HIDE DEF at, seen
<1>9. i \in {1, 2, 3, 4, 5, 6, 7, 8} => seen(i + 1)'
  <2>1. \A k \in 1..n : ~(8 + k < 9)
    BY <1>1
  <2>2. i <= 8 => \A k \in 1..n : ~(8 + k < i + 1)
    BY <1>1, <1>6
  <2>3. QED
    BY <2>2 DEF seen
<1>10. CASE i = 1
  <2>1. Goes(p) /\ Answer(p)' = 0 /\ HasPages(p, {v}, RW)'
    BY <1>1, <1>4, <1>5, <1>6, <1>10, MapStart, StartFacts
  <2>2. QED
    BY <1>9, <1>10, <2>1
<1>11. CASE i \in {2, 4, 6, 8}
  <2>1. Answer(p) \in {0} /\ Instruction = <<"expect", {0}>>
    BY <1>1, <1>5, <1>6, <1>11
  <2>2. /\ Goes(p)
        /\ \A S, rights : HasPages(p, S, rights)' <=> HasPages(p, S, rights)
    BY <1>6, <2>1, Expected
  <2>3. QED
    BY <1>5, <1>9, <1>11, <2>2
<1>12. CASE i = 3
  <2> DEFINE T == {v + 1, v + 2}
             addr == start + len
  <2>1. HasPages(p, {v}, RW) /\ Instruction = <<"mmap", addr, len * 2, RW>>
    BY <1>1, <1>5, <1>6, <1>12
  <2>2. mmap
    BY <1>6, <2>1, StepByInstruction
  <2>3. T = Memory!PageRange(addr, len * 2) /\ Memory!Aligned(addr) /\ len * 2 > 0
    BY Ranges, Places, StartFacts
  <2>4. T \subseteq Inner /\ {v} \subseteq Inner /\ T \cap {v} = {} /\ {v} \cup T = {v, v + 1, v + 2}
    BY <1>2
  <2> HIDE DEF T, addr, v
  <2>5. Goes(p) /\ Answer(p)' = 0 /\ HasPages(p, {v} \cup T, RW)'
    BY <1>4, <2>1, <2>2, <2>3, <2>4, StartFacts, MmapEffect
  <2>6. QED
    BY <1>9, <1>12, <2>4, <2>5
<1>13. CASE i = 5
  <2> DEFINE S == {v, v + 1, v + 2}
             T == {v}
  <2>1. HasPages(p, S, RW) /\ Instruction = <<"munmap", start, len>>
    BY <1>1, <1>5, <1>6, <1>13
  <2>2. munmap
    BY <1>6, <2>1, StepByInstruction
  <2>3. T = Memory!PageRange(start, len) /\ Memory!Aligned(start)
    BY Ranges, Places
  <2>4. S \subseteq Inner /\ T \subseteq S /\ S \ T = {v + 1, v + 2}
    BY <1>2
  <2> HIDE DEF S, T, v
  <2>5. Goes(p) /\ Answer(p)' = 0 /\ HasPages(p, S \ T, RW)'
    BY <2>1, <2>2, <2>3, <2>4, MunmapEffect
  <2>6. QED
    BY <1>9, <1>13, <2>4, <2>5
<1>14. CASE i = 7
  <2> DEFINE S == {v + 1, v + 2}
             T == {v - 1, v}
             addr == start - len
             length == len + 1
  <2>1. HasPages(p, S, RW) /\ Instruction = <<"mmap", addr, length, RW>>
    BY <1>1, <1>5, <1>6, <1>14
  <2>2. mmap
    BY <1>6, <2>1, StepByInstruction
  <2>3. T = Memory!PageRange(addr, length) /\ Memory!Aligned(addr) /\ length > 0
    BY Ranges, Places, StartFacts
  <2>4. T \subseteq Inner /\ S \subseteq Inner /\ T \cap S = {} /\ S \cup T = four
    BY <1>2
  <2> HIDE DEF S, T, addr, length, four
  <2>5. Goes(p) /\ Answer(p)' = 0 /\ HasPages(p, S \cup T, RW)'
    BY <1>4, <2>1, <2>2, <2>3, <2>4, StartFacts, MmapEffect
  <2>6. QED
    BY <1>9, <1>14, <2>4, <2>5
<1>15. CASE i - 8 \in 1..n
  <2>1. PICK k \in 1..n : k = i - 8
    BY <1>15
  <2>2. i = 8 + k /\ i >= 8
    BY <1>a, <2>1
  <2>3. Instruction = <<"store", at(k), "byte">> /\ HasPages(p, four, RW) /\ at(k) \in four
    BY <1>1, <1>3, <1>5, <1>6, <2>2
  <2>4. Memory!Writable(p, at(k))
    BY <1>2, <2>3, PageRights DEF RW
  <2>5. store \/ fault
    BY <1>6, <2>3, StepByInstruction
  <2>6. Goes(p) /\ Stores(p, at(k), "byte")
    BY <2>3, <2>4, <2>5, StoreEffect
  <2>7. HasPages(p, four, RW)'
    BY <2>3, <2>6 DEF Stores
  <2>8. seen(i + 1)'
    <3> SUFFICES ASSUME NEW j \in 1..n, 8 + j < i + 1 PROVE Sees(p, at(j))' = "byte"
      BY DEF seen, at
    <3>1. j = k \/ 8 + j < i
      BY <1>1, <2>2
    <3>2. Sees(p, at(j))' = "byte" \/ Sees(p, at(j))' = Sees(p, at(j))
      <4>1. at(j) \in Memory!Page
        BY <1>2, <1>3
      <4>2. QED
        BY <2>6, <4>1 DEF Stores
    <3>3. 8 + j < i => Sees(p, at(j)) = "byte"
      BY <1>5 DEF seen
    <3>4. QED
      BY <2>6, <3>1, <3>2, <3>3 DEF Stores
  <2>9. QED
    BY <1>1, <2>2, <2>6, <2>7, <2>8
<1>16. CASE i - 8 - n \in 1..n
  <2>1. PICK k \in 1..n : k = i - 8 - n
    BY <1>16
  <2>2. i = 8 + n + k /\ i > 8 /\ 8 + k < i /\ \A j \in 1..n : 8 + j < i /\ 8 + j < i + 1
    BY <1>a, <2>1
  <2>3. /\ Instruction = <<"load", at(k), {"byte"}>> /\ HasPages(p, four, RW) /\ at(k) \in four
        /\ Sees(p, at(k)) = "byte" /\ \A j \in 1..n : Sees(p, at(j)) = "byte"
    <3>1. s[8 + n + k] = <<"load", at(k), {"byte"}>> /\ at(k) \in four
      BY <1>1, <1>3
    <3>2. HasPages(p, four, RW)
      BY <1>5, <1>a, <2>2
    <3>3. \A j \in 1..n : Sees(p, at(j)) = "byte"
      BY <1>5, <2>2 DEF seen
    <3>4. QED
      BY <1>6, <2>2, <3>1, <3>2, <3>3
  <2>4. Memory!Readable(p, at(k))
    BY <1>2, <2>3, PageRights DEF RW
  <2>5. load \/ fault
    BY <1>6, <2>3, StepByInstruction
  <2>6. Goes(p) /\ UNCHANGED memoryVars
    BY <2>3, <2>4, <2>5, LoadEffect
  <2>7. HasPages(p, four, RW)' /\ \A j \in 1..n : Sees(p, at(j))' = "byte"
    BY <2>3, <2>6, SamePages
  <2>8. seen(i + 1)'
    BY <2>7 DEF seen, at
  <2>9. QED
    BY <1>6, <2>2, <2>6, <2>7, <2>8
<1>17. CASE i = 9 + n + n
  BY <1>1, <1>6, <1>8, <1>17, StepByInstruction, ExitEffect
<1>18. QED
  BY <1>7, <1>10, <1>11, <1>12, <1>13, <1>14, <1>15, <1>16, <1>17

-----------------------------------------------------------------------------
LEMMA NumberFacts ==
    /\ Number("111") = 111 /\ Number("22") = 22
    /\ \A x : Number(x) \in 0..255
<1>1. Number("111") = 111 /\ Number("22") = 22
  BY DEF Number
<1>2. ASSUME NEW x PROVE Number(x) \in 0..255
  <2>1. Number(x) \in {111, 22, 33, 0, 255}
    BY DEF Number
  <2>2. QED
    BY <2>1
<1>3. QED
  BY <1>1, <1>2

(* The page at start is there from the call of mmap to that of munmap.     *)
TraceAt(p, i) ==
    /\ i \in 18..23 => HasPages(p, {StartPage}, {"R"})
    /\ i \notin 18..23 => HasPages(p, {}, {"R"})
    /\ i = 2 => Sees(p, VarPage) = "111"
    /\ i = 3 => Answer(p) = 111
    /\ i = 5 => Sees(p, VarPage) = "22"
    /\ i = 6 => Answer(p) = 22
    /\ i \in {8, 18, 24} => Answer(p) = 0
    /\ i \in {10, 12, 14, 16, 22, 26, 28} => Answer(p) = -1
    /\ i = 20 => Answer(p) \in 0..255

(* What trace_read answers, and trace_write does, at this page.            *)
LEMMA TraceReads ==
    ASSUME IInv4, NEW p, p = Current, Step, NEW addr, Instruction = <<"trace_read", addr>>,
           NEW v, v = PageOf(addr)
    PROVE  /\ Goes(p) /\ UNCHANGED memoryVars /\ Counted(p, "trace")
           /\ \A S, rights : HasPages(p, S, rights)' <=> HasPages(p, S, rights)
           /\ \A w : Sees(p, w)' = Sees(p, w)
           /\ Memory!Readable(p, v) => Answer(p)' = Number(Sees(p, v))
           /\ ~Memory!Readable(p, v) => Answer(p)' = -1
<1>1. trace_read
  BY StepByInstruction
<1>2. QED
  BY <1>1, TraceReadEffect, SamePages

LEMMA TraceWrites ==
    ASSUME IInv4, NEW p, p = Current, Step, NEW addr, NEW x,
           Instruction = <<"trace_write", addr, x>>, NEW v, v = PageOf(addr)
    PROVE  /\ Goes(p) /\ Counted(p, "trace")
           /\ \A S, rights : HasPages(p, S, rights) => HasPages(p, S, rights)'
           /\ Memory!Writable(p, v) => Stores(p, v, x) /\ Answer(p)' = 0
           /\ ~Memory!Writable(p, v) => Answer(p)' = -1
<1>1. trace_write
  BY StepByInstruction
<1>2. /\ Goes(p) /\ Counted(p, "trace")
      /\ Memory!Writable(p, v) => Stores(p, v, x) /\ Answer(p)' = 0
      /\ ~Memory!Writable(p, v) => UNCHANGED memoryVars /\ Answer(p)' = -1
  BY <1>1, TraceWriteEffect
<1>3. QED
  BY <1>2, SamePages DEF Stores

LEMMA TraceStep ==
    ASSUME IInv4, Running, Next4, NEW p, p = Current, image[p] = "ch4_trace",
           NEW i, i = pos[p], TraceAt(p, i)
    PROVE  EndsWell \/ (Goes(p) /\ TraceAt(p, i + 1)')
<1> DEFINE s == ch4_trace
           free(a) == a \notin {0, VarPage}
<1>1. InTest(p) /\ s = script[image[p]]
  BY DEF InTest, script
<1>2. Len(s) = 29
  BY TraceText
<1> HIDE DEF s
<1>3. Step /\ i \in 1 .. Len(s) /\ Instruction = s[i] /\ i \in Int /\ p \in MP!Proc
  BY <1>1, TestAt
<1>4. /\ i \in 1..29
      /\ \/ i \in {1, 4} \/ i \in {2, 5} \/ i = 7 \/ i \in {9, 13, 25} \/ i \in {11, 15, 27}
         \/ i \in {17, 23} \/ i = 19 \/ i = 21 \/ i = 29
         \/ i \in {3, 6, 8, 10, 12, 14, 16, 18, 20, 22, 24, 26, 28}
  BY <1>2, <1>3
<1>5. /\ PageOf(var) = VarPage /\ PageOf(start) = StartPage
      /\ PageOf(isize_MAX) = StartPage + 6 /\ PageOf(KernelAddress) = StartPage + 4
      /\ free(StartPage) /\ free(StartPage + 6) /\ free(StartPage + 4)
  <2>1. free(StartPage) /\ free(StartPage + 6) /\ free(StartPage + 4)
    BY Window
  <2>2. QED
    BY <2>1, Places
<1>6. /\ HasPages(p, {}, {"R"}) =>
            /\ Memory!Readable(p, VarPage) /\ Memory!Writable(p, VarPage)
            /\ \A v : free(v) => ~Memory!Readable(p, v) /\ ~Memory!Writable(p, v)
      /\ HasPages(p, {StartPage}, {"R"}) =>
            Memory!Readable(p, StartPage) /\ ~Memory!Writable(p, StartPage)
  <2>1. {} \subseteq Inner /\ {StartPage} \subseteq Inner
    BY StartFacts
  <2>2. {} \cup {0, VarPage} = {0, VarPage}
    OBVIOUS
  <2>3. HasPages(p, {}, {"R"}) =>
            /\ Memory!Readable(p, VarPage) /\ Memory!Writable(p, VarPage)
            /\ \A v : free(v) => ~Memory!Readable(p, v) /\ ~Memory!Writable(p, v)
    BY <2>1, <2>2, PageRights
  <2>4. HasPages(p, {StartPage}, {"R"}) =>
            Memory!Readable(p, StartPage) /\ ~Memory!Writable(p, StartPage)
    BY <2>1, PageRights
  <2>5. QED
    BY <2>3, <2>4
<1> HIDE DEF free
<1>7. CASE i \in {1, 4}
  <2>1. HasPages(p, {}, {"R"})
    BY <1>7 DEF TraceAt
  <2> DEFINE x == IF i = 1 THEN "111" ELSE "22"
  <2>2. Instruction = <<"store", VarPage, x>>
    <3>1. s[1] = <<"store", VarPage, "111">> /\ s[4] = <<"store", VarPage, "22">>
      BY TraceText DEF s
    <3>2. QED
      BY <1>3, <1>7, <3>1
  <2> HIDE DEF x
  <2>3. store \/ fault
    BY <1>3, <2>2, StepByInstruction
  <2>4. Goes(p) /\ Stores(p, VarPage, x)
    BY <1>6, <2>1, <2>2, <2>3, StoreEffect
  <2>5. HasPages(p, {}, {"R"})' /\ Sees(p, VarPage)' = x
    BY <2>1, <2>4 DEF Stores
  <2>6. QED
    BY <1>7, <2>4, <2>5 DEF TraceAt, x
<1>8. CASE i \in {2, 5}
  <2> DEFINE x == IF i = 2 THEN "111" ELSE "22"
  <2>1. HasPages(p, {}, {"R"}) /\ Sees(p, VarPage) = x
    BY <1>8 DEF TraceAt
  <2>2. Instruction = <<"trace_read", var>>
    <3>1. s[2] = <<"trace_read", var>> /\ s[5] = <<"trace_read", var>>
      BY TraceText DEF s
    <3>2. QED
      BY <1>3, <1>8, <3>1
  <2> HIDE DEF x
  <2>3. Goes(p) /\ Answer(p)' = Number(x) /\ HasPages(p, {}, {"R"})'
    BY <1>3, <1>5, <1>6, <2>1, <2>2, TraceReads
  <2>4. (i = 2 => Number(x) = 111) /\ (i = 5 => Number(x) = 22)
    BY NumberFacts DEF x
  <2>5. QED
    BY <1>8, <2>3, <2>4 DEF TraceAt
<1>9. CASE i = 7
  <2>1. HasPages(p, {}, {"R"})
    BY <1>9 DEF TraceAt
  <2>2. Instruction = <<"trace_write", var, "33">>
    <3>1. s[7] = <<"trace_write", var, "33">>
      BY TraceText DEF s
    <3>2. QED
      BY <1>3, <1>9, <3>1
  <2>3. Goes(p) /\ Answer(p)' = 0 /\ HasPages(p, {}, {"R"})'
    BY <1>3, <1>5, <1>6, <2>1, <2>2, TraceWrites
  <2>4. QED
    BY <1>9, <2>3 DEF TraceAt
<1>10. CASE i \in {9, 13, 25}
  <2>1. HasPages(p, {}, {"R"})
    BY <1>10 DEF TraceAt
  <2>2. PICK addr \in {isize_MAX, KernelAddress, start} : Instruction = <<"trace_read", addr>>
    <3>1. /\ s[9] = <<"trace_read", isize_MAX>> /\ s[13] = <<"trace_read", KernelAddress>>
          /\ s[25] = <<"trace_read", start>>
      BY TraceText DEF s
    <3>2. QED
      BY <1>3, <1>10, <3>1
  <2>3. ~Memory!Readable(p, PageOf(addr))
    BY <1>5, <1>6, <2>1
  <2>4. Goes(p) /\ Answer(p)' = -1 /\ HasPages(p, {}, {"R"})'
    BY <1>3, <2>1, <2>2, <2>3, TraceReads
  <2>5. QED
    BY <1>10, <2>4 DEF TraceAt
<1>11. CASE i \in {11, 15, 27}
  <2>1. HasPages(p, {}, {"R"})
    BY <1>11 DEF TraceAt
  <2>2. PICK addr \in {isize_MAX, KernelAddress, start} : Instruction = <<"trace_write", addr, "byte">>
    <3>1. /\ s[11] = <<"trace_write", isize_MAX, "byte">>
          /\ s[15] = <<"trace_write", KernelAddress, "byte">>
          /\ s[27] = <<"trace_write", start, "byte">>
      BY TraceText DEF s
    <3>2. QED
      BY <1>3, <1>11, <3>1
  <2>3. ~Memory!Writable(p, PageOf(addr))
    BY <1>5, <1>6, <2>1
  <2>4. Goes(p) /\ Answer(p)' = -1 /\ HasPages(p, {}, {"R"})'
    BY <1>3, <2>1, <2>2, <2>3, TraceWrites
  <2>5. QED
    BY <1>11, <2>4 DEF TraceAt
<1>12. CASE i = 17
  <2>1. HasPages(p, {}, {"R"})
    BY <1>12 DEF TraceAt
  <2>2. Instruction = <<"mmap", start, len, {"R"}>>
    <3>1. s[17] = <<"mmap", start, len, {"R"}>>
      BY TraceText DEF s
    <3>2. QED
      BY <1>3, <1>12, <3>1
  <2>3. Goes(p) /\ Answer(p)' = 0 /\ HasPages(p, {StartPage}, {"R"})'
    BY <1>1, <1>3, <2>1, <2>2, MapStart, StartFacts
  <2>4. QED
    BY <1>12, <2>3 DEF TraceAt
<1>13. CASE i = 23
  <2> DEFINE S == {StartPage}
  <2>1. HasPages(p, S, {"R"})
    BY <1>13 DEF TraceAt
  <2>2. Instruction = <<"munmap", start, len>>
    <3>1. s[23] = <<"munmap", start, len>>
      BY TraceText DEF s
    <3>2. QED
      BY <1>3, <1>13, <3>1
  <2>3. munmap
    BY <1>3, <2>2, StepByInstruction
  <2>4. S \subseteq Inner /\ S = Memory!PageRange(start, len) /\ Memory!Aligned(start) /\ S \ S = {}
    BY StartFacts, Ranges, Places
  <2> HIDE DEF S
  <2>5. Goes(p) /\ Answer(p)' = 0 /\ HasPages(p, S \ S, {"R"})'
    BY <2>1, <2>2, <2>3, <2>4, MunmapEffect
  <2>6. QED
    BY <1>13, <2>4, <2>5 DEF TraceAt
<1>14. CASE i = 19
  <2>1. HasPages(p, {StartPage}, {"R"})
    BY <1>14 DEF TraceAt
  <2>2. Instruction = <<"trace_read", start>>
    <3>1. s[19] = <<"trace_read", start>>
      BY TraceText DEF s
    <3>2. QED
      BY <1>3, <1>14, <3>1
  <2>3. /\ Goes(p) /\ Answer(p)' = Number(Sees(p, StartPage))
        /\ HasPages(p, {StartPage}, {"R"})'
    BY <1>3, <1>5, <1>6, <2>1, <2>2, TraceReads
  <2>4. Answer(p)' \in 0..255
    BY <2>3, NumberFacts
  <2>5. QED
    BY <1>14, <2>3, <2>4 DEF TraceAt
<1>15. CASE i = 21
  <2>1. HasPages(p, {StartPage}, {"R"})
    BY <1>15 DEF TraceAt
  <2>2. Instruction = <<"trace_write", start, "byte">>
    <3>1. s[21] = <<"trace_write", start, "byte">>
      BY TraceText DEF s
    <3>2. QED
      BY <1>3, <1>15, <3>1
  <2>3. Goes(p) /\ Answer(p)' = -1 /\ HasPages(p, {StartPage}, {"R"})'
    BY <1>3, <1>5, <1>6, <2>1, <2>2, TraceWrites
  <2>4. QED
    BY <1>15, <2>3 DEF TraceAt
<1>16. CASE i \in {3, 6, 8, 10, 12, 14, 16, 18, 20, 22, 24, 26, 28}
  <2>1. \E A : Instruction = <<"expect", A>> /\ Answer(p) \in A
    <3>1. i = 3 => \E A : Instruction = <<"expect", A>> /\ Answer(p) \in A
      <4>1. s[3] = <<"expect", {111}>>
        BY TraceText DEF s
      <4>2. QED
        BY <1>3, <4>1 DEF TraceAt
    <3>2. i = 6 => \E A : Instruction = <<"expect", A>> /\ Answer(p) \in A
      <4>1. s[6] = <<"expect", {22}>>
        BY TraceText DEF s
      <4>2. QED
        BY <1>3, <4>1 DEF TraceAt
    <3>3. i \in {8, 18, 24} => \E A : Instruction = <<"expect", A>> /\ Answer(p) \in A
      <4>1. s[8] = <<"expect", {0}>> /\ s[18] = <<"expect", {0}>> /\ s[24] = <<"expect", {0}>>
        BY TraceText DEF s
      <4>2. QED
        BY <1>3, <4>1 DEF TraceAt
    <3>4. i \in {10, 12, 14, 16, 22, 26, 28} => \E A : Instruction = <<"expect", A>> /\ Answer(p) \in A
      <4>1. /\ s[10] = <<"expect", {-1}>> /\ s[12] = <<"expect", {-1}>> /\ s[14] = <<"expect", {-1}>>
            /\ s[16] = <<"expect", {-1}>> /\ s[22] = <<"expect", {-1}>> /\ s[26] = <<"expect", {-1}>>
            /\ s[28] = <<"expect", {-1}>>
        BY TraceText DEF s
      <4>2. i \in {10, 12, 14, 16, 22, 26, 28} => Instruction = <<"expect", {-1}>>
        BY <1>3, <4>1
      <4>3. i \in {10, 12, 14, 16, 22, 26, 28} => Answer(p) \in {-1}
        BY DEF TraceAt
      <4>4. QED
        BY <4>2, <4>3
    <3>5. i = 20 => \E A : Instruction = <<"expect", A>> /\ Answer(p) \in A
      <4>1. s[20] = <<"expect", 0..255>>
        BY TraceText DEF s
      <4>2. QED
        BY <1>3, <4>1 DEF TraceAt
    <3>6. QED
      BY <1>16, <3>1, <3>2, <3>3, <3>4, <3>5
  <2>2. Goes(p) /\ \A S, rights : HasPages(p, S, rights)' <=> HasPages(p, S, rights)
    BY <1>3, <2>1, Expected
  <2>3. /\ i + 1 \in 18..23 => HasPages(p, {StartPage}, {"R"})'
        /\ i + 1 \notin 18..23 => HasPages(p, {}, {"R"})'
    BY <1>16, <2>2 DEF TraceAt
  <2>4. i + 1 \in {4, 7, 9, 11, 13, 15, 17, 19, 21, 23, 25, 27, 29}
    BY <1>16
  <2>5. QED
    BY <2>2, <2>3, <2>4 DEF TraceAt
<1>17. CASE i = 29
  <2>1. Instruction = <<"exit", 0>>
    <3>1. s[29] = <<"exit", 0>>
      BY TraceText DEF s
    <3>2. QED
      BY <1>3, <1>17, <3>1
  <2>2. QED
    BY <1>3, <2>1, StepByInstruction, ExitEffect
<1>18. QED
  BY <1>4, <1>7, <1>8, <1>9, <1>10, <1>11, <1>12, <1>13, <1>14, <1>15, <1>16, <1>17

-----------------------------------------------------------------------------
(* The break is at the bottom of the heap, one page above it, eleven pages *)
(* above it, and at the bottom again; the pages of the heap are those      *)
(* below it.                                                               *)
SbrkAt(p, i) ==
    LET P == PAGE_SIZE
    IN  /\ i <= 12 + P
        /\ heap_bottom[p] = P
        /\ i <= 3 => program_brk[p] = 1 * P /\ HasPages(p, {}, RW)
        /\ i \in 4 .. 6 + P => program_brk[p] = 2 * P /\ HasPages(p, {1}, RW)
        /\ i \in 7 + P .. 8 + P => program_brk[p] = 12 * P /\ HasPages(p, 1..11, RW) /\ 11 \in Inner
        /\ i >= 9 + P => program_brk[p] = 1 * P /\ HasPages(p, {}, RW)
        /\ i >= 3 => origin_brk[p] = P
        /\ i \in {2, 4} => Answer(p) = P
        /\ i = 11 + P => Answer(p) = -1

LEMMA SbrkZero ==
    ASSUME IInv4, NEW p, p = Current, Step, Instruction = <<"sbrk", 0>>,
           NEW S, S \subseteq Inner, HasPages(p, S, RW), NEW j \in Nat, 1 <= j, j <= VarPage,
           program_brk[p] = j * PAGE_SIZE, heap_bottom[p] = PAGE_SIZE
    PROVE  /\ Goes(p) /\ Answer(p)' = program_brk[p] /\ origin_brk' = origin_brk
           /\ program_brk'[p] = program_brk[p] /\ heap_bottom'[p] = heap_bottom[p]
           /\ HasPages(p, S, RW)'
<1> DEFINE k == 0
           size == 0
           P == PAGE_SIZE
<1>1. sbrk
  BY StepByInstruction
<1>2. P \in Nat /\ j * P \in Nat /\ 0 * P = 0 /\ VarPage \in Nat
  BY Window, ProductFacts
<1>3. /\ k \in Nat /\ size \in Int /\ program_brk[p] = j * P + k * P
      /\ program_brk[p] + size = j * P /\ j + k <= VarPage /\ Instruction = <<"sbrk", size>>
  <2> DEFINE a == j * P
             b == 0 * P
  <2>1. a \in Nat /\ b = 0 /\ program_brk[p] = a
    BY <1>2
  <2> HIDE DEF a, b, P
  <2>2. program_brk[p] = a + b /\ program_brk[p] + 0 = a
    BY <2>1
  <2>3. j + 0 <= VarPage
    BY <1>2
  <2>4. QED
    BY <2>2, <2>3 DEF a, b
<1> HIDE DEF k, size
<1>4. /\ Goes(p) /\ Answer(p)' = program_brk[p] /\ origin_brk' = origin_brk
      /\ program_brk'[p] = j * P /\ heap_bottom'[p] = heap_bottom[p]
      /\ HasPages(p, S \ (j .. j + k - 1), RW)'
  <2> HIDE DEF P
  <2>1. QED
    BY <1>1, <1>3, SbrkShrinks DEF P
<1>5. S \ (j .. j + k - 1) = S
  BY DEF k
<1>6. QED
  BY <1>4, <1>5

LEMMA HeapFacts ==
    LET P == PAGE_SIZE
    IN  /\ P \in Nat /\ P >= 2 /\ VarPage \in Nat /\ VarPage >= 7
        /\ 1 * P = P /\ P * 10 = 10 * P /\ 1 * P + 11 * P = 12 * P /\ 12 * P + P * (-11) = 1 * P
        /\ 1 * P + P * (-1) < P /\ P * (-1) \in Int /\ P * (-11) \in Int
        /\ PageOf(P) = 1 /\ 1 \in Inner
<1>1. PAGE_SIZE \in Nat /\ PAGE_SIZE >= 2 /\ VarPage \in Nat /\ VarPage >= 7
  BY Window
<1>2. PageOf(PAGE_SIZE) = 1 /\ 1 \in Inner
  BY <1>1, Places DEF Inner
<1>3. QED
  BY <1>1, <1>2, Z3

LEMMA SbrkStep ==
    ASSUME IInv4, Running, Next4, NEW p, p = Current, image[p] = "sbrk",
           NEW i, i = pos[p], SbrkAt(p, i)
    PROVE  EndsWell \/ (Goes(p) /\ SbrkAt(p, i + 1)')
<1> DEFINE s == sbrk_test
           P == PAGE_SIZE
           After(j, brk, S) ==
               /\ Goes(p) /\ program_brk'[p] = brk /\ heap_bottom'[p] = P /\ HasPages(p, S, RW)'
               /\ j >= 3 => origin_brk'[p] = P
<1>1. /\ s[1] = <<"sbrk", 0>> /\ s[2] = <<"origin">> /\ s[3] = <<"sbrk", P>>
      /\ s[4] = <<"same">> /\ s[5] = <<"sbrk", 0>>
      /\ \A k \in 1..P : s[5 + k] = <<"store_new", "byte">>
      /\ s[6 + P] = <<"sbrk", P * 10>> /\ s[7 + P] = <<"sbrk", 0>>
      /\ s[8 + P] = <<"sbrk", P * (-11)>> /\ s[9 + P] = <<"sbrk", 0>>
      /\ s[10 + P] = <<"sbrk", P * (-1)>> /\ s[11 + P] = <<"expect", {-1}>>
      /\ s[12 + P] = <<"store_new", "byte">> /\ s[13 + P] = <<"fail">>
  BY SbrkText
<1>2. InTest(p) /\ s = script[image[p]]
  BY DEF InTest, script
<1> HIDE DEF s
<1>3. /\ Step /\ i \in 1 .. Len(s) /\ Instruction = s[i] /\ i \in Int /\ p \in MP!Proc
      /\ script[image[p]][i + 1] = s[i + 1]
  BY <1>2, TestAt
<1>4. /\ P \in Nat /\ P >= 2 /\ VarPage \in Nat /\ VarPage >= 7
      /\ 1 * P = P /\ P * 10 = 10 * P /\ 1 * P + 11 * P = 12 * P /\ 12 * P + P * (-11) = 1 * P
      /\ 1 * P + P * (-1) < P /\ P * (-1) \in Int /\ P * (-11) \in Int
      /\ PageOf(P) = 1 /\ 1 \in Inner
  BY HeapFacts
<1> DEFINE a1 == 1 * P
           a2 == 2 * P
           a12 == 12 * P
<1>5. /\ i <= 12 + P /\ heap_bottom[p] = P
      /\ i <= 3 => program_brk[p] = a1 /\ HasPages(p, {}, RW)
      /\ i \in 4 .. 6 + P => program_brk[p] = a2 /\ HasPages(p, {1}, RW)
      /\ i \in 7 + P .. 8 + P => program_brk[p] = a12 /\ HasPages(p, 1..11, RW) /\ 11 \in Inner
      /\ i >= 9 + P => program_brk[p] = a1 /\ HasPages(p, {}, RW)
      /\ i >= 3 => origin_brk[p] = P
      /\ i \in {2, 4} => Answer(p) = P
      /\ i = 11 + P => Answer(p) = -1
  BY DEF SbrkAt
<1>6. {} \subseteq Inner /\ {1} \subseteq Inner
  BY <1>4
<1>a. /\ P \in Nat /\ P >= 2 /\ VarPage \in Nat /\ VarPage >= 7
      /\ i \in Int /\ 1 <= i /\ i <= 12 + P
  <2>1. P \in Nat /\ P >= 2 /\ VarPage \in Nat /\ VarPage >= 7
    BY <1>4
  <2>2. i \in Int /\ 1 <= i
    BY <1>3
  <2>3. QED
    BY <1>5, <2>1, <2>2
<1>b. a1 = P /\ a1 = 1 * PAGE_SIZE /\ a2 = 2 * PAGE_SIZE /\ a12 = 12 * PAGE_SIZE /\ P = PAGE_SIZE
  BY <1>4
<1>c. /\ P * 10 = 10 * PAGE_SIZE /\ a12 = 1 * PAGE_SIZE + 11 * PAGE_SIZE
      /\ a12 + P * (-11) = 1 * PAGE_SIZE /\ P * (-11) \in Int
      /\ a1 + P * (-1) < P /\ P * (-1) \in Int
  BY <1>4
<1> HIDE DEF a1, a2, a12, P
<1>7. \/ i \in {1, 2, 3, 4, 5} \/ i - 5 \in 1..P
      \/ i \in {6 + P, 7 + P, 8 + P, 9 + P, 10 + P, 11 + P, 12 + P}
  BY <1>a
<1>8. SUFFICES ASSUME ~EndsWell
      PROVE  \/ After(i, a1, {}) /\ i <= 2 /\ (i = 1 => Answer(p)' = P)
                /\ (i = 2 => origin_brk'[p] = P)
             \/ After(i, a2, {1}) /\ i >= 3 /\ i <= 5 + P /\ (i = 3 => Answer(p)' = P)
                /\ origin_brk'[p] = P
             \/ After(i, a12, 1..11) /\ i >= 6 + P /\ i <= 7 + P /\ 11 \in Inner
             \/ After(i, a1, {}) /\ i >= 8 + P /\ i <= 11 + P /\ (i = 10 + P => Answer(p)' = -1)
  <2> SUFFICES ASSUME ~EndsWell,
             \/ After(i, a1, {}) /\ i <= 2 /\ (i = 1 => Answer(p)' = P)
                /\ (i = 2 => origin_brk'[p] = P)
             \/ After(i, a2, {1}) /\ i >= 3 /\ i <= 5 + P /\ (i = 3 => Answer(p)' = P)
                /\ origin_brk'[p] = P
             \/ After(i, a12, 1..11) /\ i >= 6 + P /\ i <= 7 + P /\ 11 \in Inner
             \/ After(i, a1, {}) /\ i >= 8 + P /\ i <= 11 + P /\ (i = 10 + P => Answer(p)' = -1)
             PROVE Goes(p) /\ SbrkAt(p, i + 1)'
    OBVIOUS
  <2>1. /\ i + 1 <= 12 + P /\ heap_bottom'[p] = P
        /\ i + 1 <= 3 => program_brk'[p] = a1 /\ HasPages(p, {}, RW)'
        /\ i + 1 \in 4 .. 6 + P => program_brk'[p] = a2 /\ HasPages(p, {1}, RW)'
        /\ i + 1 \in 7 + P .. 8 + P =>
              program_brk'[p] = a12 /\ HasPages(p, 1..11, RW)' /\ 11 \in Inner
        /\ i + 1 >= 9 + P => program_brk'[p] = a1 /\ HasPages(p, {}, RW)'
        /\ i + 1 >= 3 => origin_brk'[p] = P
        /\ i + 1 \in {2, 4} => Answer(p)' = P
        /\ i + 1 = 11 + P => Answer(p)' = -1
    BY <1>a
  <2>2. 11 \in Inner => (11 \in Inner)'
    BY DEF Inner, VarPage, Memory!StackPage
  <2>3. QED
    BY <2>1, <2>2 DEF SbrkAt, P, a1, a2, a12
<1>9. CASE i = 1
  <2> DEFINE j == 1
             S == {}
  <2>1. Instruction = <<"sbrk", 0>> /\ program_brk[p] = a1 /\ HasPages(p, S, RW)
    BY <1>1, <1>3, <1>5, <1>9
  <2>2. j \in Nat /\ 1 <= j /\ j <= VarPage /\ S \subseteq Inner
    BY <1>a
  <2>3. a1 = j * PAGE_SIZE /\ heap_bottom[p] = PAGE_SIZE
    BY <1>5, <1>b
  <2> HIDE DEF j, S
  <2>4. /\ Goes(p) /\ Answer(p)' = program_brk[p]
        /\ program_brk'[p] = program_brk[p] /\ heap_bottom'[p] = heap_bottom[p]
        /\ HasPages(p, S, RW)'
    BY <1>3, <2>1, <2>2, <2>3, SbrkZero
  <2>5. After(i, a1, {})
    BY <1>5, <1>9, <2>1, <2>4 DEF S
  <2>6. Answer(p)' = P
    BY <1>b, <2>1, <2>4
  <2>7. QED
    BY <1>9, <2>5, <2>6
<1>10. CASE i = 2
  <2>1. /\ Instruction = <<"origin">> /\ program_brk[p] = a1 /\ HasPages(p, {}, RW)
        /\ Answer(p) = P
    BY <1>1, <1>3, <1>5, <1>10
  <2>2. keep_origin
    BY <1>3, <2>1, StepByInstruction
  <2>3. Goes(p) /\ UNCHANGED memoryVars /\ origin_brk'[p] = P
    BY <2>1, <2>2, OriginEffect
  <2>4. /\ program_brk'[p] = program_brk[p] /\ heap_bottom'[p] = heap_bottom[p]
        /\ HasPages(p, {}, RW)'
    BY <2>1, <2>3, SamePages
  <2>5. QED
    BY <1>5, <1>10, <2>1, <2>3, <2>4
<1>11. CASE i = 3
  <2> DEFINE j == 1
             k == 1
             n == 2
             S == {}
             size == P
  <2>1. i >= 3 /\ i <= 5 + P /\ i <= 3
    BY <1>a, <1>11
  <2>2. /\ Instruction = <<"sbrk", size>> /\ program_brk[p] = a1 /\ HasPages(p, S, RW)
        /\ origin_brk[p] = P
    BY <1>1, <1>3, <1>5, <1>11, <2>1
  <2>3. sbrk
    BY <1>3, <2>2, StepByInstruction
  <2>4. j \in Nat /\ k \in Nat /\ j >= 1 /\ k >= 1 /\ n \in Nat /\ n = j + k
    OBVIOUS
  <2>5. program_brk[p] = j * PAGE_SIZE
    BY <1>b, <2>2
  <2>6. size = k * PAGE_SIZE
    BY <1>b
  <2>7. heap_bottom[p] = PAGE_SIZE /\ S \subseteq Inner
    BY <1>5, <1>6, <1>b
  <2>8. S \cup (j .. n - 1) = {1} /\ n * PAGE_SIZE = a2
    BY <1>b
  <2> HIDE DEF j, k, n, S, size
  <2>9. /\ Goes(p) /\ origin_brk' = origin_brk
        /\ program_brk'[p] = n * PAGE_SIZE /\ heap_bottom'[p] = heap_bottom[p]
        /\ HasPages(p, S \cup (j .. n - 1), RW)' /\ j .. n - 1 \subseteq Inner
    BY <2>2, <2>3, <2>4, <2>5, <2>6, <2>7, SbrkGrows
  <2>a. Answer(p)' = program_brk[p]
    BY <2>2, <2>3, <2>4, <2>5, <2>6, <2>7, SbrkGrows
  <2>10. /\ Goes(p) /\ origin_brk'[p] = P /\ heap_bottom'[p] = P
         /\ program_brk'[p] = a2 /\ HasPages(p, {1}, RW)'
    BY <1>5, <1>b, <2>2, <2>8, <2>9
  <2>b. Answer(p)' = P
    BY <1>b, <2>2, <2>a
  <2>11. QED
    BY <2>1, <2>10, <2>b
<1>12. CASE i = 4
  <2>1. /\ Instruction = <<"same">> /\ program_brk[p] = a2 /\ HasPages(p, {1}, RW)
        /\ origin_brk[p] = P /\ Answer(p) = origin_brk[p]
    <3>1. i \in 4 .. 6 + P /\ i >= 3
      BY <1>a, <1>12
    <3>2. QED
      BY <1>1, <1>3, <1>5, <1>12, <3>1
  <2>2. expect
    BY <1>3, <2>1, StepByInstruction
  <2>3. Goes(p) /\ UNCHANGED memoryVars /\ origin_brk' = origin_brk
    BY <2>1, <2>2, SameEffect
  <2>4. /\ program_brk'[p] = program_brk[p] /\ heap_bottom'[p] = heap_bottom[p]
        /\ HasPages(p, {1}, RW)'
    BY <2>1, <2>3, SamePages
  <2>5. i >= 3 /\ i <= 5 + P /\ i # 3
    BY <1>a, <1>12
  <2>6. QED
    BY <1>5, <2>1, <2>3, <2>4, <2>5
<1>13. CASE i = 5
  <2> DEFINE j == 2
  <2>1. /\ Instruction = <<"sbrk", 0>> /\ program_brk[p] = a2 /\ HasPages(p, {1}, RW)
        /\ origin_brk[p] = P
    <3>1. i \in 4 .. 6 + P /\ i >= 3
      BY <1>a, <1>13
    <3>2. QED
      BY <1>1, <1>3, <1>5, <1>13, <3>1
  <2>2. j \in Nat /\ 1 <= j /\ j <= VarPage /\ a2 = j * PAGE_SIZE
    BY <1>a, <1>b
  <2> HIDE DEF j
  <2>3. /\ Goes(p) /\ origin_brk' = origin_brk
        /\ program_brk'[p] = program_brk[p] /\ heap_bottom'[p] = heap_bottom[p]
        /\ HasPages(p, {1}, RW)'
    BY <1>3, <1>5, <1>6, <1>b, <2>1, <2>2, SbrkZero
  <2>4. i >= 3 /\ i <= 5 + P /\ i # 3
    BY <1>a, <1>13
  <2>5. QED
    BY <1>5, <2>1, <2>3, <2>4
<1>14. CASE i - 5 \in 1..P
  <2>1. PICK k \in 1..P : k = i - 5
    BY <1>14
  <2>2. i = 5 + k /\ i >= 3 /\ i # 3 /\ i <= 5 + P /\ i \in 4 .. 6 + P
    BY <1>a, <2>1
  <2>a. /\ Instruction = <<"store_new", "byte">> /\ program_brk[p] = a2 /\ HasPages(p, {1}, RW)
        /\ origin_brk[p] = P
    BY <1>1, <1>3, <1>5, <2>2
  <2>3. Memory!Writable(p, 1) /\ 1 = PageOf(origin_brk[p])
    <3>1. Memory!Writable(p, 1)
      BY <1>6, <2>a, PageRights DEF RW
    <3>2. QED
      BY <1>4, <2>a, <3>1
  <2>4. store \/ fault
    BY <1>3, <2>a, StepByInstruction
  <2>5. Goes(p) /\ Stores(p, 1, "byte") /\ origin_brk' = origin_brk
    BY <2>a, <2>3, <2>4, StoreEffect
  <2>6. /\ program_brk'[p] = program_brk[p] /\ heap_bottom'[p] = heap_bottom[p]
        /\ HasPages(p, {1}, RW)'
    BY <2>a, <2>5 DEF Stores
  <2>7. QED
    BY <1>5, <2>2, <2>a, <2>5, <2>6
<1>15. CASE i = 6 + P
  <2> DEFINE j == 2
             k == 10
             n == 12
             S == {1}
             size == P * 10
  <2>1. i \in 4 .. 6 + P /\ i >= 3 /\ i >= 6 + P /\ i <= 7 + P
    BY <1>a, <1>15
  <2>2. /\ Instruction = <<"sbrk", size>> /\ program_brk[p] = a2 /\ HasPages(p, S, RW)
        /\ origin_brk[p] = P
    BY <1>1, <1>3, <1>5, <1>15, <2>1
  <2>3. sbrk
    BY <1>3, <2>2, StepByInstruction
  <2>4. j \in Nat /\ k \in Nat /\ j >= 1 /\ k >= 1 /\ n \in Nat /\ n = j + k
    OBVIOUS
  <2>5. program_brk[p] = j * PAGE_SIZE
    BY <1>b, <2>2
  <2>6. size = k * PAGE_SIZE
    BY <1>c
  <2>7. heap_bottom[p] = PAGE_SIZE /\ S \subseteq Inner
    BY <1>5, <1>6, <1>b
  <2>8. S \cup (j .. n - 1) = 1..11 /\ 11 \in j .. n - 1 /\ n * PAGE_SIZE = a12
    BY <1>b
  <2> HIDE DEF j, k, n, S, size
  <2>9. /\ Goes(p) /\ origin_brk' = origin_brk
        /\ program_brk'[p] = n * PAGE_SIZE /\ heap_bottom'[p] = heap_bottom[p]
        /\ HasPages(p, S \cup (j .. n - 1), RW)' /\ j .. n - 1 \subseteq Inner
    BY <2>2, <2>3, <2>4, <2>5, <2>6, <2>7, SbrkGrows
  <2>10. /\ Goes(p) /\ origin_brk'[p] = P /\ heap_bottom'[p] = P
         /\ program_brk'[p] = a12 /\ HasPages(p, 1..11, RW)' /\ 11 \in Inner
    BY <1>5, <1>b, <2>2, <2>8, <2>9
  <2>11. QED
    BY <2>1, <2>10
<1>16. CASE i = 7 + P
  <2> DEFINE j == 12
             S == 1..11
  <2>1. i \in 7 + P .. 8 + P /\ i >= 3
    BY <1>a, <1>16
  <2>2. /\ Instruction = <<"sbrk", 0>> /\ program_brk[p] = a12 /\ HasPages(p, S, RW)
        /\ origin_brk[p] = P /\ 11 \in Inner
    BY <1>1, <1>3, <1>5, <1>16, <2>1
  <2>3. j \in Nat /\ 1 <= j /\ j <= VarPage /\ S \subseteq Inner
    BY <1>a, <2>2 DEF Inner
  <2>a. a12 = j * PAGE_SIZE
    BY <1>b
  <2> HIDE DEF j, S
  <2>4. /\ Goes(p) /\ origin_brk' = origin_brk
        /\ program_brk'[p] = program_brk[p] /\ heap_bottom'[p] = heap_bottom[p]
        /\ HasPages(p, S, RW)'
    BY <1>3, <1>5, <1>b, <2>2, <2>3, <2>a, SbrkZero
  <2>5. i >= 6 + P /\ i <= 7 + P
    BY <1>a, <1>16
  <2>6. QED
    BY <1>5, <2>2, <2>4, <2>5 DEF S
<1>17. CASE i = 8 + P
  <2> DEFINE j == 1
             k == 11
             S == 1..11
             size == P * (-11)
  <2>1. i \in 7 + P .. 8 + P /\ i >= 3
    BY <1>a, <1>17
  <2>2. /\ Instruction = <<"sbrk", size>> /\ program_brk[p] = a12 /\ HasPages(p, S, RW)
        /\ origin_brk[p] = P /\ 11 \in Inner
    BY <1>1, <1>3, <1>5, <1>17, <2>1
  <2>3. sbrk
    BY <1>3, <2>2, StepByInstruction
  <2>4. /\ j \in Nat /\ k \in Nat /\ 1 <= j /\ j <= VarPage /\ j + k <= VarPage /\ S \subseteq Inner
    BY <1>a, <2>2 DEF Inner
  <2>5. /\ program_brk[p] = j * PAGE_SIZE + k * PAGE_SIZE /\ size \in Int
        /\ program_brk[p] + size = j * PAGE_SIZE /\ heap_bottom[p] = PAGE_SIZE
    BY <1>5, <1>b, <1>c, <2>2
  <2>6. S \ (j .. j + k - 1) = {} /\ j * PAGE_SIZE = a1
    BY <1>b
  <2> HIDE DEF j, k, S, size
  <2>7. /\ Goes(p) /\ origin_brk' = origin_brk
        /\ program_brk'[p] = j * PAGE_SIZE /\ heap_bottom'[p] = heap_bottom[p]
        /\ HasPages(p, S \ (j .. j + k - 1), RW)'
    BY <2>2, <2>3, <2>4, <2>5, SbrkShrinks
  <2>8. i >= 8 + P /\ i <= 11 + P /\ i # 10 + P
    BY <1>a, <1>17
  <2>9. After(i, a1, {})
    BY <1>5, <2>2, <2>6, <2>7
  <2>10. QED
    BY <2>8, <2>9
<1>18. CASE i = 9 + P
  <2> DEFINE j == 1
             S == {}
  <2>1. i >= 9 + P /\ i >= 3
    BY <1>a, <1>18
  <2>2. /\ Instruction = <<"sbrk", 0>> /\ program_brk[p] = a1 /\ HasPages(p, S, RW)
        /\ origin_brk[p] = P
    BY <1>1, <1>3, <1>5, <1>18, <2>1
  <2>3. j \in Nat /\ 1 <= j /\ j <= VarPage /\ S \subseteq Inner
    BY <1>a
  <2>4. a1 = j * PAGE_SIZE /\ heap_bottom[p] = PAGE_SIZE
    BY <1>5, <1>b
  <2> HIDE DEF j, S
  <2>5. /\ Goes(p) /\ origin_brk' = origin_brk
        /\ program_brk'[p] = program_brk[p] /\ heap_bottom'[p] = heap_bottom[p]
        /\ HasPages(p, S, RW)'
    BY <1>3, <2>2, <2>3, <2>4, SbrkZero
  <2>6. i >= 8 + P /\ i <= 11 + P /\ i # 10 + P
    BY <1>a, <1>18
  <2>7. After(i, a1, {})
    BY <1>5, <2>2, <2>5 DEF S
  <2>8. QED
    BY <2>6, <2>7
<1>19. CASE i = 10 + P
  <2> DEFINE size == P * (-1)
  <2>1. i >= 9 + P /\ i >= 3
    BY <1>a, <1>19
  <2>2. /\ Instruction = <<"sbrk", size>> /\ program_brk[p] = a1 /\ HasPages(p, {}, RW)
        /\ origin_brk[p] = P
    BY <1>1, <1>3, <1>5, <1>19, <2>1
  <2>3. sbrk
    BY <1>3, <2>2, StepByInstruction
  <2>4. size \in Int /\ program_brk[p] + size < heap_bottom[p]
    BY <1>5, <1>c, <2>2
  <2> HIDE DEF size
  <2>5. Goes(p) /\ UNCHANGED memoryVars /\ Answer(p)' = -1 /\ origin_brk' = origin_brk
    BY <2>2, <2>3, <2>4, SbrkRefused
  <2>6. /\ program_brk'[p] = program_brk[p] /\ heap_bottom'[p] = heap_bottom[p]
        /\ HasPages(p, {}, RW)'
    BY <2>2, <2>5, SamePages
  <2>7. i >= 8 + P /\ i <= 11 + P
    BY <1>a, <1>19
  <2>8. After(i, a1, {})
    BY <1>5, <2>2, <2>5, <2>6
  <2>9. QED
    BY <2>5, <2>7, <2>8
<1>20. CASE i = 11 + P
  <2>1. i >= 9 + P /\ i >= 3
    BY <1>a, <1>20
  <2>2. /\ Instruction = <<"expect", {-1}>> /\ program_brk[p] = a1 /\ HasPages(p, {}, RW)
        /\ origin_brk[p] = P /\ Answer(p) \in {-1}
    BY <1>1, <1>3, <1>5, <1>20, <2>1
  <2>3. /\ Goes(p) /\ origin_brk' = origin_brk
        /\ program_brk'[p] = program_brk[p] /\ heap_bottom'[p] = heap_bottom[p]
        /\ HasPages(p, {}, RW)'
    BY <1>3, <2>2, Expected
  <2>4. i >= 8 + P /\ i <= 11 + P /\ i # 10 + P
    BY <1>a, <1>20
  <2>5. After(i, a1, {})
    BY <1>5, <2>2, <2>3
  <2>6. QED
    BY <2>4, <2>5
<1>21. CASE i = 12 + P
  <2>1. i >= 9 + P /\ i >= 3 /\ i + 1 = 13 + P
    BY <1>a, <1>21
  <2>2. /\ Instruction = <<"store_new", "byte">> /\ HasPages(p, {}, RW) /\ origin_brk[p] = P
        /\ script[image[p]][pos[p] + 1] = <<"fail">>
    BY <1>1, <1>3, <1>5, <1>21, <2>1
  <2>3. 1 \notin {} \cup {0, VarPage} /\ 1 = PageOf(origin_brk[p])
    <3>1. 1 \notin {} \cup {0, VarPage}
      BY <1>a
    <3>2. QED
      BY <1>4, <2>2, <3>1
  <2>4. ~Memory!Writable(p, 1)
    BY <1>6, <2>2, <2>3, PageRights
  <2>5. store \/ fault
    BY <1>3, <2>2, StepByInstruction
  <2>6. EndsWell
    BY <2>2, <2>3, <2>4, <2>5, FaultEffect
  <2>7. QED
    BY <1>8, <2>6
<1>22. QED
  BY <1>7, <1>9, <1>10, <1>11, <1>12, <1>13, <1>14, <1>15, <1>16, <1>17, <1>18, <1>19, <1>20, <1>21

-----------------------------------------------------------------------------
(* The counters of ch3_trace: of clock_gettime and sched_yield at least    *)
(* what it looks for, of the others exactly.                               *)
TimesAt(c, y, i, k) ==
    /\ c \in Nat /\ y \in Nat /\ c < i /\ y < i
    /\ (i = 2 => c >= 1) /\ (i = 3 => c >= 2) /\ (i >= 4 => c >= 3)
    /\ (k >= 14 => c >= 4) /\ (k >= 15 => c >= 5)
    /\ i >= 6 => y >= 1

WritesAt(w, k) ==
    w \in Nat /\ (k <= 11 => w = 0) /\ (k = 12 => w = 1) /\ (k >= 13 => w = 2)

TracesAt(t, k) ==
    /\ t \in Nat
    /\ (k <= 1 => t = 0) /\ (k \in {2, 3} => t = 1) /\ (k \in {4, 5} => t = 2)
    /\ (k \in {6, 7} => t = 3) /\ (k \in {8, 9} => t = 4) /\ (k \in 10..15 => t = 5)
    /\ k \in {16, 17} => t = 6

CountersAt(c, t, w, y, e, i, k) ==
    TimesAt(c, y, i, k) /\ WritesAt(w, k) /\ TracesAt(t, k) /\ e = 0

Counters(n, i) ==
    CountersAt(n["clock_gettime"], n["trace"], n["write"], n["sched_yield"], n["exit"],
               i, i - FrontLength)

Ch3TraceAt(p, i) ==
    LET k == i - FrontLength
    IN  /\ HasPages(p, {}, RW)
        /\ k <= 24 => Counters(count[p], i)
        /\ k = 2 => Answer(p) \in {n \in Calls : 3 <= n}
        /\ k = 4 => Answer(p) = 2
        /\ k \in {6, 10, 24} => Answer(p) = 0
        /\ k \in {8, 22} => Answer(p) \in {n \in Calls : 0 < n}
        /\ k = 16 => Answer(p) \in {n \in Calls : 5 <= n}
        /\ k = 18 => Answer(p) = 7
        /\ k = 20 => Answer(p) = 2
        /\ k = 26 => Sees(p, VarPage) = "111"
        /\ k = 27 => Answer(p) = 111
        /\ k = 29 => Sees(p, VarPage) = "byte"
        /\ k = 31 => Answer(p) \in 0..255

FollowedIds == {"clock_gettime", "trace", "write", "sched_yield", "exit"}

(* One more call, and the others as they were.                             *)
LEMMA OneMore ==
    ASSUME IInv4, Running, NEW p, p = Current, NEW id \in FollowedIds, Counted(p, id)
    PROVE  \A x \in FollowedIds :
              count'[p][x] = IF x = id THEN count[p][x] + 1 ELSE count[p][x]
<1>1. FollowedIds \subseteq CountedIds
  BY TestsAssumption DEF FollowedIds
<1>2. count[p] \in [CountedIds -> Nat] /\ count'[p] = [count[p] EXCEPT ![id] = @ + 1]
  BY <1>1, HeadInApp DEF Counted
<1> DEFINE n == count[p]
           m == count'[p]
<1> HIDE DEF n, m
<1>3. n \in [CountedIds -> Nat] /\ m = [n EXCEPT ![id] = @ + 1]
  BY <1>2 DEF n, m
<1>4. \A x \in FollowedIds : m[x] = IF x = id THEN n[x] + 1 ELSE n[x]
  BY <1>1, <1>3
<1>5. QED
  BY <1>4 DEF n, m

LEMMA FrontSize == FrontLength \in Nat /\ FrontLength >= 8
  /\ Calls = 0 .. FrontLength + 94
BY Ch4MemoryAssumption DEF FrontLength, Calls

(* A query.                                                                *)
LEMMA CountersQuery ==
    ASSUME NEW c, NEW t, NEW w, NEW y, NEW e, NEW i \in Int, NEW k, k = i - FrontLength,
           CountersAt(c, t, w, y, e, i, k), k \in {1, 3, 5, 7, 9, 15, 17, 19, 21, 23},
           NEW j, j = i + 1, NEW l, l = j - FrontLength, NEW u, u = t + 1
    PROVE  /\ CountersAt(c, u, w, y, e, j, l)
           /\ k = 1 => c \in {n \in Calls : 3 <= n}
           /\ k = 3 => u = 2
           /\ k = 5 => w = 0
           /\ k \in {7, 21} => y \in {n \in Calls : 0 < n}
           /\ k \in {9, 23} => e = 0
           /\ k = 15 => c \in {n \in Calls : 5 <= n}
           /\ k = 17 => u = 7
           /\ k = 19 => w = 2
<1>1. FrontLength \in Nat /\ FrontLength >= 8 /\ Calls = 0 .. FrontLength + 94
  BY FrontSize
<1> DEFINE B == FrontLength
<1>2. l = k + 1
  BY <1>1
<1> HIDE DEF B
<1>3. B \in Nat /\ B >= 8 /\ i = B + k /\ k \in Int /\ k >= 1 /\ k <= 23
  BY <1>1 DEF B
<1>4. TimesAt(c, y, i, k) /\ WritesAt(w, k) /\ TracesAt(t, k) /\ e = 0
  BY DEF CountersAt
<1>5. TimesAt(c, y, j, l)
  BY <1>2, <1>3, <1>4 DEF TimesAt
<1>6. WritesAt(w, l)
  BY <1>2, <1>3, <1>4 DEF WritesAt
<1>7. TracesAt(u, l)
  BY <1>2, <1>3, <1>4 DEF TracesAt
<1>8. c \in Nat /\ y \in Nat /\ c < i /\ y < i /\ c >= 3 /\ y >= 1 /\ (k = 15 => c >= 5)
  BY <1>2, <1>3, <1>4 DEF TimesAt
<1>9. c \in Calls /\ y \in Calls
  BY <1>1, <1>3, <1>8 DEF B
<1>10. k = 1 => c \in {n \in Calls : 3 <= n}
  BY <1>8, <1>9
<1>11. k \in {7, 21} => y \in {n \in Calls : 0 < n}
  BY <1>8, <1>9
<1>12. k = 15 => c \in {n \in Calls : 5 <= n}
  BY <1>8, <1>9
<1>13. (k = 3 => u = 2) /\ (k = 17 => u = 7)
  BY <1>4 DEF TracesAt
<1>14. (k = 5 => w = 0) /\ (k = 19 => w = 2)
  BY <1>4 DEF WritesAt
<1>15. QED
  BY <1>2, <1>4, <1>5, <1>6, <1>7, <1>10, <1>11, <1>12, <1>13, <1>14 DEF CountersAt

(* A claim.                                                                *)
LEMMA CountersSame ==
    ASSUME NEW c, NEW t, NEW w, NEW y, NEW e, NEW i \in Int, NEW k, k = i - FrontLength,
           CountersAt(c, t, w, y, e, i, k), k \in {2, 4, 6, 8, 10, 16, 18, 20, 22},
           NEW j, j = i + 1, NEW l, l = j - FrontLength
    PROVE  CountersAt(c, t, w, y, e, j, l)
<1>1. FrontLength \in Nat /\ FrontLength >= 8
  BY FrontSize
<1> DEFINE B == FrontLength
<1>2. l = k + 1
  BY <1>1
<1> HIDE DEF B
<1>3. B \in Nat /\ B >= 8 /\ i = B + k /\ k \in Int /\ k >= 2
  BY <1>1 DEF B
<1>4. TimesAt(c, y, i, k) /\ WritesAt(w, k) /\ TracesAt(t, k) /\ e = 0
  BY DEF CountersAt
<1>5. TimesAt(c, y, j, l)
  BY <1>2, <1>3, <1>4 DEF TimesAt
<1>6. WritesAt(w, l)
  BY <1>2, <1>3, <1>4 DEF WritesAt
<1>7. TracesAt(t, l)
  BY <1>2, <1>3, <1>4 DEF TracesAt
<1>8. QED
  BY <1>2, <1>4, <1>5, <1>6, <1>7 DEF CountersAt

(* A call, of clock_gettime, sched_yield or write.                         *)
LEMMA CountersCall ==
    ASSUME NEW c, NEW t, NEW w, NEW y, NEW e, NEW i \in Int, NEW k, k = i - FrontLength,
           CountersAt(c, t, w, y, e, i, k), NEW c1, NEW w1, NEW y1, i >= 1,
           \/ k <= 0 /\ c1 = c + 1 /\ w1 = w /\ y1 = y /\ i # 5
           \/ k <= 0 /\ c1 = c /\ w1 = w /\ y1 = y + 1 /\ i \notin {1, 2, 3}
           \/ k \in {11, 12} /\ c1 = c /\ w1 = w + 1 /\ y1 = y
           \/ k \in {13, 14} /\ c1 = c + 1 /\ w1 = w /\ y1 = y,
           NEW j, j = i + 1, NEW l, l = j - FrontLength
    PROVE  CountersAt(c1, t, w1, y1, e, j, l)
<1>1. FrontLength \in Nat /\ FrontLength >= 8
  BY FrontSize
<1> DEFINE B == FrontLength
<1>2. l = k + 1
  BY <1>1
<1> HIDE DEF B
<1>3. B \in Nat /\ B >= 8 /\ i = B + k /\ k \in Int /\ k <= 14
  BY <1>1 DEF B
<1>4. TimesAt(c, y, i, k) /\ WritesAt(w, k) /\ TracesAt(t, k) /\ e = 0
  BY DEF CountersAt
<1>5. TimesAt(c1, y1, j, l)
  BY <1>2, <1>3, <1>4 DEF TimesAt
<1>6. WritesAt(w1, l)
  BY <1>2, <1>3, <1>4 DEF WritesAt
<1>7. TracesAt(t, l)
  BY <1>2, <1>3, <1>4 DEF TracesAt
<1>8. QED
  BY <1>2, <1>4, <1>5, <1>6, <1>7 DEF CountersAt

LEMMA CountersMeet ==
    ASSUME NEW n, NEW i, NEW l, l = i - FrontLength, NEW c, NEW t, NEW w, NEW y, NEW e,
           n["clock_gettime"] = c, n["trace"] = t, n["write"] = w, n["sched_yield"] = y,
           n["exit"] = e
    PROVE  Counters(n, i) <=> CountersAt(c, t, w, y, e, i, l)
BY DEF Counters

(* n becomes m by one more call of id, which is the next instruction.      *)
OneMoreOf(n, m, id) == \A x \in FollowedIds : m[x] = IF x = id THEN n[x] + 1 ELSE n[x]

LEMMA CountedCall ==
    ASSUME NEW n, NEW m, NEW i \in Int, i >= 1, Counters(n, i), NEW k, k = i - FrontLength,
           NEW id, OneMoreOf(n, m, id),
           \/ k <= 0 /\ id = "clock_gettime" /\ i # 5
           \/ k <= 0 /\ id = "sched_yield" /\ i \notin {1, 2, 3}
           \/ k \in {11, 12} /\ id = "write"
           \/ k \in {13, 14} /\ id = "clock_gettime"
    PROVE  Counters(m, i + 1)
<1> DEFINE c == n["clock_gettime"]
           t == n["trace"]
           w == n["write"]
           y == n["sched_yield"]
           e == n["exit"]
           c1 == m["clock_gettime"]
           w1 == m["write"]
           y1 == m["sched_yield"]
           j == i + 1
           l == j - FrontLength
<1>1. /\ m["trace"] = t /\ m["exit"] = e
      /\ c1 = IF id = "clock_gettime" THEN c + 1 ELSE c
      /\ y1 = IF id = "sched_yield" THEN y + 1 ELSE y
      /\ w1 = IF id = "write" THEN w + 1 ELSE w
  BY DEF FollowedIds, OneMoreOf
<1>2. CountersAt(c, t, w, y, e, i, k)
  BY DEF Counters
<1> HIDE DEF c, t, w, y, e, c1, w1, y1
<1>3. \/ k <= 0 /\ c1 = c + 1 /\ w1 = w /\ y1 = y /\ i # 5
      \/ k <= 0 /\ c1 = c /\ w1 = w /\ y1 = y + 1 /\ i \notin {1, 2, 3}
      \/ k \in {11, 12} /\ c1 = c /\ w1 = w + 1 /\ y1 = y
      \/ k \in {13, 14} /\ c1 = c + 1 /\ w1 = w /\ y1 = y
  BY <1>1
<1>a. j = i + 1 /\ l = j - FrontLength
  OBVIOUS
<1> HIDE DEF j, l
<1>4. CountersAt(c1, t, w1, y1, e, j, l)
  BY <1>2, <1>3, <1>a, CountersCall
<1>5. Counters(m, j)
  <2>1. /\ m["clock_gettime"] = c1 /\ m["trace"] = t /\ m["write"] = w1
        /\ m["sched_yield"] = y1 /\ m["exit"] = e /\ l = j - FrontLength
    BY <1>1 DEF c1, w1, y1, l
  <2>2. QED
    BY <1>4, <2>1, CountersMeet
<1>6. QED
  BY <1>5 DEF j

LEMMA CountedQuery ==
    ASSUME NEW n, NEW m, NEW i \in Int, Counters(n, i), NEW k, k = i - FrontLength,
           k \in {1, 3, 5, 7, 9, 15, 17, 19, 21, 23}, OneMoreOf(n, m, "trace")
    PROVE  /\ Counters(m, i + 1)
           /\ k = 1 => m["clock_gettime"] \in {x \in Calls : 3 <= x}
           /\ k = 3 => m["trace"] = 2
           /\ k = 5 => m["write"] = 0
           /\ k \in {7, 21} => m["sched_yield"] \in {x \in Calls : 0 < x}
           /\ k \in {9, 23} => m["exit"] = 0
           /\ k = 15 => m["clock_gettime"] \in {x \in Calls : 5 <= x}
           /\ k = 17 => m["trace"] = 7
           /\ k = 19 => m["write"] = 2
<1> DEFINE c == n["clock_gettime"]
           t == n["trace"]
           w == n["write"]
           y == n["sched_yield"]
           e == n["exit"]
           u == t + 1
           j == i + 1
           l == j - FrontLength
<1>1. /\ m["clock_gettime"] = c /\ m["trace"] = u /\ m["write"] = w
      /\ m["sched_yield"] = y /\ m["exit"] = e
  BY DEF FollowedIds, OneMoreOf
<1>2. CountersAt(c, t, w, y, e, i, k)
  BY DEF Counters
<1>a. u = t + 1 /\ j = i + 1 /\ l = j - FrontLength
  OBVIOUS
<1> HIDE DEF c, t, w, y, e, u, j, l
<1>3. /\ CountersAt(c, u, w, y, e, j, l)
      /\ k = 1 => c \in {x \in Calls : 3 <= x}
      /\ k = 3 => u = 2
      /\ k = 5 => w = 0
      /\ k \in {7, 21} => y \in {x \in Calls : 0 < x}
      /\ k \in {9, 23} => e = 0
      /\ k = 15 => c \in {x \in Calls : 5 <= x}
      /\ k = 17 => u = 7
      /\ k = 19 => w = 2
  BY <1>2, <1>a, CountersQuery
<1>5. Counters(m, j)
  <2>1. l = j - FrontLength
    BY DEF l
  <2>2. QED
    BY <1>1, <1>3, <2>1, CountersMeet
<1>6. Counters(m, i + 1)
  BY <1>5 DEF j
<1>7. QED
  BY <1>1, <1>3, <1>6

LEMMA CountedSame ==
    ASSUME NEW n, NEW i \in Int, Counters(n, i), NEW k, k = i - FrontLength,
           k \in {2, 4, 6, 8, 10, 16, 18, 20, 22}
    PROVE  Counters(n, i + 1)
<1> DEFINE c == n["clock_gettime"]
           t == n["trace"]
           w == n["write"]
           y == n["sched_yield"]
           e == n["exit"]
           j == i + 1
           l == j - FrontLength
<1>2. CountersAt(c, t, w, y, e, i, k)
  BY DEF Counters
<1>a. j = i + 1 /\ l = j - FrontLength
  OBVIOUS
<1>3. CountersAt(c, t, w, y, e, j, l)
  <2> HIDE DEF c, t, w, y, e, j, l
  <2>1. QED
    BY <1>2, <1>a, CountersSame
<1>4. QED
  BY <1>3 DEF Counters

(* A call of ch3_trace that leaves memory and other counters alone.        *)
LEMMA CallOfTest ==
    ASSUME IInv4, Running, NEW p, p = Current, Step, NEW id \in FollowedIds,
           Instruction = <<"call", id>>
    PROVE  /\ Goes(p) /\ \A S, rights : HasPages(p, S, rights)' <=> HasPages(p, S, rights)
           /\ OneMoreOf(count[p], count'[p], id)
<1>1. call
  BY StepByInstruction
<1>2. Goes(p) /\ UNCHANGED memoryVars /\ Counted(p, id)
  BY <1>1, CallEffect
<1>3. QED
  BY <1>2, OneMore, SamePages DEF OneMoreOf

LEMMA QueryOfTest ==
    ASSUME IInv4, Running, NEW p, p = Current, Step, NEW id, Instruction = <<"trace_query", id>>
    PROVE  /\ Goes(p) /\ \A S, rights : HasPages(p, S, rights)' <=> HasPages(p, S, rights)
           /\ OneMoreOf(count[p], count'[p], "trace")
           /\ Answer(p)' = count'[p][id]
<1>1. query
  BY StepByInstruction
<1>2. Goes(p) /\ UNCHANGED memoryVars /\ Counted(p, "trace") /\ Answer(p)' = count'[p][id]
  BY <1>1, QueryEffect
<1>3. "trace" \in FollowedIds
  BY DEF FollowedIds
<1>4. QED
  BY <1>2, <1>3, OneMore, SamePages DEF OneMoreOf

LEMMA Ch3TraceStep ==
    ASSUME IInv4, Running, Next4, NEW p, p = Current, image[p] = "ch3_trace",
           NEW i, i = pos[p], Ch3TraceAt(p, i)
    PROVE  EndsWell \/ (Goes(p) /\ Ch3TraceAt(p, i + 1)')
<1> DEFINE s == ch3_trace
           B == FrontLength
           k == i - B
           n == count[p]
           l == i + 1 - B
           m == count'[p]
<1>1. InTest(p) /\ s = script[image[p]]
  BY DEF InTest, script
<1>2. /\ B \in Nat /\ Len(s) = B + 32
      /\ \A j \in 1..B : s[j] = Opening[j]
      /\ CountersAsked(s, B)
  BY Ch3TraceText
<1> HIDE DEF s
<1>3. Step /\ i \in 1 .. Len(s) /\ Instruction = s[i] /\ i \in Int /\ p \in MP!Proc
  BY <1>1, TestAt
<1>4. /\ k \in Int /\ k <= 32 /\ i >= 1 /\ i = B + k /\ l = k + 1 /\ B >= 8
      /\ (k <= 0 => i \in 1..B)
  BY <1>2, <1>3, FrontSize
<1>5. /\ HasPages(p, {}, RW)
      /\ k <= 24 => Counters(n, i)
      /\ k = 2 => Answer(p) \in {x \in Calls : 3 <= x}
      /\ k = 4 => Answer(p) = 2
      /\ k \in {6, 10, 24} => Answer(p) = 0
      /\ k \in {8, 22} => Answer(p) \in {x \in Calls : 0 < x}
      /\ k = 16 => Answer(p) \in {x \in Calls : 5 <= x}
      /\ k = 18 => Answer(p) = 7
      /\ k = 20 => Answer(p) = 2
      /\ k = 26 => Sees(p, VarPage) = "111"
      /\ k = 27 => Answer(p) = 111
      /\ k = 29 => Sees(p, VarPage) = "byte"
      /\ k = 31 => Answer(p) \in 0..255
  BY DEF Ch3TraceAt
<1>6. SUFFICES ASSUME ~EndsWell
      PROVE  /\ Goes(p) /\ HasPages(p, {}, RW)'
             /\ l <= 24 => Counters(m, i + 1)
             /\ l = 2 => Answer(p)' \in {x \in Calls : 3 <= x}
             /\ l = 4 => Answer(p)' = 2
             /\ l \in {6, 10, 24} => Answer(p)' = 0
             /\ l \in {8, 22} => Answer(p)' \in {x \in Calls : 0 < x}
             /\ l = 16 => Answer(p)' \in {x \in Calls : 5 <= x}
             /\ l = 18 => Answer(p)' = 7
             /\ l = 20 => Answer(p)' = 2
             /\ l = 26 => Sees(p, VarPage)' = "111"
             /\ l = 27 => Answer(p)' = 111
             /\ l = 29 => Sees(p, VarPage)' = "byte"
             /\ l = 31 => Answer(p)' \in 0..255
  <2> DEFINE j == i + 1
  <2>1. l = j - FrontLength /\ i + 1 = j
    BY <1>2, <1>3, FrontSize
  <2> HIDE DEF j, l, m
  <2>2. SUFFICES ASSUME ~EndsWell,
             /\ Goes(p) /\ HasPages(p, {}, RW)'
             /\ l <= 24 => Counters(m, j)
             /\ l = 2 => Answer(p)' \in {x \in Calls : 3 <= x}
             /\ l = 4 => Answer(p)' = 2
             /\ l \in {6, 10, 24} => Answer(p)' = 0
             /\ l \in {8, 22} => Answer(p)' \in {x \in Calls : 0 < x}
             /\ l = 16 => Answer(p)' \in {x \in Calls : 5 <= x}
             /\ l = 18 => Answer(p)' = 7
             /\ l = 20 => Answer(p)' = 2
             /\ l = 26 => Sees(p, VarPage)' = "111"
             /\ l = 27 => Answer(p)' = 111
             /\ l = 29 => Sees(p, VarPage)' = "byte"
             /\ l = 31 => Answer(p)' \in 0..255
        PROVE  Goes(p) /\ Ch3TraceAt(p, j)'
    BY <2>1
  <2>3. (j - FrontLength)' = l
    BY <2>1 DEF FrontLength, j
  <2>4. l <= 24 => Counters(count[p], j)'
    BY <2>2 DEF m
  <2>5. /\ l = 2 => Answer(p)' \in {x \in Calls : 3 <= x}'
        /\ l \in {8, 22} => Answer(p)' \in {x \in Calls : 0 < x}'
        /\ l = 16 => Answer(p)' \in {x \in Calls : 5 <= x}'
    BY <2>2 DEF Calls
  <2>6. QED
    BY <2>2, <2>3, <2>4, <2>5 DEF Ch3TraceAt
<1> HIDE DEF k, l, m, n
<1>7. \/ k <= 0 \/ k \in {1, 3, 5, 7, 9, 15, 17, 19, 21, 23} \/ k \in {2, 4, 6, 8, 10, 16, 18, 20, 22}
      \/ k \in {11, 12} \/ k \in {13, 14} \/ k \in {24, 27, 31} \/ k = 25 \/ k = 26 \/ k = 28 \/ k = 29
      \/ k = 30 \/ k = 32
  BY <1>4
<1>8. FollowedIds = {"clock_gettime", "trace", "write", "sched_yield", "exit"}
  BY DEF FollowedIds
<1>9. /\ Memory!Readable(p, VarPage) /\ Memory!Writable(p, VarPage) /\ Memory!Readable(p, 0)
      /\ PageOf(var) = VarPage /\ PageOf(TextAddress) = 0
  <2>1. PageOf(var) = VarPage /\ PageOf(TextAddress) = 0
    BY Places
  <2>2. QED
    BY <1>5, <2>1, PageRights, StartFacts
<1>a. \A e \in 1..32 : k = e => Instruction = s[B + e]
  BY <1>3, <1>4
<1>b. /\ k \in {1, 15} => Instruction = <<"trace_query", "clock_gettime">>
      /\ k \in {3, 17} => Instruction = <<"trace_query", "trace">>
      /\ k \in {5, 19} => Instruction = <<"trace_query", "write">>
      /\ k \in {7, 21} => Instruction = <<"trace_query", "sched_yield">>
      /\ k \in {9, 23} => Instruction = <<"trace_query", "exit">>
  <2>1. k = 1 => Instruction = <<"trace_query", "clock_gettime">>
    <3>1. s[B + 1] = <<"trace_query", "clock_gettime">>
      BY <1>2 DEF CountersAsked
    <3>2. QED
      BY <1>a, <3>1
  <2>2. k = 15 => Instruction = <<"trace_query", "clock_gettime">>
    <3>1. s[B + 15] = <<"trace_query", "clock_gettime">>
      BY <1>2 DEF CountersAsked
    <3>2. QED
      BY <1>a, <3>1
  <2>3. k = 3 => Instruction = <<"trace_query", "trace">>
    <3>1. s[B + 3] = <<"trace_query", "trace">>
      BY <1>2 DEF CountersAsked
    <3>2. QED
      BY <1>a, <3>1
  <2>4. k = 17 => Instruction = <<"trace_query", "trace">>
    <3>1. s[B + 17] = <<"trace_query", "trace">>
      BY <1>2 DEF CountersAsked
    <3>2. QED
      BY <1>a, <3>1
  <2>5. k = 5 => Instruction = <<"trace_query", "write">>
    <3>1. s[B + 5] = <<"trace_query", "write">>
      BY <1>2 DEF CountersAsked
    <3>2. QED
      BY <1>a, <3>1
  <2>6. k = 19 => Instruction = <<"trace_query", "write">>
    <3>1. s[B + 19] = <<"trace_query", "write">>
      BY <1>2 DEF CountersAsked
    <3>2. QED
      BY <1>a, <3>1
  <2>7. k = 7 => Instruction = <<"trace_query", "sched_yield">>
    <3>1. s[B + 7] = <<"trace_query", "sched_yield">>
      BY <1>2 DEF CountersAsked
    <3>2. QED
      BY <1>a, <3>1
  <2>8. k = 21 => Instruction = <<"trace_query", "sched_yield">>
    <3>1. s[B + 21] = <<"trace_query", "sched_yield">>
      BY <1>2 DEF CountersAsked
    <3>2. QED
      BY <1>a, <3>1
  <2>9. k = 9 => Instruction = <<"trace_query", "exit">>
    <3>1. s[B + 9] = <<"trace_query", "exit">>
      BY <1>2 DEF CountersAsked
    <3>2. QED
      BY <1>a, <3>1
  <2>10. k = 23 => Instruction = <<"trace_query", "exit">>
    <3>1. s[B + 23] = <<"trace_query", "exit">>
      BY <1>2 DEF CountersAsked
    <3>2. QED
      BY <1>a, <3>1
  <2>11. QED
    BY <2>1, <2>2, <2>3, <2>4, <2>5, <2>6, <2>7, <2>8, <2>9, <2>10
<1>c. /\ k = 2 => Instruction = <<"expect", {x \in Calls : 3 <= x}>>
      /\ k = 16 => Instruction = <<"expect", {x \in Calls : 5 <= x}>>
      /\ k \in {8, 22} => Instruction = <<"expect", {x \in Calls : 0 < x}>>
      /\ k \in {6, 10, 24} => Instruction = <<"expect", {0}>>
      /\ k \in {4, 20} => Instruction = <<"expect", {2}>>
      /\ k = 18 => Instruction = <<"expect", {7}>>
      /\ k = 27 => Instruction = <<"expect", {111}>>
      /\ k = 31 => Instruction = <<"expect", 0..255>>
  <2>1. k = 2 => Instruction = <<"expect", {x \in Calls : 3 <= x}>>
    <3>1. s[B + 2] = <<"expect", {x \in Calls : 3 <= x}>>
      BY <1>2 DEF CountersAsked
    <3>2. QED
      BY <1>a, <3>1
  <2>2. k = 16 => Instruction = <<"expect", {x \in Calls : 5 <= x}>>
    <3>1. s[B + 16] = <<"expect", {x \in Calls : 5 <= x}>>
      BY <1>2 DEF CountersAsked
    <3>2. QED
      BY <1>a, <3>1
  <2>3. k = 8 => Instruction = <<"expect", {x \in Calls : 0 < x}>>
    <3>1. s[B + 8] = <<"expect", {x \in Calls : 0 < x}>>
      BY <1>2 DEF CountersAsked
    <3>2. QED
      BY <1>a, <3>1
  <2>4. k = 22 => Instruction = <<"expect", {x \in Calls : 0 < x}>>
    <3>1. s[B + 22] = <<"expect", {x \in Calls : 0 < x}>>
      BY <1>2 DEF CountersAsked
    <3>2. QED
      BY <1>a, <3>1
  <2>5. k = 6 => Instruction = <<"expect", {0}>>
    <3>1. s[B + 6] = <<"expect", {0}>>
      BY <1>2 DEF CountersAsked
    <3>2. QED
      BY <1>a, <3>1
  <2>6. k = 10 => Instruction = <<"expect", {0}>>
    <3>1. s[B + 10] = <<"expect", {0}>>
      BY <1>2 DEF CountersAsked
    <3>2. QED
      BY <1>a, <3>1
  <2>7. k = 24 => Instruction = <<"expect", {0}>>
    <3>1. s[B + 24] = <<"expect", {0}>>
      BY <1>2 DEF CountersAsked
    <3>2. QED
      BY <1>a, <3>1
  <2>8. k = 4 => Instruction = <<"expect", {2}>>
    <3>1. s[B + 4] = <<"expect", {2}>>
      BY <1>2 DEF CountersAsked
    <3>2. QED
      BY <1>a, <3>1
  <2>9. k = 20 => Instruction = <<"expect", {2}>>
    <3>1. s[B + 20] = <<"expect", {2}>>
      BY <1>2 DEF CountersAsked
    <3>2. QED
      BY <1>a, <3>1
  <2>10. k = 18 => Instruction = <<"expect", {7}>>
    <3>1. s[B + 18] = <<"expect", {7}>>
      BY <1>2 DEF CountersAsked
    <3>2. QED
      BY <1>a, <3>1
  <2>11. k = 27 => Instruction = <<"expect", {111}>>
    <3>1. s[B + 27] = <<"expect", {111}>>
      BY <1>2 DEF CountersAsked
    <3>2. QED
      BY <1>a, <3>1
  <2>12. k = 31 => Instruction = <<"expect", 0..255>>
    <3>1. s[B + 31] = <<"expect", 0..255>>
      BY <1>2 DEF CountersAsked
    <3> DEFINE A == 0..255
    <3>2. s[B + 31] = <<"expect", A>>
      BY <3>1
    <3> HIDE DEF A
    <3>3. k = 31 => Instruction = <<"expect", A>>
      BY <1>a, <3>2
    <3>4. QED
      BY <3>3 DEF A
  <2>13. QED
    BY <2>1, <2>2, <2>3, <2>4, <2>5, <2>6, <2>7, <2>8, <2>9, <2>10, <2>11, <2>12
<1>d. /\ k \in {11, 12} => Instruction = <<"call", "write">>
      /\ k \in {13, 14} => Instruction = clock
  <2>1. k = 11 => Instruction = <<"call", "write">>
    <3>1. s[B + 11] = <<"call", "write">>
      BY <1>2 DEF CountersAsked
    <3>2. QED
      BY <1>a, <3>1
  <2>2. k = 12 => Instruction = <<"call", "write">>
    <3>1. s[B + 12] = <<"call", "write">>
      BY <1>2 DEF CountersAsked
    <3>2. QED
      BY <1>a, <3>1
  <2>3. k = 13 => Instruction = clock
    <3>1. s[B + 13] = clock
      BY <1>2 DEF CountersAsked
    <3>2. QED
      BY <1>a, <3>1
  <2>4. k = 14 => Instruction = clock
    <3>1. s[B + 14] = clock
      BY <1>2 DEF CountersAsked
    <3>2. QED
      BY <1>a, <3>1
  <2>5. QED
    BY <2>1, <2>2, <2>3, <2>4
<1>10. CASE k <= 0 \/ k \in {11, 12} \/ k \in {13, 14}
  <2>1. PICK id \in {"clock_gettime", "sched_yield", "write"} :
           /\ Instruction = <<"call", id>>
           /\ \/ k <= 0 /\ id = "clock_gettime" /\ i # 5
              \/ k <= 0 /\ id = "sched_yield" /\ i \notin {1, 2, 3}
              \/ k \in {11, 12} /\ id = "write"
              \/ k \in {13, 14} /\ id = "clock_gettime"
    <3>1. CASE k <= 0
      <4>1. i \in 1..B /\ Instruction = Opening[i]
        BY <1>2, <1>3, <1>4, <3>1
      <4>2. Instruction \in {clock, yield} /\ (i \in {1, 2, 3} => Instruction = clock)
            /\ (i = 5 => Instruction = yield)
        BY <4>1, FrontText
      <4>3. clock # yield
        BY DEF clock, yield
      <4>4. QED
        BY <3>1, <4>2, <4>3 DEF clock, yield
    <3>2. CASE k \in {11, 12}
      BY <1>d, <3>2
    <3>3. CASE k \in {13, 14}
      BY <1>d, <3>3 DEF clock
    <3>4. QED
      BY <1>10, <3>1, <3>2, <3>3
  <2>2. Goes(p) /\ HasPages(p, {}, RW)' /\ OneMoreOf(n, m, id)
    BY <1>3, <1>5, <1>8, <2>1, CallOfTest DEF n, m
  <2>3. k <= 24 /\ k = i - FrontLength
    BY <1>4, <1>10 DEF k
  <2>4. Counters(n, i)
    BY <1>5, <2>3
  <2>5. Counters(m, i + 1)
    BY <1>3, <1>4, <2>1, <2>2, <2>3, <2>4, CountedCall
  <2>6. l <= 1 \/ l \in {12, 13, 14, 15}
    BY <1>4, <1>10
  <2>7. QED
    BY <2>2, <2>3, <2>5, <2>6
<1>11. CASE k \in {1, 3, 5, 7, 9, 15, 17, 19, 21, 23}
  <2>1. PICK id \in FollowedIds :
           /\ Instruction = <<"trace_query", id>>
           /\ (k \in {1, 15} => id = "clock_gettime") /\ (k \in {3, 17} => id = "trace")
           /\ (k \in {5, 19} => id = "write") /\ (k \in {7, 21} => id = "sched_yield")
           /\ (k \in {9, 23} => id = "exit")
    <3>1. CASE k \in {1, 15}
      BY <1>8, <1>b, <3>1
    <3>2. CASE k \in {3, 17}
      BY <1>8, <1>b, <3>2
    <3>3. CASE k \in {5, 19}
      BY <1>8, <1>b, <3>3
    <3>4. CASE k \in {7, 21}
      BY <1>8, <1>b, <3>4
    <3>5. CASE k \in {9, 23}
      BY <1>8, <1>b, <3>5
    <3>6. QED
      BY <1>11, <3>1, <3>2, <3>3, <3>4, <3>5
  <2>2. /\ Goes(p) /\ HasPages(p, {}, RW)' /\ OneMoreOf(n, m, "trace")
        /\ Answer(p)' = m[id]
    BY <1>3, <1>5, <2>1, QueryOfTest DEF n, m
  <2>3. k = i - FrontLength
    BY DEF k
  <2>4. Counters(n, i)
    BY <1>5, <1>11
  <2>5. /\ Counters(m, i + 1)
        /\ k = 1 => m["clock_gettime"] \in {x \in Calls : 3 <= x}
        /\ k = 3 => m["trace"] = 2
        /\ k = 5 => m["write"] = 0
        /\ k \in {7, 21} => m["sched_yield"] \in {x \in Calls : 0 < x}
        /\ k \in {9, 23} => m["exit"] = 0
        /\ k = 15 => m["clock_gettime"] \in {x \in Calls : 5 <= x}
        /\ k = 17 => m["trace"] = 7
        /\ k = 19 => m["write"] = 2
    BY <1>3, <1>11, <2>2, <2>3, <2>4, CountedQuery
  <2>6. l \in {2, 4, 6, 8, 10, 16, 18, 20, 22, 24} /\ k = l - 1
    BY <1>4, <1>11
  <2>7. /\ l = 2 => Answer(p)' \in {x \in Calls : 3 <= x}
        /\ l = 4 => Answer(p)' = 2
        /\ l = 6 => Answer(p)' = 0
        /\ l = 8 => Answer(p)' \in {x \in Calls : 0 < x}
        /\ l = 10 => Answer(p)' = 0
    BY <2>1, <2>2, <2>5, <2>6
  <2>8. /\ l = 16 => Answer(p)' \in {x \in Calls : 5 <= x}
        /\ l = 18 => Answer(p)' = 7
        /\ l = 20 => Answer(p)' = 2
        /\ l = 22 => Answer(p)' \in {x \in Calls : 0 < x}
        /\ l = 24 => Answer(p)' = 0
    BY <2>1, <2>2, <2>5, <2>6
  <2>9. QED
    BY <2>2, <2>5, <2>6, <2>7, <2>8
<1>12. CASE k \in {2, 4, 6, 8, 10, 16, 18, 20, 22} \/ k \in {24, 27, 31}
  <2>1. \E A : Instruction = <<"expect", A>> /\ Answer(p) \in A
    <3>1. CASE k = 2
      <4>1. Instruction = <<"expect", {x \in Calls : 3 <= x}>>
        BY <1>c, <3>1
      <4>2. Answer(p) \in {x \in Calls : 3 <= x}
        BY <1>5, <3>1
      <4>3. QED
        BY <4>1, <4>2
    <3>2. CASE k = 16
      <4>1. Instruction = <<"expect", {x \in Calls : 5 <= x}>>
        BY <1>c, <3>2
      <4>2. Answer(p) \in {x \in Calls : 5 <= x}
        BY <1>5, <3>2
      <4>3. QED
        BY <4>1, <4>2
    <3>3. CASE k \in {8, 22}
      <4>1. Instruction = <<"expect", {x \in Calls : 0 < x}>>
        BY <1>c, <3>3
      <4>2. Answer(p) \in {x \in Calls : 0 < x}
        BY <1>5, <3>3
      <4>3. QED
        BY <4>1, <4>2
    <3>4. CASE k \in {6, 10, 24}
      <4>1. Instruction = <<"expect", {0}>>
        BY <1>c, <3>4
      <4>2. Answer(p) \in {0}
        BY <1>5, <3>4
      <4>3. QED
        BY <4>1, <4>2
    <3>5. CASE k \in {4, 20}
      <4>1. Instruction = <<"expect", {2}>>
        BY <1>c, <3>5
      <4>2. Answer(p) \in {2}
        BY <1>5, <3>5
      <4>3. QED
        BY <4>1, <4>2
    <3>6. CASE k = 18
      <4>1. Instruction = <<"expect", {7}>>
        BY <1>c, <3>6
      <4>2. Answer(p) \in {7}
        BY <1>5, <3>6
      <4>3. QED
        BY <4>1, <4>2
    <3>7. CASE k = 27
      <4>1. Instruction = <<"expect", {111}>>
        BY <1>c, <3>7
      <4>2. Answer(p) \in {111}
        BY <1>5, <3>7
      <4>3. QED
        BY <4>1, <4>2
    <3>8. CASE k = 31
      <4>1. Instruction = <<"expect", 0..255>>
        BY <1>c, <3>8
      <4>2. Answer(p) \in 0..255
        BY <1>5, <3>8
      <4>3. QED
        BY <4>1, <4>2
    <3>9. QED
      BY <1>12, <3>1, <3>2, <3>3, <3>4, <3>5, <3>6, <3>7, <3>8
  <2>2. Goes(p) /\ Quiet /\ HasPages(p, {}, RW)'
    BY <1>3, <1>5, <2>1, Expected
  <2>3. m = n /\ k = i - FrontLength
    BY <2>2 DEF Quiet, m, n, k
  <2>4. l <= 24 => k \in {2, 4, 6, 8, 10, 16, 18, 20, 22}
    BY <1>4, <1>12
  <2>5. k \in {2, 4, 6, 8, 10, 16, 18, 20, 22} => Counters(n, i)
    BY <1>5
  <2>6. l <= 24 => Counters(m, i + 1)
    BY <1>3, <2>3, <2>4, <2>5, CountedSame
  <2>7. l \in {3, 5, 7, 9, 11, 17, 19, 21, 23, 25, 28, 32}
    BY <1>4, <1>12
  <2>8. QED
    BY <2>2, <2>6, <2>7
<1>13. CASE k = 25
  <2>1. Instruction = <<"store", VarPage, "111">>
    BY <1>2, <1>3, <1>4, <1>13 DEF CountersAsked
  <2>2. store \/ fault
    BY <1>3, <2>1, StepByInstruction
  <2>3. Goes(p) /\ Stores(p, VarPage, "111")
    BY <1>9, <2>1, <2>2, StoreEffect
  <2>4. l = 26
    BY <1>4, <1>13
  <2>5. HasPages(p, {}, RW)' /\ Sees(p, VarPage)' = "111"
    BY <1>5, <2>3 DEF Stores
  <2>6. QED
    BY <2>3, <2>4, <2>5
<1>14. CASE k = 26
  <2>1. Instruction = <<"trace_read", var>>
    BY <1>2, <1>3, <1>4, <1>14 DEF CountersAsked
  <2>2. Goes(p) /\ HasPages(p, {}, RW)' /\ Answer(p)' = Number(Sees(p, VarPage))
    BY <1>3, <1>5, <1>9, <2>1, TraceReads
  <2>3. l = 27 /\ Answer(p)' = 111
    BY <1>4, <1>5, <1>14, <2>2, NumberFacts
  <2>4. QED
    BY <2>2, <2>3
<1>15. CASE k = 28
  <2>1. Instruction = <<"trace_write", var, "byte">>
    BY <1>2, <1>3, <1>4, <1>15 DEF CountersAsked
  <2>2. Goes(p) /\ HasPages(p, {}, RW)' /\ Stores(p, VarPage, "byte")
    BY <1>3, <1>5, <1>9, <2>1, TraceWrites
  <2>3. l = 29 /\ Sees(p, VarPage)' = "byte"
    BY <1>4, <1>15, <2>2 DEF Stores
  <2>4. QED
    BY <2>2, <2>3
<1>16. CASE k = 29
  <2>1. Instruction = <<"load", VarPage, {"byte"}>> /\ Sees(p, VarPage) \in {"byte"}
    BY <1>2, <1>3, <1>4, <1>5, <1>16 DEF CountersAsked
  <2>2. load \/ fault
    BY <1>3, <2>1, StepByInstruction
  <2>3. Goes(p) /\ UNCHANGED memoryVars
    BY <1>9, <2>1, <2>2, LoadEffect
  <2>4. HasPages(p, {}, RW)'
    BY <1>5, <2>3, SamePages
  <2>5. l = 30
    BY <1>4, <1>16
  <2>6. QED
    BY <2>3, <2>4, <2>5
<1>17. CASE k = 30
  <2>1. Instruction = <<"trace_read", TextAddress>>
    BY <1>2, <1>3, <1>4, <1>17 DEF CountersAsked
  <2>2. Goes(p) /\ HasPages(p, {}, RW)' /\ Answer(p)' = Number(Sees(p, 0))
    BY <1>3, <1>5, <1>9, <2>1, TraceReads
  <2>3. l = 31 /\ Answer(p)' \in 0..255
    BY <1>4, <1>17, <2>2, NumberFacts
  <2>4. QED
    BY <2>2, <2>3
<1>18. CASE k = 32
  <2>1. Instruction = <<"exit", 0>>
    BY <1>2, <1>3, <1>4, <1>18 DEF CountersAsked
  <2>2. QED
    BY <1>3, <1>6, <2>1, StepByInstruction, ExitEffect
<1>19. QED
  BY <1>7, <1>10, <1>11, <1>12, <1>13, <1>14, <1>15, <1>16, <1>17, <1>18

-----------------------------------------------------------------------------
(*                     The rows of a program that waits                    *)

(* Text, stack and an empty heap, and not an instruction or call made.     *)
FreshRow(p) ==
    /\ pos[p] = 1
    /\ HasPages(p, {}, RW)
    /\ heap_bottom[p] = PAGE_SIZE /\ program_brk[p] = PAGE_SIZE
    /\ count[p] = NoCalls

RowKept(q) ==
    /\ pos'[q] = pos[q] /\ pages'[q] = pages[q]
    /\ heap_bottom'[q] = heap_bottom[q] /\ program_brk'[q] = program_brk[q]
    /\ count'[q] = count[q]

LEMMA KeptFresh ==
    ASSUME NEW q, FreshRow(q), RowKept(q)
    PROVE  FreshRow(q)'
BY DEF FreshRow, RowKept, HasPages, Memory!Mapped, NoCalls

MemoryKept(q) ==
    /\ pages'[q] = pages[q]
    /\ heap_bottom'[q] = heap_bottom[q] /\ program_brk'[q] = program_brk[q]

LEMMA RowsTyped ==
    ASSUME IInv4
    PROVE  /\ pages = [p \in MP!Proc |-> pages[p]]
           /\ heap_bottom = [p \in MP!Proc |-> heap_bottom[p]]
           /\ program_brk = [p \in MP!Proc |-> program_brk[p]]
           /\ pos = [a \in App |-> pos[a]] /\ count = [a \in App |-> count[a]]
           /\ App \subseteq MP!Proc
<1>1. MP!TypeOK /\ TypeOK /\ pos \in [App -> Int]
  BY DEF IInv4, IInv, MemoryInv4, MP!MemoryInv, WithinScript
<1>2. count = [a \in App |-> count[a]] /\ pos = [a \in App |-> pos[a]]
  BY <1>1 DEF TypeOK
<1>3. /\ pages = [p \in MP!Proc |-> pages[p]]
      /\ heap_bottom = [p \in MP!Proc |-> heap_bottom[p]]
      /\ program_brk = [p \in MP!Proc |-> program_brk[p]]
  BY <1>1 DEF MP!TypeOK
<1>4. App \subseteq MP!Proc
  BY Ch4Assumption DEF App, MP!Proc
<1>5. QED
  BY <1>2, <1>3, <1>4

(* What the head does leaves the rows of the others alone.                 *)
LEMMA LeaveKeepsOthers ==
    ASSUME IInv4, NEW q \in App, q # Current, Drop, Memory!End(Current), pos' = pos
    PROVE  RowKept(q)
<1>1. count' = [count EXCEPT ![Current] = NoCalls]
  BY DEF Drop
<1>2. /\ pages' = [pages EXCEPT ![Current] = Memory!Unmapped]
      /\ heap_bottom' = [heap_bottom EXCEPT ![Current] = 0]
      /\ program_brk' = [program_brk EXCEPT ![Current] = 0]
  BY DEF Memory!End
<1>3. QED
  BY <1>1, <1>2, RowsTyped DEF RowKept

LEMMA CalledKeepsOthers ==
    ASSUME IInv4, NEW q \in App, q # Current, NEW id, Called(id)
    PROVE  count'[q] = count[q]
<1>1. CASE id \in CountedIds
  BY <1>1, RowsTyped DEF Called, CountedOne
<1>2. CASE id \notin CountedIds
  BY <1>2 DEF Called
<1>3. QED
  BY <1>1, <1>2

LEMMA AdvanceKeepsOthers ==
    ASSUME IInv4, NEW q \in App, q # Current, Advance
    PROVE  pos'[q] = pos[q]
BY RowsTyped DEF Advance

LEMMA MapKeepsOthers ==
    ASSUME IInv4, NEW q \in App, q # Current,
           \/ \E lo, hi, flags, area : Memory!map(Current, lo, hi, flags, area)
           \/ \E S : Memory!unmap(Current, S)
           \/ UNCHANGED pages
    PROVE  pages'[q] = pages[q]
BY RowsTyped DEF Memory!map, Memory!unmap

LEMMA MemoryKeepsOthers ==
    ASSUME IInv4, NEW q \in App, q # Current,
           \/ UNCHANGED memoryVars
           \/ \E addr, length, prot : Memory!mmap(Current, addr, length, prot)
           \/ \E addr, length : \/ Memory!munmap_refused(Current, addr, length)
                                \/ Memory!munmap(Current, addr, length)
           \/ \E size : \/ Memory!sbrk_refused(Current, size)
                        \/ Memory!sbrk_grow(Current, size) \/ Memory!sbrk_shrink(Current, size)
           \/ \E v, x : Memory!Stored(Current, v, x)
    PROVE  MemoryKept(q)
<1>1. CASE UNCHANGED memoryVars
  BY <1>1 DEF memoryVars, MemoryKept
<1>2. CASE \E addr, length, prot : Memory!mmap(Current, addr, length, prot)
  <2>1. PICK addr, length, prot : Memory!mmap(Current, addr, length, prot)
    BY <1>2
  <2>2. UNCHANGED <<heap_bottom, program_brk>>
    BY <2>1 DEF Memory!mmap
  <2>3. (\E lo, hi, flags, area : Memory!map(Current, lo, hi, flags, area)) \/ UNCHANGED pages
    BY <2>1 DEF Memory!mmap
  <2>4. QED
    BY <2>2, <2>3, MapKeepsOthers DEF MemoryKept
<1>3. CASE \E addr, length : \/ Memory!munmap_refused(Current, addr, length)
                             \/ Memory!munmap(Current, addr, length)
  <2>1. UNCHANGED <<heap_bottom, program_brk>> /\ \E S : Memory!unmap(Current, S)
    BY <1>3 DEF Memory!munmap, Memory!munmap_refused
  <2>2. QED
    BY <2>1, MapKeepsOthers DEF MemoryKept
<1>4. CASE \E size : \/ Memory!sbrk_refused(Current, size)
                     \/ Memory!sbrk_grow(Current, size) \/ Memory!sbrk_shrink(Current, size)
  <2>1. PICK size : \/ Memory!sbrk_refused(Current, size)
                    \/ Memory!sbrk_grow(Current, size) \/ Memory!sbrk_shrink(Current, size)
    BY <1>4
  <2>2. CASE Memory!sbrk_refused(Current, size)
    BY <2>2 DEF Memory!sbrk_refused, Memory!Unchanged, MemoryKept
  <2>3. CASE Memory!sbrk_grow(Current, size) \/ Memory!sbrk_shrink(Current, size)
    <3>1. /\ program_brk' = [program_brk EXCEPT ![Current] = @ + size]
          /\ heap_bottom' = heap_bottom
      BY <2>3 DEF Memory!sbrk_grow, Memory!sbrk_shrink, Memory!NewBreak
    <3>2. \/ \E lo, hi, flags, area : Memory!map(Current, lo, hi, flags, area)
          \/ \E S : Memory!unmap(Current, S)
          \/ UNCHANGED pages
      BY <2>3 DEF Memory!sbrk_grow, Memory!sbrk_shrink
    <3>3. pages'[q] = pages[q]
      BY <3>2, MapKeepsOthers
    <3>4. program_brk'[q] = program_brk[q]
      BY <3>1, RowsTyped
    <3>5. QED
      BY <3>1, <3>3, <3>4 DEF MemoryKept
  <2>4. QED
    BY <2>1, <2>2, <2>3
<1>5. CASE \E v, x : Memory!Stored(Current, v, x)
  BY <1>5 DEF Memory!Stored, MemoryKept
<1>6. QED
  BY <1>1, <1>2, <1>3, <1>4, <1>5

LEMMA CallKeepsOthers ==
    ASSUME IInv4, NEW q \in App, q # Current, MemoryKept(q), Advance,
           UNCHANGED count \/ \E id : Called(id)
    PROVE  RowKept(q)
BY AdvanceKeepsOthers, CalledKeepsOthers DEF RowKept, MemoryKept

LEMMA ClaimKeepsOthers ==
    ASSUME IInv4, NEW q \in App, q # Current, NEW claim, AdvanceOrPanic(claim)
    PROVE  RowKept(q)
<1>1. CASE claim
  <2>1. Advance /\ UNCHANGED <<count, memoryVars>>
    BY <1>1 DEF AdvanceOrPanic, vars
  <2>2. QED
    BY <2>1, MemoryKeepsOthers, CallKeepsOthers
<1>2. CASE ~claim
  BY <1>2, LeaveKeepsOthers DEF AdvanceOrPanic, Leave
<1>3. QED
  BY <1>1, <1>2

LEMMA StepKeepsOthers ==
    ASSUME IInv4, Step, NEW q \in App, q # Current
    PROVE  RowKept(q)
<1>1. CASE call \/ query
  <2>1. UNCHANGED memoryVars /\ Advance /\ \E id : Called(id)
    BY <1>1 DEF call, query, sched_yield, other_call, trace_query
  <2>2. QED
    BY <2>1, MemoryKeepsOthers, CallKeepsOthers
<1>2. CASE mmap \/ munmap \/ sbrk
  <2>1. Advance /\ Called("memory")
    BY <1>2 DEF mmap, munmap, sbrk, MemoryCall
  <2>2. MemoryKept(q)
    <3>1. CASE mmap
      BY <3>1, MemoryKeepsOthers DEF mmap
    <3>2. CASE munmap
      BY <3>2, MemoryKeepsOthers DEF munmap
    <3>3. CASE sbrk
      BY <3>3, MemoryKeepsOthers DEF sbrk
    <3>4. QED
      BY <1>2, <3>1, <3>2, <3>3
  <2>3. QED
    BY <2>1, <2>2, CallKeepsOthers
<1>3. CASE trace_read \/ trace_write
  <2>1. Advance /\ Called("trace")
    BY <1>3 DEF trace_read, trace_write, Traced
  <2>2. UNCHANGED memoryVars \/ \E v, x : Memory!Stored(Current, v, x)
    BY <1>3 DEF trace_read, trace_write
  <2>3. QED
    BY <2>1, <2>2, MemoryKeepsOthers, CallKeepsOthers
<1>4. CASE expect \/ load
  <2>1. PICK claim : AdvanceOrPanic(claim)
    BY <1>4 DEF expect, load
  <2>2. QED
    BY <2>1, ClaimKeepsOthers
<1>5. CASE store
  <2>1. Advance /\ UNCHANGED count /\ \E v, x : Memory!Stored(Current, v, x)
    BY <1>5 DEF store, vars
  <2>2. QED
    BY <2>1, MemoryKeepsOthers, CallKeepsOthers
<1>6. CASE keep_origin
  <2>1. Advance /\ UNCHANGED <<count, memoryVars>>
    BY <1>6 DEF keep_origin, vars
  <2>2. QED
    BY <2>1, MemoryKeepsOthers, CallKeepsOthers
<1>7. CASE fault \/ exit
  BY <1>7, LeaveKeepsOthers DEF fault, exit, Leave
<1>8. QED
  BY <1>1, <1>2, <1>3, <1>4, <1>5, <1>6, <1>7 DEF Step

LEMMA AnyProgramKeepsOthers ==
    ASSUME IInv4, AnyProgram, NEW q \in App, q # Current
    PROVE  RowKept(q)
<1>1. pos' = pos /\ AnyCall
  BY DEF AnyProgram, programVars
<1>2. CASE Drop
  <2>1. PROCESSES \in Seq(App) /\ PROCESSES # <<>>
    BY DEF AnyProgram, Running, IInv4, IInv, TypeOK
  <2>2. PROCESSES' # PROCESSES
    BY <1>2, <2>1, HeadTailProperties, EmptySeq DEF Drop, Removed
  <2>3. Memory!End(Current)
    BY <2>2 DEF AnyProgram
  <2>4. QED
    BY <1>1, <1>2, <2>3, LeaveKeepsOthers
<1>3. CASE \E id, ret : Called(id) /\ Return(ret)
  <2>1. PROCESSES' = PROCESSES
    BY <1>3 DEF Return
  <2>2. MemoryKept(q)
    BY <2>1, MemoryKeepsOthers DEF AnyProgram
  <2>3. QED
    BY <1>1, <1>3, <2>2, CalledKeepsOthers DEF RowKept, MemoryKept
<1>4. QED
  BY <1>1, <1>2, <1>3 DEF AnyCall, Killed, EndByCall, other_call, sched_yield, trace_query

-----------------------------------------------------------------------------
(*                    Every test at each of its lines                      *)

Passing(p, i) ==
    /\ image[p] = "ch4_mmap" => MmapAt(p, i)
    /\ image[p] = "ch4_mmap1" => Mmap1At(p, i)
    /\ image[p] = "ch4_mmap2" => Mmap2At(p, i)
    /\ image[p] = "ch4_mmap3" => Mmap3At(p, i)
    /\ image[p] = "ch4_unmap" => UnmapAt(p, i)
    /\ image[p] = "ch4_unmap2" => Unmap2At(p, i)
    /\ image[p] = "ch4_trace" => TraceAt(p, i)
    /\ image[p] = "sbrk" => SbrkAt(p, i)
    /\ image[p] = "ch3_trace" => Ch3TraceAt(p, i)

LEMMA FreshPasses ==
    ASSUME NEW p, FreshRow(p)
    PROVE  Passing(p, 1)
<1>1. /\ HasPages(p, {}, RW) /\ HasPages(p, {}, {"R"})
      /\ heap_bottom[p] = PAGE_SIZE /\ program_brk[p] = PAGE_SIZE
  BY DEF FreshRow, HasPages
<1>2. PAGE_SIZE \in Nat \ {0} /\ FrontLength \in Nat /\ FrontLength >= 8
  BY Geometry, FrontSize
<1>3. MmapAt(p, 1)
  BY <1>1 DEF MmapAt
<1>4. Mmap1At(p, 1) /\ Mmap2At(p, 1)
  BY <1>1 DEF Mmap1At, Mmap2At
<1>5. Mmap3At(p, 1) /\ Unmap2At(p, 1)
  BY <1>1 DEF Mmap3At, Unmap2At
<1>6. UnmapAt(p, 1)
  BY <1>1, <1>2 DEF UnmapAt
<1>7. TraceAt(p, 1)
  BY <1>1 DEF TraceAt
<1>8. SbrkAt(p, 1)
  <2> DEFINE P == PAGE_SIZE
  <2>1. P = 1 * P /\ P \in Nat \ {0}
    BY <1>2
  <2>2. 1 <= 12 + P /\ 1 \notin 4 .. 6 + P /\ 1 \notin 7 + P .. 8 + P /\ ~(1 >= 9 + P) /\ 1 # 11 + P
    BY <2>1
  <2>3. QED
    BY <1>1, <2>1, <2>2 DEF SbrkAt
<1>9. Ch3TraceAt(p, 1)
  <2> DEFINE n == count[p]
             k == 1 - FrontLength
  <2>1. FollowedIds \subseteq CountedIds
    BY TestsAssumption DEF FollowedIds
  <2>2. \A id \in FollowedIds : n[id] = 0
    BY <2>1 DEF FreshRow, NoCalls
  <2>3. k \in Int /\ k <= -7
    BY <1>2
  <2>4. /\ n["clock_gettime"] = 0 /\ n["trace"] = 0 /\ n["write"] = 0
        /\ n["sched_yield"] = 0 /\ n["exit"] = 0
    BY <2>2 DEF FollowedIds
  <2> HIDE DEF k
  <2>5. TimesAt(0, 0, 1, k) /\ WritesAt(0, k) /\ TracesAt(0, k)
    BY <2>3 DEF TimesAt, WritesAt, TracesAt
  <2>6. CountersAt(0, 0, 0, 0, 0, 1, k)
    BY <2>5 DEF CountersAt
  <2>7. Counters(n, 1)
    BY <2>4, <2>6 DEF Counters, k
  <2>8. /\ k \notin {2, 4, 6, 10, 24, 8, 22, 16, 18, 20, 26, 27, 29, 31}
    BY <2>3
  <2>9. QED
    BY <1>1, <2>7, <2>8 DEF Ch3TraceAt, k
<1>10. QED
  BY <1>3, <1>4, <1>5, <1>6, <1>7, <1>8, <1>9 DEF Passing

(* The next line of whatever test the head is.                             *)
LEMMA HeadPasses ==
    ASSUME IInv4, Running, Next4, NEW p, p = Current, InTest(p), NEW i, i = pos[p], Passing(p, i)
    PROVE  EndsWell \/ (Goes(p) /\ Passing(p, i + 1)')
<1>1. p \in App
  BY HeadInApp
<1>2. image[p] \in DOMAIN script /\ image[p] # "any"
  BY <1>1, Ch4MemoryAssumption DEF IInv4, WithinScript, InTest
<1>3. image[p] \in {"ch4_mmap", "ch4_mmap1", "ch4_mmap2", "ch4_mmap3", "ch4_unmap", "ch4_unmap2",
                    "ch4_trace", "sbrk", "ch3_trace"}
  BY <1>2 DEF script
<1>4. Goes(p) => image'[p] = image[p]
  BY DEF Goes
<1>5. CASE image[p] = "ch4_mmap"
  BY <1>4, <1>5, MmapStep DEF Passing
<1>6. CASE image[p] = "ch4_mmap1"
  BY <1>4, <1>6, Mmap1Step DEF Passing
<1>7. CASE image[p] = "ch4_mmap2"
  BY <1>4, <1>7, Mmap2Step DEF Passing
<1>8. CASE image[p] = "ch4_mmap3"
  BY <1>4, <1>8, Mmap3Step DEF Passing
<1>9. CASE image[p] = "ch4_unmap"
  BY <1>4, <1>9, UnmapStep DEF Passing
<1>10. CASE image[p] = "ch4_unmap2"
  BY <1>4, <1>10, Unmap2Step DEF Passing
<1>11. CASE image[p] = "ch4_trace"
  BY <1>4, <1>11, TraceStep DEF Passing
<1>12. CASE image[p] = "sbrk"
  BY <1>4, <1>12, SbrkStep DEF Passing
<1>13. CASE image[p] = "ch3_trace"
  BY <1>4, <1>13, Ch3TraceStep DEF Passing
<1>14. QED
  BY <1>3, <1>5, <1>6, <1>7, <1>8, <1>9, <1>10, <1>11, <1>12, <1>13

-----------------------------------------------------------------------------
(*                         What a program starts with                      *)

LEMMA LoadedFresh ==
    ASSUME IInv4, LoadProgram, loading \in accepted, NEW p, p = loading,
           pos[p] = 1, count[p] = NoCalls
    PROVE  FreshRow(p)'
<1> DEFINE v == VarPage
<1>1. /\ Memory!from_elf(p, ElfEnd) /\ p \in App /\ p \in MP!Proc
      /\ UNCHANGED <<pos, count>>
  BY RowsTyped DEF LoadProgram, Load, programVars
<1>2. Memory!Ceil(ElfEnd) = 1
  BY Lengths DEF ElfEnd, len
<1>3. 1 * PAGE_SIZE = PAGE_SIZE
  BY Geometry
<1>4. heap_bottom'[p] = PAGE_SIZE /\ program_brk'[p] = PAGE_SIZE
  BY <1>1, <1>2, <1>3, RowsTyped DEF Memory!from_elf, Memory!BreakAtBottom
<1>5. pages'[p] = Memory!ProgramPages(ElfEnd, next_frame) /\ ~Memory!Shortage(2)
  BY <1>1, <1>2, RowsTyped DEF Memory!from_elf
<1>6. /\ next_frame \in Memory!Frame /\ next_frame + 1 \in Memory!Frame
  <2>1. next_frame \in 0 .. FrameCount /\ FrameCount \in Nat
    BY Ch4MemoryAssumption DEF IInv4, MemoryInv4, MP!MemoryInv, MP!TypeOK
  <2>2. next_frame + 2 <= FrameCount
    BY <1>5, <2>1 DEF Memory!Shortage
  <2>3. QED
    BY <2>1, <2>2 DEF Memory!Frame
<1>7. \A f \in Memory!Frame :
         /\ [frame |-> f, flags |-> {"R", "X"}, area |-> "elf"] # NoPage
         /\ [frame |-> f, flags |-> {"R", "W"}, area |-> "stack"] # NoPage
  <2>1. \A f \in Memory!Frame :
         /\ [frame |-> f, flags |-> {"R", "X"}, area |-> "elf"] \in Memory!MappedPage
         /\ [frame |-> f, flags |-> {"R", "W"}, area |-> "stack"] \in Memory!MappedPage
    BY DEF Memory!MappedPage
  <2>2. QED
    BY <2>1, Ch4MemoryAssumption
<1>8. Memory!StackPage = v /\ v \in Nat /\ v > 1 /\ Memory!Page = 0 .. v
  BY Window DEF VarPage
<1>9. /\ pages'[p] = [u \in Memory!Page |->
            IF u < 1 THEN [frame |-> next_frame + u, flags |-> {"R", "X"}, area |-> "elf"]
            ELSE IF u = v THEN [frame |-> next_frame + 1, flags |-> {"R", "W"}, area |-> "stack"]
            ELSE NoPage]
  BY <1>2, <1>5, <1>8 DEF Memory!ProgramPages
<1> HIDE DEF v
<1>10. 0 \in Memory!Page /\ v \in Memory!Page /\ 0 < 1 /\ ~(v < 1) /\ next_frame + 0 = next_frame
  BY <1>6, <1>8 DEF Memory!Frame
<1>11. /\ pages'[p][0] = [frame |-> next_frame, flags |-> {"R", "X"}, area |-> "elf"]
       /\ pages'[p][v] = [frame |-> next_frame + 1, flags |-> {"R", "W"}, area |-> "stack"]
  BY <1>9, <1>10
<1>12. \A u \in Memory!Page : u # 0 /\ u # v => pages'[p][u] = NoPage
  <2>1. \A u \in Memory!Page : u # 0 => ~(u < 1)
    BY <1>8
  <2>2. QED
    BY <1>9, <2>1
<1>13. pages'[p][0] # NoPage /\ pages'[p][v] # NoPage
  BY <1>6, <1>7, <1>11
<1>14. {u \in Memory!Page : pages'[p][u] # NoPage} = {0, v}
  BY <1>10, <1>12, <1>13
<1>15. /\ pages'[p][0].flags = {"R", "X"} /\ pages'[p][v].flags = {"R", "W"}
  BY <1>11
<1>16. HasPages(p, {}, RW)'
  <2>1. {u \in Memory!Page : pages'[p][u] # NoPage} = {} \cup {0, VarPage}
    BY <1>14 DEF v
  <2>2. pages'[p][0].flags = {"R", "X"} /\ pages'[p][VarPage].flags = RW
    BY <1>15 DEF v, RW
  <2>3. Memory!Mapped(p)' = {} \cup {0, VarPage}
    BY <2>1 DEF Memory!Mapped, Memory!Page
  <2>4. QED
    BY <2>2, <2>3 DEF HasPages, VarPage, Memory!StackPage, RW
<1>17. QED
  BY <1>1, <1>4, <1>16 DEF FreshRow, NoCalls

-----------------------------------------------------------------------------
(*                          All tests pass                                 *)

(* Nothing has run while programs are loaded.                              *)
NothingRun == mode = "load" => \A a \in App : pos[a] = 1 /\ count[a] = NoCalls

(* Whoever waits has the rows it was loaded with.                          *)
WaitingFresh == \A q \in alive : mode = "load" \/ q # Current => FreshRow(q)

(* The head is about to start, or at a line of its test with all that the  *)
(* rest of the test takes for granted.                                     *)
HeadPassing ==
    Running =>
        \E p \in App, i \in Int : /\ p = Current /\ i = pos[p]
                                  /\ FreshRow(p) \/ Passing(p, i)

PassInv == MemoryTestsPass /\ NothingRun /\ WaitingFresh /\ HeadPassing

LEMMA InitPasses == Init4 => PassInv
<1> SUFFICES ASSUME Init4 PROVE PassInv
  OBVIOUS
<1>1. mode = "load" /\ broken = {} /\ alive = {} /\ pos = [a \in App |-> 1]
      /\ count = [a \in App |-> NoCalls]
  BY DEF Init4, Init
<1>2. QED
  BY <1>1 DEF PassInv, MemoryTestsPass, NothingRun, WaitingFresh, HeadPassing, Running

(* The list of the next state and the processes in memory.                 *)
LEMMA NextHead ==
    ASSUME TypeOK', Listed', Running'
    PROVE  Current' \in alive' /\ Current' \in App
<1>1. PROCESSES' \in Seq(App) /\ PROCESSES' # <<>>
  BY DEF TypeOK, App, Running
<1>2. Len(PROCESSES') \in Nat /\ Len(PROCESSES') > 0 /\ DOMAIN PROCESSES' = 1 .. Len(PROCESSES')
  BY <1>1, EmptySeq, LenProperties
<1>3. 1 \in DOMAIN PROCESSES' /\ PROCESSES'[1] \in App
  BY <1>1, <1>2, ElementOfSeq
<1>4. QED
  BY <1>3 DEF Listed, Current, App

LEMMA AliveInApp == ASSUME IInv4 PROVE alive \subseteq App
<1>1. \A k \in DOMAIN PROCESSES : PROCESSES[k] \in App
  BY ListFacts DEF IInv4, IInv
<1>2. QED
  BY <1>1 DEF IInv4, Listed

(* The head leaves: the next one starts.                                   *)
LEMMA EndPasses ==
    ASSUME IInv4, IInv4', PassInv, Running, Next4, Drop, Memory!End(Current), UNCHANGED pos,
           broken' = broken
    PROVE  PassInv'
<1>1. mode = "run" /\ mode' = mode /\ alive' = alive \ {Current}
  BY DEF Running, Drop, Memory!End
<1>2. \A q \in alive' : q \in App /\ q # Current /\ FreshRow(q)
  BY <1>1, AliveInApp DEF PassInv, WaitingFresh
<1>3. \A q \in alive' : FreshRow(q)'
  BY <1>2, LeaveKeepsOthers, KeptFresh
<1>4. HeadPassing'
  <2> SUFFICES ASSUME Running' PROVE HeadPassing'
    BY DEF HeadPassing
  <2>1. PICK p \in App : p = Current' /\ p \in alive'
    BY NextHead DEF IInv4, IInv
  <2>2. pos'[p] = 1
    BY <1>3, <2>1 DEF FreshRow
  <2>3. FreshRow(p)'
    BY <1>3, <2>1
  <2>4. \E i \in Int : p = Current' /\ i = pos'[p] /\ FreshRow(p)'
    BY <2>1, <2>2, <2>3
  <2>5. QED
    BY <2>4 DEF HeadPassing, App
<1>5. QED
  BY <1>1, <1>3, <1>4 DEF PassInv, MemoryTestsPass, NothingRun, WaitingFresh

LEMMA RunPasses ==
    ASSUME IInv4, IInv4', PassInv, Running, Next4
    PROVE  PassInv'
<1>1. PICK p : p = Current /\ p \in App /\ pos[p] \in Int
  BY HeadInApp
<1>2. PICK i \in Int : i = pos[p]
  BY <1>1
<1>3. Passing(p, i)
  <2>1. FreshRow(p) \/ Passing(p, i)
    BY <1>1, <1>2 DEF PassInv, HeadPassing
  <2>2. FreshRow(p) => i = 1
    BY <1>2 DEF FreshRow
  <2>3. QED
    BY <2>1, <2>2, FreshPasses
<1>4. mode = "run"
  BY DEF Running
<1>5. ASSUME Goes(p), Passing(p, i + 1)', alive' = alive, mode' = mode,
             \A q \in App : q # p => RowKept(q)
      PROVE  PassInv'
  <2>1. Current' = p /\ broken' = broken /\ pos'[p] = i + 1
    BY <1>1, <1>2, <1>5, RowsTyped DEF Goes, Current
  <2>2. WaitingFresh'
    <3>1. \A q \in alive : q # p => FreshRow(q) /\ q \in App
      BY <1>1, AliveInApp DEF PassInv, WaitingFresh
    <3>2. \A q \in alive : q # p => FreshRow(q)'
      BY <1>5, <3>1, KeptFresh
    <3>3. QED
      BY <1>4, <1>5, <2>1, <3>2 DEF WaitingFresh
  <2>3. \E j \in Int : p = Current' /\ j = pos'[p] /\ Passing(p, j)'
    BY <1>5, <2>1
  <2>4. HeadPassing'
    BY <1>1, <2>3 DEF HeadPassing, App
  <2>5. QED
    BY <1>4, <1>5, <2>1, <2>2, <2>4 DEF PassInv, MemoryTestsPass, NothingRun
<1>6. CASE InTest(p)
  <2>1. EndsWell \/ (Goes(p) /\ Passing(p, i + 1)')
    BY <1>1, <1>2, <1>3, <1>6, HeadPasses
  <2>2. CASE EndsWell
    BY <2>2, EndPasses DEF EndsWell, Leave
  <2>3. CASE Goes(p) /\ Passing(p, i + 1)'
    <3>1. alive' = alive /\ mode' = mode
      <4>1. Kind
        BY StepKind
      <4>2. ~LoadStep
        BY <1>4 DEF LoadStep, Load
      <4>3. ~EndStep
        <5>1. pos' # pos
          BY <1>1, <2>3, RowsTyped DEF Goes
        <5>2. QED
          BY <5>1 DEF EndStep
      <4>4. UNCHANGED <<alive, PROCESSES>>
        BY <4>1, <4>2, <4>3 DEF Kind, StayStep
      <4>5. mode' = mode
        <5>1. ListStep
          BY Next4IsListStep
        <5>2. PROCESSES # <<>>
          BY DEF Running
        <5>3. QED
          BY <1>4, <5>1, <5>2 DEF ListStep, Load, Start, Drop, Return, ShutDown, vars
      <4>6. QED
        BY <4>4, <4>5
    <3>2. Step
      BY <1>1, <1>6, TestStep
    <3>3. QED
      BY <1>1, <1>5, <2>3, <3>1, <3>2, StepKeepsOthers
  <2>4. QED
    BY <2>1, <2>2, <2>3
<1>7. CASE ~InTest(p)
  <2>1. AnyProgram
    <3>1. ~Step
      BY <1>1, <1>7 DEF Step, call, query, mmap, munmap, sbrk, trace_read, trace_write, expect,
           load, store, fault, keep_origin, exit, Performs, InTest
    <3>2. ~LoadProgram /\ ~Other(Start) /\ ~Other(ShutDown) /\ ~Other(Stopped)
      BY DEF LoadProgram, Load, Other, Start, ShutDown, Stopped, Running
    <3>3. QED
      BY <3>1, <3>2 DEF Next4
  <2>2. UNCHANGED <<image, pos, broken>>
    BY <2>1 DEF AnyProgram, programVars
  <2>3. CASE Drop
    <3>1. PROCESSES \in Seq(App) /\ PROCESSES # <<>>
      BY DEF Running, IInv4, IInv, TypeOK
    <3>2. PROCESSES' # PROCESSES
      BY <2>3, <3>1, HeadTailProperties, EmptySeq DEF Drop, Removed
    <3>3. Memory!End(Current)
      BY <2>1, <3>2 DEF AnyProgram
    <3>4. QED
      BY <2>2, <2>3, <3>3, EndPasses
  <2>4. CASE \E ret : Return(ret)
    <3>1. UNCHANGED <<mode, PROCESSES, alive>>
      BY <2>1, <2>4 DEF Return, AnyProgram, memoryVars
    <3>2. Current' = p
      BY <1>1, <3>1 DEF Current
    <3>3. \A q \in alive : q # p => FreshRow(q)'
      <4>1. \A q \in alive : q # p => FreshRow(q) /\ q \in App
        BY <1>1, AliveInApp DEF PassInv, WaitingFresh
      <4>2. QED
        BY <1>1, <2>1, <4>1, AnyProgramKeepsOthers, KeptFresh
    <3>4. WaitingFresh'
      BY <1>4, <3>1, <3>2, <3>3 DEF WaitingFresh
    <3>5. HeadPassing'
      <4>1. image'[p] = "any"
        BY <1>7, <2>2 DEF InTest
      <4>2. Passing(p, i)'
        BY <4>1 DEF Passing
      <4>3. \E j \in Int : p = Current' /\ j = pos'[p] /\ Passing(p, j)'
        BY <1>2, <2>2, <3>2, <4>2
      <4>4. QED
        BY <1>1, <4>3 DEF HeadPassing, App
    <3>6. QED
      BY <1>4, <2>2, <3>1, <3>4, <3>5 DEF PassInv, MemoryTestsPass, NothingRun
  <2>5. QED
    BY <2>1, <2>3, <2>4 DEF AnyProgram, AnyCall, Killed, EndByCall, other_call, sched_yield,
       trace_query
<1>8. QED
  BY <1>6, <1>7

LEMMA LoadPasses ==
    ASSUME IInv4, PassInv, LoadProgram
    PROVE  PassInv'
<1>1. /\ mode = "load" /\ mode' = "load" /\ loading \in App
      /\ UNCHANGED <<image, pos, broken, count>>
  BY DEF LoadProgram, Load, programVars
<1>2. PICK p \in App : p = loading
  BY <1>1
<1>3. pos[p] = 1 /\ count[p] = NoCalls
  BY <1>1 DEF PassInv, NothingRun
<1>4. \A q \in alive : FreshRow(q) /\ q \in App
  BY <1>1, AliveInApp DEF PassInv, WaitingFresh
<1>5. WaitingFresh'
  <2>1. CASE p \in accepted
    <3>1. FreshRow(p)' /\ Memory!from_elf(p, ElfEnd)
      BY <1>2, <1>3, <2>1, LoadedFresh DEF LoadProgram
    <3>2. \A q \in App : q # p => RowKept(q)
      BY <1>1, <3>1, RowsTyped DEF Memory!from_elf, Memory!BreakAtBottom, RowKept
    <3>3. \A q \in alive : q # p => FreshRow(q)'
      BY <1>4, <3>2, KeptFresh
    <3>4. alive' = alive \cup {p}
      BY <3>1 DEF Memory!from_elf
    <3>5. \A q \in alive' : FreshRow(q)'
      BY <3>1, <3>3, <3>4
    <3>6. QED
      BY <3>5 DEF WaitingFresh
  <2>2. CASE p \notin accepted
    <3>1. UNCHANGED memoryVars
      BY <1>2, <2>2 DEF LoadProgram
    <3>2. alive' = alive /\ \A q \in alive : RowKept(q)
      BY <1>1, <3>1 DEF memoryVars, RowKept
    <3>3. \A q \in alive' : FreshRow(q)'
      BY <1>4, <3>2, KeptFresh
    <3>4. QED
      BY <3>3 DEF WaitingFresh
  <2>3. QED
    BY <2>1, <2>2
<1>6. QED
  BY <1>1, <1>5 DEF PassInv, MemoryTestsPass, NothingRun, HeadPassing, Running, App, NoCalls

(* The last program is loaded, and the first one starts.                   *)
LEMMA StartPasses ==
    ASSUME IInv4, IInv4', PassInv, Other(Start)
    PROVE  PassInv'
<1>1. /\ mode = "load" /\ mode' = "run"
      /\ UNCHANGED <<pos, broken, count, programVars, memoryVars>>
  BY DEF Other, Start, programVars
<1>2. alive' = alive /\ \A q \in alive : FreshRow(q) /\ RowKept(q)
  BY <1>1 DEF PassInv, WaitingFresh, memoryVars, RowKept
<1>3. \A q \in alive' : FreshRow(q)'
  BY <1>2, KeptFresh
<1>4. HeadPassing'
  <2> SUFFICES ASSUME Running' PROVE HeadPassing'
    BY DEF HeadPassing
  <2>1. PICK p \in App : p = Current' /\ p \in alive'
    BY NextHead DEF IInv4, IInv
  <2>2. FreshRow(p)'
    BY <1>3, <2>1
  <2>3. pos'[p] = 1
    BY <2>2 DEF FreshRow
  <2>4. \E i \in Int : p = Current' /\ i = pos'[p] /\ FreshRow(p)'
    BY <2>1, <2>2, <2>3
  <2>5. QED
    BY <2>4 DEF HeadPassing, App
<1>5. QED
  BY <1>1, <1>3, <1>4 DEF PassInv, MemoryTestsPass, NothingRun, WaitingFresh

LEMMA RestPasses ==
    ASSUME IInv4, PassInv, Other(ShutDown) \/ Other(Stopped) \/ UNCHANGED allVars
    PROVE  PassInv'
<1>1. CASE Other(ShutDown) \/ Other(Stopped)
  <2>1. /\ mode # "load" /\ mode' = "shutdown"
        /\ UNCHANGED <<pos, broken, count, programVars, memoryVars, PROCESSES>>
    BY <1>1 DEF Other, ShutDown, Stopped, programVars, vars
  <2>2. alive' = alive /\ Current' = Current
        /\ \A q \in alive : q # Current => FreshRow(q) /\ RowKept(q)
    BY <2>1 DEF PassInv, WaitingFresh, memoryVars, RowKept, Current
  <2>3. \A q \in alive' : q # Current' => FreshRow(q)'
    BY <2>2, KeptFresh
  <2>4. QED
    BY <2>1, <2>3 DEF PassInv, MemoryTestsPass, NothingRun, WaitingFresh, HeadPassing, Running
<1>2. CASE UNCHANGED allVars
  <2>1. UNCHANGED <<vars, image, pos, origin_brk, broken, memoryVars>>
    BY <1>2 DEF allVars
  <2>2. UNCHANGED <<mode, PROCESSES, count, ctx, alive, pages, heap_bottom, program_brk, mem>>
    BY <2>1 DEF vars, memoryVars
  <2>3. alive' = alive /\ \A q : RowKept(q)
    BY <2>1, <2>2 DEF RowKept
  <2>4. WaitingFresh'
    <3>1. \A q \in alive : mode = "load" \/ q # Current => FreshRow(q)'
      BY <2>3, KeptFresh DEF PassInv, WaitingFresh
    <3>2. QED
      BY <2>2, <3>1 DEF WaitingFresh, Current
  <2>5. HeadPassing'
    <3> SUFFICES ASSUME Running' PROVE HeadPassing'
      BY DEF HeadPassing
    <3>1. Running
      BY <2>2 DEF Running
    <3>2. PICK p \in App, i \in Int : p = Current /\ i = pos[p] /\ (FreshRow(p) \/ Passing(p, i))
      BY <3>1 DEF PassInv, HeadPassing
    <3>3. Passing(p, i)
      <4>1. FreshRow(p) => i = 1
        BY <3>2 DEF FreshRow
      <4>2. QED
        BY <3>2, <4>1, FreshPasses
    <3>4. Passing(p, i)'
      <4>1. /\ \A S, rights : HasPages(p, S, rights)' <=> HasPages(p, S, rights)
            /\ \A v : Sees(p, v)' = Sees(p, v)
            /\ Answer(p)' = Answer(p) /\ count'[p] = count[p] /\ origin_brk'[p] = origin_brk[p]
            /\ image'[p] = image[p]
            /\ program_brk'[p] = program_brk[p] /\ heap_bottom'[p] = heap_bottom[p]
        BY <2>1, <2>2, SamePages DEF Answer
      <4>2. MmapAt(p, i) => MmapAt(p, i)'
        BY <4>1 DEF MmapAt
      <4>3. Mmap1At(p, i) => Mmap1At(p, i)'
        BY <4>1 DEF Mmap1At
      <4>4. Mmap2At(p, i) => Mmap2At(p, i)'
        BY <4>1 DEF Mmap2At
      <4>5. Mmap3At(p, i) => Mmap3At(p, i)'
        BY <4>1 DEF Mmap3At
      <4>6. UnmapAt(p, i) => UnmapAt(p, i)'
        BY <4>1 DEF UnmapAt, PageOfByte
      <4>7. Unmap2At(p, i) => Unmap2At(p, i)'
        BY <4>1 DEF Unmap2At
      <4>8. TraceAt(p, i) => TraceAt(p, i)'
        BY <4>1 DEF TraceAt
      <4>9. SbrkAt(p, i) => SbrkAt(p, i)'
        BY <4>1 DEF SbrkAt, Inner
      <4>10. Ch3TraceAt(p, i) => Ch3TraceAt(p, i)'
        BY <4>1 DEF Ch3TraceAt, Counters, FrontLength, Calls
      <4>11. QED
        BY <3>3, <4>1, <4>2, <4>3, <4>4, <4>5, <4>6, <4>7, <4>8, <4>9, <4>10 DEF Passing
    <3>5. \E j \in Int : p = Current' /\ j = pos'[p] /\ Passing(p, j)'
      BY <2>1, <2>2, <3>2, <3>4 DEF Current
    <3>6. QED
      BY <3>5 DEF HeadPassing, App
  <2>6. QED
    BY <2>1, <2>2, <2>4, <2>5 DEF PassInv, MemoryTestsPass, NothingRun
<1>3. QED
  BY <1>1, <1>2

LEMMA PassingKept == IInv4 /\ IInv4' /\ PassInv /\ [Next4]_allVars => PassInv'
<1> SUFFICES ASSUME IInv4, IInv4', PassInv, [Next4]_allVars PROVE PassInv'
  OBVIOUS
<1>1. CASE Next4 /\ Running
  BY <1>1, RunPasses
<1>2. CASE Next4 /\ ~Running
  <2>1. ~AnyProgram /\ ~Step
    BY <1>2 DEF AnyProgram, Step, call, query, mmap, munmap, sbrk, trace_read, trace_write, expect,
       load, store, fault, keep_origin, exit, Performs
  <2>2. QED
    BY <1>2, <2>1, LoadPasses, StartPasses, RestPasses DEF Next4
<1>3. CASE UNCHANGED allVars
  BY <1>3, RestPasses
<1>4. QED
  BY <1>1, <1>2, <1>3

(* Every memory test of os/tg-user sees the answers, the bytes and the     *)
(* counts it asserts, and is killed only where it is meant to be, for any  *)
(* image, any number of programs, and any sizes of pages and memory.       *)
THEOREM MemoryTestsCorrect == Spec4 => []MemoryTestsPass
<1>1. PassInv => MemoryTestsPass
  BY DEF PassInv
<1>2. QED
  BY <1>1, InitPasses, PassingKept, WholeInvariant, PTL DEF Spec4
==============================================================================
