------------------------- MODULE UserPrograms_proofs -------------------------
(***************************************************************************)
(* Proofs about the user programs, for any number of philosophers, slots,  *)
(* producers, adders, children, tests, lines and bytes.                    *)
(***************************************************************************)
EXTENDS MCUserPrograms, SequenceFacts, FiniteSetTheorems

-----------------------------------------------------------------------------
(*                        Loops whose rounds are alike                     *)

LEMMA TimesClosed ==
    ASSUME NEW C, <<>> \in C, \A s, t \in C : s \o t \in C, NEW n \in Nat, NEW s \in C
    PROVE  Times(n, s) \in C
<1>1. [i \in 1..n |-> s] \in [1..n -> C]
  OBVIOUS
<1>2. QED
  BY <1>1, FlattenClosed DEF Times

LEMMA TimesTyped ==
    ASSUME NEW S, NEW n \in Nat, NEW s \in Seq(S)
    PROVE  Times(n, s) \in Seq(S)
<1>1. [i \in 1..n |-> s] \in [1..n -> Seq(S)]
  OBVIOUS
<1>2. QED
  BY <1>1, FlattenTyped DEF Times

-----------------------------------------------------------------------------
(*                  The instructions of the processes                      *)

(* Programs the usertests run, and those other programs spawn.             *)
Given == {TESTS[k] : k \in 1..TestCount}

Spawned == Given \cup {"ch5_stride", "any", "ch5_getpid", "ch5_exit0", "ch5_exit1"}

Claims == {"pid", "status", "child", "none", "got", "unreachable"}

(* After a straight instruction its process goes on to the next one, or    *)
(* ends.                                                                   *)
Straight ==
    {<<"spawn", x>> : x \in Spawned}
    \cup {<<"exec", x>> : x \in Given \cup {"line"}}
    \cup {<<"waitpid", k>> : k \in Nat}
    \cup {<<"assert", what, x>> : what \in Claims, x \in Int}
    \cup {<<"exit", c>> : c \in Int}
    \cup {<<"wait">>, <<"any">>}

Jumps ==
    {<<"fork", n>> : n \in Nat} \cup {<<"getline", n>> : n \in Nat} \cup {<<"while_child">>}

PipeCalls ==
    {<<"pipe", q>> : q \in 1..2}
    \cup {<<"close", q, e>> : q \in 1..2, e \in {"r", "w"}}
    \cup {<<"read", q, n>> : q \in 1..2, n \in Nat}
    \cup {<<"write", q, n>> : q \in 1..2, n \in Nat}

(* How far on the process that takes an instruction goes, or its child.    *)
Offsets(op) ==
    CASE op[1] \in {"exit", "any"} -> {}
      [] op[1] \in {"fork", "getline"} -> {1, op[2]}
      [] op[1] = "while_child" -> {-1, 1}
      [] op[1] = "down" -> {1, IF op[3] = 0 THEN 1 ELSE op[3]}
      [] op[1] = "test" -> {1, 2}
      [] OTHER -> {1}

(* Sequences of instructions from S that are left at their end only.       *)
Blocks(S) ==
    {s \in Seq(S) : \A k \in 1..Len(s) : \A o \in Offsets(s[k]) :
                        o \in Int /\ k + o \in 1..Len(s) + 1}

(* Those that are not left at all.                                         *)
Wholes(S) ==
    {s \in Blocks(S) : /\ Len(s) > 0
                       /\ \A k \in 1..Len(s) : \A o \in Offsets(s[k]) : k + o \in 1..Len(s)}

LEMMA BlocksClosed ==
    ASSUME NEW S
    PROVE  <<>> \in Blocks(S) /\ \A s, t \in Blocks(S) : s \o t \in Blocks(S)
<1>1. <<>> \in Blocks(S)
  BY EmptySeq DEF Blocks
<1>2. ASSUME NEW s \in Blocks(S), NEW t \in Blocks(S)
      PROVE  s \o t \in Blocks(S)
  <2>1. s \in Seq(S) /\ t \in Seq(S) /\ Len(s) \in Nat /\ Len(t) \in Nat
    BY DEF Blocks
  <2>2. /\ s \o t \in Seq(S) /\ Len(s \o t) = Len(s) + Len(t)
        /\ \A k \in 1..Len(s) + Len(t) : (s \o t)[k] = IF k <= Len(s) THEN s[k] ELSE t[k - Len(s)]
    BY <2>1, ConcatProperties
  <2>3. ASSUME NEW k \in 1..Len(s) + Len(t), NEW o \in Offsets((s \o t)[k])
        PROVE  o \in Int /\ k + o \in 1..Len(s) + Len(t) + 1
    <3>1. CASE k <= Len(s)
      <4>1. k \in 1..Len(s) /\ o \in Offsets(s[k])
        BY <2>1, <2>2, <3>1
      <4>2. o \in Int /\ k + o \in 1..Len(s) + 1
        BY <4>1 DEF Blocks
      <4>3. QED
        BY <2>1, <4>2
    <3>2. CASE ~(k <= Len(s))
      <4> DEFINE m == k - Len(s)
      <4>1. m \in 1..Len(t) /\ o \in Offsets(t[m])
        BY <2>1, <2>2, <3>2
      <4>2. o \in Int /\ m + o \in 1..Len(t) + 1
        BY <4>1 DEF Blocks
      <4>3. QED
        BY <2>1, <4>2
    <3>3. QED
      BY <3>1, <3>2
  <2>4. \A k \in 1..Len(s \o t) : \A o \in Offsets((s \o t)[k]) :
            o \in Int /\ k + o \in 1..Len(s \o t) + 1
    BY <2>2, <2>3
  <2>5. QED
    BY <2>2, <2>4 DEF Blocks
<1>3. QED
  BY <1>1, <1>2

LEMMA ConcatWhole ==
    ASSUME NEW S, NEW s \in Blocks(S), NEW t \in Wholes(S)
    PROVE  s \o t \in Wholes(S)
<1>1. s \in Seq(S) /\ t \in Seq(S) /\ Len(s) \in Nat /\ Len(t) \in Nat /\ t \in Blocks(S)
  BY DEF Blocks, Wholes
<1>2. /\ s \o t \in Blocks(S) /\ Len(s \o t) = Len(s) + Len(t)
      /\ \A k \in 1..Len(s) + Len(t) : (s \o t)[k] = IF k <= Len(s) THEN s[k] ELSE t[k - Len(s)]
  BY <1>1, BlocksClosed, ConcatProperties
<1>3. Len(t) > 0
  BY DEF Wholes
<1>4. ASSUME NEW k \in 1..Len(s) + Len(t), NEW o \in Offsets((s \o t)[k])
      PROVE  k + o \in 1..Len(s) + Len(t)
  <2>1. CASE k <= Len(s)
    <3>1. k \in 1..Len(s) /\ o \in Offsets(s[k])
      BY <1>1, <1>2, <2>1
    <3>2. o \in Int /\ k + o \in 1..Len(s) + 1
      BY <3>1 DEF Blocks
    <3>3. QED
      BY <1>1, <1>3, <3>2
  <2>2. CASE ~(k <= Len(s))
    <3> DEFINE m == k - Len(s)
    <3>1. m \in 1..Len(t) /\ o \in Offsets(t[m])
      BY <1>1, <1>2, <2>2
    <3>2. o \in Int /\ m + o \in 1..Len(t)
      BY <1>1, <3>1 DEF Blocks, Wholes
    <3>3. QED
      BY <1>1, <3>2
  <2>3. QED
    BY <2>1, <2>2
<1>5. \A k \in 1..Len(s \o t) : \A o \in Offsets((s \o t)[k]) : k + o \in 1..Len(s \o t)
  BY <1>2, <1>4
<1>6. Len(s \o t) > 0
  BY <1>1, <1>2, <1>3
<1>7. QED
  BY <1>2, <1>5, <1>6 DEF Wholes

LEMMA StraightFacts ==
    ASSUME NEW op \in Straight \cup PipeCalls
    PROVE  op[1] \notin {"fork", "getline", "while_child"} /\ Offsets(op) \subseteq {1}
<1>1. op[1] \in {"spawn", "exec", "waitpid", "assert", "exit", "wait", "any", "pipe", "close",
                 "read", "write"}
  BY DEF Straight, PipeCalls
<1>2. QED
  BY <1>1 DEF Offsets

(* What a process goes through from one end to the other, and what ends it. *)
LEMMA StraightBlocks ==
    ASSUME NEW S, NEW s \in Seq(S), \A k \in 1..Len(s) : s[k] \in Straight \cup PipeCalls
    PROVE  /\ s \in Blocks(S)
           /\ Len(s) > 0 /\ s[Len(s)][1] \in {"exit", "any"} => s \in Wholes(S)
<1>1. \A k \in 1..Len(s) : Offsets(s[k]) \subseteq {1}
  BY StraightFacts
<1>2. Len(s) \in Nat
  OBVIOUS
<1>3. s \in Blocks(S)
  <2>1. \A k \in 1..Len(s) : \A o \in Offsets(s[k]) : o = 1
    BY <1>1
  <2>2. \A k \in 1..Len(s) : 1 \in Int /\ k + 1 \in 1..Len(s) + 1
    BY <1>2
  <2>3. QED
    BY <2>1, <2>2 DEF Blocks
<1>4. ASSUME Len(s) > 0, s[Len(s)][1] \in {"exit", "any"}
      PROVE  s \in Wholes(S)
  <2>1. Offsets(s[Len(s)]) = {}
    BY <1>4 DEF Offsets
  <2>2. ASSUME NEW k \in 1..Len(s), NEW o \in Offsets(s[k]) PROVE k + o \in 1..Len(s)
    <3>1. k # Len(s) /\ o = 1
      BY <1>1, <2>1, <2>2
    <3>2. QED
      BY <1>2, <3>1
  <2>3. QED
    BY <1>3, <1>4, <2>2 DEF Wholes
<1>5. QED
  BY <1>3, <1>4

Instructions == Straight \cup Jumps

LEMMA FirstThen ==
    ASSUME NEW S, NEW op \in S, NEW s \in Seq(S)
    PROVE  /\ <<op>> \o s \in Seq(S) /\ Len(<<op>> \o s) = Len(s) + 1
           /\ (<<op>> \o s)[1] = op
           /\ \A k \in 1..Len(s) : (<<op>> \o s)[k + 1] = s[k]
<1> DEFINE t == <<op>>
<1>1. t \in Seq(S) /\ Len(t) = 1 /\ t[1] = op /\ Len(s) \in Nat
  OBVIOUS
<1> HIDE DEF t
<1>2. /\ t \o s \in Seq(S) /\ Len(t \o s) = Len(t) + Len(s)
      /\ \A k \in 1..Len(t) + Len(s) : (t \o s)[k] = IF k <= Len(t) THEN t[k] ELSE s[k - Len(t)]
  BY <1>1, ConcatProperties
<1>3. \A k \in 1..Len(s) : (t \o s)[k + 1] = s[k]
  <2> SUFFICES ASSUME NEW k \in 1..Len(s) PROVE (t \o s)[k + 1] = s[k]
    OBVIOUS
  <2>1. k + 1 \in 1..Len(t) + Len(s) /\ ~(k + 1 <= Len(t)) /\ k + 1 - Len(t) = k
    BY <1>1
  <2>2. QED
    BY <1>2, <2>1
<1>4. (t \o s)[1] = op
  BY <1>1, <1>2
<1>5. QED
  BY <1>1, <1>2, <1>3, <1>4 DEF t

LEMMA ForkBlock ==
    ASSUME NEW S, \A n \in Nat : <<"fork", n>> \in S, NEW body \in Blocks(S)
    PROVE  /\ Fork(body) \in Blocks(S) /\ Len(Fork(body)) = Len(body) + 1
           /\ Fork(body)[1] = <<"fork", Len(body) + 1>>
           /\ \A k \in 1..Len(body) : Fork(body)[k + 1] = body[k]
<1> DEFINE n == Len(body) + 1
           f == Fork(body)
<1>1. body \in Seq(S) /\ Len(body) \in Nat /\ n \in Nat
  BY DEF Blocks
<1>2. /\ f \in Seq(S) /\ Len(f) = n /\ f[1] = <<"fork", n>>
      /\ \A k \in 1..Len(body) : f[k + 1] = body[k]
  <2> DEFINE op == <<"fork", n>>
  <2>1. op \in S /\ f = <<op>> \o body
    BY <1>1 DEF Fork
  <2> HIDE DEF op, f
  <2>2. QED
    BY <1>1, <2>1, FirstThen DEF op
<1> HIDE DEF f
<1>3. ASSUME NEW k \in 1..n, NEW o \in Offsets(f[k])
      PROVE  o \in Int /\ k + o \in 1..n + 1
  <2>1. CASE k = 1
    <3>1. o \in {1, n}
      BY <1>2, <1>3, <2>1 DEF Offsets
    <3>2. QED
      BY <1>1, <2>1, <3>1
  <2>2. CASE k # 1
    <3> DEFINE m == k - 1
    <3>1. m \in 1..Len(body) /\ m + 1 = k
      BY <1>1, <2>2
    <3>2. o \in Offsets(body[m])
      BY <1>2, <1>3, <3>1
    <3>3. o \in Int /\ m + o \in 1..Len(body) + 1
      BY <3>1, <3>2 DEF Blocks
    <3>4. QED
      BY <1>1, <3>3
  <2>3. QED
    BY <2>1, <2>2
<1>4. f \in Blocks(S)
  BY <1>2, <1>3 DEF Blocks
<1>5. QED
  BY <1>2, <1>4 DEF f

LEMMA InstructionsFacts ==
    /\ \A x \in Spawned : Spawn(x) \in Instructions /\ Spawn(x) \in Straight
    /\ \A x \in Given \cup {"line"} : Exec(x) \in Instructions /\ Exec(x) \in Straight
    /\ \A k \in Nat : WaitPid(k) \in Instructions /\ WaitPid(k) \in Straight
    /\ \A what \in Claims, x \in Int :
          Check(what, x) \in Instructions /\ Check(what, x) \in Straight
    /\ \A c \in Int : Exit(c) \in Instructions /\ Exit(c) \in Straight
    /\ Wait \in Instructions /\ Wait \in Straight
    /\ <<"any">> \in Instructions /\ <<"any">> \in Straight
    /\ \A n \in Nat : <<"fork", n>> \in Instructions /\ <<"getline", n>> \in Instructions
    /\ <<"while_child">> \in Instructions
BY DEF Instructions, Straight, Jumps, Spawn, Exec, WaitPid, Check, Exit, Wait

(* A straight piece of a program, and one that ends it.                    *)
LEMMA Piece ==
    ASSUME NEW s \in Seq(Straight)
    PROVE  /\ s \in Blocks(Instructions)
           /\ Len(s) > 0 /\ s[Len(s)][1] \in {"exit", "any"} => s \in Wholes(Instructions)
<1>1. s \in Seq(Instructions) /\ \A k \in 1..Len(s) : s[k] \in Straight \cup PipeCalls
  BY DEF Instructions
<1>2. QED
  BY <1>1, StraightBlocks

LEMMA EndPiece ==
    ASSUME NEW s \in Seq(Straight), NEW n \in Nat \ {0}, Len(s) = n, s[n][1] \in {"exit", "any"}
    PROVE  s \in Wholes(Instructions)
<1>1. Len(s) > 0 /\ s[Len(s)][1] \in {"exit", "any"}
  OBVIOUS
<1>2. QED
  BY <1>1, Piece

LEMMA ForkPiece ==
    ASSUME NEW s \in Blocks(Instructions)
    PROVE  Fork(s) \in Blocks(Instructions)
BY ForkBlock, InstructionsFacts

LEMMA TimesPiece ==
    ASSUME NEW n \in Nat, NEW s \in Blocks(Instructions)
    PROVE  Times(n, s) \in Blocks(Instructions)
<1> DEFINE C == Blocks(Instructions)
<1>1. <<>> \in C /\ \A t, u \in C : t \o u \in C
  BY BlocksClosed
<1> HIDE DEF C
<1>2. QED
  BY <1>1, TimesClosed DEF C

LEMMA EachPiece ==
    ASSUME NEW n \in Nat, NEW seqs \in [1..n -> Blocks(Instructions)]
    PROVE  FlattenSeq(seqs) \in Blocks(Instructions)
<1> DEFINE C == Blocks(Instructions)
<1>1. <<>> \in C /\ \A t, u \in C : t \o u \in C
  BY BlocksClosed
<1>2. seqs \in [1..n -> C]
  OBVIOUS
<1> HIDE DEF C
<1>3. QED
  BY <1>1, <1>2, FlattenClosed DEF C

LEMMA JoinPieces ==
    ASSUME NEW s \in Blocks(Instructions)
    PROVE  /\ \A t \in Blocks(Instructions) : s \o t \in Blocks(Instructions)
           /\ \A t \in Wholes(Instructions) : s \o t \in Wholes(Instructions)
BY BlocksClosed, ConcatWhole

LEMMA ExitPieces ==
    \A c \in Int : <<Exit(c)>> \in Blocks(Instructions) /\ <<Exit(c)>> \in Wholes(Instructions)
<1> SUFFICES ASSUME NEW c \in Int
             PROVE  <<Exit(c)>> \in Blocks(Instructions) /\ <<Exit(c)>> \in Wholes(Instructions)
  OBVIOUS
<1>1. <<Exit(c)>> \in Seq(Straight)
  BY InstructionsFacts
<1>2. Len(<<Exit(c)>>) > 0 /\ <<Exit(c)>>[Len(<<Exit(c)>>)][1] \in {"exit", "any"}
  BY DEF Exit
<1>3. QED
  BY <1>1, <1>2, Piece

-----------------------------------------------------------------------------
(*                  The programs of the processes                          *)

LEMMA InitprocWhole == initproc \in Wholes(Instructions)
<1> DEFINE child == <<Exec("line"), Exit(0)>>
           loop == <<Wait, <<"while_child">>, Exit(0)>>
<1>1. child \in Seq(Straight)
  BY InstructionsFacts
<1>2. Fork(child) \in Blocks(Instructions)
  BY <1>1, Piece, ForkPiece
<1>3. loop \in Wholes(Instructions)
  <2>1. loop \in Seq(Instructions) /\ Len(loop) = 3
    BY InstructionsFacts
  <2>2. /\ Offsets(loop[1]) = {1} /\ Offsets(loop[2]) = {-1, 1} /\ Offsets(loop[3]) = {}
    BY DEF Offsets, Wait, Exit
  <2> HIDE DEF loop
  <2>3. \A k \in 1..3 : \A o \in Offsets(loop[k]) : o \in Int /\ k + o \in 1..3
    <3>1. \A k \in 1..3 : k = 1 \/ k = 2 \/ k = 3
      OBVIOUS
    <3>2. QED
      BY <2>2, <3>1
  <2>4. \A k \in 1..3 : \A o \in Offsets(loop[k]) : k + o \in 1..3 + 1
    BY <2>3
  <2>5. loop \in Blocks(Instructions)
    BY <2>1, <2>3, <2>4 DEF Blocks
  <2>6. \A k \in 1..Len(loop) : \A o \in Offsets(loop[k]) : k + o \in 1..Len(loop)
    BY <2>1, <2>3
  <2>7. Len(loop) > 0
    BY <2>1
  <2>8. QED
    BY <2>5, <2>6, <2>7, Zenon DEF Wholes
<1>4. QED
  BY <1>2, <1>3, JoinPieces DEF initproc

(* A line of the shell: the prompt, and the command it runs.               *)
ShellCommand == Fork(<<Exec("line"), Exit(-4)>>) \o <<WaitPid(0), Check("pid", 0)>>

ShellLine == <<<<"getline", Len(ShellCommand) + 1>>>> \o ShellCommand

LEMMA ShellLineBlock ==
    /\ ShellLine \in Blocks(Instructions) /\ Len(ShellLine) = 6
    /\ ShellLine[1] = <<"getline", 6>> /\ ShellLine[2] = <<"fork", 3>>
    /\ \A k \in 2..6 : ShellLine[k][1] # "getline"
<1> DEFINE child == <<Exec("line"), Exit(-4)>>
           rest == <<WaitPid(0), Check("pid", 0)>>
           forked == Fork(child)
<1>1. /\ child \in Seq(Straight) /\ Len(child) = 2
      /\ child[1] = Exec("line") /\ child[2] = Exit(-4)
  BY InstructionsFacts
<1>2. /\ rest \in Seq(Straight) /\ Len(rest) = 2
      /\ rest[1] = WaitPid(0) /\ rest[2] = Check("pid", 0)
  BY InstructionsFacts DEF Claims
<1> HIDE DEF child, rest
<1>3. /\ forked \in Blocks(Instructions) /\ forked \in Seq(Instructions) /\ Len(forked) = 3
      /\ forked[1] = <<"fork", 3>> /\ forked[2] = Exec("line") /\ forked[3] = Exit(-4)
  <2>1. child \in Blocks(Instructions)
    BY <1>1, Piece
  <2>2. /\ forked \in Blocks(Instructions) /\ Len(forked) = 3 /\ forked[1] = <<"fork", 3>>
        /\ \A k \in 1..2 : forked[k + 1] = child[k]
    <3>1. /\ forked \in Blocks(Instructions) /\ Len(forked) = Len(child) + 1
          /\ forked[1] = <<"fork", Len(child) + 1>>
          /\ \A k \in 1..Len(child) : forked[k + 1] = child[k]
      BY <2>1, ForkBlock, InstructionsFacts
    <3>2. Len(child) + 1 = 3
      BY <1>1
    <3> HIDE DEF forked
    <3>3. QED
      BY <1>1, <3>1, <3>2
  <2> HIDE DEF forked
  <2>3. forked[1 + 1] = child[1] /\ forked[2 + 1] = child[2]
    BY <2>2
  <2>4. QED
    BY <1>1, <2>2, <2>3 DEF Blocks
<1>4. ShellCommand = forked \o rest
  BY DEF ShellCommand, child, rest
<1> HIDE DEF forked
<1>5. /\ ShellCommand \in Blocks(Instructions) /\ Len(ShellCommand) = 5
      /\ ShellCommand[1] = <<"fork", 3>> /\ ShellCommand[2] = Exec("line")
      /\ ShellCommand[3] = Exit(-4) /\ ShellCommand[4] = WaitPid(0)
      /\ ShellCommand[5] = Check("pid", 0)
  <2>1. ShellCommand \in Blocks(Instructions)
    BY <1>2, <1>3, <1>4, Piece, JoinPieces
  <2>2. rest \in Seq(Instructions)
    BY <1>2 DEF Instructions
  <2>3. /\ Len(ShellCommand) = 5
        /\ \A k \in 1..5 : ShellCommand[k] = IF k <= 3 THEN forked[k] ELSE rest[k - 3]
    <3>1. /\ Len(forked \o rest) = Len(forked) + Len(rest)
          /\ \A k \in 1..Len(forked) + Len(rest) :
                (forked \o rest)[k] = IF k <= Len(forked) THEN forked[k] ELSE rest[k - Len(forked)]
      BY <1>3, <2>2, ConcatProperties
    <3>2. Len(forked) + Len(rest) = 5
      BY <1>2, <1>3
    <3>3. QED
      BY <1>3, <1>4, <3>1, <3>2
  <2>4. QED
    BY <1>2, <1>3, <2>1, <2>3
<1>6. /\ ShellLine \in Seq(Instructions) /\ Len(ShellLine) = 6
      /\ ShellLine[1] = <<"getline", 6>>
      /\ \A k \in 1..5 : ShellLine[k + 1] = ShellCommand[k]
  <2> DEFINE op == <<"getline", 6>>
  <2>1. op \in Instructions /\ ShellLine = <<op>> \o ShellCommand
    <3>1. Len(ShellCommand) + 1 = 6
      BY <1>5
    <3>2. ShellLine = <<<<"getline", 6>>>> \o ShellCommand
      BY <3>1 DEF ShellLine
    <3>3. QED
      BY <3>2, InstructionsFacts
  <2>2. ShellCommand \in Seq(Instructions)
    BY <1>5 DEF Blocks
  <2> HIDE DEF op
  <2>3. /\ ShellLine \in Seq(Instructions) /\ Len(ShellLine) = Len(ShellCommand) + 1
        /\ ShellLine[1] = op
        /\ \A k \in 1..Len(ShellCommand) : ShellLine[k + 1] = ShellCommand[k]
    BY <2>1, <2>2, FirstThen
  <2>4. QED
    BY <1>5, <2>3 DEF op
<1>7. /\ ShellLine[2] = <<"fork", 3>> /\ ShellLine[3] = Exec("line")
      /\ ShellLine[4] = Exit(-4) /\ ShellLine[5] = WaitPid(0) /\ ShellLine[6] = Check("pid", 0)
  <2>1. /\ ShellLine[1 + 1] = ShellCommand[1] /\ ShellLine[2 + 1] = ShellCommand[2]
        /\ ShellLine[3 + 1] = ShellCommand[3] /\ ShellLine[4 + 1] = ShellCommand[4]
        /\ ShellLine[5 + 1] = ShellCommand[5]
    BY <1>6
  <2>2. QED
    BY <1>5, <2>1
<1>8. ShellLine \in Blocks(Instructions)
  <2>1. Offsets(ShellLine[1]) = {1, 6} /\ Offsets(ShellLine[2]) = {1, 3}
    BY <1>6, <1>7 DEF Offsets
  <2>2. \A k \in 3..6 : Offsets(ShellLine[k]) \subseteq {1}
    <3>1. \A k \in 3..6 : ShellLine[k] \in Straight
      <4>1. \A k \in 3..6 : k = 3 \/ k = 4 \/ k = 5 \/ k = 6
        OBVIOUS
      <4>2. QED
        BY <1>7, <4>1, InstructionsFacts DEF Claims
    <3>2. QED
      BY <3>1, StraightFacts
  <2>3. \A k \in 1..6 : \A o \in Offsets(ShellLine[k]) : o \in Int /\ k + o \in 1..7
    <3>1. \A k \in 1..6 : k = 1 \/ k = 2 \/ k \in 3..6
      OBVIOUS
    <3>2. QED
      BY <2>1, <2>2, <3>1
  <2>4. \A k \in 1..6 : \A o \in Offsets(ShellLine[k]) : o \in Int /\ k + o \in 1..6 + 1
    BY <2>3
  <2>5. QED
    BY <1>6, <2>4 DEF Blocks
<1>9. \A k \in 2..6 : ShellLine[k][1] # "getline"
  <2>1. \A k \in 2..6 : k = 2 \/ k = 3 \/ k = 4 \/ k = 5 \/ k = 6
    OBVIOUS
  <2>2. QED
    BY <1>7, <2>1 DEF Exec, Exit, WaitPid, Check
<1>10. QED
  BY <1>6, <1>7, <1>8, <1>9

LEMMA Counts ==
    /\ TestCount \in Nat /\ MAX_CHILD \in Nat /\ CommandCount \in Nat /\ DEPTH \in Nat
    /\ \A k \in 1..TestCount : TESTS[k] \in Given
    /\ Given \subseteq STRING /\ 2 \in Nat
    /\ STR_LEN \in Nat /\ SUM_LEN \in Nat /\ LENGTH \in Nat /\ BUFFER_LEN \in Nat
    /\ PipeSize \in Nat
<1>1. TESTS \in Seq(STRING) /\ BUFFER_LEN \in Nat
  BY ProcessAssumption
<1>2. QED
  BY <1>1, ProcessAssumption DEF TestCount, Given

(* The straight pieces the programs are made of.                           *)
LEMMA SmallPieces ==
    /\ <<Wait, Check("child", 0)>> \in Blocks(Instructions)
    /\ <<Wait, Check("child", 0), Check("status", 0)>> \in Blocks(Instructions)
    /\ <<Wait, Wait>> \in Blocks(Instructions)
    /\ \A k \in Nat : <<WaitPid(k), Check("pid", k)>> \in Blocks(Instructions)
    /\ \A x \in Spawned : <<Spawn(x)>> \in Blocks(Instructions)
    /\ \A x \in Given, k \in Nat :
          <<Spawn(x), WaitPid(k), Check("pid", k)>> \in Blocks(Instructions)
    /\ \A x \in Given : <<Exec(x), Check("unreachable", 0)>> \in Blocks(Instructions)
<1>1. /\ <<Wait, Check("child", 0)>> \in Seq(Straight)
      /\ <<Wait, Check("child", 0), Check("status", 0)>> \in Seq(Straight)
      /\ <<Wait, Wait>> \in Seq(Straight)
  BY InstructionsFacts DEF Claims
<1>2. /\ \A k \in Nat : <<WaitPid(k), Check("pid", k)>> \in Seq(Straight)
      /\ \A x \in Spawned : <<Spawn(x)>> \in Seq(Straight)
  BY InstructionsFacts DEF Claims
<1>3. /\ \A x \in Given, k \in Nat : <<Spawn(x), WaitPid(k), Check("pid", k)>> \in Seq(Straight)
      /\ \A x \in Given : <<Exec(x), Check("unreachable", 0)>> \in Seq(Straight)
  BY InstructionsFacts DEF Claims, Spawned
<1>4. \A s \in Seq(Straight) : s \in Blocks(Instructions)
  BY Piece
<1>5. QED
  BY <1>1, <1>2, <1>3, <1>4

LEMMA EndPieces ==
    /\ <<Wait, Check("none", 0), Exit(0)>> \in Wholes(Instructions)
    /\ <<Wait, Wait, Exit(0)>> \in Wholes(Instructions)
    /\ <<Spawn("ch5_stride"), WaitPid(0), Check("pid", 0), Exit(0)>> \in Wholes(Instructions)
    /\ <<<<"any">>>> \in Wholes(Instructions)
<1>1. /\ <<Wait, Check("none", 0), Exit(0)>> \in Seq(Straight)
      /\ <<Wait, Wait, Exit(0)>> \in Seq(Straight)
      /\ <<Spawn("ch5_stride"), WaitPid(0), Check("pid", 0), Exit(0)>> \in Seq(Straight)
      /\ <<<<"any">>>> \in Seq(Straight)
  BY InstructionsFacts DEF Claims, Spawned
<1>2. /\ <<Wait, Check("none", 0), Exit(0)>> \in Wholes(Instructions)
      /\ <<Wait, Wait, Exit(0)>> \in Wholes(Instructions)
  <2> DEFINE s == <<Wait, Check("none", 0), Exit(0)>>
             t == <<Wait, Wait, Exit(0)>>
  <2>1. /\ 3 \in Nat \ {0} /\ Len(s) = 3 /\ s[3][1] = "exit" /\ Len(t) = 3 /\ t[3][1] = "exit"
    BY DEF Exit
  <2>2. s \in Seq(Straight) /\ t \in Seq(Straight)
    BY <1>1
  <2> HIDE DEF s, t
  <2>3. s \in Wholes(Instructions) /\ t \in Wholes(Instructions)
    BY <2>1, <2>2, EndPiece
  <2>4. QED
    BY <2>3 DEF s, t
<1>3. /\ <<Spawn("ch5_stride"), WaitPid(0), Check("pid", 0), Exit(0)>> \in Wholes(Instructions)
      /\ <<<<"any">>>> \in Wholes(Instructions)
  <2> DEFINE s == <<Spawn("ch5_stride"), WaitPid(0), Check("pid", 0), Exit(0)>>
             t == <<<<"any">>>>
  <2>1. /\ 4 \in Nat \ {0} /\ Len(s) = 4 /\ s[4][1] = "exit"
        /\ 1 \in Nat \ {0} /\ Len(t) = 1 /\ t[1][1] = "any"
    BY DEF Exit
  <2>2. s \in Seq(Straight) /\ t \in Seq(Straight)
    BY <1>1
  <2> HIDE DEF s, t
  <2>3. s \in Wholes(Instructions) /\ t \in Wholes(Instructions)
    BY <2>1, <2>2, EndPiece
  <2>4. QED
    BY <2>3 DEF s, t
<1>4. QED
  BY <1>2, <1>3

LEMMA UsertestsWhole ==
    /\ ch5_usertest \in Wholes(Instructions) /\ ch6_usertest \in Wholes(Instructions)
    /\ ch8_usertest \in Wholes(Instructions) /\ ch5_stride \in Wholes(Instructions)
<1> DEFINE n == TestCount
           starts == [k \in 1..n |-> <<Spawn(TESTS[k])>>]
           waits(m) == [k \in 1..m |-> <<WaitPid(k), Check("pid", k)>>]
           both == [k \in 1..n |-> <<Spawn(TESTS[k]), WaitPid(k), Check("pid", k)>>]
           forks == [k \in 1..n |-> Fork(<<Exec(TESTS[k]), Check("unreachable", 0)>>)]
<1>1. /\ starts \in [1..n -> Blocks(Instructions)] /\ both \in [1..n -> Blocks(Instructions)]
      /\ forks \in [1..n -> Blocks(Instructions)]
  <2>1. \A k \in 1..n : k \in Nat /\ TESTS[k] \in Given /\ TESTS[k] \in Spawned
    BY Counts DEF Spawned
  <2>2. QED
    BY <2>1, SmallPieces, ForkPiece
<1>2. \A m \in Nat : waits(m) \in [1..m -> Blocks(Instructions)]
  <2>1. \A m \in Nat : \A k \in 1..m : k \in Nat
    OBVIOUS
  <2>2. QED
    BY <2>1, SmallPieces
<1>3. /\ FlattenSeq(starts) \in Blocks(Instructions) /\ FlattenSeq(both) \in Blocks(Instructions)
      /\ FlattenSeq(forks) \in Blocks(Instructions)
      /\ \A m \in Nat : FlattenSeq(waits(m)) \in Blocks(Instructions)
  BY <1>1, <1>2, EachPiece, Counts
<1> HIDE DEF starts, waits, both, forks
<1>4. ch5_usertest \in Wholes(Instructions)
  <2>1. ch5_usertest = (FlattenSeq(starts) \o FlattenSeq(waits(n)))
                       \o <<Spawn("ch5_stride"), WaitPid(0), Check("pid", 0), Exit(0)>>
    BY DEF ch5_usertest, ForEach, starts, waits
  <2>2. QED
    BY <1>3, <2>1, EndPieces, JoinPieces, Counts
<1>5. ch8_usertest \in Wholes(Instructions)
  <2>1. ch8_usertest = (FlattenSeq(forks) \o FlattenSeq(waits(n))) \o <<Exit(0)>>
    BY DEF ch8_usertest, ForEach, forks, waits
  <2>2. QED
    BY <1>3, <2>1, ExitPieces, JoinPieces, Counts
<1>6. ch6_usertest \in Wholes(Instructions)
  <2>1. ch6_usertest = FlattenSeq(both) \o <<Exit(0)>>
    BY DEF ch6_usertest, ForEach, both
  <2>2. QED
    BY <1>3, <2>1, ExitPieces, JoinPieces
<1>7. ch5_stride \in Wholes(Instructions)
  <2>1. ch5_stride = (Times(2, <<Spawn("any")>>) \o FlattenSeq(waits(2))) \o <<Exit(0)>>
    BY DEF ch5_stride, ForEach, waits
  <2>2. Times(2, <<Spawn("any")>>) \in Blocks(Instructions)
    BY SmallPieces, TimesPiece DEF Spawned
  <2>3. FlattenSeq(waits(2)) \in Blocks(Instructions)
    BY <1>3, Counts
  <2>4. QED
    BY <2>1, <2>2, <2>3, ExitPieces, JoinPieces
<1>8. QED
  BY <1>4, <1>5, <1>6, <1>7

LEMMA ForktestsWhole ==
    /\ forktest \in Wholes(Instructions) /\ forktest2 \in Wholes(Instructions)
    /\ matrix \in Wholes(Instructions) /\ spawn0 \in Wholes(Instructions)
<1>1. Times(MAX_CHILD, Fork(<<Exit(0)>>)) \in Blocks(Instructions)
  BY ExitPieces, ForkPiece, TimesPiece, Counts
<1>2. /\ Times(MAX_CHILD, <<Wait, Check("child", 0)>>) \in Blocks(Instructions)
      /\ Times(MAX_CHILD, <<Wait, Check("child", 0), Check("status", 0)>>) \in Blocks(Instructions)
      /\ Times(MAX_CHILD, <<Spawn("ch5_getpid")>>) \in Blocks(Instructions)
  <2>1. <<Spawn("ch5_getpid")>> \in Blocks(Instructions)
    BY SmallPieces DEF Spawned
  <2>2. QED
    BY <2>1, SmallPieces, TimesPiece, Counts
<1>3. QED
  BY <1>1, <1>2, EndPieces, JoinPieces DEF forktest, forktest2, matrix, spawn0

(* The tree of a depth, for each depth below n.                            *)
Trees(f, n) ==
    f = [d \in 0..n |->
            (IF d = 0 THEN <<>> ELSE Times(2, Fork(f[d - 1] \o <<Exit(0)>>)))
            \o <<Wait, Wait>>]

LEMMA TreesExist == \A n \in Nat : \E f : Trees(f, n)
<1> DEFINE Missing == {n \in Nat : ~ \E f : Trees(f, n)}
<1> SUFFICES ASSUME Missing # {} PROVE FALSE
  OBVIOUS
<1>1. PICK m \in Missing : \A k \in Missing : m <= k
  <2>1. Missing \subseteq Nat
    OBVIOUS
  <2> HIDE DEF Missing
  <2>2. QED
    BY <2>1, LeastNatural
<1>2. CASE m = 0
  <2>1. Trees([d \in 0..0 |-> <<>> \o <<Wait, Wait>>], 0)
    BY DEF Trees
  <2>2. QED
    BY <1>2, <2>1
<1>3. CASE m # 0
  <2>1. m - 1 \in Nat /\ ~(m <= m - 1)
    BY <1>3
  <2>2. PICK f : Trees(f, m - 1)
    BY <1>1, <2>1
  <2> DEFINE row(x) == Times(2, Fork(x \o <<Exit(0)>>)) \o <<Wait, Wait>>
             g == [d \in 0..m |-> IF d = m THEN row(f[m - 1]) ELSE f[d]]
  <2>3. ASSUME NEW d \in 0..m
        PROVE  g[d] = (IF d = 0 THEN <<>> ELSE Times(2, Fork(g[d - 1] \o <<Exit(0)>>)))
                      \o <<Wait, Wait>>
    <3>1. CASE d = m
      <4>1. d # 0 /\ d - 1 \in 0..m /\ d - 1 # m
        BY <1>3, <3>1
      <4>2. g[d - 1] = f[m - 1] /\ g[d] = row(f[m - 1])
        BY <3>1, <4>1
      <4>3. QED
        BY <4>1, <4>2
    <3>2. CASE d # m
      <4>1. d \in 0..m - 1 /\ (d # 0 => d - 1 \in 0..m /\ d - 1 # m)
        BY <3>2
      <4>2. f[d] = (IF d = 0 THEN <<>> ELSE Times(2, Fork(f[d - 1] \o <<Exit(0)>>)))
                   \o <<Wait, Wait>>
        BY <2>2, <4>1 DEF Trees
      <4>3. g[d] = f[d] /\ (d # 0 => g[d - 1] = f[d - 1])
        BY <3>2, <4>1
      <4>4. QED
        BY <4>2, <4>3
    <3>3. QED
      BY <3>1, <3>2
  <2>4. g = [d \in 0..m |-> g[d]]
    OBVIOUS
  <2> HIDE DEF g
  <2>5. Trees(g, m)
    BY <2>3, <2>4 DEF Trees
  <2>6. QED
    BY <2>5
<1>4. QED
  BY <1>2, <1>3

LEMMA ForktreeWhole == forktree \in Wholes(Instructions)
<1>1. Trees(fork_tree, DEPTH)
  <2>1. fork_tree = CHOOSE f : Trees(f, DEPTH)
    BY DEF fork_tree, Trees
  <2>2. QED
    BY <2>1, TreesExist, Counts, Zenon
<1>2. \A d \in 0..DEPTH :
          fork_tree[d] = (IF d = 0 THEN <<>> ELSE Times(2, Fork(fork_tree[d - 1] \o <<Exit(0)>>)))
                         \o <<Wait, Wait>>
  BY <1>1 DEF Trees
<1> DEFINE Wrong == {d \in 0..DEPTH : fork_tree[d] \notin Blocks(Instructions)}
<1>3. ASSUME Wrong # {} PROVE FALSE
  <2>1. PICK d \in Wrong : \A k \in Wrong : d <= k
    <3>1. Wrong \subseteq Nat
      OBVIOUS
    <3> HIDE DEF Wrong
    <3>2. QED
      BY <1>3, <3>1, LeastNatural
  <2>2. d \in 0..DEPTH
    OBVIOUS
  <2> DEFINE children == IF d = 0 THEN <<>> ELSE Times(2, Fork(fork_tree[d - 1] \o <<Exit(0)>>))
  <2>3. children \in Blocks(Instructions)
    <3>1. CASE d = 0
      BY <3>1, BlocksClosed
    <3>2. CASE d # 0
      <4>1. d - 1 \in 0..DEPTH /\ ~(d <= d - 1)
        BY <2>2, <3>2, Counts
      <4>2. fork_tree[d - 1] \in Blocks(Instructions)
        BY <2>1, <4>1
      <4>3. QED
        BY <3>2, <4>2, ExitPieces, JoinPieces, ForkPiece, TimesPiece, Counts
    <3>3. QED
      BY <3>1, <3>2
  <2>4. fork_tree[d] = children \o <<Wait, Wait>>
    BY <1>2, <2>2
  <2> HIDE DEF children
  <2>5. fork_tree[d] \in Blocks(Instructions)
    BY <2>3, <2>4, SmallPieces, JoinPieces
  <2>6. QED
    BY <2>1, <2>5
<1>4. fork_tree[DEPTH] \in Blocks(Instructions)
  BY <1>3, Counts
<1>5. QED
  BY <1>4, EndPieces, JoinPieces DEF forktree

LEMMA ChildrenWhole ==
    /\ fork_exit \in Wholes(Instructions) /\ forktest_simple \in Wholes(Instructions)
    /\ spawn1 \in Wholes(Instructions) /\ ch5_exit0 \in Wholes(Instructions)
    /\ ch5_exit1 \in Wholes(Instructions) /\ ch5_getpid \in Wholes(Instructions)
    /\ any \in Wholes(Instructions)
<1>1. fork_exit \in Wholes(Instructions)
  <2> DEFINE rest == <<WaitPid(1), Check("pid", 1), Check("status", MAGIC), WaitPid(1),
                       Check("none", 0), Wait, Check("none", 0), Exit(0)>>
  <2>1. rest \in Seq(Straight)
    BY InstructionsFacts DEF Claims, MAGIC
  <2>2. Len(rest) = 8 /\ rest[8][1] = "exit" /\ 8 \in Nat \ {0}
    BY DEF Exit
  <2> HIDE DEF rest
  <2>3. rest \in Wholes(Instructions)
    BY <2>1, <2>2, EndPiece
  <2>4. Fork(<<Exit(MAGIC)>>) \in Blocks(Instructions)
    BY ExitPieces, ForkPiece DEF MAGIC
  <2>5. QED
    BY <2>3, <2>4, JoinPieces DEF fork_exit, rest
<1>2. forktest_simple \in Wholes(Instructions)
  <2> DEFINE head == <<Wait, Check("none", 0)>>
             rest == <<Wait, Check("pid", 1), Check("status", 100), Exit(0)>>
  <2>1. head \in Seq(Straight) /\ rest \in Seq(Straight)
    BY InstructionsFacts DEF Claims
  <2>2. Len(rest) = 4 /\ rest[4][1] = "exit" /\ 4 \in Nat \ {0}
    BY DEF Exit
  <2> HIDE DEF rest, head
  <2>3. rest \in Wholes(Instructions) /\ head \in Blocks(Instructions)
    BY <2>1, <2>2, Piece, EndPiece
  <2>4. Fork(<<Exit(100)>>) \in Blocks(Instructions)
    BY ExitPieces, ForkPiece
  <2>5. head \o Fork(<<Exit(100)>>) \in Blocks(Instructions)
    BY <2>3, <2>4, JoinPieces
  <2>6. QED
    BY <2>3, <2>5, JoinPieces DEF forktest_simple, head, rest
<1>3. spawn1 \in Wholes(Instructions)
  <2>1. /\ "ch5_exit0" \in Spawned /\ "ch5_exit1" \in Spawned
        /\ \A c \in Int : Check("pid", c) \in Straight /\ Check("status", c) \in Straight
    BY InstructionsFacts DEF Spawned, Claims
  <2>2. spawn1 \in Seq(Straight)
    BY <2>1, InstructionsFacts DEF spawn1
  <2>3. Len(spawn1) = 13 /\ spawn1[13][1] = "exit" /\ 13 \in Nat \ {0}
    BY DEF spawn1, Exit
  <2>4. QED
    BY <2>2, <2>3, EndPiece
<1>4. QED
  BY <1>1, <1>2, <1>3, ExitPieces, EndPieces DEF ch5_exit0, ch5_exit1, ch5_getpid, any

-----------------------------------------------------------------------------
(*                               The shell                                 *)

LEMMA ShellText ==
    /\ user_shell \in Seq(Instructions) /\ Len(user_shell) = 6 * CommandCount + 1
    /\ \A k \in 1..CommandCount, j \in 1..6 : user_shell[(k - 1) * 6 + j] = ShellLine[j]
    /\ user_shell[6 * CommandCount + 1] = <<"getline", 0>>
<1> DEFINE lines == Times(CommandCount, ShellLine)
           last == <<<<"getline", 0>>>>
           rows == [k \in 1..CommandCount |-> ShellLine]
           w == CommandCount * 6
<1>1. user_shell = lines \o last
  BY DEF user_shell, ShellLine, ShellCommand
<1>2. /\ lines \in Seq(Instructions) /\ Len(lines) = w
      /\ \A k \in 1..CommandCount, j \in 1..6 : lines[(k - 1) * 6 + j] = ShellLine[j]
  <2>1. ShellLine \in Seq(Instructions) /\ Len(ShellLine) = 6
    BY ShellLineBlock DEF Blocks
  <2>2. /\ rows \in [1..CommandCount -> Seq(Instructions)]
        /\ \A k \in 1..CommandCount : Len(rows[k]) = 6 /\ rows[k] = ShellLine
    BY <2>1
  <2>3. CommandCount \in Nat /\ 6 \in Nat
    BY Counts
  <2>4. lines = FlattenSeq(rows)
    BY DEF Times
  <2>5. FlattenSeq(rows) \in Seq(Instructions)
    BY <2>2, <2>3, FlattenTyped
  <2> HIDE DEF rows, lines
  <2> DEFINE m == 6
             n == CommandCount
  <2>6. /\ Len(FlattenSeq(rows)) = n * m
        /\ \A k \in 1..n, j \in 1..m : FlattenSeq(rows)[(k - 1) * m + j] = rows[k][j]
    <3>1. rows \in [1..n -> Row(Instructions, m)] /\ n \in Nat /\ m \in Nat
      BY <2>2, <2>3 DEF Row
    <3> HIDE DEF m, n
    <3>2. HasRows(FlattenSeq(rows), rows, n, m)
      BY <3>1, FlattenRows
    <3>3. QED
      BY <3>2 DEF HasRows
  <2>7. QED
    BY <2>2, <2>4, <2>5, <2>6
<1>3. last \in Seq(Instructions) /\ Len(last) = 1 /\ last[1] = <<"getline", 0>>
  <2>1. 0 \in Nat
    OBVIOUS
  <2>2. <<"getline", 0>> \in Instructions
    BY <2>1, InstructionsFacts
  <2>3. QED
    BY <2>2
<1>4. w \in Nat /\ w = 6 * CommandCount
  BY Counts
<1> HIDE DEF lines, last, rows, w
<1>5. /\ user_shell \in Seq(Instructions) /\ Len(user_shell) = w + 1
      /\ \A i \in 1..w + 1 : user_shell[i] = IF i <= w THEN lines[i] ELSE last[i - w]
  <2>1. /\ lines \o last \in Seq(Instructions) /\ Len(lines \o last) = Len(lines) + Len(last)
        /\ \A i \in 1..Len(lines) + Len(last) :
              (lines \o last)[i] = IF i <= Len(lines) THEN lines[i] ELSE last[i - Len(lines)]
    BY <1>2, <1>3, ConcatProperties
  <2>2. QED
    BY <1>1, <1>2, <1>3, <1>4, <2>1
<1>6. user_shell[w + 1] = <<"getline", 0>>
  BY <1>3, <1>4, <1>5
<1>7. ASSUME NEW k \in 1..CommandCount, NEW j \in 1..6
      PROVE  user_shell[(k - 1) * 6 + j] = ShellLine[j]
  <2>1. (k - 1) * 6 + j \in 1..w + 1 /\ (k - 1) * 6 + j <= w
    BY <1>4, Counts
  <2>2. QED
    BY <1>2, <1>5, <2>1
<1>8. QED
  BY <1>4, <1>5, <1>6, <1>7

(* A shell has asked for a line for each it has gone through.              *)
LEMMA ShellSteps ==
    ASSUME NEW i \in 1..Len(user_shell), NEW lines \in 0..CommandCount, i <= 6 * lines + 1,
           NEW o \in Offsets(user_shell[i]),
           user_shell[i][1] = "getline" => lines < CommandCount
    PROVE  /\ o \in Int /\ i + o \in 1..Len(user_shell)
           /\ i + o <= 6 * (lines + 1) + 1
           /\ user_shell[i][1] # "getline" => i + o <= 6 * lines + 1
<1> DEFINE k == (i - 1) \div 6 + 1
           j == ((i - 1) % 6) + 1
<1>1. CommandCount \in Nat /\ lines \in Nat /\ lines <= CommandCount /\ i \in Nat
      /\ i \in 1..6 * CommandCount + 1 /\ Len(user_shell) = 6 * CommandCount + 1
  BY Counts, ShellText
<1>2. i # 6 * CommandCount + 1
  <2>1. ASSUME i = 6 * CommandCount + 1 PROVE FALSE
    <3>1. user_shell[i] = <<"getline", 0>>
      BY <2>1, ShellText
    <3>2. lines < CommandCount
      BY <3>1
    <3>3. QED
      BY <1>1, <2>1, <3>2
  <2>2. QED
    BY <2>1
<1>3. /\ k \in 1..CommandCount /\ j \in 1..6 /\ i = (k - 1) * 6 + j /\ k - 1 <= lines
      /\ j # 1 => k <= lines
  BY <1>1, <1>2
<1> HIDE DEF k, j
<1>4. user_shell[i] = ShellLine[j]
  BY <1>3, ShellText
<1>5. o \in Int /\ j + o \in 1..7
  <2>1. Len(ShellLine) = 6 /\ \A h \in 1..Len(ShellLine) : \A x \in Offsets(ShellLine[h]) :
            x \in Int /\ h + x \in 1..Len(ShellLine) + 1
    BY ShellLineBlock DEF Blocks
  <2>2. QED
    BY <1>3, <1>4, <2>1
<1>6. i + o \in 1..6 * CommandCount + 1 /\ i + o <= 6 * (lines + 1) + 1
  BY <1>1, <1>3, <1>5
<1>7. ASSUME user_shell[i][1] # "getline" PROVE i + o <= 6 * lines + 1
  <2>1. j # 1
    BY <1>4, <1>7, ShellLineBlock
  <2>2. QED
    BY <1>1, <1>3, <1>5, <2>1
<1>8. QED
  BY <1>1, <1>5, <1>6, <1>7

-----------------------------------------------------------------------------
(*                         The tests of pipes                              *)

AllInstructions == Instructions \cup PipeCalls

LEMMA PipeCallsFacts ==
    /\ \A q \in 1..2 : Pipe(q) \in PipeCalls
    /\ \A q \in 1..2, e \in {"r", "w"} : Close(q, e) \in PipeCalls
    /\ \A q \in 1..2, n \in Nat : PipeRead(q, n) \in PipeCalls /\ PipeWrite(q, n) \in PipeCalls
BY DEF PipeCalls, Pipe, Close, PipeRead, PipeWrite

LEMMA PipePiece ==
    ASSUME NEW s \in Seq(Straight \cup PipeCalls)
    PROVE  /\ s \in Blocks(AllInstructions)
           /\ \A n \in Nat \ {0} :
                 Len(s) = n /\ s[n][1] \in {"exit", "any"} => s \in Wholes(AllInstructions)
<1>1. /\ s \in Seq(AllInstructions)
      /\ \A k \in 1..Len(s) : s[k] \in Straight \cup PipeCalls
  BY DEF AllInstructions, Instructions
<1>2. QED
  BY <1>1, StraightBlocks

(* A program that begins with first, forks a child that runs body, and     *)
(* goes on with rest.                                                      *)
Forks(text, first, h, body, b, rest, r) ==
    /\ text \in Wholes(AllInstructions) /\ Len(text) = h + 1 + b + r
    /\ \A k \in 1..h : text[k] = first[k]
    /\ text[h + 1] = <<"fork", b + 1>>
    /\ \A k \in 1..b : text[h + 1 + k] = body[k]
    /\ \A k \in 1..r : text[h + 1 + b + k] = rest[k]

LEMMA ForkText ==
    ASSUME NEW h \in Nat, NEW first \in Row(Straight \cup PipeCalls, h),
           NEW b \in Nat, NEW body \in Row(Straight \cup PipeCalls, b),
           NEW r \in Nat \ {0}, NEW rest \in Row(Straight \cup PipeCalls, r),
           rest[r][1] = "exit"
    PROVE  Forks((first \o Fork(body)) \o rest, first, h, body, b, rest, r)
<1> DEFINE f == Fork(body)
           g == first \o f
           text == g \o rest
<1>0. Len(first) = h /\ Len(body) = b /\ Len(rest) = r
  BY DEF Row
<1>1. /\ first \in Blocks(AllInstructions) /\ body \in Blocks(AllInstructions)
      /\ rest \in Wholes(AllInstructions)
  <2>1. /\ first \in Seq(Straight \cup PipeCalls) /\ body \in Seq(Straight \cup PipeCalls)
        /\ rest \in Seq(Straight \cup PipeCalls)
    BY DEF Row
  <2>2. QED
    BY <1>0, <2>1, PipePiece
<1>2. /\ f \in Blocks(AllInstructions) /\ Len(f) = b + 1 /\ f[1] = <<"fork", b + 1>>
      /\ \A k \in 1..b : f[k + 1] = body[k]
  <2>1. \A n \in Nat : <<"fork", n>> \in AllInstructions
    BY InstructionsFacts DEF AllInstructions
  <2>2. /\ f \in Blocks(AllInstructions) /\ Len(f) = Len(body) + 1
        /\ f[1] = <<"fork", Len(body) + 1>>
        /\ \A k \in 1..Len(body) : f[k + 1] = body[k]
    BY <1>1, <2>1, ForkBlock
  <2> HIDE DEF f
  <2>3. QED
    BY <1>0, <2>2
<1> HIDE DEF f
<1>3. g \in Blocks(AllInstructions) /\ text \in Wholes(AllInstructions)
  BY <1>1, <1>2, BlocksClosed, ConcatWhole
<1>4. /\ g \in Seq(AllInstructions) /\ Len(g) = h + (b + 1)
      /\ \A k \in 1..h : g[k] = first[k]
      /\ \A k \in 1..b + 1 : g[h + k] = f[k]
  <2>1. first \in Seq(AllInstructions) /\ f \in Seq(AllInstructions)
    BY <1>1, <1>2 DEF Blocks
  <2>2. g \in Seq(AllInstructions) /\ Len(g) = Len(first) + Len(f)
    BY <2>1, ConcatAt
  <2>3. \A k \in 1..Len(first) : g[k] = first[k]
    BY <2>1, ConcatAt
  <2>4. \A k \in 1..Len(f) : g[Len(first) + k] = f[k]
    BY <2>1, ConcatAt
  <2> HIDE DEF g
  <2>5. QED
    BY <1>0, <1>2, <2>2, <2>3, <2>4
<1> HIDE DEF g
<1>5. /\ Len(text) = h + (b + 1) + r
      /\ \A k \in 1..h + (b + 1) : text[k] = g[k]
      /\ \A k \in 1..r : text[h + (b + 1) + k] = rest[k]
  <2> DEFINE m == h + (b + 1)
  <2>1. m \in Nat /\ Len(g) = m /\ rest \in Seq(AllInstructions)
    BY <1>1, <1>4 DEF Wholes, Blocks
  <2>2. /\ Len(text) = Len(g) + Len(rest)
    BY <1>4, <2>1, ConcatAt
  <2>4. \A k \in 1..Len(g) : text[k] = g[k]
    BY <1>4, <2>1, ConcatAt
  <2>5. \A k \in 1..Len(rest) : text[Len(g) + k] = rest[k]
    BY <1>4, <2>1, ConcatAt
  <2> HIDE DEF text
  <2>3. QED
    BY <1>0, <2>1, <2>2, <2>4, <2>5 DEF m
<1> HIDE DEF text
<1>6. \A k \in 1..h : text[k] = first[k]
  <2>1. \A k \in 1..h : k \in 1..h + (b + 1)
    OBVIOUS
  <2>2. QED
    BY <1>4, <1>5, <2>1
<1>7. \A k \in 1..b + 1 : text[h + k] = f[k]
  <2>1. \A k \in 1..b + 1 : h + k \in 1..h + (b + 1)
    OBVIOUS
  <2>2. QED
    BY <1>4, <1>5, <2>1
<1>8. text[h + 1] = <<"fork", b + 1>> /\ \A k \in 1..b : text[h + 1 + k] = body[k]
  <2>1. 1 \in 1..b + 1
    OBVIOUS
  <2>2. ASSUME NEW k \in 1..b PROVE text[h + 1 + k] = body[k]
    <3>1. k + 1 \in 1..b + 1 /\ h + (k + 1) = h + 1 + k
      OBVIOUS
    <3>2. text[h + (k + 1)] = f[k + 1]
      BY <1>7, <3>1
    <3>3. QED
      BY <1>2, <3>1, <3>2
  <2>3. QED
    BY <1>2, <1>7, <2>1, <2>2
<1>9. Len(text) = h + 1 + b + r /\ \A k \in 1..r : text[h + 1 + b + k] = rest[k]
  <2>1. h + (b + 1) = h + 1 + b
    OBVIOUS
  <2>2. QED
    BY <1>5, <2>1
<1>10. QED
  BY <1>3, <1>6, <1>8, <1>9 DEF text, g, f, Forks

LEMMA PipetestText ==
    /\ pipetest \in Wholes(AllInstructions) /\ Len(pipetest) = 13
    /\ pipetest[1] = Pipe(1) /\ pipetest[2] = <<"fork", 6>>
    /\ pipetest[3] = Close(1, "w") /\ pipetest[4] = PipeRead(1, BUFFER_LEN)
    /\ pipetest[5] = Close(1, "r") /\ pipetest[6] = Check("got", STR_LEN)
    /\ pipetest[7] = Exit(0)
    /\ pipetest[8] = Close(1, "r") /\ pipetest[9] = PipeWrite(1, STR_LEN)
    /\ pipetest[10] = Close(1, "w") /\ pipetest[11] = Wait
    /\ pipetest[12] = Check("status", 0) /\ pipetest[13] = Exit(0)
<1> DEFINE first == <<Pipe(1)>>
           body == <<Close(1, "w"), PipeRead(1, BUFFER_LEN), Close(1, "r"),
                     Check("got", STR_LEN), Exit(0)>>
           rest == <<Close(1, "r"), PipeWrite(1, STR_LEN), Close(1, "w"), Wait,
                     Check("status", 0), Exit(0)>>
           text == (first \o Fork(body)) \o rest
<1>1. /\ first \in Seq(Straight \cup PipeCalls) /\ Len(first) = 1 /\ first[1] = Pipe(1)
  BY PipeCallsFacts
<1>2. body \in Seq(Straight \cup PipeCalls)
  BY PipeCallsFacts, InstructionsFacts, Counts DEF Claims
<1>3. rest \in Seq(Straight \cup PipeCalls)
  BY PipeCallsFacts, InstructionsFacts, Counts DEF Claims
<1>4. /\ Len(body) = 5 /\ body[1] = Close(1, "w") /\ body[2] = PipeRead(1, BUFFER_LEN)
      /\ body[3] = Close(1, "r") /\ body[4] = Check("got", STR_LEN) /\ body[5] = Exit(0)
  OBVIOUS
<1>5. /\ Len(rest) = 6 /\ rest[1] = Close(1, "r") /\ rest[2] = PipeWrite(1, STR_LEN)
      /\ rest[3] = Close(1, "w") /\ rest[4] = Wait /\ rest[5] = Check("status", 0)
      /\ rest[6] = Exit(0) /\ rest[6][1] = "exit"
  BY DEF Exit
<1>6. pipetest = text
  BY DEF pipetest
<1>11. /\ first \in Row(Straight \cup PipeCalls, 1)
       /\ body \in Row(Straight \cup PipeCalls, 5)
       /\ rest \in Row(Straight \cup PipeCalls, 6)
  <2> HIDE DEF first, body, rest
  <2>1. QED
    BY <1>1, <1>2, <1>3, <1>4, <1>5 DEF Row
<1> HIDE DEF first, body, rest
<1>7. /\ text \in Wholes(AllInstructions) /\ Len(text) = 1 + 1 + 5 + 6
      /\ \A k \in 1..1 : text[k] = first[k]
      /\ text[1 + 1] = <<"fork", 5 + 1>>
      /\ \A k \in 1..5 : text[1 + 1 + k] = body[k]
      /\ \A k \in 1..6 : text[1 + 1 + 5 + k] = rest[k]
  <2>1. 1 \in Nat /\ 5 \in Nat /\ 6 \in Nat \ {0}
    OBVIOUS
  <2>2. Forks(text, first, 1, body, 5, rest, 6)
    BY <1>5, <1>11, <2>1, ForkText
  <2> HIDE DEF text
  <2>3. QED
    BY <2>2 DEF Forks
<1> HIDE DEF text
<1>8. /\ text[1] = first[1] /\ text[2] = <<"fork", 6>>
      /\ text[3] = body[1] /\ text[4] = body[2] /\ text[5] = body[3] /\ text[6] = body[4]
      /\ text[7] = body[5]
  BY <1>7
<1>9. /\ text[8] = rest[1] /\ text[9] = rest[2] /\ text[10] = rest[3] /\ text[11] = rest[4]
      /\ text[12] = rest[5] /\ text[13] = rest[6]
  BY <1>7
<1>10. QED
  BY <1>1, <1>4, <1>5, <1>6, <1>7, <1>8, <1>9

LEMMA PipeLargeText ==
    /\ pipe_large_test \in Wholes(AllInstructions) /\ Len(pipe_large_test) = 20
    /\ pipe_large_test[1] = Pipe(1) /\ pipe_large_test[2] = Pipe(2)
    /\ pipe_large_test[3] = <<"fork", 9>>
    /\ pipe_large_test[4] = Close(1, "w") /\ pipe_large_test[5] = Close(2, "r")
    /\ pipe_large_test[6] = PipeRead(1, LENGTH) /\ pipe_large_test[7] = Check("got", LENGTH)
    /\ pipe_large_test[8] = Close(1, "r") /\ pipe_large_test[9] = PipeWrite(2, SUM_LEN)
    /\ pipe_large_test[10] = Close(2, "w") /\ pipe_large_test[11] = Exit(0)
    /\ pipe_large_test[12] = Close(1, "r") /\ pipe_large_test[13] = Close(2, "w")
    /\ pipe_large_test[14] = PipeWrite(1, LENGTH) /\ pipe_large_test[15] = Close(1, "w")
    /\ pipe_large_test[16] = PipeRead(2, BUFFER_LEN) /\ pipe_large_test[17] = Close(2, "r")
    /\ pipe_large_test[18] = Check("got", SUM_LEN) /\ pipe_large_test[19] = Wait
    /\ pipe_large_test[20] = Exit(0)
<1> DEFINE first == <<Pipe(1), Pipe(2)>>
           body == <<Close(1, "w"), Close(2, "r"), PipeRead(1, LENGTH), Check("got", LENGTH),
                     Close(1, "r"), PipeWrite(2, SUM_LEN), Close(2, "w"), Exit(0)>>
           rest == <<Close(1, "r"), Close(2, "w"), PipeWrite(1, LENGTH), Close(1, "w"),
                     PipeRead(2, BUFFER_LEN), Close(2, "r"), Check("got", SUM_LEN), Wait,
                     Exit(0)>>
           text == (first \o Fork(body)) \o rest
<1>1. first \in Seq(Straight \cup PipeCalls)
  BY PipeCallsFacts
<1>2. body \in Seq(Straight \cup PipeCalls)
  BY PipeCallsFacts, InstructionsFacts, Counts DEF Claims
<1>3. rest \in Seq(Straight \cup PipeCalls)
  BY PipeCallsFacts, InstructionsFacts, Counts DEF Claims
<1>4. Len(first) = 2 /\ first[1] = Pipe(1) /\ first[2] = Pipe(2)
  OBVIOUS
<1>5. /\ Len(body) = 8 /\ body[1] = Close(1, "w") /\ body[2] = Close(2, "r")
      /\ body[3] = PipeRead(1, LENGTH) /\ body[4] = Check("got", LENGTH)
      /\ body[5] = Close(1, "r") /\ body[6] = PipeWrite(2, SUM_LEN)
      /\ body[7] = Close(2, "w") /\ body[8] = Exit(0)
  OBVIOUS
<1>6. /\ Len(rest) = 9 /\ rest[1] = Close(1, "r") /\ rest[2] = Close(2, "w")
      /\ rest[3] = PipeWrite(1, LENGTH) /\ rest[4] = Close(1, "w")
      /\ rest[5] = PipeRead(2, BUFFER_LEN) /\ rest[6] = Close(2, "r")
      /\ rest[7] = Check("got", SUM_LEN) /\ rest[8] = Wait
      /\ rest[9] = Exit(0) /\ rest[9][1] = "exit"
  BY DEF Exit
<1>7. pipe_large_test = text
  BY DEF pipe_large_test
<1> HIDE DEF first, body, rest
<1>8. /\ first \in Row(Straight \cup PipeCalls, 2)
      /\ body \in Row(Straight \cup PipeCalls, 8)
      /\ rest \in Row(Straight \cup PipeCalls, 9)
  BY <1>1, <1>2, <1>3, <1>4, <1>5, <1>6 DEF Row
<1>9. /\ text \in Wholes(AllInstructions) /\ Len(text) = 2 + 1 + 8 + 9
      /\ \A k \in 1..2 : text[k] = first[k]
      /\ text[2 + 1] = <<"fork", 8 + 1>>
      /\ \A k \in 1..8 : text[2 + 1 + k] = body[k]
      /\ \A k \in 1..9 : text[2 + 1 + 8 + k] = rest[k]
  <2>1. 2 \in Nat /\ 8 \in Nat /\ 9 \in Nat \ {0}
    OBVIOUS
  <2>2. Forks(text, first, 2, body, 8, rest, 9)
    BY <1>6, <1>8, <2>1, ForkText
  <2> HIDE DEF text
  <2>3. QED
    BY <2>2 DEF Forks
<1> HIDE DEF text
<1>10. /\ text[1] = first[1] /\ text[2] = first[2] /\ text[3] = <<"fork", 9>>
       /\ text[4] = body[1] /\ text[5] = body[2] /\ text[6] = body[3] /\ text[7] = body[4]
       /\ text[8] = body[5] /\ text[9] = body[6] /\ text[10] = body[7] /\ text[11] = body[8]
  BY <1>9
<1>11. /\ text[12] = rest[1] /\ text[13] = rest[2] /\ text[14] = rest[3] /\ text[15] = rest[4]
       /\ text[16] = rest[5] /\ text[17] = rest[6] /\ text[18] = rest[7] /\ text[19] = rest[8]
       /\ text[20] = rest[9]
  BY <1>9
<1>12. QED
  BY <1>4, <1>5, <1>6, <1>7, <1>9, <1>10, <1>11

-----------------------------------------------------------------------------
(*                          All the programs                               *)

LEMMA WholesGrow ==
    ASSUME NEW s \in Wholes(Instructions)
    PROVE  s \in Wholes(AllInstructions)
<1>1. s \in Seq(AllInstructions)
  BY DEF Wholes, Blocks, AllInstructions
<1>2. QED
  BY <1>1 DEF Wholes, Blocks

PipeTests == {"pipetest", "pipe_large_test"}

LEMMA ProgramFacts ==
    /\ Names = {"initproc", "user_shell", "ch5_usertest", "ch6_usertest", "ch8_usertest",
                "ch5_stride", "forktest", "forktest2", "matrix", "forktree", "fork_exit",
                "forktest_simple", "spawn0", "spawn1", "ch5_exit0", "ch5_exit1",
                "ch5_getpid", "any", "pipetest", "pipe_large_test"}
    /\ Program["user_shell"] = user_shell /\ Program["initproc"] = initproc
    /\ Program["pipetest"] = pipetest /\ Program["pipe_large_test"] = pipe_large_test
    /\ \A x \in Names \ ({"user_shell"} \cup PipeTests) : Program[x] \in Wholes(Instructions)
    /\ \A x \in Names \ {"user_shell"} : Program[x] \in Wholes(AllInstructions)
<1>1. Names = {"initproc", "user_shell", "ch5_usertest", "ch6_usertest", "ch8_usertest",
               "ch5_stride", "forktest", "forktest2", "matrix", "forktree", "fork_exit",
               "forktest_simple", "spawn0", "spawn1", "ch5_exit0", "ch5_exit1",
               "ch5_getpid", "any", "pipetest", "pipe_large_test"}
  BY DEF Names, Program
<1>2. /\ Program["user_shell"] = user_shell /\ Program["initproc"] = initproc
      /\ Program["pipetest"] = pipetest /\ Program["pipe_large_test"] = pipe_large_test
  BY DEF Program
<1>3. /\ Program["initproc"] \in Wholes(Instructions)
      /\ Program["ch5_usertest"] \in Wholes(Instructions)
      /\ Program["ch6_usertest"] \in Wholes(Instructions)
      /\ Program["ch8_usertest"] \in Wholes(Instructions)
      /\ Program["ch5_stride"] \in Wholes(Instructions)
  BY InitprocWhole, UsertestsWhole DEF Program
<1>4. /\ Program["forktest"] \in Wholes(Instructions)
      /\ Program["forktest2"] \in Wholes(Instructions)
      /\ Program["matrix"] \in Wholes(Instructions)
      /\ Program["spawn0"] \in Wholes(Instructions)
      /\ Program["forktree"] \in Wholes(Instructions)
  BY ForktestsWhole, ForktreeWhole DEF Program
<1>5. /\ Program["fork_exit"] \in Wholes(Instructions)
      /\ Program["forktest_simple"] \in Wholes(Instructions)
      /\ Program["spawn1"] \in Wholes(Instructions)
      /\ Program["ch5_exit0"] \in Wholes(Instructions)
      /\ Program["ch5_exit1"] \in Wholes(Instructions)
      /\ Program["ch5_getpid"] \in Wholes(Instructions)
      /\ Program["any"] \in Wholes(Instructions)
  BY ChildrenWhole DEF Program
<1>6. \A x \in Names \ ({"user_shell"} \cup PipeTests) : Program[x] \in Wholes(Instructions)
  BY <1>1, <1>3, <1>4, <1>5 DEF PipeTests
<1>7. \A x \in PipeTests : Program[x] \in Wholes(AllInstructions)
  BY <1>2, PipetestText, PipeLargeText DEF PipeTests
<1>8. QED
  BY <1>1, <1>2, <1>6, <1>7, WholesGrow

-----------------------------------------------------------------------------
(*                      Where the processes are                            *)

(* h is a place in a program; a shell there has asked for enough lines.    *)
Placed(h, lines) ==
    /\ h.i \in 1..Len(Program[h.prog])
    /\ h.prog = "user_shell" => h.i <= 6 * lines + 1

AllPlaced ==
    /\ here \in [Pid -> [prog : Names, i : Nat]]
    /\ \A p \in Pid : Placed(here[p], typed)

(* The rest of ProcessTypeOK, and what is in the pipes.                    *)
LivesTyped ==
    /\ life \in [Pid -> {"unborn", "live", "zombie", "gone"}]
    /\ owner \in [Pid -> Pid \cup {-1}] /\ code \in [Pid -> Int]

MemoriesTyped ==
    /\ pids \in [Pid -> Seq(Pid \cup {-1})]
    /\ answer \in [Pid -> Pid \cup {-1}] /\ status \in [Pid -> Int]

PipesTyped ==
    /\ ends \subseteq Pid \X (1..2) \X {"r", "w"}
    /\ chan \in [1..2 -> Seq(Int)] /\ \A q \in 1..2 : Len(chan[q]) <= PipeSize
    /\ got \in [Pid -> Seq(Int)] /\ sent \in [Pid -> Nat]

ProcessInv ==
    /\ AllPlaced /\ LivesTyped /\ MemoriesTyped /\ PipesTyped
    /\ typed \in 0..CommandCount /\ failed \subseteq Pid

LEMMA InstructionShape ==
    ASSUME NEW op \in AllInstructions
    PROVE  /\ op[1] = "fork" => op[2] \in Nat /\ Offsets(op) = {1, op[2]}
           /\ op[1] = "getline" => op[2] \in Nat /\ Offsets(op) = {1, op[2]}
           /\ op[1] = "while_child" => Offsets(op) = {-1, 1}
           /\ op[1] \in {"spawn", "exec", "wait", "waitpid", "assert", "pipe", "close", "read",
                         "write"} => Offsets(op) = {1}
           /\ op[1] = "exit" => op[2] \in Int
           /\ op[1] = "spawn" => op[2] \in Spawned
           /\ op[1] = "exec" => op[2] \in Given \cup {"line"}
           /\ op[1] \in {"pipe", "close", "read", "write"} => op \in PipeCalls /\ op[2] \in 1..2
           /\ op[1] = "close" => op[3] \in {"r", "w"}
           /\ op[1] \in {"read", "write"} => op[3] \in Nat
<1>1. CASE op \in Straight
  BY <1>1 DEF Straight, Offsets
<1>2. CASE op \in Jumps
  BY <1>2 DEF Jumps, Offsets
<1>3. CASE op \in PipeCalls
  BY <1>3 DEF PipeCalls, Offsets
<1>4. QED
  BY <1>1, <1>2, <1>3 DEF AllInstructions, Instructions

LEMMA PlacedAtStart ==
    ASSUME NEW x \in Names, NEW lines \in Nat
    PROVE  /\ Placed([prog |-> x, i |-> 1], lines)
           /\ [prog |-> x, i |-> 1] \in [prog : Names, i : Nat]
<1>1. 1 \in 1..Len(Program[x])
  <2>1. CASE x = "user_shell"
    BY <2>1, ProgramFacts, ShellText, Counts
  <2>2. CASE x # "user_shell"
    <3>1. Program[x] \in Wholes(AllInstructions)
      BY <2>2, ProgramFacts
    <3>2. Len(Program[x]) \in Nat /\ Len(Program[x]) > 0
      BY <3>1 DEF Wholes, Blocks
    <3>3. QED
      BY <3>2
  <2>3. QED
    BY <2>1, <2>2
<1>2. QED
  BY <1>1 DEF Placed

LEMMA PlacedLater ==
    ASSUME NEW h, NEW lines \in Nat, NEW more \in Nat, lines <= more,
           h \in [prog : Names, i : Nat], Placed(h, lines)
    PROVE  Placed(h, more)
<1>1. h.i \in Nat
  OBVIOUS
<1>2. QED
  BY <1>1 DEF Placed

(* The place n instructions further on.                                    *)
Further(h, n) == [h EXCEPT !.i = @ + n]

LEMMA NextPlaces ==
    ASSUME ProcessInv, NEW p \in Pid
    PROVE  /\ Op(p) \in AllInstructions
           /\ here[p].prog \notin PipeTests => Op(p) \in Instructions
           /\ \A o \in Offsets(Op(p)) :
                 /\ o \in Int
                 /\ Op(p)[1] # "getline" => /\ Placed(Further(here[p], o), typed)
                                            /\ Further(here[p], o) \in [prog : Names, i : Nat]
                 /\ typed < CommandCount => /\ Placed(Further(here[p], o), typed + 1)
                                            /\ Further(here[p], o) \in [prog : Names, i : Nat]
<1> DEFINE x == here[p].prog
           i == here[p].i
<1>1. /\ x \in Names /\ i \in Nat /\ i \in 1..Len(Program[x])
      /\ x = "user_shell" => i <= 6 * typed + 1
      /\ typed \in Nat /\ typed \in 0..CommandCount /\ here[p] \in [prog : Names, i : Nat]
  BY Counts DEF ProcessInv, AllPlaced, Placed
<1>2. Op(p) = Program[x][i]
  BY DEF Op
<1>3. \A o \in Int : /\ Further(here[p], o).prog = x /\ Further(here[p], o).i = i + o
                     /\ i + o \in Nat => Further(here[p], o) \in [prog : Names, i : Nat]
  BY <1>1 DEF Further
<1> HIDE DEF x, i
<1>4. CASE x = "user_shell"
  <2>1. Program[x] = user_shell
    BY <1>4, ProgramFacts
  <2>2. Op(p) \in Instructions
    BY <1>1, <1>2, <2>1, ShellText
  <2>3. ASSUME NEW o \in Offsets(Op(p)), Op(p)[1] = "getline" => typed < CommandCount
        PROVE  /\ o \in Int /\ i + o \in 1..Len(user_shell)
               /\ i + o <= 6 * (typed + 1) + 1
               /\ Op(p)[1] # "getline" => i + o <= 6 * typed + 1
    <3>1. o \in Offsets(user_shell[i]) /\ (user_shell[i][1] = "getline" => typed < CommandCount)
      BY <1>2, <2>1, <2>3
    <3>2. /\ o \in Int /\ i + o \in 1..Len(user_shell)
          /\ i + o <= 6 * (typed + 1) + 1
          /\ user_shell[i][1] # "getline" => i + o <= 6 * typed + 1
      BY <1>1, <1>4, <2>1, <3>1, ShellSteps
    <3>3. QED
      BY <1>2, <2>1, <3>2
  <2>4. ASSUME NEW o \in Offsets(Op(p)) PROVE o \in Int
    <3>1. /\ Op(p)[1] = "getline" => Op(p)[2] \in Nat /\ Offsets(Op(p)) = {1, Op(p)[2]}
      BY <2>2, InstructionShape DEF AllInstructions
    <3>2. QED
      BY <2>3, <3>1
  <2>5. Len(user_shell) \in Nat
    BY ShellText
  <2>6. ASSUME NEW o \in Offsets(Op(p)), Op(p)[1] # "getline"
        PROVE  Placed(Further(here[p], o), typed) /\ Further(here[p], o) \in [prog : Names, i : Nat]
    <3>1. i + o \in 1..Len(user_shell) /\ i + o <= 6 * typed + 1 /\ o \in Int
      BY <2>3, <2>6
    <3>2. QED
      BY <1>3, <1>4, <2>1, <2>5, <3>1 DEF Placed
  <2>7. ASSUME NEW o \in Offsets(Op(p)), typed < CommandCount
        PROVE  /\ Placed(Further(here[p], o), typed + 1)
               /\ Further(here[p], o) \in [prog : Names, i : Nat]
    <3>1. i + o \in 1..Len(user_shell) /\ i + o <= 6 * (typed + 1) + 1 /\ o \in Int
      BY <2>3, <2>7
    <3>2. QED
      BY <1>3, <1>4, <2>1, <2>5, <3>1 DEF Placed
  <2>8. Op(p) \in AllInstructions
    BY <2>2 DEF AllInstructions
  <2>9. QED
    BY <2>2, <2>4, <2>6, <2>7, <2>8
<1>5. CASE x # "user_shell"
  <2>1. /\ Program[x] \in Wholes(AllInstructions)
        /\ x \notin PipeTests => Program[x] \in Wholes(Instructions)
    BY <1>1, <1>5, ProgramFacts
  <2>2. /\ Op(p) \in AllInstructions
        /\ x \notin PipeTests => Op(p) \in Instructions
    BY <1>1, <1>2, <2>1 DEF Wholes, Blocks
  <2>3. \A o \in Offsets(Op(p)) : o \in Int /\ i + o \in 1..Len(Program[x])
    BY <1>1, <1>2, <2>1 DEF Wholes, Blocks
  <2>4. Len(Program[x]) \in Nat
    BY <2>1 DEF Wholes, Blocks
  <2>5. \A o \in Offsets(Op(p)) :
            /\ o \in Int /\ Further(here[p], o) \in [prog : Names, i : Nat]
            /\ Placed(Further(here[p], o), typed) /\ Placed(Further(here[p], o), typed + 1)
    BY <1>3, <1>5, <2>3, <2>4 DEF Placed
  <2>6. here[p].prog \notin PipeTests => Op(p) \in Instructions
    BY <2>2 DEF x
  <2>7. QED
    BY <2>2, <2>5, <2>6, Zenon
<1>6. QED
  BY <1>4, <1>5

-----------------------------------------------------------------------------
(*                     Steps keep the types                                *)

LEMMA PidFacts == 0 \in Pid /\ Pid \subseteq Int /\ MaxPid \in Nat
BY ProcessAssumption DEF Pid

LEMMA MinOfTwo ==
    ASSUME NEW a \in Int, NEW b \in Int
    PROVE  Min({a, b}) \in Int /\ Min({a, b}) \in {a, b} /\ Min({a, b}) <= a /\ Min({a, b}) <= b
<1> DEFINE S == {a, b}
<1>1. \E x \in S : \A y \in S : x <= y
  BY DEF S
<1>2. Min(S) \in S /\ \A y \in S : Min(S) <= y
  BY <1>1 DEF Min
<1>3. QED
  BY <1>2

LEMMA BirthTyped ==
    ASSUME LivesTyped, NEW p \in Pid, NEW c \in Pid, Lifecycle!Birth(p, c)
    PROVE  LivesTyped' /\ life[c] = "unborn" /\ c # p
<1>1. LivesTyped'
  BY DEF LivesTyped, Lifecycle!Birth
<1>2. QED
  BY <1>1 DEF Lifecycle!Birth

LEMMA FinishTyped ==
    ASSUME LivesTyped, NEW p \in Pid, NEW c \in Int, Lifecycle!Finish(p, c)
    PROVE  LivesTyped'
<1>1. \A r \in Pid : life'[r] \in {"unborn", "live", "zombie", "gone"}
  BY DEF LivesTyped, Lifecycle!Finish
<1>2. \A r \in Pid : owner'[r] \in Pid \cup {-1}
  BY PidFacts DEF LivesTyped, Lifecycle!Finish
<1>3. code' \in [Pid -> Int]
  BY DEF LivesTyped, Lifecycle!Finish
<1>4. /\ life' = [r \in Pid |-> life'[r]]
      /\ owner' = [r \in Pid |-> owner'[r]]
  BY DEF Lifecycle!Finish
<1>5. QED
  BY <1>1, <1>2, <1>3, <1>4 DEF LivesTyped

LEMMA ReapTyped ==
    ASSUME LivesTyped, NEW p \in Pid, NEW q, Lifecycle!Reap(p, q)
    PROVE  LivesTyped' /\ q \in Pid
<1>1. q \in Pid
  BY DEF Lifecycle!Reap, Lifecycle!Owned
<1>2. QED
  BY <1>1 DEF LivesTyped, Lifecycle!Reap

(* A process that goes on, and one that starts over.                       *)
LEMMA GoOnPlaced ==
    ASSUME ProcessInv, NEW p \in Pid, NEW n \in Offsets(Op(p)), GoOn(p, n),
           \/ typed' = typed /\ Op(p)[1] # "getline"
           \/ typed' = typed + 1 /\ typed < CommandCount
    PROVE  AllPlaced'
<1>1. here' = [here EXCEPT ![p] = Further(here[p], n)]
  BY DEF GoOn, Further
<1>2. Placed(Further(here[p], n), typed') /\ Further(here[p], n) \in [prog : Names, i : Nat]
  BY NextPlaces
<1>3. typed \in Nat /\ typed' \in Nat /\ typed <= typed'
  BY Counts DEF ProcessInv
<1>4. /\ here \in [Pid -> [prog : Names, i : Nat]]
      /\ \A r \in Pid : Placed(here[r], typed)
  BY DEF ProcessInv, AllPlaced
<1>5. \A r \in Pid : here[r] \in [prog : Names, i : Nat] /\ Placed(here[r], typed')
  BY <1>3, <1>4, PlacedLater
<1>6. /\ here' \in [Pid -> [prog : Names, i : Nat]]
      /\ \A r \in Pid : Placed(here'[r], typed')
  BY <1>1, <1>2, <1>4, <1>5
<1>7. QED
  BY <1>6 DEF AllPlaced, Placed

LEMMA ForkTyped ==
    ASSUME ProcessInv, NEW p \in Pid, fork(p)
    PROVE  ProcessInv'
<1>1. PICK c \in NewPid :
          /\ Lifecycle!Birth(p, c)
          /\ here' = [here EXCEPT ![p].i = @ + Op(p)[2], ![c] = [here[p] EXCEPT !.i = @ + 1]]
          /\ pids' = [pids EXCEPT ![p] = Append(@, c), ![c] = pids[p]]
          /\ answer' = [answer EXCEPT ![c] = answer[p]]
          /\ status' = [status EXCEPT ![c] = status[p]]
          /\ ends' = ends \cup {<<c, e[2], e[3]>> : e \in {e \in ends : e[1] = p}}
  BY DEF fork
<1>2. c \in Pid
  BY DEF NewPid
<1>3. LivesTyped' /\ c # p
  BY <1>1, <1>2, BirthTyped DEF ProcessInv
<1>4. Op(p)[1] = "fork" /\ UNCHANGED <<typed, failed, chan, got, sent>>
  BY DEF fork, Does
<1>5. 1 \in Offsets(Op(p)) /\ Op(p)[2] \in Offsets(Op(p))
  BY <1>4, NextPlaces, InstructionShape
<1>6. /\ Placed(Further(here[p], 1), typed) /\ Placed(Further(here[p], Op(p)[2]), typed)
      /\ Further(here[p], 1) \in [prog : Names, i : Nat]
      /\ Further(here[p], Op(p)[2]) \in [prog : Names, i : Nat]
  BY <1>4, <1>5, NextPlaces
<1>7. AllPlaced'
  <2>1. here' = [here EXCEPT ![p] = Further(here[p], Op(p)[2]), ![c] = Further(here[p], 1)]
    BY <1>1 DEF Further
  <2>2. /\ here \in [Pid -> [prog : Names, i : Nat]]
        /\ \A r \in Pid : Placed(here[r], typed)
    BY DEF ProcessInv, AllPlaced
  <2>3. /\ here' \in [Pid -> [prog : Names, i : Nat]]
        /\ \A r \in Pid : Placed(here'[r], typed)
    BY <1>2, <1>3, <1>6, <2>1, <2>2
  <2>4. QED
    BY <1>4, <2>3 DEF AllPlaced, Placed
<1>8. MemoriesTyped'
  <2>1. /\ pids \in [Pid -> Seq(Pid \cup {-1})] /\ answer \in [Pid -> Pid \cup {-1}]
        /\ status \in [Pid -> Int]
    BY DEF ProcessInv, MemoriesTyped
  <2>2. Append(pids[p], c) \in Seq(Pid \cup {-1}) /\ pids[p] \in Seq(Pid \cup {-1})
    BY <1>2, <2>1
  <2>3. pids' \in [Pid -> Seq(Pid \cup {-1})]
    BY <1>1, <1>2, <2>1, <2>2
  <2>4. QED
    BY <1>1, <1>2, <2>1, <2>3 DEF MemoriesTyped
<1>9. PipesTyped'
  <2>1. ends' \subseteq Pid \X (1..2) \X {"r", "w"}
    BY <1>1, <1>2 DEF ProcessInv, PipesTyped
  <2>2. QED
    BY <1>4, <2>1 DEF ProcessInv, PipesTyped
<1>10. QED
  BY <1>3, <1>4, <1>7, <1>8, <1>9 DEF ProcessInv

LEMMA SpawnTyped ==
    ASSUME ProcessInv, NEW p \in Pid, spawn(p)
    PROVE  ProcessInv'
<1>1. Op(p)[1] = "spawn" /\ UNCHANGED <<answer, status, line, typed, failed, Pipes>>
  BY DEF spawn, Does
<1>2. 1 \in Offsets(Op(p))
  BY <1>1, NextPlaces, InstructionShape
<1>3. typed \in Nat
  BY Counts DEF ProcessInv
<1>4. PipesTyped'
  BY <1>1 DEF ProcessInv, PipesTyped, Pipes
<1>5. \A c \in Pid \cup {-1} : Append(pids[p], c) \in Seq(Pid \cup {-1})
  BY DEF ProcessInv, MemoriesTyped
<1>6. CASE Op(p)[2] \in Names
  <2>1. PICK c \in NewPid :
            /\ Lifecycle!Birth(p, c)
            /\ here' = [here EXCEPT ![p].i = @ + 1, ![c] = [prog |-> Op(p)[2], i |-> 1]]
            /\ pids' = [pids EXCEPT ![p] = Append(@, c)]
    BY <1>6 DEF spawn
  <2>2. c \in Pid
    BY DEF NewPid
  <2>3. LivesTyped' /\ c # p
    BY <2>1, <2>2, BirthTyped DEF ProcessInv
  <2>4. /\ Placed(Further(here[p], 1), typed)
        /\ Further(here[p], 1) \in [prog : Names, i : Nat]
    BY <1>1, <1>2, NextPlaces
  <2>5. AllPlaced'
    <3> DEFINE start == [prog |-> Op(p)[2], i |-> 1]
    <3>1. start \in [prog : Names, i : Nat] /\ Placed(start, typed)
      BY <1>3, <1>6, PlacedAtStart
    <3>2. here' = [here EXCEPT ![p] = Further(here[p], 1), ![c] = start]
      BY <2>1 DEF Further
    <3> HIDE DEF start
    <3>3. /\ here \in [Pid -> [prog : Names, i : Nat]]
          /\ \A r \in Pid : Placed(here[r], typed)
      BY DEF ProcessInv, AllPlaced
    <3>4. /\ here' \in [Pid -> [prog : Names, i : Nat]]
          /\ \A r \in Pid : Placed(here'[r], typed)
      BY <2>2, <2>3, <2>4, <3>1, <3>2, <3>3
    <3>5. QED
      BY <1>1, <3>4 DEF AllPlaced, Placed
  <2>6. MemoriesTyped'
    BY <1>1, <1>5, <2>1, <2>2 DEF ProcessInv, MemoriesTyped
  <2>7. QED
    BY <1>1, <1>4, <2>3, <2>5, <2>6 DEF ProcessInv
<1>7. CASE Op(p)[2] \notin Names
  <2>1. GoOn(p, 1) /\ pids' = [pids EXCEPT ![p] = Append(@, -1)] /\ UNCHANGED Lives
    BY <1>7 DEF spawn
  <2>2. AllPlaced'
    BY <1>1, <1>2, <2>1, GoOnPlaced
  <2>3. MemoriesTyped'
    BY <1>1, <1>5, <2>1 DEF ProcessInv, MemoriesTyped
  <2>4. LivesTyped'
    BY <2>1 DEF ProcessInv, LivesTyped, Lives
  <2>5. QED
    BY <1>1, <1>4, <2>2, <2>3, <2>4 DEF ProcessInv
<1>8. QED
  BY <1>6, <1>7

LEMMA ExecTyped ==
    ASSUME ProcessInv, NEW p \in Pid, exec(p)
    PROVE  ProcessInv'
<1> DEFINE name == IF Op(p)[2] = "line" THEN line[p] ELSE Op(p)[2]
<1>1. Op(p)[1] = "exec" /\ UNCHANGED <<Lives, line, typed, failed, Pipes>>
  BY DEF exec, Does
<1>2. 1 \in Offsets(Op(p))
  BY <1>1, NextPlaces, InstructionShape
<1>3. typed \in Nat
  BY Counts DEF ProcessInv
<1>4. PipesTyped' /\ LivesTyped' /\ typed' = typed /\ failed' = failed
  BY <1>1 DEF ProcessInv, PipesTyped, Pipes, LivesTyped, Lives
<1>5. CASE name \in Names
  <2>1. /\ here' = [here EXCEPT ![p] = [prog |-> name, i |-> 1]]
        /\ pids' = [pids EXCEPT ![p] = <<>>]
        /\ answer' = [answer EXCEPT ![p] = 0] /\ status' = [status EXCEPT ![p] = 0]
    BY <1>5 DEF exec
  <2>2. AllPlaced'
    <3> DEFINE start == [prog |-> name, i |-> 1]
    <3>1. start \in [prog : Names, i : Nat] /\ Placed(start, typed)
      BY <1>3, <1>5, PlacedAtStart
    <3>2. here' = [here EXCEPT ![p] = start]
      BY <2>1
    <3> HIDE DEF start
    <3>3. /\ here \in [Pid -> [prog : Names, i : Nat]]
          /\ \A r \in Pid : Placed(here[r], typed)
      BY DEF ProcessInv, AllPlaced
    <3>4. /\ here' \in [Pid -> [prog : Names, i : Nat]]
          /\ \A r \in Pid : Placed(here'[r], typed)
      BY <3>1, <3>2, <3>3
    <3>5. QED
      BY <1>4, <3>4 DEF AllPlaced, Placed
  <2>3. MemoriesTyped'
    <3>1. <<>> \in Seq(Pid \cup {-1})
      BY EmptySeq
    <3>2. QED
      BY <2>1, <3>1, PidFacts DEF ProcessInv, MemoriesTyped
  <2>4. QED
    BY <1>4, <2>2, <2>3 DEF ProcessInv
<1>6. CASE name \notin Names
  <2>1. GoOn(p, 1) /\ UNCHANGED <<pids, answer, status>>
    BY <1>6 DEF exec
  <2>2. AllPlaced'
    BY <1>1, <1>2, <2>1, GoOnPlaced
  <2>3. QED
    BY <1>4, <2>1, <2>2 DEF ProcessInv, MemoriesTyped
<1>7. QED
  BY <1>5, <1>6

LEMMA WaitTyped ==
    ASSUME ProcessInv, NEW p \in Pid, wait(p)
    PROVE  ProcessInv'
<1>1. Op(p)[1] \in {"wait", "waitpid"} /\ GoOn(p, 1) /\ UNCHANGED <<pids, line, typed, failed, Pipes>>
  BY DEF wait, Does
<1>2. 1 \in Offsets(Op(p))
  BY <1>1, NextPlaces, InstructionShape
<1>3. AllPlaced'
  BY <1>1, <1>2, GoOnPlaced
<1>4. PipesTyped' /\ typed' = typed /\ failed' = failed
  BY <1>1 DEF ProcessInv, PipesTyped, Pipes
<1>5. LivesTyped' /\ MemoriesTyped'
  <2>1. ASSUME NEW q \in WaitedFor(p), Lifecycle!Reap(p, q),
               answer' = [answer EXCEPT ![p] = q], status' = [status EXCEPT ![p] = code[q]]
        PROVE  LivesTyped' /\ MemoriesTyped'
    <3>1. LivesTyped' /\ q \in Pid
      BY <2>1, ReapTyped DEF ProcessInv
    <3>2. QED
      BY <1>1, <2>1, <3>1 DEF ProcessInv, MemoriesTyped, LivesTyped
  <2>2. ASSUME answer' = [answer EXCEPT ![p] = -1], UNCHANGED <<Lives, status>>
        PROVE  LivesTyped' /\ MemoriesTyped'
    BY <1>1, <2>2 DEF ProcessInv, MemoriesTyped, LivesTyped, Lives
  <2>3. QED
    BY <2>1, <2>2 DEF wait
<1>6. QED
  BY <1>3, <1>4, <1>5 DEF ProcessInv

LEMMA LoopTyped ==
    ASSUME ProcessInv, NEW p \in Pid, while_child(p)
    PROVE  ProcessInv'
<1>1. /\ Op(p)[1] = "while_child" /\ GoOn(p, IF answer[p] # -1 THEN -1 ELSE 1)
      /\ UNCHANGED <<Lives, pids, answer, status, line, typed, failed, Pipes>>
  BY DEF while_child, Does
<1>2. -1 \in Offsets(Op(p)) /\ 1 \in Offsets(Op(p))
  BY <1>1, NextPlaces, InstructionShape
<1>3. AllPlaced'
  <2>1. CASE answer[p] # -1
    <3>1. GoOn(p, -1)
      BY <1>1, <2>1
    <3>2. QED
      BY <1>1, <1>2, <3>1, GoOnPlaced
  <2>2. CASE answer[p] = -1
    <3>1. GoOn(p, 1)
      BY <1>1, <2>2
    <3>2. QED
      BY <1>1, <1>2, <3>1, GoOnPlaced
  <2>3. QED
    BY <2>1, <2>2
<1>4. QED
  BY <1>1, <1>3 DEF ProcessInv, LivesTyped, MemoriesTyped, PipesTyped, Lives, Pipes

LEMMA GetlineTyped ==
    ASSUME ProcessInv, NEW p \in Pid, getline(p)
    PROVE  ProcessInv'
<1>1. /\ Op(p)[1] = "getline" /\ typed < CommandCount /\ typed' = typed + 1
      /\ UNCHANGED <<Lives, pids, answer, status, failed, Pipes>>
  BY DEF getline, Does
<1>2. PICK n \in {1, Op(p)[2]} : GoOn(p, n)
  BY DEF getline
<1>3. n \in Offsets(Op(p))
  BY <1>1, NextPlaces, InstructionShape
<1>4. AllPlaced'
  BY <1>1, <1>2, <1>3, GoOnPlaced
<1>5. typed' \in 0..CommandCount
  BY <1>1, Counts DEF ProcessInv
<1>6. QED
  BY <1>1, <1>4, <1>5 DEF ProcessInv, LivesTyped, MemoriesTyped, PipesTyped, Lives, Pipes

LEMMA EndTyped ==
    ASSUME ProcessInv, NEW p \in Pid, NEW c \in Int, End(p, c), failed' \subseteq Pid
    PROVE  ProcessInv'
<1>1. /\ Lifecycle!Finish(p, c) /\ ends' = {e \in ends : e[1] # p}
      /\ UNCHANGED <<here, pids, answer, status, line, typed, chan, got, sent>>
  BY DEF End
<1>2. LivesTyped'
  BY <1>1, FinishTyped DEF ProcessInv
<1>3. PipesTyped'
  BY <1>1 DEF ProcessInv, PipesTyped
<1>4. AllPlaced' /\ MemoriesTyped'
  BY <1>1 DEF ProcessInv, AllPlaced, Placed, MemoriesTyped
<1>5. QED
  BY <1>1, <1>2, <1>3, <1>4 DEF ProcessInv

LEMMA AssertTyped ==
    ASSUME ProcessInv, NEW p \in Pid, assert(p)
    PROVE  ProcessInv'
<1>1. Op(p)[1] = "assert"
  BY DEF assert, Does
<1>2. 1 \in Offsets(Op(p))
  BY <1>1, NextPlaces, InstructionShape
<1>3. CASE Claim(p, Op(p)[2], Op(p)[3])
  <2>1. GoOn(p, 1) /\ UNCHANGED <<Lives, pids, answer, status, line, typed, failed, Pipes>>
    BY <1>3 DEF assert
  <2>2. AllPlaced'
    BY <1>1, <1>2, <2>1, GoOnPlaced
  <2>3. QED
    BY <2>1, <2>2 DEF ProcessInv, LivesTyped, MemoriesTyped, PipesTyped, Lives, Pipes
<1>4. CASE ~Claim(p, Op(p)[2], Op(p)[3])
  <2>1. failed' = failed \cup {p} /\ End(p, 1)
    BY <1>4 DEF assert
  <2>2. failed' \subseteq Pid
    BY <2>1 DEF ProcessInv
  <2>3. QED
    BY <2>1, <2>2, EndTyped
<1>5. QED
  BY <1>3, <1>4

LEMMA ExitTyped ==
    ASSUME ProcessInv, NEW p \in Pid, exit(p)
    PROVE  ProcessInv'
<1>1. failed' \subseteq Pid
  BY DEF exit, ProcessInv
<1>2. PICK c \in Int : End(p, c)
  <2>1. CASE Does(p, "exit") /\ End(p, Op(p)[2])
    <3>1. Op(p)[2] \in Int
      BY <2>1, NextPlaces, InstructionShape DEF Does
    <3>2. QED
      BY <2>1, <3>1
  <2>2. CASE \E c \in {0, 1, -3} : End(p, c)
    BY <2>2
  <2>3. QED
    BY <2>1, <2>2 DEF exit
<1>3. QED
  BY <1>1, <1>2, EndTyped

LEMMA OpenTyped ==
    ASSUME ProcessInv, NEW p \in Pid, pipe(p) \/ close(p)
    PROVE  ProcessInv'
<1>1. /\ Op(p)[1] \in {"pipe", "close"} /\ GoOn(p, 1)
      /\ UNCHANGED <<Lives, pids, answer, status, line, typed, failed, chan, got, sent>>
  BY DEF pipe, close, Does
<1>2. Op(p)[2] \in 1..2 /\ 1 \in Offsets(Op(p))
  BY <1>1, NextPlaces, InstructionShape
<1>3. AllPlaced'
  BY <1>1, <1>2, GoOnPlaced
<1>4. ends' \subseteq Pid \X (1..2) \X {"r", "w"}
  <2>1. <<p, Op(p)[2], "r">> \in Pid \X (1..2) \X {"r", "w"}
    BY <1>2
  <2>2. <<p, Op(p)[2], "w">> \in Pid \X (1..2) \X {"r", "w"}
    BY <1>2
  <2>3. QED
    BY <2>1, <2>2 DEF pipe, close, ProcessInv, PipesTyped
<1>5. QED
  BY <1>1, <1>3, <1>4 DEF ProcessInv, LivesTyped, MemoriesTyped, PipesTyped, Lives

(* What a write adds to a pipe, and a read takes from it.                  *)
LEMMA NextBytesFacts ==
    ASSUME NEW p \in Pid, sent[p] \in Nat, NEW k \in Nat, NEW s \in Seq(Int)
    PROVE  /\ s \o NextBytes(p, k) \in Seq(Int) /\ Len(s \o NextBytes(p, k)) = Len(s) + k
           /\ \A i \in 1..Len(s) : (s \o NextBytes(p, k))[i] = s[i]
           /\ \A i \in 1..k : (s \o NextBytes(p, k))[Len(s) + i] = sent[p] + i
<1> DEFINE t == NextBytes(p, k)
<1>1. t \in Seq(Int) /\ Len(t) = k /\ \A i \in 1..k : t[i] = sent[p] + i
  BY DEF NextBytes
<1> HIDE DEF t
<1>2. s \o t \in Seq(Int) /\ Len(s \o t) = Len(s) + Len(t)
  BY <1>1, ConcatAt
<1>3. \A i \in 1..Len(s) : (s \o t)[i] = s[i]
  BY <1>1, ConcatAt
<1>4. \A i \in 1..Len(t) : (s \o t)[Len(s) + i] = t[i]
  BY <1>1, ConcatAt
<1>5. QED
  BY <1>1, <1>2, <1>3, <1>4 DEF t

LEMMA TakenFacts ==
    ASSUME NEW s \in Seq(Int), NEW c \in Seq(Int), NEW k \in 1..Len(c)
    PROVE  /\ s \o SubSeq(c, 1, k) \in Seq(Int) /\ Len(s \o SubSeq(c, 1, k)) = Len(s) + k
           /\ \A i \in 1..Len(s) : (s \o SubSeq(c, 1, k))[i] = s[i]
           /\ \A i \in 1..k : (s \o SubSeq(c, 1, k))[Len(s) + i] = c[i]
           /\ SubSeq(c, k + 1, Len(c)) \in Seq(Int) /\ Len(SubSeq(c, k + 1, Len(c))) = Len(c) - k
           /\ \A i \in 1..Len(c) - k : SubSeq(c, k + 1, Len(c))[i] = c[k + i]
<1> DEFINE t == SubSeq(c, 1, k)
           u == SubSeq(c, k + 1, Len(c))
<1>1. t \in Seq(Int) /\ Len(t) = k /\ \A i \in 1..k : t[i] = c[i]
  BY SubSeqProperties
<1>2. u \in Seq(Int) /\ Len(u) = Len(c) - k /\ \A i \in 1..Len(c) - k : u[i] = c[k + i]
  <2>1. k + 1 \in 1..Len(c) + 1 /\ Len(c) \in k..Len(c)
    OBVIOUS
  <2>2. u \in Seq(Int) /\ Len(u) = Len(c) - k
    OBVIOUS
  <2>3. ASSUME NEW i \in 1..Len(c) - k PROVE u[i] = c[k + i]
    OBVIOUS
  <2>4. QED
    BY <2>2, <2>3
<1> HIDE DEF t, u
<1>3. s \o t \in Seq(Int) /\ Len(s \o t) = Len(s) + Len(t)
  BY <1>1, ConcatAt
<1>4. \A i \in 1..Len(s) : (s \o t)[i] = s[i]
  BY <1>1, ConcatAt
<1>5. \A i \in 1..Len(t) : (s \o t)[Len(s) + i] = t[i]
  BY <1>1, ConcatAt
<1>6. QED
  BY <1>1, <1>2, <1>3, <1>4, <1>5 DEF t, u

LEMMA WriteTyped ==
    ASSUME ProcessInv, NEW p \in Pid, pipe_write(p)
    PROVE  ProcessInv'
<1> DEFINE q == Op(p)[2]
<1>1. /\ Op(p)[1] = "write"
      /\ UNCHANGED <<Lives, pids, answer, status, line, typed, failed, ends, got>>
  BY DEF pipe_write, Does
<1>2. q \in 1..2 /\ Op(p)[3] \in Nat /\ 1 \in Offsets(Op(p))
  BY <1>1, NextPlaces, InstructionShape
<1>3. LivesTyped' /\ MemoriesTyped'
  BY <1>1 DEF ProcessInv, LivesTyped, MemoriesTyped, Lives
<1>4. /\ chan \in [1..2 -> Seq(Int)] /\ \A r \in 1..2 : Len(chan[r]) <= PipeSize
      /\ sent \in [Pid -> Nat] /\ PipeSize \in Nat /\ chan[q] \in Seq(Int) /\ sent[p] \in Nat
  BY <1>2, ProcessAssumption DEF ProcessInv, PipesTyped
<1>5. CASE sent[p] = Op(p)[3]
  <2>1. sent' = [sent EXCEPT ![p] = 0] /\ GoOn(p, 1) /\ UNCHANGED chan
    BY <1>2, <1>4, <1>5 DEF pipe_write
  <2>2. AllPlaced'
    BY <1>1, <1>2, <2>1, GoOnPlaced
  <2>3. PipesTyped'
    BY <1>1, <2>1 DEF ProcessInv, PipesTyped
  <2>4. QED
    BY <1>1, <1>3, <2>2, <2>3 DEF ProcessInv
<1>6. CASE sent[p] # Op(p)[3]
  <2> DEFINE room == PipeSize - Len(chan[q])
             left == Op(p)[3] - sent[p]
  <2>1. PICK k \in 1..Min({room, left}) :
            /\ chan' = [chan EXCEPT ![q] = @ \o NextBytes(p, k)]
            /\ sent' = [sent EXCEPT ![p] = @ + k]
    BY <1>6 DEF pipe_write
  <2>2. UNCHANGED here
    BY <1>6 DEF pipe_write
  <2>3. room \in Int /\ left \in Int
    BY <1>2, <1>4
  <2>4. k \in Nat /\ k <= room
    <3> DEFINE m == Min({room, left})
    <3>1. m \in Int /\ m <= room
      <4> HIDE DEF room, left
      <4>1. QED
        BY <2>3, MinOfTwo
    <3>2. k \in 1..m
      BY <2>1
    <3> HIDE DEF m, room, left
    <3>3. QED
      BY <2>3, <3>1, <3>2
  <2> DEFINE more == chan[q] \o NextBytes(p, k)
  <2>5. more \in Seq(Int) /\ Len(more) = Len(chan[q]) + k
    BY <1>4, <2>4, NextBytesFacts
  <2>6. Len(more) <= PipeSize
    BY <1>4, <2>4, <2>5
  <2>7. chan' = [chan EXCEPT ![q] = more]
    BY <2>1
  <2> HIDE DEF more
  <2>8. chan' \in [1..2 -> Seq(Int)] /\ \A r \in 1..2 : Len(chan'[r]) <= PipeSize
    BY <1>2, <1>4, <2>5, <2>6, <2>7
  <2>9. sent' \in [Pid -> Nat]
    BY <1>4, <2>1, <2>4
  <2>10. PipesTyped'
    BY <1>1, <2>8, <2>9 DEF ProcessInv, PipesTyped
  <2>11. AllPlaced'
    BY <1>1, <2>2 DEF ProcessInv, AllPlaced, Placed
  <2>12. QED
    BY <1>1, <1>3, <2>10, <2>11 DEF ProcessInv
<1>7. QED
  BY <1>5, <1>6

LEMMA ReadTyped ==
    ASSUME ProcessInv, NEW p \in Pid, pipe_read(p)
    PROVE  ProcessInv'
<1> DEFINE q == Op(p)[2]
<1>1. /\ Op(p)[1] = "read"
      /\ UNCHANGED <<Lives, pids, answer, status, line, typed, failed, ends, sent>>
  BY DEF pipe_read, Does
<1>2. q \in 1..2 /\ Op(p)[3] \in Nat /\ 1 \in Offsets(Op(p))
  BY <1>1, NextPlaces, InstructionShape
<1>3. LivesTyped' /\ MemoriesTyped'
  BY <1>1 DEF ProcessInv, LivesTyped, MemoriesTyped, Lives
<1>4. /\ chan \in [1..2 -> Seq(Int)] /\ \A r \in 1..2 : Len(chan[r]) <= PipeSize
      /\ got \in [Pid -> Seq(Int)] /\ PipeSize \in Nat /\ chan[q] \in Seq(Int)
      /\ got[p] \in Seq(Int)
  BY <1>2, ProcessAssumption DEF ProcessInv, PipesTyped
<1>5. ASSUME GoOn(p, 1), UNCHANGED <<got, chan>>
      PROVE  ProcessInv'
  <2>1. AllPlaced'
    BY <1>1, <1>2, <1>5, GoOnPlaced
  <2>2. PipesTyped'
    BY <1>1, <1>5 DEF ProcessInv, PipesTyped
  <2>3. QED
    BY <1>1, <1>3, <2>1, <2>2 DEF ProcessInv
<1>6. ASSUME NEW k \in 1..Min({Len(chan[q]), Op(p)[3] - Len(got[p])}),
             got' = [got EXCEPT ![p] = @ \o SubSeq(chan[q], 1, k)],
             chan' = [chan EXCEPT ![q] = SubSeq(@, k + 1, Len(@))], UNCHANGED here
      PROVE  ProcessInv'
  <2> DEFINE full == Len(chan[q])
             left == Op(p)[3] - Len(got[p])
  <2>1. full \in Int /\ left \in Int /\ k \in 1..Min({full, left})
    BY <1>2, <1>4
  <2>2. k \in 1..full
    <3> DEFINE m == Min({full, left})
    <3>1. m \in Int /\ m <= full
      <4> HIDE DEF full, left
      <4>1. QED
        BY <2>1, MinOfTwo
    <3>2. k \in 1..m
      BY <2>1
    <3> HIDE DEF m, full, left
    <3>3. QED
      BY <2>1, <3>1, <3>2
  <2> DEFINE more == got[p] \o SubSeq(chan[q], 1, k)
             rest == SubSeq(chan[q], k + 1, Len(chan[q]))
  <2>3. more \in Seq(Int) /\ rest \in Seq(Int) /\ Len(rest) = Len(chan[q]) - k
    BY <1>4, <2>2, TakenFacts
  <2>4. Len(rest) <= PipeSize
    <3>1. Len(chan[q]) \in Nat /\ Len(chan[q]) <= PipeSize /\ k \in Nat
      BY <1>2, <1>4, <2>2
    <3> HIDE DEF rest
    <3>2. QED
      BY <1>4, <2>3, <3>1
  <2>5. got' = [got EXCEPT ![p] = more] /\ chan' = [chan EXCEPT ![q] = rest]
    BY <1>6
  <2> HIDE DEF more, rest
  <2>6. /\ chan' \in [1..2 -> Seq(Int)] /\ \A r \in 1..2 : Len(chan'[r]) <= PipeSize
        /\ got' \in [Pid -> Seq(Int)]
    BY <1>2, <1>4, <2>3, <2>4, <2>5
  <2>7. PipesTyped'
    BY <1>1, <2>6 DEF ProcessInv, PipesTyped
  <2>8. AllPlaced'
    BY <1>1, <1>6 DEF ProcessInv, AllPlaced, Placed
  <2>9. QED
    BY <1>1, <1>3, <2>7, <2>8 DEF ProcessInv
<1>7. QED
  BY <1>5, <1>6 DEF pipe_read

LEMMA ProcessesTyped ==
    ASSUME ProcessInv, ProcessNext
    PROVE  ProcessInv'
<1>1. ASSUME NEW p \in Pid, ProcessStep(p) PROVE ProcessInv'
  BY <1>1, ForkTyped, SpawnTyped, ExecTyped, WaitTyped, LoopTyped, AssertTyped, ExitTyped,
     GetlineTyped, OpenTyped, WriteTyped, ReadTyped DEF ProcessStep
<1>2. CASE ProcessesDone
  BY <1>2 DEF ProcessesDone, pvars, ProcessInv, AllPlaced, Placed, LivesTyped, MemoriesTyped,
             PipesTyped
<1>3. QED
  BY <1>1, <1>2 DEF ProcessNext

LEMMA ProcessesStartTyped ==
    ASSUME ProcessesAtStart
    PROVE  ProcessInv
<1>1. NoChild \in [prog : Names, i : Nat] /\ Placed(NoChild, 0)
  BY PlacedAtStart, ProgramFacts DEF NoChild
<1>2. AllPlaced
  BY <1>1 DEF ProcessesAtStart, AllPlaced
<1>3. LivesTyped
  BY PidFacts DEF ProcessesAtStart, LivesTyped, Lifecycle!Init
<1>4. MemoriesTyped
  BY PidFacts, EmptySeq DEF ProcessesAtStart, MemoriesTyped
<1>5. PipesTyped
  <2>1. Len(<<>>) = 0 /\ <<>> \in Seq(Int) /\ PipeSize \in Nat
    BY ProcessAssumption
  <2>2. QED
    BY <2>1 DEF ProcessesAtStart, PipesTyped
<1>6. QED
  BY <1>2, <1>3, <1>4, <1>5, Counts DEF ProcessesAtStart, ProcessInv

-----------------------------------------------------------------------------
(*                             PipeExact                                   *)

(* No process runs a pipe test or is about to.                             *)
NoPipes ==
    /\ line = [p \in Pid |-> line[p]]
    /\ \A p \in Pid : here[p].prog \notin PipeTests /\ line[p] \notin PipeTests /\ got[p] = <<>>

(* Where a pipe test forks, and where its parent goes on.                  *)
ForkAt(test_name) == IF test_name = "pipetest" THEN 2 ELSE 3

ParentAt(test_name) == IF test_name = "pipetest" THEN 8 ELSE 12

(* Process 1 runs it, process 2 is its child; each writes into the pipe of *)
(* its number, and how much.                                               *)
WriteAt(test_name, p) == IF test_name # "pipetest" /\ p = 1 THEN 14 ELSE 9

WholeLength(test_name, p) ==
    IF p = 2 THEN SUM_LEN ELSE IF test_name = "pipetest" THEN STR_LEN ELSE LENGTH

Reached(test_name, p) == IF here[p].prog = test_name THEN here[p].i ELSE 1

(* The bytes written into pipe p so far.                                   *)
Written(test_name, p) ==
    CASE Reached(test_name, p) < WriteAt(test_name, p) -> 0
      [] Reached(test_name, p) = WriteAt(test_name, p) -> sent[p]
      [] OTHER -> WholeLength(test_name, p)

(* What was taken out of a pipe, and what is in it, are the first n bytes. *)
Flow(out, in, n) ==
    /\ Len(out) + Len(in) = n
    /\ \A k \in 1..Len(out) : out[k] = k
    /\ \A k \in 1..Len(in) : in[k] = Len(out) + k

OtherOf(p) == 3 - p

AtInitproc(i) == [prog |-> "initproc", i |-> i]

Parents(test_name) ==
    {AtInitproc(2)} \cup
    {[prog |-> test_name, i |-> i] :
        i \in 1..ForkAt(test_name) \cup ParentAt(test_name)..Len(Program[test_name])}

Children(test_name) ==
    {[prog |-> test_name, i |-> i] : i \in ForkAt(test_name) + 1 .. ParentAt(test_name) - 1}

PipeLives(test_name) ==
    /\ line = [p \in Pid |-> test_name]
    /\ life[0] # "unborn" /\ \E i \in {1, 4, 5, 6} : here[0] = AtInitproc(i)
    /\ here[0].i = 1 => life[1] = "unborn"
    /\ \A p \in Pid \ {0, 1, 2} : life[p] = "unborn"
    /\ IF life[1] = "unborn" THEN here[1] = NoChild ELSE here[1] \in Parents(test_name)
    /\ IF life[2] = "unborn" THEN here[2] = NoChild ELSE here[2] \in Children(test_name)
    /\ life[2] = "unborn" <=> Reached(test_name, 1) <= ForkAt(test_name)

PipeBytes(test_name) ==
    /\ \A p \in 1..2 :
          /\ Reached(test_name, p) # WriteAt(test_name, p) => sent[p] = 0
          /\ sent[p] <= WholeLength(test_name, p)
          /\ Flow(got[OtherOf(p)], chan[p], Written(test_name, p))
    /\ \A p \in Pid \ (1..2) : got[p] = <<>>

OnePipe(test_name) == PipeLives(test_name) /\ PipeBytes(test_name)

PipeInv == NoPipes \/ \E test_name \in PipeTests : OnePipe(test_name)

LEMMA InitprocText ==
    /\ Len(initproc) = 6 /\ initproc[1] = <<"fork", 3>> /\ initproc[2] = Exec("line")
    /\ initproc[3] = Exit(0) /\ initproc[4] = Wait /\ initproc[5] = <<"while_child">>
    /\ initproc[6] = Exit(0)
<1> DEFINE child == <<Exec("line"), Exit(0)>>
           loop == <<Wait, <<"while_child">>, Exit(0)>>
           fork_ == Fork(child)
<1>1. child \in Seq(Straight) /\ Len(child) = 2 /\ child[1] = Exec("line") /\ child[2] = Exit(0)
  BY InstructionsFacts
<1>2. /\ loop \in Seq(Instructions) /\ Len(loop) = 3
      /\ loop[1] = Wait /\ loop[2] = <<"while_child">> /\ loop[3] = Exit(0)
  BY InstructionsFacts
<1>3. initproc = fork_ \o loop
  BY DEF initproc
<1> HIDE DEF child, loop
<1>4. /\ fork_ \in Seq(Instructions) /\ Len(fork_) = 3 /\ fork_[1] = <<"fork", 3>>
      /\ \A k \in 1..2 : fork_[k + 1] = child[k]
  <2>1. child \in Blocks(Instructions) /\ 2 + 1 = 3
    BY <1>1, Piece
  <2>2. /\ fork_ \in Blocks(Instructions) /\ Len(fork_) = Len(child) + 1
        /\ fork_[1] = <<"fork", Len(child) + 1>>
        /\ \A k \in 1..Len(child) : fork_[k + 1] = child[k]
    BY <2>1, ForkBlock, InstructionsFacts
  <2> HIDE DEF fork_
  <2>3. QED
    BY <1>1, <2>1, <2>2 DEF Blocks
<1> HIDE DEF fork_
<1>5. Len(initproc) = Len(fork_) + Len(loop)
  <2>1. fork_ \in Seq(Instructions) /\ loop \in Seq(Instructions)
    BY <1>2, <1>4
  <2>2. QED
    BY <1>3, <2>1, ConcatAt
<1>6. \A k \in 1..Len(fork_) : initproc[k] = fork_[k]
  <2>1. fork_ \in Seq(Instructions) /\ loop \in Seq(Instructions)
    BY <1>2, <1>4
  <2>2. \A k \in 1..Len(fork_) : (fork_ \o loop)[k] = fork_[k]
    BY <2>1, ConcatAt
  <2>3. QED
    BY <1>3, <2>2
<1>7. \A k \in 1..Len(loop) : initproc[Len(fork_) + k] = loop[k]
  <2>1. fork_ \in Seq(Instructions) /\ loop \in Seq(Instructions)
    BY <1>2, <1>4
  <2>2. \A k \in 1..Len(loop) : (fork_ \o loop)[Len(fork_) + k] = loop[k]
    BY <2>1, ConcatAt
  <2>3. QED
    BY <1>3, <2>2
<1>8. /\ initproc[1] = fork_[1] /\ initproc[2] = fork_[1 + 1] /\ initproc[3] = fork_[2 + 1]
      /\ initproc[4] = loop[1] /\ initproc[5] = loop[2] /\ initproc[6] = loop[3]
      /\ Len(initproc) = 6
  BY <1>2, <1>4, <1>5, <1>6, <1>7
<1>9. QED
  BY <1>1, <1>2, <1>4, <1>8

(* The instructions of the two processes of a pipe test.                   *)
Region(name, p) ==
    IF p = 1 THEN 1..ForkAt(name) \cup ParentAt(name)..Len(Program[name])
    ELSE ForkAt(name) + 1 .. ParentAt(name) - 1

PipeText(name) ==
    /\ Len(Program[name]) \in Nat /\ ForkAt(name) \in Nat /\ ParentAt(name) \in Nat
    /\ ForkAt(name) >= 1 /\ ForkAt(name) + 1 < ParentAt(name)
    /\ ParentAt(name) < Len(Program[name])
    /\ ForkAt(name) < 9
    /\ Program[name][ForkAt(name)] = <<"fork", ParentAt(name) - ForkAt(name)>>
    /\ \A i \in 1..Len(Program[name]) : i # ForkAt(name) =>
           Program[name][i][1] \in {"pipe", "close", "wait", "assert", "exit", "read", "write"}
    /\ Program[name][ParentAt(name) - 1] = Exit(0)
    /\ Program[name][Len(Program[name])] = Exit(0)
    /\ \A p \in 1..2 : \A i \in Region(name, p) :
          /\ Program[name][i][1] = "write" <=> i = WriteAt(name, p)
          /\ i = WriteAt(name, p) => Program[name][i] = PipeWrite(p, WholeLength(name, p))
          /\ Program[name][i][1] = "read" => Program[name][i][2] = OtherOf(p)

LEMMA PipeTexts ==
    ASSUME NEW name \in PipeTests
    PROVE  PipeText(name)
<1>1. CASE name = "pipetest"
  <2>1. Program[name] = pipetest /\ ForkAt(name) = 2 /\ ParentAt(name) = 8 /\ Len(pipetest) = 13
        /\ WriteAt(name, 1) = 9 /\ WriteAt(name, 2) = 9 /\ WholeLength(name, 1) = STR_LEN
        /\ OtherOf(1) = 2 /\ OtherOf(2) = 1
    BY <1>1, ProgramFacts, PipetestText DEF ForkAt, ParentAt, WriteAt, WholeLength, OtherOf
  <2>2. /\ pipetest[1][1] = "pipe" /\ pipetest[2] = <<"fork", 6>>
        /\ pipetest[3][1] = "close" /\ pipetest[4][1] = "read" /\ pipetest[4][2] = 1
        /\ pipetest[5][1] = "close" /\ pipetest[6][1] = "assert"
        /\ pipetest[7] = Exit(0) /\ pipetest[7][1] = "exit"
        /\ pipetest[8][1] = "close" /\ pipetest[9] = PipeWrite(1, STR_LEN)
        /\ pipetest[9][1] = "write"
        /\ pipetest[10][1] = "close" /\ pipetest[11][1] = "wait"
        /\ pipetest[12][1] = "assert" /\ pipetest[13] = Exit(0) /\ pipetest[13][1] = "exit"
    BY PipetestText DEF Pipe, Close, PipeRead, PipeWrite, Check, Exit, Wait
  <2>3. \A i \in 1..13 : i # 2 =>
           pipetest[i][1] \in {"pipe", "close", "wait", "assert", "exit", "read", "write"}
    BY <2>2
  <2>4. ASSUME NEW p \in 1..2, NEW i \in Region(name, p)
        PROVE  /\ pipetest[i][1] = "write" <=> i = WriteAt(name, p)
               /\ i = WriteAt(name, p) => pipetest[i] = PipeWrite(p, WholeLength(name, p))
               /\ pipetest[i][1] = "read" => pipetest[i][2] = OtherOf(p)
    <3>1. CASE p = 1
      <4>1. i \in {1, 2, 8, 9, 10, 11, 12, 13}
        BY <2>1, <3>1 DEF Region
      <4>2. QED
        BY <2>1, <2>2, <3>1, <4>1
    <3>2. CASE p = 2
      <4>1. i \in {3, 4, 5, 6, 7}
        BY <2>1, <3>2 DEF Region
      <4>2. QED
        BY <2>1, <2>2, <3>2, <4>1
    <3>3. QED
      BY <3>1, <3>2
  <2>5. QED
    BY <2>1, <2>2, <2>3, <2>4 DEF PipeText
<1>2. CASE name = "pipe_large_test"
  <2>1. Program[name] = pipe_large_test /\ ForkAt(name) = 3 /\ ParentAt(name) = 12
        /\ Len(pipe_large_test) = 20
        /\ WriteAt(name, 1) = 14 /\ WriteAt(name, 2) = 9 /\ WholeLength(name, 1) = LENGTH
        /\ WholeLength(name, 2) = SUM_LEN /\ OtherOf(1) = 2 /\ OtherOf(2) = 1
    BY <1>2, ProgramFacts, PipeLargeText DEF ForkAt, ParentAt, WriteAt, WholeLength, OtherOf
  <2>2. /\ pipe_large_test[1][1] = "pipe" /\ pipe_large_test[2][1] = "pipe"
        /\ pipe_large_test[3] = <<"fork", 9>>
        /\ pipe_large_test[4][1] = "close" /\ pipe_large_test[5][1] = "close"
        /\ pipe_large_test[6][1] = "read" /\ pipe_large_test[6][2] = 1
        /\ pipe_large_test[7][1] = "assert" /\ pipe_large_test[8][1] = "close"
        /\ pipe_large_test[9] = PipeWrite(2, SUM_LEN) /\ pipe_large_test[9][1] = "write"
        /\ pipe_large_test[10][1] = "close"
        /\ pipe_large_test[11] = Exit(0) /\ pipe_large_test[11][1] = "exit"
    BY PipeLargeText DEF Pipe, Close, PipeRead, PipeWrite, Check, Exit, Wait
  <2>3. /\ pipe_large_test[12][1] = "close" /\ pipe_large_test[13][1] = "close"
        /\ pipe_large_test[14] = PipeWrite(1, LENGTH) /\ pipe_large_test[14][1] = "write"
        /\ pipe_large_test[15][1] = "close"
        /\ pipe_large_test[16][1] = "read" /\ pipe_large_test[16][2] = 2
        /\ pipe_large_test[17][1] = "close" /\ pipe_large_test[18][1] = "assert"
        /\ pipe_large_test[19][1] = "wait"
        /\ pipe_large_test[20] = Exit(0) /\ pipe_large_test[20][1] = "exit"
    BY PipeLargeText DEF Pipe, Close, PipeRead, PipeWrite, Check, Exit, Wait
  <2>4. \A i \in 1..20 : i # 3 => pipe_large_test[i][1] \in
            {"pipe", "close", "wait", "assert", "exit", "read", "write"}
    BY <2>2, <2>3
  <2>5. ASSUME NEW p \in 1..2, NEW i \in Region(name, p)
        PROVE  /\ pipe_large_test[i][1] = "write" <=> i = WriteAt(name, p)
               /\ i = WriteAt(name, p) => pipe_large_test[i] = PipeWrite(p, WholeLength(name, p))
               /\ pipe_large_test[i][1] = "read" => pipe_large_test[i][2] = OtherOf(p)
    <3>1. CASE p = 1
      <4>1. i \in {1, 2, 3, 12, 13, 14, 15, 16, 17, 18, 19, 20}
        BY <2>1, <3>1 DEF Region
      <4>2. QED
        BY <2>1, <2>2, <2>3, <3>1, <4>1
    <3>2. CASE p = 2
      <4>1. i \in {4, 5, 6, 7, 8, 9, 10, 11}
        BY <2>1, <3>2 DEF Region
      <4>2. QED
        BY <2>1, <2>2, <3>2, <4>1
    <3>3. QED
      BY <3>1, <3>2
  <2>6. QED
    BY <2>1, <2>2, <2>3, <2>4, <2>5 DEF PipeText
<1>3. QED
  BY <1>1, <1>2 DEF PipeTests

LEMMA LengthFacts ==
    ASSUME NEW name \in PipeTests, NEW p \in 1..2
    PROVE  WholeLength(name, p) \in Nat /\ WriteAt(name, p) \in {9, 14}
BY Counts DEF WholeLength, WriteAt

(* Ends and reports of them give birth to nobody.                          *)
SameBorn == \A r \in Pid : life'[r] = "unborn" <=> life[r] = "unborn"

LEMMA BornKept ==
    ASSUME LivesTyped
    PROVE  /\ \A p \in Pid, c \in Int : Lifecycle!Finish(p, c) => SameBorn
           /\ \A p \in Pid, q \in Pid : Lifecycle!Reap(p, q) => SameBorn
           /\ UNCHANGED Lives => SameBorn
<1>1. ASSUME NEW p \in Pid, NEW c \in Int, Lifecycle!Finish(p, c) PROVE SameBorn
  BY <1>1 DEF Lifecycle!Finish, Lifecycle!Owned, SameBorn
<1>2. ASSUME NEW p \in Pid, NEW q \in Pid, Lifecycle!Reap(p, q) PROVE SameBorn
  BY <1>2 DEF Lifecycle!Reap, Lifecycle!Owned, SameBorn, LivesTyped
<1>3. UNCHANGED Lives => SameBorn
  BY DEF Lives, SameBorn
<1>4. QED
  BY <1>1, <1>2, <1>3

LEMMA SmallPids == 0 \in Pid /\ 1 \in Pid /\ 2 \in Pid
BY ProcessAssumption DEF Pid

LEMMA ShapesTyped ==
    ASSUME ProcessInv
    PROVE  /\ here \in [Pid -> [prog : Names, i : Nat]] /\ sent \in [Pid -> Nat]
           /\ chan \in [1..2 -> Seq(Int)] /\ got \in [Pid -> Seq(Int)]
<1>1. AllPlaced /\ PipesTyped
  BY DEF ProcessInv
<1>2. QED
  BY <1>1 DEF AllPlaced, PipesTyped

(* Who runs in a pipe test, and what.                                      *)
LEMMA PipeTurn ==
    ASSUME NEW name \in PipeTests, PipeLives(name), NEW p \in Pid, life[p] = "live"
    PROVE  \/ p = 0 /\ \E i \in {1, 4, 5, 6} : here[0] = AtInitproc(i) /\ Op(0) = initproc[i]
           \/ p = 1 /\ here[1] = AtInitproc(2) /\ Op(1) = Exec("line")
           \/ /\ p \in 1..2 /\ here[p].prog = name /\ here[p].i \in Region(name, p)
              /\ Op(p) = Program[name][here[p].i]
<1>1. p \in {0, 1, 2}
  BY DEF PipeLives
<1>2. CASE p = 0
  <2>1. PICK i \in {1, 4, 5, 6} : here[0] = AtInitproc(i)
    BY DEF PipeLives
  <2>2. Op(0) = initproc[i]
    BY <2>1, ProgramFacts DEF Op, AtInitproc
  <2>3. QED
    BY <1>2, <2>1, <2>2
<1>3. CASE p = 1
  <2>1. here[1] \in Parents(name)
    BY <1>3 DEF PipeLives
  <2>2. CASE here[1] = AtInitproc(2)
    BY <1>3, <2>2, ProgramFacts, InitprocText DEF Op, AtInitproc
  <2>3. CASE here[1] # AtInitproc(2)
    BY <1>3, <2>1, <2>3 DEF Op, Parents, Region
  <2>4. QED
    BY <2>2, <2>3
<1>4. CASE p = 2
  <2>1. here[2] \in Children(name)
    BY <1>4 DEF PipeLives
  <2>2. QED
    BY <1>4, <2>1 DEF Op, Children, Region
<1>5. QED
  BY <1>1, <1>2, <1>3, <1>4

(* The steps of initproc, and ends.                                        *)
LEMMA BothStay ==
    ASSUME NEW name \in PipeTests, OnePipe(name), UNCHANGED <<line, chan, got, sent>>, SameBorn,
           here'[1] = here[1], here'[2] = here[2],
           \E i \in {1, 4, 5, 6} : here'[0] = AtInitproc(i),
           here'[0].i = 1 => here[0].i = 1
    PROVE  OnePipe(name)'
<1>1. life'[0] # "unborn" /\ (life'[1] = "unborn" <=> life[1] = "unborn")
      /\ (life'[2] = "unborn" <=> life[2] = "unborn")
      /\ \A r \in Pid \ {0, 1, 2} : life'[r] = "unborn"
  BY SmallPids DEF OnePipe, PipeLives, SameBorn
<1>2. \A r \in 1..2 : Reached(name, r)' = Reached(name, r)
  BY DEF Reached
<1>3. \A r \in 1..2 : Written(name, r)' = Written(name, r)
  BY <1>2 DEF Written
<1>4. PipeLives(name)'
  BY <1>1, <1>2 DEF OnePipe, PipeLives
<1>5. PipeBytes(name)'
  BY <1>2, <1>3 DEF OnePipe, PipeBytes, Flow
<1>6. QED
  BY <1>4, <1>5 DEF OnePipe

(* One of the two goes on to its next instruction.                         *)
LEMMA OneGoesOn ==
    ASSUME NEW name \in PipeTests, OnePipe(name), ProcessInv,
           NEW p \in 1..2, life[p] = "live", here[p].prog = name,
           here[p].i \in Region(name, p), Op(p) = Program[name][here[p].i],
           Op(p)[1] \notin {"fork", "exit"}, GoOn(p, 1),
           UNCHANGED <<line, chan, got>>, SameBorn,
           IF Op(p)[1] = "write"
           THEN sent[p] = WholeLength(name, p) /\ sent' = [sent EXCEPT ![p] = 0]
           ELSE sent' = sent
    PROVE  OnePipe(name)'
<1> DEFINE i == here[p].i
           f == ForkAt(name)
           m == ParentAt(name)
           n == Len(Program[name])
<1>0. PipeText(name)
  BY PipeTexts
<1>1. /\ n \in Nat /\ f \in Nat /\ m \in Nat /\ f >= 1 /\ f + 1 < m /\ m < n
      /\ Program[name][f] = <<"fork", m - f>> /\ Program[name][m - 1] = Exit(0)
      /\ Program[name][n] = Exit(0)
  BY <1>0 DEF PipeText
<1>14. Op(p)[1] = "write" <=> i = WriteAt(name, p)
  BY <1>0 DEF PipeText
<1>2. i # f /\ i # m - 1 /\ i # n
  BY <1>1 DEF Exit
<1>3. /\ here \in [Pid -> [prog : Names, i : Nat]] /\ sent \in [Pid -> Nat] /\ p \in Pid
      /\ i \in Nat
  <2>1. here \in [Pid -> [prog : Names, i : Nat]] /\ sent \in [Pid -> Nat]
    BY ShapesTyped
  <2>2. p \in Pid
    BY SmallPids
  <2>3. QED
    BY <2>1, <2>2
<1>4. here' = [here EXCEPT ![p] = [prog |-> name, i |-> i + 1]]
  <2>1. here[p] \in [prog : Names, i : Nat]
    BY <1>3
  <2>2. [here[p] EXCEPT !.i = @ + 1] = [prog |-> name, i |-> i + 1]
    BY <2>1
  <2>3. QED
    BY <2>2 DEF GoOn
<1>5. i + 1 \in Region(name, p) /\ (p = 1 => (i <= f <=> i + 1 <= f))
  <2>1. CASE p = 1
    <3>1. i \in 1..f \/ i \in m..n
      BY <2>1 DEF Region
    <3> HIDE DEF i, f, m, n
    <3>2. (i + 1 \in 1..f \/ i + 1 \in m..n) /\ (i <= f <=> i + 1 <= f)
      BY <1>1, <1>2, <1>3, <3>1
    <3>3. QED
      BY <2>1, <3>2 DEF Region, f, m, n
  <2>2. CASE p = 2
    <3>1. i \in f + 1 .. m - 1
      BY <2>2 DEF Region
    <3> HIDE DEF i, f, m, n
    <3>2. i + 1 \in f + 1 .. m - 1
      BY <1>1, <1>2, <1>3, <3>1
    <3>3. QED
      BY <2>2, <3>2 DEF Region, f, m
  <2>3. QED
    BY <2>1, <2>2
<1> HIDE DEF f, m, n, i
<1>6. \A r \in Pid \ {p} : here'[r] = here[r]
  BY <1>4, <1>3
<1>7. here'[p] = [prog |-> name, i |-> i + 1] /\ name # "initproc"
  BY <1>4, <1>3 DEF PipeTests
<1>8. Reached(name, p) = i /\ Reached(name, p)' = i + 1
  BY <1>7 DEF Reached, i
<1>9. \A r \in (1..2) \ {p} : Reached(name, r)' = Reached(name, r) /\ sent'[r] = sent[r]
  BY <1>3, <1>6, SmallPids DEF Reached
<1>10. PipeLives(name)'
  <2>1. life'[0] # "unborn" /\ (life'[1] = "unborn" <=> life[1] = "unborn")
        /\ (life'[2] = "unborn" <=> life[2] = "unborn")
        /\ \A r \in Pid \ {0, 1, 2} : life'[r] = "unborn"
    BY SmallPids DEF OnePipe, PipeLives, SameBorn
  <2>2. here'[0] = here[0] /\ line' = line
    BY <1>6, SmallPids
  <2>3. CASE p = 1
    <3>1. here'[1] \in Parents(name) /\ here'[2] = here[2]
      BY <1>5, <1>6, <1>7, <2>3, SmallPids DEF Parents, Region
    <3>2. Reached(name, 1)' <= ForkAt(name) <=> Reached(name, 1) <= ForkAt(name)
      BY <1>5, <1>8, <2>3 DEF f
    <3>3. QED
      BY <2>1, <2>2, <2>3, <3>1, <3>2 DEF OnePipe, PipeLives
  <2>4. CASE p = 2
    <3>1. here'[2] \in Children(name) /\ here'[1] = here[1]
      BY <1>5, <1>6, <1>7, <2>4, SmallPids DEF Children, Region
    <3>2. Reached(name, 1)' = Reached(name, 1)
      BY <1>9, <2>4
    <3>3. QED
      BY <2>1, <2>2, <2>4, <3>1, <3>2 DEF OnePipe, PipeLives
  <2>5. QED
    BY <2>3, <2>4
<1>11. /\ Reached(name, p)' # WriteAt(name, p) => sent'[p] = 0
       /\ sent'[p] <= WholeLength(name, p)
       /\ Written(name, p)' = Written(name, p)
  <2>1. WholeLength(name, p) \in Nat /\ WriteAt(name, p) \in Nat /\ sent[p] \in Nat
    BY <1>3, LengthFacts
  <2>2. /\ i # WriteAt(name, p) => sent[p] = 0
        /\ sent[p] <= WholeLength(name, p)
    BY <1>8 DEF OnePipe, PipeBytes
  <2>3. CASE i = WriteAt(name, p)
    <3>1. sent[p] = WholeLength(name, p) /\ sent'[p] = 0
      BY <1>14, <1>3, <2>3
    <3>2. QED
      BY <1>3, <1>8, <2>1, <2>3, <3>1 DEF Written
  <2>4. CASE i # WriteAt(name, p)
    <3>1. sent' = sent /\ sent[p] = 0
      BY <1>14, <2>2, <2>4
    <3>2. QED
      BY <1>3, <1>8, <2>1, <2>4, <3>1 DEF Written
  <2>5. QED
    BY <2>3, <2>4
<1>12. PipeBytes(name)'
  <2>1. ASSUME NEW r \in 1..2
        PROVE  /\ Reached(name, r)' # WriteAt(name, r) => sent'[r] = 0
               /\ sent'[r] <= WholeLength(name, r)
               /\ Written(name, r)' = Written(name, r)
    <3>1. CASE r = p
      BY <1>11, <3>1
    <3>2. CASE r # p
      BY <1>9, <3>2 DEF OnePipe, PipeBytes, Written
    <3>3. QED
      BY <3>1, <3>2
  <2>2. ASSUME NEW r \in 1..2
        PROVE  Flow(got[OtherOf(r)], chan[r], Written(name, r))' 
    BY <2>1 DEF OnePipe, PipeBytes, Flow
  <2>3. QED
    BY <2>1, <2>2 DEF OnePipe, PipeBytes
<1>13. QED
  BY <1>10, <1>12 DEF OnePipe

LEMMA FlowAdds ==
    ASSUME NEW out \in Seq(Int), NEW in \in Seq(Int), NEW n \in Nat, Flow(out, in, n),
           NEW k \in Nat, NEW more \in Seq(Int), Len(more) = Len(in) + k,
           \A j \in 1..Len(in) : more[j] = in[j],
           \A j \in 1..k : more[Len(in) + j] = n + j
    PROVE  Flow(out, more, n + k)
<1> DEFINE a == Len(out)
           b == Len(in)
<1>1. a \in Nat /\ b \in Nat /\ a + b = n /\ Len(more) = b + k
  BY DEF Flow
<1>2. \A j \in 1..b : more[j] = a + j
  BY DEF Flow
<1>3. \A j \in 1..k : more[b + j] = n + j
  OBVIOUS
<1>4. \A j \in 1..a : out[j] = j
  BY DEF Flow
<1> HIDE DEF a, b
<1>5. ASSUME NEW j \in 1..b + k PROVE more[j] = a + j
  <2>1. CASE j <= b
    <3>1. j \in 1..b
      BY <1>1, <2>1
    <3>2. QED
      BY <1>2, <3>1
  <2>2. CASE ~(j <= b)
    <3>1. PICK h \in 1..k : b + h = j
      <4>1. j - b \in 1..k /\ b + (j - b) = j
        BY <1>1, <2>2
      <4>2. QED
        BY <4>1
    <3>2. more[j] = n + h
      BY <1>3, <3>1
    <3>3. QED
      BY <1>1, <3>1, <3>2
  <2>3. QED
    BY <2>1, <2>2
<1>6. a + (b + k) = n + k
  BY <1>1
<1>7. QED
  BY <1>1, <1>4, <1>5, <1>6 DEF Flow, a

LEMMA FlowTakes ==
    ASSUME NEW out \in Seq(Int), NEW in \in Seq(Int), NEW n \in Nat, Flow(out, in, n),
           NEW k \in 1..Len(in)
    PROVE  Flow(out \o SubSeq(in, 1, k), SubSeq(in, k + 1, Len(in)), n)
<1> DEFINE more == out \o SubSeq(in, 1, k)
           rest == SubSeq(in, k + 1, Len(in))
           a == Len(out)
           b == Len(in)
<1>1. /\ a \in Nat /\ b \in Nat /\ a + b = n /\ k \in 1..b
      /\ \A j \in 1..a : out[j] = j
      /\ \A j \in 1..b : in[j] = a + j
  BY DEF Flow
<1>2. /\ Len(more) = a + k /\ Len(rest) = b - k
      /\ \A j \in 1..a : more[j] = out[j]
      /\ \A j \in 1..k : more[a + j] = in[j]
      /\ \A j \in 1..b - k : rest[j] = in[k + j]
  BY TakenFacts
<1> HIDE DEF more, rest, a, b
<1>3. ASSUME NEW j \in 1..a + k PROVE more[j] = j
  <2>1. CASE j <= a
    <3>1. j \in 1..a
      BY <1>1, <2>1
    <3>2. QED
      BY <1>1, <1>2, <3>1
  <2>2. CASE ~(j <= a)
    <3>1. PICK h \in 1..k : a + h = j
      <4>1. j - a \in 1..k /\ a + (j - a) = j
        BY <1>1, <2>2
      <4>2. QED
        BY <4>1
    <3>2. more[a + h] = in[h]
      BY <1>2, <3>1
    <3>3. more[j] = in[h] /\ h \in 1..b
      BY <1>1, <3>1, <3>2
    <3>4. QED
      BY <1>1, <3>1, <3>3
  <2>3. QED
    BY <2>1, <2>2
<1>4. ASSUME NEW j \in 1..b - k PROVE rest[j] = (a + k) + j
  <2>1. rest[j] = in[k + j] /\ k + j \in 1..b
    BY <1>1, <1>2
  <2>2. ASSUME NEW h \in 1..b, h = k + j PROVE in[h] = (a + k) + j
    BY <1>1, <2>2
  <2>3. QED
    BY <2>1, <2>2
<1>5. (a + k) + (b - k) = n
  BY <1>1
<1>6. Flow(more, rest, n)
  BY <1>2, <1>3, <1>4, <1>5 DEF Flow
<1>7. QED
  BY <1>6 DEF more, rest, b

LEMMA Positions ==
    ASSUME NEW name \in PipeTests
    PROVE  /\ ForkAt(name) \in Nat /\ ParentAt(name) \in Nat /\ ForkAt(name) >= 1
           /\ ForkAt(name) + 1 < ParentAt(name) /\ ParentAt(name) < WriteAt(name, 1)
           /\ ForkAt(name) + 1 < WriteAt(name, 2)
           /\ WriteAt(name, 1) \in Nat /\ WriteAt(name, 2) \in Nat /\ name # "initproc"
           /\ OtherOf(1) = 2 /\ OtherOf(2) = 1
           /\ ParentAt(name) < Len(Program[name]) /\ Len(Program[name]) \in Nat
<1>1. PipeText(name)
  BY PipeTexts
<1>2. QED
  BY <1>1 DEF PipeText, PipeTests, ForkAt, ParentAt, WriteAt, OtherOf

(* initproc forks the process that is to run the test.                     *)
LEMMA InitprocForks ==
    ASSUME NEW name \in PipeTests, OnePipe(name), ProcessInv, fork(0), here[0] = AtInitproc(1),
           Op(0) = initproc[1]
    PROVE  OnePipe(name)'
<1>1. /\ life[0] # "unborn" /\ life[1] = "unborn" /\ here[1] = NoChild
      /\ line = [p \in Pid |-> name]
  BY DEF OnePipe, PipeLives, AtInitproc
<1>2. Op(0) = <<"fork", 3>>
  BY InitprocText
<1>3. PICK c \in NewPid :
          /\ Lifecycle!Birth(0, c)
          /\ here' = [here EXCEPT ![0].i = @ + Op(0)[2], ![c] = [here[0] EXCEPT !.i = @ + 1]]
          /\ line' = [line EXCEPT ![c] = line[0]]
  BY DEF fork
<1>4. c = 1
  <2>1. c \in Pid /\ life[c] = "unborn" /\ \A d \in 0 .. c - 1 : life[d] # "unborn"
    BY DEF NewPid
  <2>2. c \in Nat /\ c # 0
    BY <1>1, <2>1, PidFacts DEF Pid
  <2>3. c > 1 => 1 \in 0 .. c - 1
    BY <2>2
  <2>4. QED
    BY <1>1, <2>1, <2>2, <2>3
<1>5. UNCHANGED <<chan, got, sent>>
  BY DEF fork
<1>6. /\ here \in [Pid -> [prog : Names, i : Nat]] /\ life \in [Pid -> {"unborn", "live", "zombie", "gone"}]
  BY DEF ProcessInv, AllPlaced, LivesTyped
<1>7. here'[0] = AtInitproc(4) /\ here'[1] = AtInitproc(2) /\ here'[2] = here[2]
  <2>1. Op(0)[2] = 3
    BY <1>2
  <2>2. here' = [here EXCEPT ![0].i = @ + 3, ![1] = [here[0] EXCEPT !.i = @ + 1]]
    BY <1>3, <1>4, <2>1
  <2>3. QED
    BY <1>6, <2>2, SmallPids DEF AtInitproc
<1>8. life' = [life EXCEPT ![1] = "live"]
  BY <1>3, <1>4 DEF Lifecycle!Birth
<1>9. /\ life'[0] # "unborn" /\ life'[1] = "live" /\ life'[2] = life[2]
      /\ \A r \in Pid \ {0, 1, 2} : life'[r] = life[r]
  BY <1>1, <1>6, <1>8, SmallPids
<1>10. Reached(name, 1) = 1 /\ Reached(name, 1)' = 1 /\ Reached(name, 2)' = Reached(name, 2)
  BY <1>1, <1>7, Positions DEF Reached, NoChild, AtInitproc
<1>11. line' = line
  BY <1>1, <1>3, <1>4, SmallPids
<1>12. PipeLives(name)'
  <2>1. here'[0].i # 1 /\ here'[1] \in Parents(name)
    BY <1>7 DEF AtInitproc, Parents
  <2>2. QED
    BY <1>7, <1>9, <1>10, <1>11, <2>1 DEF OnePipe, PipeLives
<1>13. \A r \in 1..2 : Reached(name, r)' = Reached(name, r) /\ Written(name, r)' = Written(name, r)
  BY <1>5, <1>10 DEF Written
<1>14. PipeBytes(name)'
  BY <1>5, <1>13 DEF OnePipe, PipeBytes, Flow
<1>15. QED
  BY <1>12, <1>14 DEF OnePipe

LEMMA TestStarts ==
    ASSUME NEW name \in PipeTests, OnePipe(name), ProcessInv, exec(1), here[1] = AtInitproc(2),
           Op(1) = Exec("line"), life[1] = "live"
    PROVE  OnePipe(name)'
<1>1. line[1] = name /\ name \in Names
  BY SmallPids, ProgramFacts DEF OnePipe, PipeLives, PipeTests
<1>2. here' = [here EXCEPT ![1] = [prog |-> name, i |-> 1]]
  BY <1>1 DEF exec, Exec
<1>3. UNCHANGED <<life, line, chan, got, sent>>
  BY DEF exec, Lives, Pipes
<1>4. here'[0] = here[0] /\ here'[1] = [prog |-> name, i |-> 1] /\ here'[2] = here[2]
  BY <1>2, SmallPids DEF ProcessInv, AllPlaced
<1>5. Reached(name, 1) = 1 /\ Reached(name, 1)' = 1 /\ Reached(name, 2)' = Reached(name, 2)
  BY <1>4, Positions DEF Reached, AtInitproc
<1>6. PipeLives(name)'
  <2>1. here'[1] \in Parents(name)
    BY <1>4, Positions DEF Parents
  <2>2. QED
    BY <1>3, <1>4, <1>5, <2>1 DEF OnePipe, PipeLives
<1>7. \A r \in 1..2 : Reached(name, r)' = Reached(name, r) /\ Written(name, r)' = Written(name, r)
  BY <1>3, <1>5 DEF Written
<1>8. PipeBytes(name)'
  BY <1>3, <1>7 DEF OnePipe, PipeBytes, Flow
<1>9. QED
  BY <1>6, <1>8 DEF OnePipe

LEMMA TestForks ==
    ASSUME NEW name \in PipeTests, OnePipe(name), ProcessInv, fork(1), life[1] = "live",
           here[1].prog = name, here[1].i \in Region(name, 1),
           Op(1) = Program[name][here[1].i]
    PROVE  OnePipe(name)'
<1> DEFINE f == ForkAt(name)
           m == ParentAt(name)
<1>0. PipeText(name)
  BY PipeTexts
<1>1. /\ f \in Nat /\ m \in Nat /\ f >= 1 /\ f + 1 < m
      /\ m < WriteAt(name, 1) /\ f + 1 < WriteAt(name, 2)
      /\ WriteAt(name, 1) \in Nat /\ WriteAt(name, 2) \in Nat
  BY Positions
<1>2. here[1].i = f /\ Op(1) = <<"fork", m - f>>
  <2>1. Op(1)[1] = "fork"
    BY DEF fork, Does
  <2>2. here[1].i \in 1..Len(Program[name])
    BY SmallPids DEF ProcessInv, AllPlaced, Placed
  <2>3. QED
    BY <1>0, <2>1, <2>2 DEF PipeText
<1> HIDE DEF f, m
<1>3. /\ life[0] # "unborn" /\ life[2] = "unborn" /\ here[2] = NoChild
      /\ line = [p \in Pid |-> name] /\ Reached(name, 1) = f
  <2>1. Reached(name, 1) = f
    BY <1>2 DEF Reached
  <2>2. life[2] = "unborn"
    BY <1>1, <2>1 DEF OnePipe, PipeLives, f
  <2>3. QED
    BY <2>1, <2>2 DEF OnePipe, PipeLives
<1>4. PICK c \in NewPid :
          /\ Lifecycle!Birth(1, c)
          /\ here' = [here EXCEPT ![1].i = @ + Op(1)[2], ![c] = [here[1] EXCEPT !.i = @ + 1]]
          /\ line' = [line EXCEPT ![c] = line[1]]
  BY DEF fork
<1>5. c = 2
  <2>1. c \in Pid /\ life[c] = "unborn" /\ \A d \in 0 .. c - 1 : life[d] # "unborn"
    BY DEF NewPid
  <2>2. c \in Nat /\ c # 0 /\ c # 1
    BY <1>3, <2>1, PidFacts DEF Pid
  <2>3. c > 2 => 2 \in 0 .. c - 1
    BY <2>2
  <2>4. QED
    BY <1>3, <2>1, <2>2, <2>3
<1>6. UNCHANGED <<chan, got, sent>>
  BY DEF fork
<1>7. /\ here \in [Pid -> [prog : Names, i : Nat]]
      /\ life \in [Pid -> {"unborn", "live", "zombie", "gone"}]
  BY DEF ProcessInv, AllPlaced, LivesTyped
<1>8. here[1] = [prog |-> name, i |-> f]
  BY <1>2, <1>7, SmallPids
<1>9. /\ here'[0] = here[0] /\ here'[1] = [prog |-> name, i |-> m]
      /\ here'[2] = [prog |-> name, i |-> f + 1]
  <2>1. f + (m - f) = m /\ Op(1)[2] = m - f
    BY <1>1, <1>2
  <2>2. here' = [here EXCEPT ![1].i = @ + (m - f), ![2] = [here[1] EXCEPT !.i = @ + 1]]
    BY <1>4, <1>5, <2>1
  <2>3. QED
    BY <1>7, <1>8, <2>1, <2>2, SmallPids
<1>10. life' = [life EXCEPT ![2] = "live"]
  BY <1>4, <1>5 DEF Lifecycle!Birth
<1>11. /\ life'[0] # "unborn" /\ life'[1] = "live" /\ life'[2] = "live"
       /\ \A r \in Pid \ {0, 1, 2} : life'[r] = life[r]
  BY <1>3, <1>7, <1>10, SmallPids
<1>12. Reached(name, 1)' = m /\ Reached(name, 2) = 1 /\ Reached(name, 2)' = f + 1
  BY <1>3, <1>9, Positions DEF Reached, NoChild
<1>13. line' = line
  BY <1>3, <1>4, <1>5, SmallPids
<1>14. PipeLives(name)'
  <2>1. here'[1] \in Parents(name) /\ here'[2] \in Children(name)
    BY <1>1, <1>9, Positions DEF Parents, Children, f, m
  <2>2. here'[0].i # 1
    BY <1>9 DEF OnePipe, PipeLives
  <2>3. ~(Reached(name, 1)' <= ForkAt(name))
    BY <1>1, <1>12 DEF f
  <2>4. QED
    BY <1>9, <1>11, <1>13, <2>1, <2>2, <2>3 DEF OnePipe, PipeLives
<1>15. /\ Written(name, 1) = 0 /\ Written(name, 1)' = 0
       /\ Written(name, 2) = 0 /\ Written(name, 2)' = 0
  BY <1>1, <1>3, <1>12 DEF Written
<1>16. sent[1] = 0 /\ sent[2] = 0
  BY <1>1, <1>3, <1>12 DEF OnePipe, PipeBytes
<1>17. PipeBytes(name)'
  <2>1. ASSUME NEW r \in 1..2
        PROVE  /\ sent'[r] = 0 /\ sent'[r] <= WholeLength(name, r)
               /\ Flow(got[OtherOf(r)], chan[r], Written(name, r))'
    <3>1. Written(name, r)' = Written(name, r) /\ sent[r] = 0
      BY <1>15, <1>16
    <3>2. QED
      BY <1>6, <3>1 DEF OnePipe, PipeBytes, Flow
  <2>2. QED
    BY <1>6, <2>1 DEF OnePipe, PipeBytes
<1>18. QED
  BY <1>14, <1>17 DEF OnePipe

LEMMA SomeWritten ==
    ASSUME NEW name \in PipeTests, OnePipe(name), ProcessInv, NEW p \in 1..2,
           here[p].prog = name, here[p].i = WriteAt(name, p), UNCHANGED <<life, line, here, got>>,
           sent[p] < WholeLength(name, p),
           NEW k \in 1..Min({PipeSize - Len(chan[p]), WholeLength(name, p) - sent[p]}),
           chan' = [chan EXCEPT ![p] = @ \o NextBytes(p, k)],
           sent' = [sent EXCEPT ![p] = @ + k]
    PROVE  OnePipe(name)'
<1>1. /\ chan \in [1..2 -> Seq(Int)] /\ sent \in [Pid -> Nat] /\ got \in [Pid -> Seq(Int)]
      /\ PipeSize \in Nat /\ p \in Pid /\ OtherOf(p) \in Pid /\ chan[p] \in Seq(Int)
      /\ sent[p] \in Nat /\ got[OtherOf(p)] \in Seq(Int)
  <2>1. /\ chan \in [1..2 -> Seq(Int)] /\ sent \in [Pid -> Nat] /\ got \in [Pid -> Seq(Int)]
        /\ PipeSize \in Nat
    BY Counts, ShapesTyped
  <2>2. p \in Pid /\ OtherOf(p) \in Pid
    BY SmallPids DEF OtherOf
  <2>3. QED
    BY <2>1, <2>2
<1>2. WholeLength(name, p) \in Nat
  BY LengthFacts
<1>3. k \in Nat /\ sent[p] + k <= WholeLength(name, p)
  <2> DEFINE room == PipeSize - Len(chan[p])
             left == WholeLength(name, p) - sent[p]
             m == Min({room, left})
  <2>1. room \in Int /\ left \in Int /\ k \in 1..m
    BY <1>1, <1>2
  <2>2. m \in Int /\ m <= left
    <3> HIDE DEF room, left
    <3>1. QED
      BY <2>1, MinOfTwo
  <2> HIDE DEF m
  <2>3. k \in Nat /\ k <= left
    <3> HIDE DEF left
    <3>1. QED
      BY <2>1, <2>2
  <2>4. QED
    BY <1>1, <1>2, <2>3
<1> DEFINE more == chan[p] \o NextBytes(p, k)
<1>4. /\ more \in Seq(Int) /\ Len(more) = Len(chan[p]) + k
      /\ \A j \in 1..Len(chan[p]) : more[j] = chan[p][j]
      /\ \A j \in 1..k : more[Len(chan[p]) + j] = sent[p] + j
  <2> DEFINE s == chan[p]
  <2>1. s \in Seq(Int) /\ sent[p] \in Nat /\ k \in Nat /\ p \in Pid
    BY <1>1, <1>3
  <2> HIDE DEF s
  <2>2. s \o NextBytes(p, k) \in Seq(Int) /\ Len(s \o NextBytes(p, k)) = Len(s) + k
    BY <2>1, NextBytesFacts
  <2>3. \A j \in 1..Len(s) : (s \o NextBytes(p, k))[j] = s[j]
    BY <2>1, NextBytesFacts
  <2>4. \A j \in 1..k : (s \o NextBytes(p, k))[Len(s) + j] = sent[p] + j
    BY <2>1, NextBytesFacts
  <2>5. QED
    BY <2>2, <2>3, <2>4 DEF s
<1>5. chan' = [chan EXCEPT ![p] = more]
  OBVIOUS
<1> HIDE DEF more
<1>6. /\ Reached(name, p) = WriteAt(name, p) /\ Written(name, p) = sent[p]
      /\ \A r \in 1..2 : Reached(name, r)' = Reached(name, r)
      /\ WriteAt(name, p) \in Nat
  BY LengthFacts DEF Reached, Written
<1>7. sent'[p] = sent[p] + k /\ Written(name, p)' = sent[p] + k
  BY <1>1, <1>6 DEF Written
<1>8. Flow(got[OtherOf(p)], chan[p], sent[p])
  BY <1>6 DEF OnePipe, PipeBytes
<1>9. Flow(got[OtherOf(p)], more, sent[p] + k)
  BY <1>1, <1>3, <1>4, <1>8, FlowAdds
<1>10. chan'[p] = more /\ \A r \in (1..2) \ {p} : chan'[r] = chan[r] /\ sent'[r] = sent[r]
  <2>1. chan'[p] = more /\ \A r \in (1..2) \ {p} : chan'[r] = chan[r]
    BY <1>1, <1>5
  <2>2. \A r \in (1..2) \ {p} : sent'[r] = sent[r]
    BY <1>1, SmallPids
  <2>3. QED
    BY <2>1, <2>2
<1>11. PipeLives(name)'
  BY <1>6 DEF OnePipe, PipeLives
<1>12. ASSUME NEW r \in 1..2
       PROVE  /\ Reached(name, r)' # WriteAt(name, r) => sent'[r] = 0
              /\ sent'[r] <= WholeLength(name, r)
              /\ Flow(got[OtherOf(r)], chan[r], Written(name, r))'
  <2>1. CASE r = p
    <3>1. Flow(got[OtherOf(p)], chan[p], Written(name, p))'
      BY <1>7, <1>9, <1>10 DEF Flow
    <3>2. QED
      BY <1>3, <1>6, <1>7, <2>1, <3>1
  <2>2. CASE r # p
    <3>1. /\ chan'[r] = chan[r] /\ sent'[r] = sent[r] /\ Reached(name, r)' = Reached(name, r)
          /\ Written(name, r)' = Written(name, r)
      BY <1>6, <1>10, <2>2 DEF Written
    <3>2. QED
      BY <3>1 DEF OnePipe, PipeBytes, Flow
  <2>3. QED
    BY <2>1, <2>2
<1>13. PipeBytes(name)'
  BY <1>12 DEF OnePipe, PipeBytes
<1>14. QED
  BY <1>11, <1>13 DEF OnePipe

LEMMA SomeRead ==
    ASSUME NEW name \in PipeTests, OnePipe(name), ProcessInv, NEW p \in 1..2, NEW q \in 1..2,
           p = OtherOf(q), UNCHANGED <<life, line, here, sent>>, NEW n \in Nat,
           NEW k \in 1..Min({Len(chan[q]), n - Len(got[p])}),
           got' = [got EXCEPT ![p] = @ \o SubSeq(chan[q], 1, k)],
           chan' = [chan EXCEPT ![q] = SubSeq(@, k + 1, Len(@))]
    PROVE  OnePipe(name)'
<1>1. /\ chan \in [1..2 -> Seq(Int)] /\ got \in [Pid -> Seq(Int)]
      /\ p \in Pid /\ chan[q] \in Seq(Int) /\ got[p] \in Seq(Int)
      /\ sent \in [Pid -> Nat] /\ q \in Pid
  <2>1. /\ chan \in [1..2 -> Seq(Int)] /\ sent \in [Pid -> Nat] /\ got \in [Pid -> Seq(Int)]
    BY ShapesTyped
  <2>2. p \in Pid /\ q \in Pid
    BY SmallPids
  <2>3. QED
    BY <2>1, <2>2
<1>2. k \in 1..Len(chan[q])
  <2> DEFINE full == Len(chan[q])
             left == n - Len(got[p])
             m == Min({full, left})
  <2>1. full \in Int /\ left \in Int /\ k \in 1..m
    BY <1>1
  <2>2. m \in Int /\ m <= full
    <3> HIDE DEF full, left
    <3>1. QED
      BY <2>1, MinOfTwo
  <2> HIDE DEF m, full
  <2>3. k \in 1..full
    BY <2>1, <2>2
  <2>4. QED
    BY <2>3 DEF full
<1> DEFINE more == got[p] \o SubSeq(chan[q], 1, k)
           rest == SubSeq(chan[q], k + 1, Len(chan[q]))
<1>3. Written(name, q) \in Nat
  <2>1. WholeLength(name, q) \in Nat /\ sent[q] \in Nat
    BY <1>1, LengthFacts
  <2>2. QED
    BY <2>1 DEF Written
<1>4. Flow(got[p], chan[q], Written(name, q))
  BY DEF OnePipe, PipeBytes
<1>5. Flow(more, rest, Written(name, q))
  <2> DEFINE w == Written(name, q)
             out == got[p]
             in == chan[q]
  <2>1. out \in Seq(Int) /\ in \in Seq(Int) /\ w \in Nat /\ Flow(out, in, w) /\ k \in 1..Len(in)
    BY <1>1, <1>2, <1>3, <1>4
  <2> HIDE DEF w, out, in
  <2>2. Flow(out \o SubSeq(in, 1, k), SubSeq(in, k + 1, Len(in)), w)
    BY <2>1, FlowTakes
  <2>3. QED
    BY <2>2 DEF w, out, in
<1>6. got' = [got EXCEPT ![p] = more] /\ chan' = [chan EXCEPT ![q] = rest]
  OBVIOUS
<1> HIDE DEF more, rest
<1>7. \A r \in 1..2 : /\ Reached(name, r)' = Reached(name, r) /\ sent'[r] = sent[r]
                      /\ Written(name, r)' = Written(name, r)
  BY DEF Reached, Written
<1>8. /\ got'[p] = more /\ chan'[q] = rest
      /\ \A r \in Pid \ {p} : got'[r] = got[r]
      /\ \A r \in (1..2) \ {q} : chan'[r] = chan[r]
  BY <1>1, <1>6
<1>9. PipeLives(name)'
  BY <1>7 DEF OnePipe, PipeLives
<1>10. ASSUME NEW r \in 1..2
       PROVE  Flow(got[OtherOf(r)], chan[r], Written(name, r))'
  <2>1. CASE r = q
    <3>1. Flow(got'[p], chan'[q], Written(name, q)')
      BY <1>5, <1>7, <1>8
    <3>2. QED
      BY <2>1, <3>1 DEF Flow
  <2>2. CASE r # q
    <3>1. OtherOf(r) # p /\ OtherOf(r) \in Pid
      BY <2>2, SmallPids DEF OtherOf
    <3>2. chan'[r] = chan[r] /\ got'[OtherOf(r)] = got[OtherOf(r)]
      BY <1>8, <2>2, <3>1
    <3>3. Flow(got[OtherOf(r)], chan[r], Written(name, r))
      BY DEF OnePipe, PipeBytes
    <3>4. Flow(got'[OtherOf(r)], chan'[r], Written(name, r)')
      BY <1>7, <3>2, <3>3
    <3>5. QED
      BY <3>4 DEF Flow
  <2>3. QED
    BY <2>1, <2>2
<1>11. PipeBytes(name)'
  <2>1. \A r \in Pid \ (1..2) : got'[r] = <<>>
    BY <1>8 DEF OnePipe, PipeBytes
  <2>2. QED
    BY <1>7, <1>10, <2>1 DEF OnePipe, PipeBytes
<1>12. QED
  BY <1>9, <1>11 DEF OnePipe

(* Straight steps of the two processes, and their ends.                    *)
LEMMA TestSteps ==
    ASSUME NEW name \in PipeTests, OnePipe(name), ProcessInv, NEW p \in 1..2, life[p] = "live",
           here[p].prog = name, here[p].i \in Region(name, p),
           Op(p) = Program[name][here[p].i], ProcessStep(p)
    PROVE  OnePipe(name)'
<1>0. p \in Pid /\ OnePipe(name) /\ LivesTyped
  BY SmallPids DEF ProcessInv
<1>1. PipeText(name)
  BY PipeTexts
<1>2. Op(p)[1] \in {"fork", "pipe", "close", "wait", "assert", "exit", "read", "write"}
  <2>1. here[p].i \in 1..Len(Program[name])
    BY <1>0 DEF ProcessInv, AllPlaced, Placed
  <2>2. CASE here[p].i = ForkAt(name)
    <3>1. Op(p) = <<"fork", ParentAt(name) - ForkAt(name)>>
      BY <1>1, <2>2 DEF PipeText
    <3>2. QED
      BY <3>1
  <2>3. CASE here[p].i # ForkAt(name)
    <3>1. \A i \in 1..Len(Program[name]) : i # ForkAt(name) => Program[name][i][1] \in
              {"pipe", "close", "wait", "assert", "exit", "read", "write"}
      BY <1>1 DEF PipeText
    <3>2. QED
      BY <2>1, <2>3, <3>1
  <2>4. QED
    BY <2>2, <2>3
<1>3. /\ Op(p)[1] = "write" => here[p].i = WriteAt(name, p) /\ Op(p)[2] = p
                               /\ Op(p)[3] = WholeLength(name, p)
      /\ Op(p)[1] = "read" => Op(p)[2] = OtherOf(p)
      /\ here[p].i = WriteAt(name, p) => Op(p)[1] = "write"
  <2> DEFINE i == here[p].i
  <2>1. /\ Program[name][i][1] = "write" <=> i = WriteAt(name, p)
        /\ i = WriteAt(name, p) => Program[name][i] = PipeWrite(p, WholeLength(name, p))
        /\ Program[name][i][1] = "read" => Program[name][i][2] = OtherOf(p)
    BY <1>1 DEF PipeText
  <2>2. /\ PipeWrite(p, WholeLength(name, p))[2] = p
        /\ PipeWrite(p, WholeLength(name, p))[3] = WholeLength(name, p)
    BY DEF PipeWrite
  <2>3. QED
    BY <2>1, <2>2
<1>4. ASSUME NEW c \in Int, End(p, c) PROVE OnePipe(name)'
  <2>1. UNCHANGED <<here, line, chan, got, sent>> /\ SameBorn
    BY <1>0, <1>4, BornKept DEF End
  <2>2. here'[0].i = 1 => here[0].i = 1
    BY <2>1
  <2>3. \E i \in {1, 4, 5, 6} : here'[0] = AtInitproc(i)
    BY <2>1 DEF OnePipe, PipeLives
  <2>4. QED
    BY <2>1, <2>2, <2>3, BothStay
<1>5. CASE fork(p)
  <2>1. p = 1
    <3>1. Op(p)[1] = "fork"
      BY <1>5 DEF fork, Does
    <3>2. here[p].i \in 1..Len(Program[name])
      BY <1>0 DEF ProcessInv, AllPlaced, Placed
    <3>3. here[p].i = ForkAt(name)
      BY <1>1, <3>1, <3>2 DEF PipeText
    <3>4. QED
      BY <3>3, Positions DEF Region
  <2>2. QED
    BY <1>5, <2>1, TestForks
<1>6. CASE spawn(p) \/ exec(p) \/ while_child(p) \/ getline(p)
  BY <1>2, <1>6 DEF spawn, exec, while_child, getline, Does
<1>7. CASE wait(p) \/ pipe(p) \/ close(p)
  <2>1. GoOn(p, 1) /\ UNCHANGED <<line, chan, got, sent>> /\ Op(p)[1] \in {"wait", "pipe", "close"}
    BY <1>2, <1>7 DEF wait, pipe, close, Does, Pipes
  <2>2. SameBorn
    <3>1. ASSUME NEW q, Lifecycle!Reap(p, q) PROVE SameBorn
      <4>1. q \in Pid
        BY <3>1 DEF Lifecycle!Reap, Lifecycle!Owned
      <4>2. QED
        BY <1>0, <3>1, <4>1, BornKept
    <3>2. UNCHANGED Lives => SameBorn
      BY <1>0, BornKept
    <3>3. QED
      BY <1>7, <3>1, <3>2 DEF wait, pipe, close
  <2>3. QED
    BY <2>1, <2>2, OneGoesOn
<1>8. CASE assert(p)
  <2>1. CASE Claim(p, Op(p)[2], Op(p)[3])
    <3>1. GoOn(p, 1) /\ UNCHANGED <<Lives, line, chan, got, sent>> /\ Op(p)[1] = "assert"
      BY <1>8, <2>1 DEF assert, Does, Pipes
    <3>2. SameBorn
      BY <1>0, <3>1, BornKept
    <3>3. QED
      BY <3>1, <3>2, OneGoesOn
  <2>2. CASE ~Claim(p, Op(p)[2], Op(p)[3])
    <3>1. End(p, 1) /\ 1 \in Int
      BY <1>8, <2>2 DEF assert
    <3>2. QED
      BY <1>4, <3>1
  <2>3. QED
    BY <2>1, <2>2
<1>9. CASE exit(p)
  <2>1. PICK c \in Int : End(p, c)
    <3>1. CASE Does(p, "exit") /\ End(p, Op(p)[2])
      <4>1. Op(p)[2] \in Int
        BY <1>0, <3>1, NextPlaces, InstructionShape DEF Does
      <4>2. QED
        BY <3>1, <4>1
    <3>2. CASE \E c \in {0, 1, -3} : End(p, c)
      BY <3>2
    <3>3. QED
      BY <1>9, <3>1, <3>2 DEF exit
  <2>2. QED
    BY <1>4, <2>1
<1>10. CASE pipe_write(p)
  <2>1. Op(p)[1] = "write" /\ UNCHANGED <<Lives, line, got>>
    BY <1>10 DEF pipe_write, Does
  <2>2. /\ here[p].i = WriteAt(name, p) /\ Op(p)[2] = p /\ Op(p)[3] = WholeLength(name, p)
        /\ SameBorn
    BY <1>0, <1>3, <2>1, BornKept
  <2>3. CASE UNCHANGED here /\ sent[p] < Op(p)[3]
    <3>1. PICK k \in 1..Min({PipeSize - Len(chan[p]), WholeLength(name, p) - sent[p]}) :
              /\ chan' = [chan EXCEPT ![p] = @ \o NextBytes(p, k)]
              /\ sent' = [sent EXCEPT ![p] = @ + k]
      <4>1. sent[p] # WholeLength(name, p)
        <5>1. sent[p] \in Nat /\ WholeLength(name, p) \in Nat
          BY <1>0, LengthFacts DEF ProcessInv, PipesTyped
        <5>2. QED
          BY <2>2, <2>3, <5>1
      <4>2. QED
        BY <1>10, <2>2, <4>1 DEF pipe_write
    <3>2. UNCHANGED <<life, line, here, got>> /\ sent[p] < WholeLength(name, p)
      BY <2>1, <2>2, <2>3 DEF Lives
    <3>3. QED
      BY <2>2, <3>1, <3>2, SomeWritten
  <2>4. CASE sent[p] = Op(p)[3] /\ sent' = [sent EXCEPT ![p] = 0] /\ GoOn(p, 1) /\ UNCHANGED chan
    BY <2>1, <2>2, <2>4, OneGoesOn
  <2>5. QED
    BY <1>10, <2>3, <2>4 DEF pipe_write
<1>11. CASE pipe_read(p)
  <2> DEFINE q == OtherOf(p)
  <2>1. Op(p)[1] = "read" /\ UNCHANGED <<Lives, line, sent>>
    BY <1>11 DEF pipe_read, Does
  <2>2. Op(p)[2] = q /\ q \in 1..2 /\ p = OtherOf(q) /\ SameBorn /\ Op(p)[3] \in Nat
    BY <1>0, <1>3, <2>1, BornKept, NextPlaces, InstructionShape DEF OtherOf
  <2>3. ASSUME NEW k \in 1..Min({Len(chan[q]), Op(p)[3] - Len(got[p])}),
               got' = [got EXCEPT ![p] = @ \o SubSeq(chan[q], 1, k)],
               chan' = [chan EXCEPT ![q] = SubSeq(@, k + 1, Len(@))], UNCHANGED here
        PROVE  OnePipe(name)'
    <3>1. UNCHANGED <<life, line, here, sent>>
      BY <2>1, <2>3 DEF Lives
    <3> HIDE DEF q
    <3>2. QED
      BY <2>2, <2>3, <3>1, SomeRead
  <2>4. ASSUME GoOn(p, 1), UNCHANGED <<got, chan>> PROVE OnePipe(name)'
    BY <2>1, <2>2, <2>4, OneGoesOn
  <2>5. QED
    BY <1>11, <2>2, <2>3, <2>4 DEF pipe_read
<1>12. QED
  BY <1>5, <1>6, <1>7, <1>8, <1>9, <1>10, <1>11 DEF ProcessStep

(* A step of a pipe test, whoever takes it.                                *)
LEMMA OnePipeSteps ==
    ASSUME NEW name \in PipeTests, OnePipe(name), ProcessInv, NEW p \in Pid, ProcessStep(p)
    PROVE  OnePipe(name)'
<1>1. life[p] = "live"
  BY DEF ProcessStep, fork, spawn, exec, wait, while_child, assert, exit, getline, pipe, close,
         pipe_write, pipe_read, Does
<1>2. PipeLives(name) /\ LivesTyped
  BY DEF OnePipe, ProcessInv
<1>3. CASE p = 0 /\ \E i \in {1, 4, 5, 6} : here[0] = AtInitproc(i) /\ Op(0) = initproc[i]
  <2>1. PICK i \in {1, 4, 5, 6} : here[0] = AtInitproc(i) /\ Op(0) = initproc[i]
    BY <1>3
  <2>2. here[0].i = i /\ here[0] \in [prog : Names, i : Nat] /\ here \in [Pid -> [prog : Names, i : Nat]]
    BY <2>1, SmallPids DEF AtInitproc, ProcessInv, AllPlaced
  <2>3. CASE i = 1
    <3>1. Op(0) = <<"fork", 3>> /\ here[0] = AtInitproc(1) /\ Op(0) = initproc[1]
      BY <2>1, <2>3, InitprocText
    <3>2. Op(0)[1] = "fork"
      BY <3>1
    <3>3. fork(0)
      BY <1>3, <3>2 DEF ProcessStep, spawn, exec, wait, while_child, assert, exit, getline, pipe,
                        close, pipe_write, pipe_read, Does
    <3>4. QED
      BY <3>1, <3>3, InitprocForks
  <2>4. CASE i = 4
    <3>1. Op(0)[1] = "wait"
      BY <2>1, <2>4, InitprocText DEF Wait
    <3>2. wait(0)
      BY <1>3, <3>1 DEF ProcessStep, fork, spawn, exec, while_child, assert, exit, getline, pipe,
                        close, pipe_write, pipe_read, Does
    <3>3. GoOn(0, 1) /\ UNCHANGED <<line, chan, got, sent>>
      BY <3>2 DEF wait, Pipes
    <3>4. SameBorn
      <4>1. ASSUME NEW q, Lifecycle!Reap(0, q) PROVE SameBorn
        <5>1. q \in Pid
          BY <4>1 DEF Lifecycle!Reap, Lifecycle!Owned
        <5>2. QED
          BY <1>2, <4>1, <5>1, SmallPids, BornKept
      <4>2. UNCHANGED Lives => SameBorn
        BY <1>2, BornKept
      <4>3. QED
        BY <3>2, <4>1, <4>2 DEF wait
    <3>5. here'[0] = AtInitproc(5) /\ here'[1] = here[1] /\ here'[2] = here[2]
      BY <2>1, <2>2, <2>4, <3>3, SmallPids DEF GoOn, AtInitproc
    <3>6. here'[0].i = 5
      BY <3>5 DEF AtInitproc
    <3>7. QED
      BY <3>3, <3>4, <3>5, <3>6, BothStay
  <2>5. CASE i = 5
    <3>1. Op(0)[1] = "while_child"
      BY <2>1, <2>5, InitprocText
    <3>2. while_child(0)
      BY <1>3, <3>1 DEF ProcessStep, fork, spawn, exec, wait, assert, exit, getline, pipe,
                        close, pipe_write, pipe_read, Does
    <3>3. GoOn(0, IF answer[0] # -1 THEN -1 ELSE 1) /\ UNCHANGED <<Lives, line, chan, got, sent>>
      BY <3>2 DEF while_child, Pipes
    <3>4. PICK n \in {-1, 1} : GoOn(0, n)
      BY <3>3
    <3>5. SameBorn
      BY <1>2, <3>3, BornKept
    <3>6. /\ here'[0] = AtInitproc(5 + n) /\ here'[1] = here[1] /\ here'[2] = here[2]
          /\ 5 + n \in {4, 6}
      BY <2>1, <2>2, <2>5, <3>4, SmallPids DEF GoOn, AtInitproc
    <3>7. here'[0].i # 1 /\ \E j \in {1, 4, 5, 6} : here'[0] = AtInitproc(j)
      BY <3>6 DEF AtInitproc
    <3>8. QED
      BY <3>3, <3>5, <3>6, <3>7, BothStay
  <2>6. CASE i = 6
    <3>1. Op(0)[1] = "exit"
      BY <2>1, <2>6, InitprocText DEF Exit
    <3>2. exit(0)
      BY <1>3, <3>1 DEF ProcessStep, fork, spawn, exec, wait, while_child, assert, getline, pipe,
                        close, pipe_write, pipe_read, Does
    <3>2a. Op(0)[2] = 0
      <4>1. Op(0) = <<"exit", 0>>
        BY <2>1, <2>6, InitprocText DEF Exit
      <4>2. QED
        BY <4>1
    <3>3. End(0, 0)
      BY <3>1, <3>2, <3>2a DEF exit, Does
    <3>4. Lifecycle!Finish(0, 0) /\ UNCHANGED <<here, line, chan, got, sent>>
      BY <3>3 DEF End
    <3>5. SameBorn
      BY <1>2, <3>4, SmallPids, BornKept
    <3>6. QED
      BY <2>1, <3>4, <3>5, BothStay
  <2>7. QED
    BY <2>1, <2>3, <2>4, <2>5, <2>6
<1>4. CASE p = 1 /\ here[1] = AtInitproc(2) /\ Op(1) = Exec("line")
  <2>1. Op(1)[1] = "exec"
    BY <1>4 DEF Exec
  <2>2. exec(1)
    BY <1>4, <2>1 DEF ProcessStep, fork, spawn, wait, while_child, assert, exit, getline, pipe,
                      close, pipe_write, pipe_read, Does
  <2>3. QED
    BY <1>1, <1>4, <2>2, TestStarts
<1>5. CASE /\ p \in 1..2 /\ here[p].prog = name /\ here[p].i \in Region(name, p)
           /\ Op(p) = Program[name][here[p].i]
  BY <1>1, <1>5, TestSteps
<1>6. QED
  BY <1>1, <1>2, <1>3, <1>4, <1>5, PipeTurn

LEMMA NotPipes ==
    /\ \A x \in Spawned : x \notin PipeTests
    /\ \A x \in CommandLines : x \notin PipeTests
BY OnePipeTest DEF PipeTests, Spawned, Given, TestCount

(* Where no pipe test runs, no system call of pipes is made.               *)
LEMMA NoPipeCalls ==
    ASSUME NEW op \in Instructions
    PROVE  op[1] \notin {"pipe", "close", "read", "write"}
BY DEF Instructions, Straight, Jumps

LEMMA NoPipesSteps ==
    ASSUME NoPipes, ProcessInv, NEW p \in Pid, ProcessStep(p)
    PROVE  NoPipes'
<1>1. Op(p) \in Instructions
  BY NextPlaces DEF NoPipes
<1>2. Op(p)[1] \notin {"pipe", "close", "read", "write"}
  BY <1>1, NoPipeCalls
<1>3. UNCHANGED got
  BY <1>2 DEF ProcessStep, fork, spawn, exec, wait, while_child, assert, exit, getline, End, pipe,
              close, pipe_write, pipe_read, Does, Pipes
<1>4. here \in [Pid -> [prog : Names, i : Nat]]
  BY DEF ProcessInv, AllPlaced
<1>5. ASSUME NEW n, GoOn(p, n) PROVE \A r \in Pid : here'[r].prog = here[r].prog
  BY <1>4, <1>5 DEF GoOn
<1>6. CASE UNCHANGED line /\ \A r \in Pid : here'[r].prog = here[r].prog
  BY <1>3, <1>6 DEF NoPipes
<1>7. CASE fork(p)
  <2>1. PICK c \in NewPid :
            /\ here' = [here EXCEPT ![p].i = @ + Op(p)[2], ![c] = [here[p] EXCEPT !.i = @ + 1]]
            /\ line' = [line EXCEPT ![c] = line[p]]
    BY <1>7 DEF fork
  <2>2. c \in Pid
    BY DEF NewPid
  <2>3. \A r \in Pid : here'[r].prog \in {here[r].prog, here[p].prog}
    BY <1>4, <2>1, <2>2
  <2>4. /\ \A r \in Pid : line'[r] \in {line[r], line[p]}
        /\ line' = [r \in Pid |-> line'[r]]
    BY <2>1, <2>2 DEF NoPipes
  <2>5. QED
    BY <1>3, <2>3, <2>4 DEF NoPipes
<1>8. CASE spawn(p)
  <2>1. UNCHANGED line /\ Op(p)[1] = "spawn"
    BY <1>8 DEF spawn, Does
  <2>2. Op(p)[2] \notin PipeTests
    BY <1>1, <2>1, InstructionShape, NotPipes DEF AllInstructions
  <2>3. CASE Op(p)[2] \in Names
    <3>1. PICK c \in NewPid :
              here' = [here EXCEPT ![p].i = @ + 1, ![c] = [prog |-> Op(p)[2], i |-> 1]]
      BY <1>8, <2>3 DEF spawn
    <3>2. c \in Pid
      BY DEF NewPid
    <3>3. \A r \in Pid : here'[r].prog \in {here[r].prog, Op(p)[2]}
      BY <1>4, <3>1, <3>2
    <3>4. QED
      BY <1>3, <2>1, <2>2, <3>3 DEF NoPipes
  <2>4. CASE Op(p)[2] \notin Names
    BY <1>5, <1>6, <1>8, <2>1, <2>4 DEF spawn
  <2>5. QED
    BY <2>3, <2>4
<1>9. CASE exec(p)
  <2> DEFINE name == IF Op(p)[2] = "line" THEN line[p] ELSE Op(p)[2]
  <2>1. UNCHANGED line /\ Op(p)[1] = "exec"
    BY <1>9 DEF exec, Does
  <2>2. name \notin PipeTests
    <3>1. Op(p)[2] \in Given \cup {"line"}
      BY <1>1, <2>1, InstructionShape DEF AllInstructions
    <3>2. QED
      BY <3>1, NotPipes DEF NoPipes, Spawned
  <2>3. CASE name \in Names
    <3>1. here' = [here EXCEPT ![p] = [prog |-> name, i |-> 1]]
      BY <1>9, <2>3 DEF exec
    <3> HIDE DEF name
    <3>2. \A r \in Pid : here'[r].prog \in {here[r].prog, name}
      BY <1>4, <3>1
    <3>3. QED
      BY <1>3, <2>1, <2>2, <3>2 DEF NoPipes
  <2>4. CASE name \notin Names
    <3>1. GoOn(p, 1)
      BY <1>9, <2>4 DEF exec
    <3>2. QED
      BY <1>5, <1>6, <2>1, <3>1
  <2>5. QED
    BY <2>3, <2>4
<1>10. CASE getline(p)
  <2>1. PICK l \in CommandLines :
            /\ line' = [line EXCEPT ![p] = l]
            /\ GoOn(p, IF l = "" THEN Op(p)[2] ELSE 1)
    BY <1>10 DEF getline
  <2>2. \A r \in Pid : here'[r].prog = here[r].prog
    BY <1>5, <2>1
  <2>3. /\ \A r \in Pid : line'[r] \in {line[r], l}
        /\ line' = [r \in Pid |-> line'[r]]
    BY <2>1 DEF NoPipes
  <2>4. QED
    BY <1>3, <2>2, <2>3, NotPipes DEF NoPipes
<1>11. ASSUME NEW c, End(p, c) PROVE NoPipes'
  <2>1. UNCHANGED <<here, line>>
    BY <1>11 DEF End
  <2>2. QED
    BY <1>6, <2>1
<1>12. CASE wait(p)
  BY <1>5, <1>6, <1>12 DEF wait
<1>13. CASE while_child(p)
  BY <1>5, <1>6, <1>13 DEF while_child
<1>14. CASE assert(p)
  BY <1>5, <1>6, <1>11, <1>14 DEF assert
<1>15. CASE exit(p)
  BY <1>11, <1>15 DEF exit
<1>16. ~(pipe(p) \/ close(p) \/ pipe_write(p) \/ pipe_read(p))
  BY <1>2 DEF pipe, close, pipe_write, pipe_read, Does
<1>17. QED
  BY <1>7, <1>8, <1>9, <1>10, <1>12, <1>13, <1>14, <1>15, <1>16 DEF ProcessStep

LEMMA PipesRest ==
    ASSUME PipeInv, UNCHANGED <<life, here, line, chan, got, sent>>
    PROVE  PipeInv'
<1>1. NoPipes => NoPipes'
  BY DEF NoPipes
<1>2. ASSUME NEW name \in PipeTests, OnePipe(name) PROVE OnePipe(name)'
  <2>1. \A p \in 1..2 : Reached(name, p)' = Reached(name, p) /\ Written(name, p)' = Written(name, p)
    BY DEF Reached, Written
  <2>2. PipeLives(name)'
    BY <1>2, <2>1 DEF OnePipe, PipeLives
  <2>3. PipeBytes(name)'
    BY <1>2, <2>1 DEF OnePipe, PipeBytes, Flow
  <2>4. QED
    BY <2>2, <2>3 DEF OnePipe
<1>3. QED
  BY <1>1, <1>2 DEF PipeInv

LEMMA PipeInvKept ==
    ASSUME PipeInv, ProcessInv, ProcessNext
    PROVE  PipeInv'
<1>1. ASSUME NEW p \in Pid, ProcessStep(p) PROVE PipeInv'
  <2>1. NoPipes => NoPipes'
    BY <1>1, NoPipesSteps
  <2>2. \A name \in PipeTests : OnePipe(name) => OnePipe(name)'
    BY <1>1, OnePipeSteps
  <2>3. QED
    BY <2>1, <2>2 DEF PipeInv
<1>2. CASE ProcessesDone
  <2>1. UNCHANGED <<life, here, line, chan, got, sent>>
    BY <1>2 DEF ProcessesDone, pvars
  <2>2. QED
    BY <2>1, PipesRest
<1>3. QED
  BY <1>1, <1>2 DEF ProcessNext

LEMMA PipeInvStarts ==
    ASSUME ProcessesAtStart, NEW name, line = [p \in Pid |-> name]
    PROVE  PipeInv
<1>1. /\ here = [p \in Pid |-> NoChild] /\ got = [p \in Pid |-> <<>>]
      /\ chan = [q \in 1..2 |-> <<>>] /\ sent = [p \in Pid |-> 0]
  BY DEF ProcessesAtStart
<1>2. CASE name \notin PipeTests
  BY <1>1, <1>2 DEF PipeInv, NoPipes, NoChild, PipeTests
<1>3. CASE name \in PipeTests
  <2>1. /\ life[0] # "unborn" /\ \A p \in Pid \ {0} : life[p] = "unborn"
    BY SmallPids DEF ProcessesAtStart, Lifecycle!Init
  <2>2. \A p \in 1..2 : Reached(name, p) = 1
    BY <1>1, <1>3, SmallPids, Positions DEF Reached, NoChild
  <2>3. PipeLives(name)
    BY <1>1, <1>3, <2>1, <2>2, SmallPids, Positions DEF PipeLives, NoChild, AtInitproc
  <2>4. \A p \in 1..2 : Written(name, p) = 0 /\ WholeLength(name, p) \in Nat /\ OtherOf(p) \in Pid
    BY <1>3, <2>2, LengthFacts, SmallPids DEF Written, OtherOf
  <2>5. Flow(<<>>, <<>>, 0)
    BY DEF Flow
  <2>6. ASSUME NEW p \in 1..2
        PROVE  /\ sent[p] = 0 /\ sent[p] <= WholeLength(name, p)
               /\ Flow(got[OtherOf(p)], chan[p], Written(name, p))
    <3>1. sent[p] = 0 /\ got[OtherOf(p)] = <<>> /\ chan[p] = <<>> /\ Written(name, p) = 0
      BY <1>1, <2>4, SmallPids
    <3>2. QED
      BY <2>4, <2>5, <3>1
  <2>7. PipeBytes(name)
    BY <1>1, <2>6 DEF PipeBytes
  <2>8. QED
    BY <1>3, <2>3, <2>7 DEF PipeInv, OnePipe
<1>4. QED
  BY <1>2, <1>3

LEMMA PipeInvExact ==
    ASSUME PipeInv, ProcessInv
    PROVE  PipeExact
<1>1. CASE NoPipes
  BY <1>1 DEF NoPipes, PipeExact
<1>2. ASSUME NEW name \in PipeTests, OnePipe(name), NEW p \in Pid, NEW i \in DOMAIN got[p]
      PROVE  got[p][i] = i
  <2>1. got[p] \in Seq(Int) /\ i \in 1..Len(got[p])
    BY <1>2 DEF ProcessInv, PipesTyped
  <2>2. CASE p \in 1..2
    <3>1. PICK q \in 1..2 : p = OtherOf(q)
      BY <2>2 DEF OtherOf
    <3>2. Flow(got[p], chan[q], Written(name, q))
      BY <1>2, <3>1 DEF OnePipe, PipeBytes
    <3>3. QED
      BY <2>1, <3>2 DEF Flow
  <2>3. CASE p \notin 1..2
    BY <1>2, <2>1, <2>3 DEF OnePipe, PipeBytes
  <2>4. QED
    BY <2>2, <2>3
<1>3. QED
  BY <1>1, <1>2 DEF PipeInv, PipeExact

-----------------------------------------------------------------------------
(* The processes' half of a behaviour: while threads run they rest.        *)
LEMMA ProcessesInvariant == Spec => [](ProcessInv /\ PipeInv)
<1>1. Init => ProcessInv /\ PipeInv
  <2>1. CASE ThreadInit /\ ProcessesOff
    <3>1. line = [p \in Pid |-> "none"] /\ ProcessesAtStart
      BY <2>1 DEF ProcessesOff
    <3>2. QED
      BY <3>1, ProcessesStartTyped, PipeInvStarts
  <2>2. CASE ProcessInit /\ ThreadsOff
    <3>1. PICK target \in Targets : line = [p \in Pid |-> target]
      BY <2>2 DEF ProcessInit
    <3>2. ProcessesAtStart
      BY <2>2 DEF ProcessInit
    <3>3. QED
      BY <3>1, <3>2, ProcessesStartTyped, PipeInvStarts
  <2>3. QED
    BY <2>1, <2>2 DEF Init
<1>2. ProcessInv /\ PipeInv /\ [Next]_vars => ProcessInv' /\ PipeInv'
  <2> SUFFICES ASSUME ProcessInv, PipeInv, [Next]_vars
               PROVE  ProcessInv' /\ PipeInv'
    OBVIOUS
  <2>1. CASE UNCHANGED pvars
    <3>1. UNCHANGED <<life, owner, code, here, pids, answer, status, line, typed, failed, chan,
                      ends, got, sent>>
      BY <2>1 DEF pvars
    <3>2. ProcessInv'
      BY <3>1 DEF ProcessInv, AllPlaced, Placed, LivesTyped, MemoriesTyped, PipesTyped
    <3>3. PipeInv'
      BY <3>1, PipesRest
    <3>4. QED
      BY <3>2, <3>3
  <2>2. CASE ProcessNext
    BY <2>2, ProcessesTyped, PipeInvKept
  <2>3. QED
    BY <2>1, <2>2 DEF Next, vars
<1>3. QED
  BY <1>1, <1>2, PTL DEF Spec

(* What a reader of a pipe has got is what was written, from the first byte*)
(* on, none lost and none twice: pipe_read and pipe_write of lib.rs.       *)
THEOREM PipesCorrect == Spec => []PipeExact
<1>1. PipeInv /\ ProcessInv => PipeExact
  BY PipeInvExact
<1>2. QED
  BY <1>1, ProcessesInvariant, PTL

-----------------------------------------------------------------------------
(*                  The instructions of the threads                        *)

Accesses == {"eat", "work", "signal", "store", "front", "print", "tail", "read", "write"}

Sleeps == {<<"sleep", S>> : S \in SUBSET Thread}

(* After a plain instruction its thread goes on to the next one, or exits. *)
Plain ==
    {<<"create", n>> : n \in Nat}
    \cup {<<"down", r, n>> : r \in Nat, n \in {0, 1}}
    \cup {<<"up", r>> : r \in Nat}
    \cup {<<"join", t>> : t \in Thread}
    \cup Sleeps
    \cup {<<x>> : x \in Accesses}
    \cup {<<"assert", what, 0>> : what \in {"total", "some_failed", "none_failed"}}
    \cup {<<"exit", c>> : c \in -1..3}

Starts == {<<"thread", t>> : t \in 1..8}

Tries == {<<"down", r, n>> : r \in Nat, n \in Nat}

(* Of the threads that main starts, and of main.                           *)
TeamOps == Plain \cup Tries \cup {<<"test">>, <<"wait">>}

MainOps == Plain \cup Tries \cup Starts

LEMMA PlainShape ==
    /\ \A op \in Plain \cup Starts : Offsets(op) \subseteq {1}
    /\ \A op \in Plain \cup Tries : op[1] \notin {"thread", "test", "wait"}
<1>1. ASSUME NEW op \in Plain \cup Starts PROVE Offsets(op) \subseteq {1}
  <2>1. CASE op \in {<<"down", r, n>> : r \in Nat, n \in {0, 1}}
    BY <2>1 DEF Offsets
  <2>2. CASE op \notin {<<"down", r, n>> : r \in Nat, n \in {0, 1}}
    <3>1. op[1] \in Accesses \cup {"create", "up", "join", "sleep", "assert", "exit", "thread"}
      BY <2>2 DEF Plain, Starts, Sleeps
    <3>2. QED
      BY <3>1 DEF Offsets, Accesses
  <2>3. QED
    BY <2>1, <2>2
<1>2. \A op \in Plain \cup Tries : op[1] \notin {"thread", "test", "wait"}
  BY DEF Plain, Tries, Accesses, Sleeps
<1>3. QED
  BY <1>1, <1>2

LEMMA PlainFacts ==
    /\ \A n \in Nat : Create(n) \in Plain
    /\ \A r \in Nat : Down(r) \in Plain /\ DownOk(r) \in Plain /\ Up(r) \in Plain
    /\ \A r \in Nat, n \in Nat : TryDown(r, n) \in Tries
    /\ \A t \in Thread : Join(t) \in Plain
    /\ \A S \in SUBSET Thread : Outlast(S) \in Plain
    /\ \A x \in Accesses : Do(x) \in Plain
    /\ \A what \in {"total", "some_failed", "none_failed"} : Check(what, 0) \in Plain
    /\ \A c \in -1..3 : Exit(c) \in Plain
    /\ \A t \in 1..8 : Start(t) \in Starts
<1>1. /\ \A n \in Nat : Create(n) \in Plain
      /\ \A r \in Nat : Up(r) \in Plain
  BY DEF Plain, Create, Up
<1>2. \A r \in Nat : Down(r) \in Plain /\ DownOk(r) \in Plain
  BY DEF Plain, Down, DownOk
<1>3. \A r \in Nat, n \in Nat : TryDown(r, n) \in Tries
  BY DEF Tries, TryDown
<1>4. \A t \in Thread : Join(t) \in Plain
  BY DEF Plain, Join
<1>5. \A S \in SUBSET Thread : Outlast(S) \in Plain
  <2>1. \A S \in SUBSET Thread : <<"sleep", S>> \in Sleeps
    BY Zenon DEF Sleeps
  <2>2. Sleeps \subseteq Plain
    BY DEF Plain
  <2>3. QED
    BY <2>1, <2>2, Zenon DEF Outlast
<1>6. \A x \in Accesses : Do(x) \in Plain
  BY DEF Plain, Do
<1>7. \A what \in {"total", "some_failed", "none_failed"} : Check(what, 0) \in Plain
  BY DEF Plain, Check
<1>8. \A c \in -1..3 : Exit(c) \in Plain
  BY DEF Plain, Exit
<1>9. \A t \in 1..8 : Start(t) \in Starts
  BY DEF Starts, Start
<1>10. QED
  BY <1>1, <1>2, <1>3, <1>4, <1>5, <1>6, <1>7, <1>8, <1>9

(* What is taken from one end to the other, and ends in an exit.           *)
LEMMA OnwardWhole ==
    ASSUME NEW S, NEW s \in Seq(S), \A k \in 1..Len(s) : Offsets(s[k]) \subseteq {1},
           NEW n \in Nat \ {0}, Len(s) = n, s[n][1] = "exit"
    PROVE  s \in Wholes(S)
<1>1. \A k \in 1..n : \A o \in Offsets(s[k]) : o = 1 /\ k # n
  BY DEF Offsets
<1>2. \A k \in 1..n : \A o \in Offsets(s[k]) : o \in Int /\ k + o \in 1..n
  BY <1>1
<1>3. QED
  BY <1>2 DEF Wholes, Blocks

(* No thread is started twice.                                             *)
StartsOnce(s) ==
    \A j, k \in 1..Len(s) : s[j][1] = "thread" /\ s[k] = s[j] => j = k

StartsOf(s) == {t \in 1..8 : \E j \in 1..Len(s) : s[j] = <<"thread", t>>}

MainText(s, team) ==
    /\ s \in Wholes(MainOps) /\ StartsOnce(s)
    /\ \A j \in 1..Len(s) : s[j][1] = "thread" => s[j][2] \in team

TeamText(s) ==
    /\ s \in Wholes(TeamOps)
    /\ \A i \in 1..Len(s) : s[i][1] = "wait" => i >= 3

LEMMA LargerTeam ==
    ASSUME NEW s, NEW m \in 1..8, MainText(s, 1..m)
    PROVE  MainText(s, 1..8)
<1>1. 1..m \subseteq 1..8
  OBVIOUS
<1>2. QED
  BY <1>1 DEF MainText

Associates(a, b, c) == (a \o b) \o c = a \o (b \o c)

LEMMA Associate ==
    ASSUME NEW S, NEW a \in Seq(S), NEW b \in Seq(S), NEW c \in Seq(S)
    PROVE  Associates(a, b, c)
<1>1. (a \o b) \o c = a \o (b \o c)
  BY ConcatAssociative
<1>2. QED
  BY <1>1 DEF Associates

LEMMA PlainText ==
    ASSUME NEW s \in Seq(Plain), NEW n \in Nat \ {0}, Len(s) = n, s[n][1] = "exit"
    PROVE  TeamText(s) /\ \A team : MainText(s, team)
<1>1. /\ \A k \in 1..Len(s) : Offsets(s[k]) \subseteq {1}
      /\ \A k \in 1..Len(s) : s[k][1] \notin {"thread", "test", "wait"}
  BY PlainShape
<1>2. s \in Seq(TeamOps) /\ s \in Seq(MainOps)
  BY DEF TeamOps, MainOps
<1>3. s \in Wholes(TeamOps)
  BY <1>1, <1>2, OnwardWhole
<1>4. s \in Wholes(MainOps)
  BY <1>1, <1>2, OnwardWhole
<1>5. QED
  BY <1>1, <1>3, <1>4 DEF TeamText, MainText, StartsOnce

(* Starts threads 1 to m one after the other, between s and rest.          *)
StartSpread(text, s, m, rest) ==
    /\ MainText(text, 1..m)
    /\ Len(text) = Len(s) + m + Len(rest)
    /\ \A k \in 1..Len(s) : text[k] = s[k]
    /\ \A k \in 1..m : text[Len(s) + k] = Start(k)
    /\ \A k \in 1..Len(rest) : text[Len(s) + m + k] = rest[k]

ExitsLast(s) == s \in Seq(Plain) /\ Len(s) > 0 /\ s[Len(s)][1] = "exit"

LEMMA StartAllText ==
    ASSUME NEW m \in 1..8, NEW s \in Seq(Plain), NEW rest, ExitsLast(rest)
    PROVE  StartSpread((s \o StartAll(m)) \o rest, s, m, rest)
<1> DEFINE p == Len(s)
           n == Len(rest)
<1>a. p \in Nat /\ Len(s) = p
  OBVIOUS
<1>b. rest \in Seq(Plain) /\ n \in Nat \ {0} /\ Len(rest) = n /\ rest[n][1] = "exit"
  BY DEF ExitsLast
<1> HIDE DEF p, n
<1> DEFINE O == Plain \cup Starts
           mid == StartAll(m)
<1>1. mid \in Seq(O) /\ Len(mid) = m /\ \A k \in 1..m : mid[k] = Start(k)
  <2>1. \A k \in 1..m : Start(k) \in O
    BY PlainFacts
  <2>2. QED
    BY <2>1 DEF StartAll
<1>2. s \in Seq(O) /\ rest \in Seq(O)
  BY <1>b
<1> HIDE DEF O, mid
<1> DEFINE front_ == s \o mid
<1>3. front_ \in Seq(O) /\ Len(front_) = Len(s) + Len(mid)
  BY <1>1, <1>2, ConcatAt
<1>4. \A k \in 1..Len(s) : front_[k] = s[k]
  BY <1>1, <1>2, ConcatAt
<1>5. \A k \in 1..Len(mid) : front_[Len(s) + k] = mid[k]
  BY <1>1, <1>2, ConcatAt
<1> HIDE DEF front_
<1> DEFINE text == front_ \o rest
<1>6. text \in Seq(O) /\ Len(text) = Len(front_) + Len(rest)
  BY <1>2, <1>3, ConcatAt
<1>7. \A k \in 1..Len(front_) : text[k] = front_[k]
  BY <1>2, <1>3, ConcatAt
<1>8. \A k \in 1..Len(rest) : text[Len(front_) + k] = rest[k]
  <2>1. \A k \in 1..Len(rest) : (front_ \o rest)[Len(front_) + k] = rest[k]
    BY <1>2, <1>3, ConcatAt
  <2>2. QED
    BY <2>1
<1> HIDE DEF text
<1>9. Len(text) = p + m + n /\ Len(front_) = p + m
  BY <1>1, <1>3, <1>6, <1>a, <1>b
<1>10. \A k \in 1..p : text[k] = s[k]
  BY <1>4, <1>7, <1>9, <1>a
<1>11. \A k \in 1..m : text[p + k] = Start(k)
  <2> SUFFICES ASSUME NEW k \in 1..m PROVE text[p + k] = Start(k)
    OBVIOUS
  <2>1. front_[p + k] = Start(k)
    BY <1>1, <1>5, <1>a
  <2>2. p + k \in 1..Len(front_)
    BY <1>9, <1>a
  <2>3. QED
    BY <1>7, <2>1, <2>2
<1>12. \A k \in 1..n : text[p + m + k] = rest[k]
  BY <1>8, <1>9, <1>b
<1>13. \A j \in 1..Len(text) : \/ text[j][1] # "thread"
                               \/ j - p \in 1..m /\ text[j] = Start(j - p)
  <2> SUFFICES ASSUME NEW j \in 1..Len(text)
               PROVE  text[j][1] # "thread" \/ (j - p \in 1..m /\ text[j] = Start(j - p))
    OBVIOUS
  <2>1. CASE j \in 1..p
    <3>1. text[j] \in Plain
      BY <1>10, <1>a, <2>1
    <3>2. QED
      BY <3>1, PlainShape
  <2>2. CASE j - p \in 1..m
    <3>1. text[p + (j - p)] = Start(j - p) /\ p + (j - p) = j
      BY <1>11, <1>a, <2>2
    <3>2. QED
      BY <2>2, <3>1
  <2>3. CASE j - (p + m) \in 1..n
    <3> DEFINE k == j - (p + m)
    <3>1. k \in 1..n /\ p + m + k = j
      BY <1>a, <1>b, <2>3
    <3> HIDE DEF k
    <3>2. text[j] \in Plain
      <4>1. text[j] = rest[k]
        BY <1>12, <3>1
      <4>2. \A i \in 1..n : rest[i] \in Plain
        BY <1>b
      <4>3. QED
        BY <3>1, <4>1, <4>2
    <3>3. QED
      BY <3>2, PlainShape
  <2>4. QED
    BY <1>9, <1>a, <1>b, <2>1, <2>2, <2>3
<1>14. text \in Wholes(MainOps)
  <2>1. \A k \in 1..Len(text) : Offsets(text[k]) \subseteq {1}
    <3>1. \A k \in 1..Len(text) : text[k] \in Plain \cup Starts
      BY <1>6 DEF O
    <3>2. QED
      BY <3>1, PlainShape
  <2>2. text \in Seq(MainOps)
    <3>1. O \subseteq MainOps
      BY DEF O, MainOps
    <3>2. QED
      BY <1>6, <3>1
  <2>3. p + m + n \in Nat \ {0}
    BY <1>a, <1>b
  <2>4. text[p + m + n] = rest[n]
    BY <1>12, <1>b
  <2>5. QED
    BY <1>9, <1>b, <2>1, <2>2, <2>3, <2>4, OnwardWhole
<1>15. StartsOnce(text)
  <2> SUFFICES ASSUME NEW j \in 1..Len(text), NEW k \in 1..Len(text),
                      text[j][1] = "thread", text[k] = text[j]
               PROVE  j = k
    BY DEF StartsOnce
  <2>1. Start(j - p) = Start(k - p)
    BY <1>13
  <2>2. j - p = k - p
    BY <2>1 DEF Start
  <2>3. QED
    BY <1>9, <1>a, <1>b, <2>2
<1>16. \A j \in 1..Len(text) : text[j][1] = "thread" => text[j][2] \in 1..m
  BY <1>13 DEF Start
<1>17. QED
  BY <1>9, <1>10, <1>11, <1>12, <1>14, <1>15, <1>16, <1>a, <1>b
      DEF StartSpread, MainText, text, front_, mid

-----------------------------------------------------------------------------
(*                    The texts of the threads                             *)

(* n rounds of m instructions, and an exit.                                *)
Rounds(s, row, n, m, last) ==
    /\ s \in Seq(Plain) /\ Len(s) = n * m + 1
    /\ \A k \in 1..n, j \in 1..m : s[(k - 1) * m + j] = row[j]
    /\ s[n * m + 1] = last

LEMMA RoundsText ==
    ASSUME NEW n \in Nat, NEW m \in Nat, NEW row \in Row(Plain, m), NEW last \in Plain
    PROVE  Rounds(Times(n, row) \o <<last>>, row, n, m, last)
<1> DEFINE seqs == [i \in 1..n |-> row]
           s == Times(n, row)
           t == <<last>>
<1>1. seqs \in [1..n -> Row(Plain, m)] /\ \A k \in 1..n : seqs[k] = row
  OBVIOUS
<1>2. s = FlattenSeq(seqs)
  BY DEF Times
<1> HIDE DEF seqs
<1>3. HasRows(s, seqs, n, m)
  BY <1>1, <1>2, FlattenRows
<1>4. s \in Seq(Plain)
  BY TimesTyped DEF Row
<1> HIDE DEF s
<1>5. Len(s) = n * m /\ \A k \in 1..n, j \in 1..m : s[(k - 1) * m + j] = row[j]
  BY <1>1, <1>3 DEF HasRows
<1>6. t \in Seq(Plain) /\ Len(t) = 1 /\ t[1] = last
  OBVIOUS
<1> HIDE DEF t
<1>7. s \o t \in Seq(Plain) /\ Len(s \o t) = Len(s) + Len(t)
  BY <1>4, <1>6, ConcatAt
<1>8. \A k \in 1..Len(s) : (s \o t)[k] = s[k]
  BY <1>4, <1>6, ConcatAt
<1>9. \A k \in 1..Len(t) : (s \o t)[Len(s) + k] = t[k]
  <2>1. s \in Seq(Plain) /\ t \in Seq(Plain)
    BY <1>4, <1>6
  <2>2. QED
    BY <2>1, ConcatAt
<1>10. ASSUME NEW k \in 1..n, NEW j \in 1..m
       PROVE  (s \o t)[(k - 1) * m + j] = row[j]
  <2> DEFINE w == n * m
             u == (k - 1) * m
  <2>1. k - 1 \in Nat /\ k \in Nat /\ k <= n /\ (k - 1) + 1 = k
    OBVIOUS
  <2>2. u \in Nat /\ k * m = u + m /\ k * m <= w /\ w \in Nat
    BY <2>1, ProductFacts
  <2>3. Len(s) = w /\ s[u + j] = row[j]
    BY <1>5
  <2> DEFINE v == k * m
  <2>4. v = u + m /\ v <= w
    BY <2>2
  <2> HIDE DEF w, u, v
  <2>5. u + j \in 1..w
    BY <2>2, <2>4
  <2>6. (s \o t)[u + j] = row[j]
    BY <1>8, <2>3, <2>5
  <2>7. QED
    BY <2>6 DEF u
<1>11. QED
  <2> DEFINE w == n * m
  <2>1. Len(s) = w /\ w \in Nat
    BY <1>5, ProductFacts
  <2> HIDE DEF w
  <2>2. Len(s \o t) = w + 1 /\ (s \o t)[w + 1] = last
    BY <1>6, <1>7, <1>9, <2>1
  <2>3. QED
    BY <1>7, <1>10, <2>2 DEF Rounds, w, s, t

LEMMA RoundsTeam ==
    ASSUME NEW n \in Nat, NEW m \in Nat, NEW s, NEW row, NEW last, Rounds(s, row, n, m, last),
           last[1] = "exit"
    PROVE  TeamText(s)
<1> DEFINE w == n * m
<1>1. w + 1 \in Nat \ {0}
  BY ProductFacts
<1>2. s \in Seq(Plain) /\ Len(s) = w + 1 /\ s[w + 1] = last
  BY DEF Rounds
<1> HIDE DEF w
<1>3. QED
  BY <1>1, <1>2, PlainText

LEMMA ThreadCounts ==
    /\ N \in 2..8 /\ N \in Nat /\ ROUND \in Nat \ {0} /\ BUFFER_SIZE \in Nat \ {0}
    /\ NUMBER_PER_PRODUCER \in Nat \ {0} /\ PRODUCER_COUNT \in 1..7
    /\ PRODUCER_COUNT + 1 \in 1..8 /\ THREAD_COUNT \in 1..8 /\ PER_THREAD \in Nat \ {0}
    /\ PRODUCER_COUNT * NUMBER_PER_PRODUCER \in Nat
<1>1. /\ N \in 2..8 /\ N \in Nat /\ ROUND \in Nat \ {0} /\ BUFFER_SIZE \in Nat \ {0}
      /\ NUMBER_PER_PRODUCER \in Nat \ {0} /\ PRODUCER_COUNT \in 1..7
      /\ PRODUCER_COUNT + 1 \in 1..8 /\ THREAD_COUNT \in 1..8 /\ PER_THREAD \in Nat \ {0}
  BY ThreadAssumption
<1>2. PRODUCER_COUNT \in Nat /\ NUMBER_PER_PRODUCER \in Nat
  BY <1>1
<1>3. QED
  BY <1>1, <1>2, ProductFacts

(* The joins a main ends with.                                             *)
JoinsThen(text, m, last) ==
    /\ text \in Seq(Plain) /\ Len(text) = m + Len(last)
    /\ \A k \in 1..m : text[k] = Join(k)
    /\ \A k \in 1..Len(last) : text[m + k] = last[k]

LEMMA JoinsText ==
    ASSUME NEW m \in 1..8, NEW last \in Seq(Plain)
    PROVE  JoinsThen(JoinAll(m) \o last, m, last)
<1> DEFINE s == JoinAll(m)
<1>1. s \in Seq(Plain) /\ Len(s) = m /\ \A k \in 1..m : s[k] = Join(k)
  <2>1. \A k \in 1..m : Join(k) \in Plain
    BY PlainFacts DEF Thread
  <2>2. QED
    BY <2>1 DEF JoinAll
<1> HIDE DEF s
<1>2. s \o last \in Seq(Plain) /\ Len(s \o last) = Len(s) + Len(last)
  BY <1>1, ConcatAt
<1>3. \A k \in 1..Len(s) : (s \o last)[k] = s[k]
  BY <1>1, ConcatAt
<1>4. \A k \in 1..Len(last) : (s \o last)[Len(s) + k] = last[k]
  BY <1>1, ConcatAt
<1>5. QED
  BY <1>1, <1>2, <1>3, <1>4 DEF s, JoinsThen

(* A main: what it does first, the starts of m threads, as many joins, and *)
(* what it does last.                                                      *)
MainSpread(text, s, m, last) ==
    /\ MainText(text, 1..m)
    /\ Len(text) = Len(s) + m + (m + Len(last))
    /\ \A k \in 1..Len(s) : text[k] = s[k]
    /\ \A k \in 1..m : text[Len(s) + k] = Start(k)
    /\ \A k \in 1..m : text[Len(s) + m + k] = Join(k)
    /\ \A k \in 1..Len(last) : text[Len(s) + m + (m + k)] = last[k]

LEMMA MainTexts ==
    ASSUME NEW m \in 1..8, NEW s \in Seq(Plain), NEW last, ExitsLast(last)
    PROVE  MainSpread(s \o StartAll(m) \o JoinAll(m) \o last, s, m, last)
<1> DEFINE rest == JoinAll(m) \o last
           O == Plain \cup Starts
           text == s \o StartAll(m) \o JoinAll(m) \o last
           p == Len(s)
           n == Len(last)
<1>1. last \in Seq(Plain) /\ n \in Nat \ {0} /\ Len(last) = n /\ last[n][1] = "exit"
  BY DEF ExitsLast
<1>2. p \in Nat /\ Len(s) = p
  OBVIOUS
<1> HIDE DEF n, p
<1>3. JoinsThen(rest, m, last)
  BY <1>1, JoinsText
<1>4. /\ rest \in Seq(Plain) /\ Len(rest) = m + n
      /\ \A k \in 1..m : rest[k] = Join(k)
  BY <1>1, <1>3 DEF JoinsThen
<1>5. \A k \in 1..n : rest[m + k] = last[k]
  BY <1>1, <1>3 DEF JoinsThen
<1>6. text = (s \o StartAll(m)) \o rest
  <2> DEFINE a == s \o StartAll(m)
             b == JoinAll(m)
  <2>1. StartAll(m) \in Seq(O) /\ s \in Seq(O)
    <3>1. \A k \in 1..m : Start(k) \in O
      BY PlainFacts
    <3>2. QED
      BY <3>1 DEF StartAll
  <2>2. a \in Seq(O)
    BY <2>1
  <2>3. b \in Seq(O)
    <3>1. \A k \in 1..m : Join(k) \in O
      BY PlainFacts DEF Thread
    <3>2. QED
      BY <3>1 DEF JoinAll
  <2>4. last \in Seq(O)
    BY <1>1
  <2> HIDE DEF a, b, O
  <2>5. Associates(a, b, last)
    BY <2>2, <2>3, <2>4, Associate, Zenon
  <2>6. QED
    BY <2>5 DEF a, b, Associates
<1> HIDE DEF rest, text
<1> DEFINE w == m + n
<1>7. w \in Nat \ {0} /\ Len(rest) = w /\ rest[w][1] = "exit"
  BY <1>1, <1>4, <1>5
<1>8. w = m + n
  OBVIOUS
<1> HIDE DEF w
<1>9. StartSpread(text, s, m, rest)
  <2>1. ExitsLast(rest)
    BY <1>4, <1>7 DEF ExitsLast
  <2>2. StartSpread((s \o StartAll(m)) \o rest, s, m, rest)
    BY <2>1, StartAllText
  <2>3. QED
    BY <1>6, <2>2
<1>10. MainText(text, 1..m) /\ Len(text) = p + m + (m + n)
  BY <1>2, <1>7, <1>8, <1>9 DEF StartSpread
<1>11. \A k \in 1..p : text[k] = s[k]
  BY <1>2, <1>9 DEF StartSpread
<1>12. \A k \in 1..m : text[p + k] = Start(k)
  BY <1>2, <1>9 DEF StartSpread
<1>13. \A k \in 1..w : text[p + m + k] = rest[k]
  BY <1>2, <1>7, <1>9 DEF StartSpread
<1>14. \A k \in 1..m : text[p + m + k] = Join(k)
  BY <1>1, <1>4, <1>8, <1>13
<1>15. \A k \in 1..n : text[p + m + (m + k)] = last[k]
  <2> SUFFICES ASSUME NEW k \in 1..n PROVE text[p + m + (m + k)] = last[k]
    OBVIOUS
  <2>1. m + k \in 1..w
    BY <1>1, <1>8
  <2>2. text[p + m + (m + k)] = rest[m + k]
    BY <1>13, <2>1
  <2>3. QED
    BY <1>5, <2>2
<1>16. QED
  BY <1>1, <1>2, <1>10, <1>11, <1>12, <1>14, <1>15 DEF MainSpread, text

(* Threads that a main starts, in each program.                            *)
Team(x) == IF x = "threads_arg" THEN 1..3 ELSE 1..8

(* race_adder, threads, threads_arg.                                       *)
AdderRow == <<Down(0), Do("read"), Do("write"), Up(0)>>

LEMMA RaceTexts ==
    /\ MainSpread(race_adder[0], <<Create(1)>>, THREAD_COUNT, <<Check("total", 0), Exit(0)>>)
    /\ \A t \in 1..8 : Rounds(race_adder[t], AdderRow, PER_THREAD, 4, Exit(1))
    /\ MainText(race_adder[0], 1..8)
    /\ \A t \in 1..8 : TeamText(race_adder[t])
<1> DEFINE first == <<Create(1)>>
           tail_ == <<Check("total", 0), Exit(0)>>
           row == AdderRow
<1>1. first \in Seq(Plain) /\ Len(first) = 1
  BY PlainFacts
<1>2. ExitsLast(tail_)
  BY PlainFacts DEF Exit, ExitsLast
<1>3. race_adder[0] = first \o StartAll(THREAD_COUNT) \o JoinAll(THREAD_COUNT) \o tail_
  BY DEF race_adder, Thread
<1> HIDE DEF first, tail_
<1>m. MainSpread(race_adder[0], first, THREAD_COUNT, tail_)
  BY <1>1, <1>2, <1>3, ThreadCounts, MainTexts
<1>4. MainText(race_adder[0], 1..THREAD_COUNT)
  BY <1>m DEF MainSpread
<1>5. row \in Row(Plain, 4) /\ Exit(1) \in Plain /\ Exit(1)[1] = "exit"
  BY PlainFacts DEF Row, Accesses, Exit, AdderRow
<1>6. race_adder_f = Times(PER_THREAD, row) \o <<Exit(1)>>
  BY DEF race_adder_f, AdderRow
<1> HIDE DEF row
<1>7. TeamText(race_adder_f) /\ Rounds(race_adder_f, row, PER_THREAD, 4, Exit(1))
  <2>1. 4 \in Nat /\ PER_THREAD \in Nat
    BY ThreadCounts
  <2>2. Rounds(race_adder_f, row, PER_THREAD, 4, Exit(1))
    BY <1>5, <1>6, <2>1, RoundsText
  <2>3. QED
    BY <1>5, <2>1, <2>2, RoundsTeam
<1>8. \A t \in 1..8 : race_adder[t] = race_adder_f
  BY DEF race_adder, Thread
<1>9. THREAD_COUNT \in 1..8
  BY ThreadCounts
<1>10. MainText(race_adder[0], 1..8)
  BY <1>4, <1>9, LargerTeam, Zenon
<1>11. QED
  BY <1>7, <1>8, <1>10, <1>m DEF first, tail_, row

LEMMA ThreadsTexts ==
    /\ MainSpread(threads[0], <<>>, 8, <<Exit(0)>>)
    /\ MainSpread(threads_arg[0], <<>>, 3, <<Exit(0)>>)
    /\ MainText(threads[0], 1..8) /\ MainText(threads_arg[0], 1..3)
    /\ \A t \in 1..8 : TeamText(threads[t])
    /\ \A t \in 1..3 : TeamText(threads_arg[t])
<1> DEFINE tail_ == <<Exit(0)>>
           none == <<>>
<1>1. ExitsLast(tail_)
  BY PlainFacts DEF Exit, ExitsLast
<1>2. none \in Seq(Plain)
  BY EmptySeq
<1>3. ASSUME NEW m \in 1..8
      PROVE  MainSpread(StartAll(m) \o JoinAll(m) \o tail_, none, m, tail_)
  <2>1. none \o StartAll(m) = StartAll(m)
    <3>1. \A k \in 1..m : Start(k) \in Starts
      BY PlainFacts
    <3>2. StartAll(m) \in Seq(Starts)
      BY <3>1 DEF StartAll
    <3>3. QED
      BY <3>2
  <2> HIDE DEF none, tail_
  <2>2. MainSpread(none \o StartAll(m) \o JoinAll(m) \o tail_, none, m, tail_)
    BY <1>1, <1>2, MainTexts
  <2>3. QED
    BY <2>1, <2>2
<1>4. /\ threads[0] = StartAll(8) \o JoinAll(8) \o tail_
      /\ threads_arg[0] = StartAll(3) \o JoinAll(3) \o tail_
  BY DEF threads, threads_arg, Thread
<1> HIDE DEF tail_, none
<1>5. MainSpread(threads[0], none, 8, tail_) /\ MainSpread(threads_arg[0], none, 3, tail_)
  <2>1. 8 \in 1..8 /\ 3 \in 1..8
    OBVIOUS
  <2>2. QED
    BY <1>3, <1>4, <2>1
<1>6. \A c \in 1..3 : TeamText(<<Exit(c)>>)
  <2> SUFFICES ASSUME NEW c \in 1..3 PROVE TeamText(<<Exit(c)>>)
    OBVIOUS
  <2> DEFINE s == <<Exit(c)>>
  <2>1. s \in Seq(Plain) /\ Len(s) = 1 /\ s[1][1] = "exit" /\ 1 \in Nat \ {0}
    BY PlainFacts DEF Exit
  <2> HIDE DEF s
  <2>2. TeamText(s)
    BY <2>1, PlainText
  <2>3. QED
    BY <2>2 DEF s
<1>7. \A t \in 1..8 : threads[t] = IF t \in 1..3 THEN <<Exit(t)>> ELSE <<Exit(2)>>
  BY DEF threads, Thread
<1>8. \A t \in 1..3 : threads_arg[t] = <<Exit(t)>>
  BY DEF threads_arg, Thread
<1>9. QED
  BY <1>5, <1>6, <1>7, <1>8 DEF MainSpread, none, tail_

(* mpsc_sem.                                                               *)
ProducerRow == <<Down(1), Down(0), Do("store"), Do("front"), Up(0), Up(2)>>

ConsumerRow == <<Down(2), Down(0), Do("print"), Do("tail"), Up(0), Up(1)>>

LEMMA RingTexts ==
    /\ MainSpread(mpsc_sem[0], <<Create(1), Create(BUFFER_SIZE), Create(0)>>,
                  PRODUCER_COUNT + 1, <<Exit(0)>>)
    /\ \A t \in 1..PRODUCER_COUNT :
          Rounds(mpsc_sem[t], ProducerRow, NUMBER_PER_PRODUCER, 6, Exit(0))
    /\ \A t \in PRODUCER_COUNT + 1 .. 8 :
          Rounds(mpsc_sem[t], ConsumerRow, PRODUCER_COUNT * NUMBER_PER_PRODUCER, 6, Exit(0))
    /\ \A t \in 1..8 : TeamText(mpsc_sem[t])
<1> DEFINE first == <<Create(1), Create(BUFFER_SIZE), Create(0)>>
           tail_ == <<Exit(0)>>
           m == PRODUCER_COUNT + 1
<1>1. first \in Seq(Plain)
  BY PlainFacts, ThreadCounts
<1>2. ExitsLast(tail_)
  BY PlainFacts DEF Exit, ExitsLast
<1>3. mpsc_sem[0] = first \o StartAll(m) \o JoinAll(m) \o tail_
  BY DEF mpsc_sem, Thread
<1>4. m \in 1..8 /\ PRODUCER_COUNT \in 1..7 /\ m = PRODUCER_COUNT + 1
  BY ThreadCounts
<1> HIDE DEF first, tail_, m
<1>5. MainSpread(mpsc_sem[0], first, m, tail_)
  BY <1>1, <1>2, <1>3, <1>4, MainTexts
<1>6. ProducerRow \in Row(Plain, 6) /\ ConsumerRow \in Row(Plain, 6)
  BY PlainFacts DEF Row, Accesses, ProducerRow, ConsumerRow
<1>7. Exit(0) \in Plain /\ Exit(0)[1] = "exit" /\ 6 \in Nat
  BY PlainFacts DEF Exit
<1>8. Rounds(producer, ProducerRow, NUMBER_PER_PRODUCER, 6, Exit(0))
  <2>1. producer = Times(NUMBER_PER_PRODUCER, ProducerRow) \o <<Exit(0)>>
    BY DEF producer, ProducerRow
  <2>2. QED
    BY <1>6, <1>7, <2>1, ThreadCounts, RoundsText
<1>9. Rounds(consumer, ConsumerRow, PRODUCER_COUNT * NUMBER_PER_PRODUCER, 6, Exit(0))
  <2>1. consumer = Times(PRODUCER_COUNT * NUMBER_PER_PRODUCER, ConsumerRow) \o <<Exit(0)>>
    BY DEF consumer, ConsumerRow
  <2>2. QED
    BY <1>6, <1>7, <2>1, ThreadCounts, RoundsText
<1>10. \A t \in 1..PRODUCER_COUNT : mpsc_sem[t] = producer
  BY <1>4 DEF mpsc_sem, Thread
<1>11. \A t \in m .. 8 : mpsc_sem[t] = consumer
  <2> SUFFICES ASSUME NEW t \in m .. 8 PROVE mpsc_sem[t] = consumer
    OBVIOUS
  <2>1. t \in Thread /\ t # 0 /\ t \notin 1..PRODUCER_COUNT
    BY <1>4 DEF Thread
  <2>2. QED
    BY <2>1 DEF mpsc_sem
<1>12. TeamText(producer) /\ TeamText(consumer)
  BY <1>7, <1>8, <1>9, ThreadCounts, RoundsTeam
<1>13. \A t \in 1..8 : TeamText(mpsc_sem[t])
  <2>1. \A t \in 1..8 : t \in 1..PRODUCER_COUNT \/ t \in m .. 8
    BY <1>4
  <2>2. QED
    BY <1>10, <1>11, <1>12, <2>1
<1>14. QED
  BY <1>4, <1>5, <1>8, <1>9, <1>10, <1>11, <1>13 DEF first, tail_, m

-----------------------------------------------------------------------------
(* phil_din_mutex.                                                         *)
PhilosopherRow(t) ==
    <<Outlast({0}), Down(MinFork(t)), Down(MaxFork(t)), Do("eat"), Up(MaxFork(t)),
      Up(MinFork(t))>>

ForksMain(text) ==
    /\ Len(text) = 3 * N + 1
    /\ \A k \in 1..N : text[2 * k - 1] = Create(1) /\ text[2 * k] = Start(k)
    /\ \A k \in 1..N : text[2 * N + k] = Join(k)
    /\ text[3 * N + 1] = Exit(0)

LEMMA ForkNumbers ==
    \A t \in 1..8 : MinFork(t) \in Nat /\ MaxFork(t) \in Nat
BY ThreadCounts DEF MinFork, MaxFork

LEMMA ForksMainText ==
    ForksMain(phil_din_mutex[0]) /\ MainText(phil_din_mutex[0], 1..8)
<1> DEFINE O == Plain \cup Starts
           seqs == [i \in 1..N |-> <<Create(1), Start(i)>>]
           s == FlattenSeq(seqs)
           last == <<Exit(0)>>
           rest == JoinAll(N) \o last
           text == phil_din_mutex[0]
<1>1. N \in 1..8 /\ N \in Nat
  BY ThreadCounts
<1>2. seqs \in [1..N -> Row(O, 2)] /\ \A k \in 1..N : seqs[k] = <<Create(1), Start(k)>>
  <2>1. ASSUME NEW k \in 1..N PROVE <<Create(1), Start(k)>> \in Row(O, 2)
    <3>1. Create(1) \in O /\ Start(k) \in O
      BY <1>1, PlainFacts
    <3>2. QED
      BY <3>1 DEF Row
  <2>2. QED
    BY <2>1
<1>3. last \in Seq(Plain) /\ Len(last) = 1 /\ last[1] = Exit(0)
  BY PlainFacts
<1>4. text = s \o JoinAll(N) \o last
  BY DEF phil_din_mutex, ForEach, Thread
<1> HIDE DEF seqs, last, text
<1>5. HasRows(s, seqs, N, 2)
  BY <1>1, <1>2, FlattenRows
<1>6. s \in Seq(O)
  <2>1. seqs \in [1..N -> Seq(O)]
    BY <1>2 DEF Row
  <2>2. QED
    BY <1>1, <2>1, FlattenTyped
<1> HIDE DEF s
<1>7. Len(s) = 2 * N /\ \A k \in 1..N : s[2 * k - 1] = Create(1) /\ s[2 * k] = Start(k)
  <2>1. Len(s) = N * 2 /\ \A k \in 1..N, j \in 1..2 : s[(k - 1) * 2 + j] = seqs[k][j]
    BY <1>5 DEF HasRows
  <2>2. ASSUME NEW k \in 1..N PROVE s[2 * k - 1] = Create(1) /\ s[2 * k] = Start(k)
    <3>1. (k - 1) * 2 + 1 = 2 * k - 1 /\ (k - 1) * 2 + 2 = 2 * k
      OBVIOUS
    <3>2. s[(k - 1) * 2 + 1] = seqs[k][1] /\ s[(k - 1) * 2 + 2] = seqs[k][2]
      BY <2>1
    <3>3. seqs[k][1] = Create(1) /\ seqs[k][2] = Start(k)
      BY <1>2
    <3>4. QED
      BY <3>1, <3>2, <3>3
  <2>3. QED
    BY <1>1, <2>1, <2>2
<1>8. JoinsThen(rest, N, last)
  BY <1>1, <1>3, JoinsText
<1>9. /\ rest \in Seq(Plain) /\ Len(rest) = N + 1
      /\ \A k \in 1..N : rest[k] = Join(k)
  BY <1>3, <1>8 DEF JoinsThen
<1>10. rest[N + 1] = Exit(0)
  <2>1. \A k \in 1..Len(last) : rest[N + k] = last[k]
    BY <1>8 DEF JoinsThen
  <2>2. 1 \in 1..Len(last)
    BY <1>3
  <2>3. QED
    BY <1>3, <2>1, <2>2
<1>11. text = s \o rest
  <2> DEFINE j == JoinAll(N)
  <2>1. j \in Seq(O)
    <3>1. \A k \in 1..N : Join(k) \in O
      BY <1>1, PlainFacts DEF Thread
    <3>2. QED
      BY <1>1, <3>1 DEF JoinAll
  <2>2. last \in Seq(O)
    BY <1>3
  <2> HIDE DEF j, O
  <2>3. (s \o j) \o last = s \o (j \o last)
    BY <1>6, <2>1, <2>2, ConcatAssociative
  <2>4. QED
    BY <1>4, <2>3 DEF j
<1> HIDE DEF rest
<1>12. rest \in Seq(O)
  BY <1>9
<1> HIDE DEF O
<1>13. text \in Seq(O) /\ Len(text) = Len(s) + Len(rest)
  BY <1>6, <1>11, <1>12, ConcatAt
<1>14. \A k \in 1..Len(s) : text[k] = s[k]
  BY <1>6, <1>11, <1>12, ConcatAt
<1>15. \A k \in 1..Len(rest) : text[Len(s) + k] = rest[k]
  BY <1>6, <1>11, <1>12, ConcatAt
<1>16. Len(text) = 3 * N + 1
  BY <1>1, <1>7, <1>9, <1>13
<1>17. \A k \in 1..N : text[2 * k - 1] = Create(1) /\ text[2 * k] = Start(k)
  <2> SUFFICES ASSUME NEW k \in 1..N
               PROVE  text[2 * k - 1] = Create(1) /\ text[2 * k] = Start(k)
    OBVIOUS
  <2>1. 2 * k - 1 \in 1..Len(s) /\ 2 * k \in 1..Len(s)
    BY <1>1, <1>7
  <2>2. QED
    BY <1>7, <1>14, <2>1
<1>18. \A k \in 1..N + 1 : text[2 * N + k] = rest[k]
  BY <1>7, <1>9, <1>15
<1>19. ForksMain(text)
  <2>1. \A k \in 1..N : text[2 * N + k] = Join(k)
    BY <1>1, <1>9, <1>18
  <2>2. text[3 * N + 1] = Exit(0)
    <3>1. N + 1 \in 1..N + 1 /\ 2 * N + (N + 1) = 3 * N + 1
      BY <1>1
    <3>2. text[2 * N + (N + 1)] = rest[N + 1]
      BY <1>18, <3>1
    <3>3. QED
      BY <1>10, <3>1, <3>2
  <2>3. QED
    BY <1>16, <1>17, <2>1, <2>2 DEF ForksMain
<1>20. \A j \in 1..Len(text) : \/ text[j][1] # "thread"
                               \/ \E k \in 1..N : j = 2 * k /\ text[j] = Start(k)
  <2> SUFFICES ASSUME NEW j \in 1..Len(text)
               PROVE  \/ text[j][1] # "thread"
                      \/ \E k \in 1..N : j = 2 * k /\ text[j] = Start(k)
    OBVIOUS
  <2>1. \/ \E k \in 1..N : j = 2 * k - 1
        \/ \E k \in 1..N : j = 2 * k
        \/ j - 2 * N \in 1..N + 1
    <3>1. j \in Nat /\ N \in Nat /\ j \div 2 \in Nat /\ (j + 1) \div 2 \in Nat
      BY <1>1
    <3>2. j = 2 * (j \div 2) \/ j = 2 * ((j + 1) \div 2) - 1
      BY <3>1
    <3>3. QED
      BY <1>16, <3>1, <3>2
  <2>2. \A k \in 1..N : j = 2 * k - 1 => text[j][1] # "thread"
    BY <1>17 DEF Create
  <2>3. j - 2 * N \in 1..N + 1 => text[j][1] # "thread"
    <3> SUFFICES ASSUME j - 2 * N \in 1..N + 1 PROVE text[j][1] # "thread"
      OBVIOUS
    <3>1. text[2 * N + (j - 2 * N)] = rest[j - 2 * N] /\ 2 * N + (j - 2 * N) = j
      BY <1>1, <1>18
    <3>2. text[j] \in Plain
      BY <1>9, <3>1
    <3>3. QED
      BY <3>2, PlainShape
  <2>4. \A k \in 1..N : j = 2 * k => text[j] = Start(k)
    BY <1>17
  <2>5. QED
    BY <2>1, <2>2, <2>3, <2>4
<1>21. StartsOnce(text)
  <2> SUFFICES ASSUME NEW j \in 1..Len(text), NEW k \in 1..Len(text),
                      text[j][1] = "thread", text[k] = text[j]
               PROVE  j = k
    BY DEF StartsOnce
  <2>1. PICK a \in 1..N : j = 2 * a /\ text[j] = Start(a)
    BY <1>20
  <2>2. PICK b \in 1..N : k = 2 * b /\ text[k] = Start(b)
    BY <1>20
  <2>3. a = b
    BY <2>1, <2>2 DEF Start
  <2>4. QED
    BY <2>1, <2>2, <2>3
<1>22. \A j \in 1..Len(text) : text[j][1] = "thread" => text[j][2] \in 1..8
  BY <1>1, <1>20 DEF Start
<1>23. text \in Wholes(MainOps)
  <2>1. \A k \in 1..Len(text) : Offsets(text[k]) \subseteq {1}
    <3>1. \A k \in 1..Len(text) : text[k] \in Plain \cup Starts
      BY <1>13 DEF O
    <3>2. QED
      BY <3>1, PlainShape
  <2>2. text \in Seq(MainOps)
    <3>1. O \subseteq MainOps
      BY DEF O, MainOps
    <3>2. QED
      BY <1>13, <3>1
  <2>3. 3 * N + 1 \in Nat \ {0}
    BY <1>1
  <2>4. text[3 * N + 1][1] = "exit"
    BY <1>19 DEF ForksMain, Exit
  <2>5. QED
    BY <1>16, <2>1, <2>2, <2>3, <2>4, OnwardWhole
<1>24. QED
  BY <1>19, <1>21, <1>22, <1>23 DEF MainText, text

LEMMA PhilosopherTexts ==
    \A t \in 1..8 : /\ Rounds(phil_din_mutex[t], PhilosopherRow(t), ROUND, 6, Exit(0))
                    /\ TeamText(phil_din_mutex[t])
<1> SUFFICES ASSUME NEW t \in 1..8
             PROVE  /\ Rounds(phil_din_mutex[t], PhilosopherRow(t), ROUND, 6, Exit(0))
                    /\ TeamText(phil_din_mutex[t])
  OBVIOUS
<1> DEFINE row == PhilosopherRow(t)
<1>1. row \in Row(Plain, 6)
  <2>1. Outlast({0}) \in Plain
    BY PlainFacts DEF Thread
  <2>2. Do("eat") \in Plain
    BY PlainFacts DEF Accesses
  <2>3. QED
    BY <2>1, <2>2, ForkNumbers, PlainFacts DEF Row, PhilosopherRow
<1>2. Exit(0) \in Plain /\ Exit(0)[1] = "exit" /\ 6 \in Nat
  BY PlainFacts DEF Exit
<1>3. phil_din_mutex[t] = Times(ROUND, row) \o <<Exit(0)>>
  <2>1. t \in Thread /\ t # 0
    BY DEF Thread
  <2>2. phil_din_mutex[t] = philosopher_dining_problem(t)
    BY <2>1 DEF phil_din_mutex
  <2>3. QED
    BY <2>2 DEF philosopher_dining_problem, PhilosopherRow
<1> HIDE DEF row
<1>4. Rounds(phil_din_mutex[t], row, ROUND, 6, Exit(0))
  BY <1>1, <1>2, <1>3, ThreadCounts, RoundsText
<1>5. TeamText(phil_din_mutex[t])
  BY <1>2, <1>4, ThreadCounts, RoundsTeam
<1>6. QED
  BY <1>4, <1>5 DEF row

-----------------------------------------------------------------------------
(* sync_sem and test_condvar.                                              *)
LEMMA PairTexts ==
    /\ MainText(sync_sem[0], 1..8) /\ MainText(test_condvar[0], 1..8)
    /\ \A t \in 1..8 : TeamText(sync_sem[t]) /\ TeamText(test_condvar[t])
<1> DEFINE main(n) == <<Create(n), Start(1), Start(2), Join(1), Join(2), Exit(0)>>
<1>1. ASSUME NEW n \in Nat PROVE MainText(main(n), 1..8)
  <2> DEFINE text == main(n)
  <2>1. /\ Len(text) = 6
        /\ text[1] = Create(n) /\ text[2] = Start(1) /\ text[3] = Start(2)
        /\ text[4] = Join(1) /\ text[5] = Join(2) /\ text[6] = Exit(0)
    OBVIOUS
  <2>2. text \in Seq(Plain \cup Starts) /\ text \in Seq(MainOps)
    BY PlainFacts DEF MainOps, Thread
  <2> HIDE DEF text
  <2>3. \A k \in 1..Len(text) : Offsets(text[k]) \subseteq {1}
    BY <2>2, PlainShape
  <2>4. text[6][1] = "exit" /\ 6 \in Nat \ {0}
    BY <2>1 DEF Exit
  <2>5. text \in Wholes(MainOps)
    BY <2>1, <2>2, <2>3, <2>4, OnwardWhole
  <2>6. \A j \in 1..6 : text[j][1] = "thread" => j \in {2, 3}
    BY <2>1 DEF Create, Join, Exit
  <2>7. text[2] = <<"thread", 1>> /\ text[3] = <<"thread", 2>>
    BY <2>1 DEF Start
  <2>8. StartsOnce(text)
    BY <2>1, <2>6, <2>7 DEF StartsOnce
  <2>9. \A j \in 1..Len(text) : text[j][1] = "thread" => text[j][2] \in 1..8
    BY <2>1, <2>6, <2>7
  <2>10. MainText(text, 1..8)
    BY <2>5, <2>8, <2>9 DEF MainText
  <2>11. QED
    BY <2>10 DEF text
<1>2. sync_sem[0] = main(0) /\ test_condvar[0] = main(1)
  BY DEF sync_sem, test_condvar, Thread
<1> HIDE DEF main
<1>3. MainText(sync_sem[0], 1..8) /\ MainText(test_condvar[0], 1..8)
  BY <1>1, <1>2
<1>4. ASSUME NEW s \in Seq(Plain), NEW n \in Nat \ {0}, Len(s) = n, s[n] = Exit(0)
      PROVE  TeamText(s)
  <2>1. s[n][1] = "exit"
    BY <1>4 DEF Exit
  <2>2. QED
    BY <1>4, <2>1, PlainText
<1>5. TeamText(<<Do("work"), Up(0), Exit(0)>>)
  <2> DEFINE s == <<Do("work"), Up(0), Exit(0)>>
  <2>1. s \in Seq(Plain) /\ Len(s) = 3 /\ s[3] = Exit(0) /\ 3 \in Nat \ {0}
    BY PlainFacts DEF Accesses
  <2> HIDE DEF s
  <2>2. TeamText(s)
    BY <1>4, <2>1
  <2>3. QED
    BY <2>2 DEF s
<1>6. TeamText(<<Down(0), Exit(0)>>)
  <2> DEFINE s == <<Down(0), Exit(0)>>
  <2>1. s \in Seq(Plain) /\ Len(s) = 2 /\ s[2] = Exit(0) /\ 2 \in Nat \ {0}
    BY PlainFacts
  <2> HIDE DEF s
  <2>2. TeamText(s)
    BY <1>4, <2>1
  <2>3. QED
    BY <2>2 DEF s
<1>7. TeamText(condvar_first)
  <2>1. /\ condvar_first \in Seq(Plain) /\ Len(condvar_first) = 5
        /\ condvar_first[5] = Exit(0) /\ 5 \in Nat \ {0}
    BY PlainFacts DEF Accesses, condvar_first
  <2>2. QED
    BY <1>4, <2>1
<1>8. TeamText(condvar_second)
  <2> DEFINE s == condvar_second
  <2>1. /\ Len(s) = 5 /\ s[1] = Down(0) /\ s[2] = <<"test">> /\ s[3] = <<"wait">>
        /\ s[4] = Up(0) /\ s[5] = Exit(0)
    BY DEF condvar_second, Do
  <2>2. s \in Seq(TeamOps)
    BY PlainFacts DEF condvar_second, TeamOps, Do
  <2> HIDE DEF s
  <2>3. /\ Offsets(s[1]) = {1} /\ Offsets(s[2]) = {1, 2} /\ Offsets(s[3]) = {1}
        /\ Offsets(s[4]) = {1} /\ Offsets(s[5]) = {}
    BY <2>1 DEF Offsets, Down, Up, Exit
  <2>4. \A k \in 1..5 : k \in {1, 2, 3, 4, 5}
    OBVIOUS
  <2>5. \A k \in 1..5 : \A o \in Offsets(s[k]) : o \in Int /\ k + o \in 1..5
    BY <2>3, <2>4
  <2>6. s \in Wholes(TeamOps)
    <3>1. \A k \in 1..Len(s) : \A o \in Offsets(s[k]) :
              o \in Int /\ k + o \in 1..Len(s) + 1 /\ k + o \in 1..Len(s)
      BY <2>1, <2>5
    <3>2. s \in Blocks(TeamOps)
      BY <2>2, <3>1 DEF Blocks
    <3>3. Len(s) > 0
      BY <2>1
    <3>4. QED
      BY <3>1, <3>2, <3>3 DEF Wholes
  <2>7. \A k \in 1..5 : s[k][1] = "wait" => k >= 3
    BY <2>1, <2>4 DEF Down
  <2>8. QED
    BY <2>1, <2>6, <2>7 DEF TeamText, s
<1>9. ASSUME NEW t \in 1..8 PROVE TeamText(sync_sem[t]) /\ TeamText(test_condvar[t])
  <2>1. t \in Thread /\ t # 0
    BY DEF Thread
  <2>2. /\ sync_sem[t] = IF t = 1 THEN <<Do("work"), Up(0), Exit(0)>> ELSE <<Down(0), Exit(0)>>
        /\ test_condvar[t] = IF t = 1 THEN condvar_first ELSE condvar_second
    BY <2>1 DEF sync_sem, test_condvar
  <2>3. QED
    BY <1>5, <1>6, <1>7, <1>8, <2>2
<1>10. QED
  BY <1>3, <1>9

-----------------------------------------------------------------------------
(* The deadlock tests.                                                     *)
LEMMA TryText ==
    ASSUME NEW r \in Nat, NEW body, ExitsLast(body), NEW n \in 1..Len(body)
    PROVE  <<TryDown(r, n)>> \o body \in Wholes(Plain \cup Tries)
<1> DEFINE S == Plain \cup Tries
           op == TryDown(r, n)
           text == <<op>> \o body
<1>1. body \in Seq(Plain) /\ Len(body) \in Nat /\ Len(body) > 0 /\ body[Len(body)][1] = "exit"
  BY DEF ExitsLast
<1>2. op \in S /\ body \in Seq(S)
  BY <1>1, PlainFacts
<1>3. Offsets(op) \subseteq {1, n}
  BY DEF Offsets, TryDown
<1> HIDE DEF S, op
<1>4. /\ text \in Seq(S) /\ Len(text) = Len(body) + 1 /\ text[1] = op
      /\ \A k \in 1..Len(body) : text[k + 1] = body[k]
  BY <1>2, FirstThen
<1> HIDE DEF text
<1>5. ASSUME NEW k \in 1..Len(text), NEW o \in Offsets(text[k])
      PROVE  o \in Int /\ k + o \in 1..Len(text)
  <2>1. CASE k = 1
    BY <1>1, <1>3, <1>4, <2>1
  <2>2. CASE k # 1
    <3>1. k - 1 \in 1..Len(body) /\ (k - 1) + 1 = k
      BY <1>1, <1>4, <2>2
    <3>2. text[k] = body[k - 1] /\ body[k - 1] \in Plain
      BY <1>1, <1>4, <3>1
    <3>3. o = 1
      BY <1>5, <3>2, PlainShape
    <3>4. k # Len(text)
      <4>1. k = Len(text) => Offsets(text[k]) = {}
        BY <1>1, <1>4, <3>1, <3>2 DEF Offsets
      <4>2. QED
        BY <1>5, <4>1
    <3>5. QED
      BY <1>1, <1>4, <3>3, <3>4
  <2>3. QED
    BY <2>1, <2>2
<1>6. text \in Wholes(S)
  BY <1>1, <1>4, <1>5 DEF Wholes, Blocks
<1>7. QED
  BY <1>6 DEF S, text, op

LEMMA TriesTeam ==
    ASSUME NEW s \in Wholes(Plain \cup Tries)
    PROVE  TeamText(s) /\ \A team : MainText(s, team)
<1> DEFINE S == Plain \cup Tries
<1>1. s \in Seq(S) /\ \A k \in 1..Len(s) : s[k] \in S
  BY DEF Wholes, Blocks
<1>2. \A k \in 1..Len(s) : s[k][1] \notin {"thread", "wait"}
  BY <1>1, PlainShape
<1>3. S \subseteq TeamOps /\ S \subseteq MainOps
  BY DEF TeamOps, MainOps
<1> HIDE DEF S
<1>4. s \in Seq(TeamOps) /\ s \in Seq(MainOps)
  BY <1>1, <1>3
<1>5. s \in Wholes(TeamOps) /\ s \in Wholes(MainOps)
  BY <1>4 DEF Wholes, Blocks
<1>6. QED
  BY <1>2, <1>5 DEF TeamText, MainText, StartsOnce

LEMMA OnwardBlock ==
    ASSUME NEW s \in Seq(Plain)
    PROVE  s \in Blocks(Plain \cup Tries)
<1>1. s \in Seq(Plain \cup Tries)
  OBVIOUS
<1>2. \A k \in 1..Len(s) : Offsets(s[k]) \subseteq {1}
  BY PlainShape
<1>3. ASSUME NEW k \in 1..Len(s), NEW o \in Offsets(s[k])
      PROVE  o \in Int /\ k + o \in 1..Len(s) + 1
  <2>1. o = 1 /\ Len(s) \in Nat
    BY <1>2
  <2>2. QED
    BY <2>1
<1>4. QED
  BY <1>1, <1>3 DEF Blocks

Regrouped(a, b, c, d) == (a \o (b \o c)) \o d = a \o (b \o (c \o d))

LEMMA Regroup ==
    ASSUME NEW S, NEW a \in Seq(S), NEW b \in Seq(S), NEW c \in Seq(S), NEW d \in Seq(S)
    PROVE  Regrouped(a, b, c, d)
<1> DEFINE x == b \o c
           y == c \o d
<1>1. x \in Seq(S)
  BY ConcatAt
<1>2. Associates(b, c, d)
  BY Associate, Zenon
<1> HIDE DEF x, y
<1>3. Associates(a, x, d)
  BY <1>1, Associate, Zenon
<1>4. QED
  BY <1>2, <1>3 DEF x, y, Regrouped, Associates

LEMMA ExitsJoin ==
    ASSUME NEW s \in Seq(Plain), NEW t, ExitsLast(t)
    PROVE  ExitsLast(s \o t) /\ Len(s \o t) = Len(s) + Len(t)
<1>1. t \in Seq(Plain) /\ Len(t) \in Nat /\ Len(t) > 0 /\ t[Len(t)][1] = "exit"
  BY DEF ExitsLast
<1>2. t \in Seq(Plain)
  BY <1>1
<1>3. s \o t \in Seq(Plain) /\ Len(s \o t) = Len(s) + Len(t)
  BY <1>2, ConcatAt
<1>4. \A k \in 1..Len(t) : (s \o t)[Len(s) + k] = t[k]
  BY <1>2, ConcatAt
<1>5. Len(t) \in 1..Len(t) /\ Len(s) \in Nat
  BY <1>1
<1>6. (s \o t)[Len(s) + Len(t)] = t[Len(t)]
  BY <1>4, <1>5
<1> DEFINE text == s \o t
<1> HIDE DEF text
<1>7. /\ text \in Seq(Plain) /\ Len(text) = Len(s) + Len(t)
      /\ text[Len(s) + Len(t)] = t[Len(t)]
  BY <1>3, <1>6 DEF text
<1>8. ExitsLast(text) /\ Len(text) = Len(s) + Len(t)
  BY <1>1, <1>5, <1>7 DEF ExitsLast
<1>9. QED
  BY <1>8 DEF text

LEMMA MutexTestText == MainText(deadlock_mutex1[0], 1..8) /\ \A t \in 1..8 : TeamText(deadlock_mutex1[t])
<1> DEFINE s == <<Create(1), DownOk(0), TryDown(0, 2), Exit(1), Up(0), Exit(0)>>
           S == Plain \cup Tries
<1>1. /\ Len(s) = 6 /\ s[1] = Create(1) /\ s[2] = DownOk(0) /\ s[3] = TryDown(0, 2)
      /\ s[4] = Exit(1) /\ s[5] = Up(0) /\ s[6] = Exit(0)
  OBVIOUS
<1>2. s \in Seq(S)
  <2>1. Create(1) \in S /\ DownOk(0) \in S /\ TryDown(0, 2) \in S /\ Exit(1) \in S /\ Up(0) \in S
        /\ Exit(0) \in S
    BY PlainFacts
  <2>2. QED
    BY <2>1
<1>3. \A t \in Thread : deadlock_mutex1[t] = s
  BY DEF deadlock_mutex1
<1> HIDE DEF s
<1>4. /\ Offsets(s[1]) = {1} /\ Offsets(s[2]) = {1} /\ Offsets(s[3]) = {1, 2}
      /\ Offsets(s[4]) = {} /\ Offsets(s[5]) = {1} /\ Offsets(s[6]) = {}
  BY <1>1 DEF Offsets, Create, DownOk, TryDown, Up, Exit
<1>5. \A k \in 1..6 : k \in {1, 2, 3, 4, 5, 6}
  OBVIOUS
<1>6. \A k \in 1..6 : \A o \in Offsets(s[k]) : o \in Int /\ k + o \in 1..6
  BY <1>4, <1>5
<1>7. s \in Wholes(S)
  <2>1. \A k \in 1..Len(s) : \A o \in Offsets(s[k]) :
            o \in Int /\ k + o \in 1..Len(s) + 1 /\ k + o \in 1..Len(s)
    BY <1>1, <1>6
  <2>2. s \in Blocks(S)
    BY <1>2, <2>1 DEF Blocks
  <2>3. Len(s) > 0
    BY <1>1
  <2>4. QED
    BY <2>1, <2>2, <2>3 DEF Wholes
<1>8. TeamText(s) /\ MainText(s, 1..8)
  BY <1>7, TriesTeam
<1>9. QED
  BY <1>3, <1>8 DEF Thread

(* A thread of the semaphore tests: what it does first, the call that may  *)
(* be refused, and what it does then.                                      *)
LEMMA RefusedText ==
    ASSUME NEW s \in Seq(Plain), NEW r \in Nat, NEW body, ExitsLast(body),
           NEW n \in 1..Len(body)
    PROVE  TeamText(s \o (<<TryDown(r, n)>> \o body))
<1> DEFINE t == <<TryDown(r, n)>> \o body
<1>1. t \in Wholes(Plain \cup Tries)
  BY TryText
<1>2. s \in Blocks(Plain \cup Tries)
  BY OnwardBlock
<1> HIDE DEF t
<1>3. s \o t \in Wholes(Plain \cup Tries)
  BY <1>1, <1>2, ConcatWhole
<1>4. QED
  BY <1>3, TriesTeam DEF t

LEMMA Sem1ThreadText == \A t \in 1..3 : TeamText(deadlock_test1(t))
<1> SUFFICES ASSUME NEW t \in 1..3 PROVE TeamText(deadlock_test1(t))
  OBVIOUS
<1> DEFINE S == Plain \cup Tries
           alloc == Sem1Alloc[t]
           r == Sem1Request[t]
           a == sem_alloc(t)
           d == sem_dealloc(t)
           n == Len(alloc)
           op == <<TryDown(r, Len(d) + 3)>>
           u == <<Up(r)>>
           e == <<Exit(0)>>
           f == <<Exit(-1)>>
           body == (((u \o d) \o e) \o d) \o f
<1>1. alloc \in Seq(Nat) /\ r \in Nat
  <2> DEFINE a1 == <<2>>
             a2 == <<1, 2>>
             a3 == <<3>>
  <2>1. a1 \in Seq(Nat) /\ a2 \in Seq(Nat) /\ a3 \in Seq(Nat)
    OBVIOUS
  <2>2. /\ Sem1Alloc[1] = a1 /\ Sem1Alloc[2] = a2 /\ Sem1Alloc[3] = a3
        /\ Sem1Request[1] = 1 /\ Sem1Request[2] = 3 /\ Sem1Request[3] = 2
    BY DEF Sem1Alloc, Sem1Request
  <2> HIDE DEF a1, a2, a3
  <2>3. t = 1 \/ t = 2 \/ t = 3
    OBVIOUS
  <2>4. QED
    BY <2>1, <2>2, <2>3
<1> HIDE DEF alloc, r
<1>2. n \in Nat /\ \A i \in 1..n : DownOk(alloc[i]) \in Plain /\ Up(alloc[i]) \in Plain
  BY <1>1, PlainFacts
<1>3. a \in Seq(Plain)
  <2> DEFINE first == [i \in 1..n |-> DownOk(alloc[i])]
             then == <<Down(0)>>
  <2>1. first \in Seq(Plain) /\ then \in Seq(Plain)
    BY <1>2, PlainFacts
  <2>2. a = first \o then
    BY DEF sem_alloc, alloc
  <2> HIDE DEF first, then
  <2>3. QED
    BY <2>1, <2>2, ConcatAt
<1>4. d \in Seq(Plain) /\ Len(d) \in Nat
  <2> DEFINE first == <<Up(0)>>
             then == [i \in 1..n |-> Up(alloc[i])]
  <2>1. first \in Seq(Plain) /\ then \in Seq(Plain)
    BY <1>2, PlainFacts
  <2>2. d = first \o then
    BY DEF sem_dealloc, alloc
  <2> HIDE DEF first, then
  <2>3. d \in Seq(Plain)
    BY <2>1, <2>2, ConcatAt
  <2>4. QED
    BY <2>3
<1>5. deadlock_test1(t) = (((((a \o op) \o u) \o d) \o e) \o d) \o f
  BY DEF deadlock_test1, r
<1>6. u \in Seq(Plain) /\ e \in Seq(Plain) /\ f \in Seq(Plain)
  BY <1>1, PlainFacts
<1>u. u \in Seq(Plain) /\ Len(u) = 1
  BY <1>6
<1>e. e \in Seq(Plain) /\ Len(e) = 1
  BY <1>6
<1>f. f \in Seq(Plain) /\ Len(f) = 1 /\ f[1] = Exit(-1)
  BY <1>6
<1>7. op \in Seq(S) /\ a \in Seq(S) /\ u \in Seq(S) /\ d \in Seq(S) /\ e \in Seq(S) /\ f \in Seq(S)
  <2>1. TryDown(r, Len(d) + 3) \in Tries
    BY <1>1, <1>4, PlainFacts
  <2>2. QED
    BY <1>3, <1>4, <1>6, <2>1
<1> HIDE DEF n, a, d, op, u, e, f, S
<1> DEFINE w1 == u \o d
           w2 == w1 \o e
           w3 == w2 \o d
<1>8. w1 \in Seq(Plain) /\ Len(w1) = 1 + Len(d)
  <2>1. d \in Seq(Plain)
    BY <1>4
  <2>2. u \o d \in Seq(Plain) /\ Len(u \o d) = Len(u) + Len(d)
    BY <1>6, <2>1, ConcatAt
  <2>3. QED
    BY <1>u, <2>2
<1> HIDE DEF w1
<1>9. w2 \in Seq(Plain) /\ Len(w2) = 2 + Len(d)
  BY <1>8, <1>e, ConcatAt
<1> HIDE DEF w2
<1>10. w3 \in Seq(Plain) /\ Len(w3) = 2 + 2 * Len(d)
  <2>1. w3 \in Seq(Plain) /\ Len(w3) = Len(w2) + Len(d)
    BY <1>4, <1>9, ConcatAt
  <2> HIDE DEF w3
  <2>2. QED
    BY <1>4, <1>9, <2>1
<1> HIDE DEF w3
<1>11. ExitsLast(f)
  BY <1>f DEF ExitsLast, Exit
<1>12. ExitsLast(w3 \o f) /\ Len(w3 \o f) = Len(w3) + Len(f)
  BY <1>10, <1>11, ExitsJoin
<1>13. Len(d) + 3 \in 1..Len(w3) + Len(f)
  BY <1>4, <1>f, <1>10
<1>14. ExitsLast(w3 \o f) /\ Len(d) + 3 \in 1..Len(w3 \o f)
  BY <1>12, <1>13
<1>15. body = w3 \o f
  BY DEF w3, w2, w1
<1>16. deadlock_test1(t) = a \o (op \o body)
  <2>1. w1 \in Seq(S) /\ w2 \in Seq(S) /\ w3 \in Seq(S)
    BY <1>8, <1>9, <1>10 DEF S
  <2>2. ASSUME NEW x \in Seq(S), NEW y \in Seq(S)
        PROVE  (a \o (op \o x)) \o y = a \o (op \o (x \o y))
    <3>1. a \in Seq(S) /\ op \in Seq(S)
      BY <1>7
    <3>2. Regrouped(a, op, x, y)
      BY <3>1, Regroup
    <3>3. QED
      BY <3>2 DEF Regrouped
  <2>3. (a \o op) \o u = a \o (op \o u)
    <3>1. a \in Seq(S) /\ op \in Seq(S) /\ u \in Seq(S)
      BY <1>7
    <3>2. QED
      BY <3>1, ConcatAssociative
  <2>4. (a \o (op \o u)) \o d = a \o (op \o w1)
    BY <1>7, <2>2 DEF w1
  <2>5. (a \o (op \o w1)) \o e = a \o (op \o w2)
    BY <1>7, <2>1, <2>2 DEF w2
  <2>6. (a \o (op \o w2)) \o d = a \o (op \o w3)
    BY <1>7, <2>1, <2>2 DEF w3
  <2>7. (a \o (op \o w3)) \o f = a \o (op \o (w3 \o f))
    BY <1>7, <2>1, <2>2
  <2> HIDE DEF body
  <2>8. QED
    BY <1>5, <1>15, <2>3, <2>4, <2>5, <2>6, <2>7
<1>17. TeamText(a \o (op \o (w3 \o f)))
  <2> DEFINE whole == w3 \o f
             k == Len(d) + 3
  <2>1. ExitsLast(whole) /\ k \in 1..Len(whole)
    BY <1>14
  <2> HIDE DEF whole, k
  <2>2. TeamText(a \o (<<TryDown(r, k)>> \o whole))
    BY <1>1, <1>3, <2>1, RefusedText
  <2>3. QED
    BY <2>2 DEF k, op, whole
<1>18. QED
  BY <1>15, <1>16, <1>17

LEMMA Sem2ThreadText == \A t \in 1..4 : TeamText(deadlock_test2(t))
<1> SUFFICES ASSUME NEW t \in 1..4 PROVE TeamText(deadlock_test2(t))
  OBVIOUS
<1> DEFINE h == Sem2Alloc[t]
           r == Sem2Request[t]
           first == <<DownOk(h), Down(0)>>
           op == <<TryDown(r, 4)>>
           u == <<Up(r)>>
           last == <<Up(h), Exit(0), Up(h), Exit(-1)>>
<1>1. h \in Nat /\ r \in Nat
  <2>1. \A i \in 1..4 : i \in {1, 2, 3, 4}
    OBVIOUS
  <2>2. QED
    BY <2>1 DEF Sem2Alloc, Sem2Request
<1>2. first \in Seq(Plain) /\ u \in Seq(Plain) /\ last \in Seq(Plain)
  BY <1>1, PlainFacts
<1>f. first \in Seq(Plain) /\ Len(first) \in Nat
  BY <1>2
<1>u. u \in Seq(Plain) /\ Len(u) = 1
  BY <1>2
<1>l. last \in Seq(Plain) /\ Len(last) = 4 /\ last[4] = Exit(-1)
  BY <1>2
<1>3. op \in Seq(Plain \cup Tries)
  BY <1>1, PlainFacts
<1>4. <<TryDown(r, 4), Up(r)>> = op \o u
  OBVIOUS
<1>5. deadlock_test2(t) = (first \o (IF r = 0 THEN <<>> ELSE op \o u)) \o last
  BY <1>4 DEF deadlock_test2
<1> HIDE DEF h, r, first, op, u, last
<1>6. CASE r = 0
  <2>1. first \o <<>> = first
    BY <1>2
  <2>2. ExitsLast(last)
    BY <1>l DEF ExitsLast, Exit
  <2>3. ExitsLast(first \o last)
    BY <1>2, <2>2, ExitsJoin
  <2> DEFINE text == first \o last
             n == Len(text)
  <2>4. text \in Seq(Plain) /\ n \in Nat \ {0} /\ Len(text) = n /\ text[n][1] = "exit"
    BY <2>3 DEF ExitsLast
  <2> HIDE DEF text, n
  <2>5. TeamText(text)
    BY <2>4, PlainText
  <2>6. QED
    BY <1>5, <1>6, <2>1, <2>5 DEF text
<1>7. CASE r # 0
  <2> DEFINE body == u \o last
  <2>1. ExitsLast(last)
    BY <1>l DEF ExitsLast, Exit
  <2>2. ExitsLast(body) /\ Len(body) = Len(u) + Len(last)
    BY <1>2, <2>1, ExitsJoin
  <2>3. 4 \in 1..Len(body)
    BY <1>u, <1>l, <2>2
  <2>4. first \in Seq(Plain \cup Tries) /\ u \in Seq(Plain \cup Tries) /\ last \in Seq(Plain \cup Tries)
    BY <1>2
  <2>5. (first \o (op \o u)) \o last = first \o (op \o body)
    <3> DEFINE S == Plain \cup Tries
    <3>1. first \in Seq(S) /\ op \in Seq(S) /\ u \in Seq(S) /\ last \in Seq(S)
      BY <1>3, <2>4
    <3> HIDE DEF S, body
    <3>2. Regrouped(first, op, u, last)
      BY <3>1, Regroup
    <3>3. QED
      BY <3>2 DEF body, Regrouped
  <2> HIDE DEF body
  <2>6. ExitsLast(body) /\ 4 \in 1..Len(body)
    BY <2>2, <2>3
  <2>7. TeamText(first \o (op \o body))
    BY <1>1, <1>2, <2>6, RefusedText DEF op
  <2>8. QED
    BY <1>5, <1>7, <2>5, <2>7
<1>8. QED
  BY <1>6, <1>7

LEMMA DeadlockMainText ==
    ASSUME NEW n \in 1..8, NEW resources \in Seq(Plain), NEW last, ExitsLast(last)
    PROVE  MainText(deadlock_main(n, resources) \o last, 1..n)
<1> DEFINE O == Plain \cup Starts
           c == <<Create(n)>>
           s == (c \o Times(n, <<Down(0)>>)) \o resources
           x == s \o StartAll(n)
           w == <<Outlast(1..n)>>
           u == Times(n, <<Up(0)>>)
           j == JoinAll(n)
<1>1. deadlock_main(n, resources) \o last = (((x \o w) \o u) \o j) \o last
  BY DEF deadlock_main
<1>2. last \in Seq(Plain) /\ Len(last) \in Nat /\ Len(last) > 0 /\ last[Len(last)][1] = "exit"
  BY DEF ExitsLast
<1>3. s \in Seq(Plain)
  <2> DEFINE d == Times(n, <<Down(0)>>)
  <2>1. c \in Seq(Plain)
    BY PlainFacts
  <2>2. d \in Seq(Plain)
    <3> DEFINE row == <<Down(0)>>
    <3>1. row \in Seq(Plain) /\ n \in Nat
      BY PlainFacts
    <3> HIDE DEF row
    <3>2. Times(n, row) \in Seq(Plain)
      BY <3>1, TimesTyped
    <3>3. QED
      BY <3>2 DEF row
  <2> HIDE DEF c, d
  <2>3. c \o d \in Seq(Plain)
    BY <2>1, <2>2, ConcatAt
  <2>4. (c \o d) \o resources \in Seq(Plain)
    BY <2>3, ConcatAt
  <2>5. QED
    BY <2>4 DEF d
<1>4. StartAll(n) \in Seq(O)
  <2>1. \A k \in 1..n : Start(k) \in O
    BY PlainFacts
  <2>2. QED
    BY <2>1 DEF StartAll
<1>5. w \in Seq(Plain)
  BY PlainFacts DEF Thread
<1>6. u \in Seq(Plain)
  <2> DEFINE row == <<Up(0)>>
  <2>1. row \in Seq(Plain) /\ n \in Nat
    BY PlainFacts
  <2> HIDE DEF row
  <2>2. Times(n, row) \in Seq(Plain)
    BY <2>1, TimesTyped
  <2>3. QED
    BY <2>2 DEF row
<1>7. j \in Seq(Plain)
  <2>1. \A k \in 1..n : Join(k) \in Plain
    BY PlainFacts DEF Thread
  <2>2. QED
    BY <2>1 DEF JoinAll
<1> HIDE DEF s, w, u, j
<1>8. x \in Seq(O)
  <2>1. s \in Seq(O)
    BY <1>3
  <2>2. QED
    BY <1>4, <2>1, ConcatAt
<1> DEFINE y == w \o u
           z == y \o j
           rest == z \o last
<1>9. y \in Seq(Plain)
  BY <1>5, <1>6, ConcatAt
<1> HIDE DEF y
<1>10. z \in Seq(Plain)
  BY <1>7, <1>9, ConcatAt
<1> HIDE DEF z, x
<1>11. (((x \o w) \o u) \o j) \o last = x \o rest
  <2>1. /\ w \in Seq(O) /\ u \in Seq(O) /\ j \in Seq(O) /\ last \in Seq(O)
        /\ y \in Seq(O) /\ z \in Seq(O)
    BY <1>2, <1>5, <1>6, <1>7, <1>9, <1>10
  <2> HIDE DEF O
  <2>2. (x \o w) \o u = x \o y
    <3>1. Associates(x, w, u)
      BY <1>8, <2>1, Associate, Zenon
    <3>2. QED
      BY <3>1 DEF Associates, y
  <2>3. (x \o y) \o j = x \o z
    <3>1. Associates(x, y, j)
      BY <1>8, <2>1, Associate, Zenon
    <3>2. QED
      BY <3>1 DEF Associates, z
  <2>4. (x \o z) \o last = x \o (z \o last)
    <3>1. Associates(x, z, last)
      BY <1>8, <2>1, Associate, Zenon
    <3>2. QED
      BY <3>1 DEF Associates
  <2>5. QED
    BY <2>2, <2>3, <2>4
<1>12. ExitsLast(rest)
  BY <1>10, ExitsJoin
<1> HIDE DEF rest
<1>13. StartSpread((s \o StartAll(n)) \o rest, s, n, rest)
  BY <1>3, <1>12, StartAllText
<1>14. QED
  BY <1>1, <1>11, <1>13 DEF StartSpread, x

LEMMA SemTestTexts ==
    /\ MainText(deadlock_sem1[0], 1..8) /\ MainText(deadlock_sem2[0], 1..8)
    /\ \A t \in 1..8 : TeamText(deadlock_sem1[t]) /\ TeamText(deadlock_sem2[t])
<1> DEFINE failed_ == <<Check("some_failed", 0), Exit(0)>>
           fine == <<Check("none_failed", 0), Exit(0)>>
           res1 == <<Create(1), Create(2), Create(1)>>
           res2 == <<Create(2), Create(2)>>
           one == <<Exit(1)>>
<1>1. ExitsLast(failed_) /\ ExitsLast(fine)
  BY PlainFacts DEF ExitsLast, Exit
<1>2. res1 \in Seq(Plain) /\ res2 \in Seq(Plain)
  BY PlainFacts
<1>3. /\ deadlock_sem1[0] = deadlock_main(3, res1) \o failed_
      /\ deadlock_sem2[0] = deadlock_main(4, res2) \o fine
  BY DEF deadlock_sem1, deadlock_sem2, Thread
<1>4. one \in Seq(Plain) /\ Len(one) = 1 /\ one[1][1] = "exit" /\ 1 \in Nat \ {0}
  BY PlainFacts DEF Exit
<1> HIDE DEF failed_, fine, res1, res2, one
<1>5. MainText(deadlock_sem1[0], 1..3) /\ MainText(deadlock_sem2[0], 1..4)
  <2>1. 3 \in 1..8 /\ 4 \in 1..8
    OBVIOUS
  <2>2. /\ MainText(deadlock_main(3, res1) \o failed_, 1..3)
        /\ MainText(deadlock_main(4, res2) \o fine, 1..4)
    BY <1>1, <1>2, <2>1, DeadlockMainText
  <2>3. QED
    BY <1>3, <2>2
<1>6. TeamText(one)
  BY <1>4, PlainText
<1>7. ASSUME NEW t \in 1..8 PROVE TeamText(deadlock_sem1[t]) /\ TeamText(deadlock_sem2[t])
  <2>1. t \in Thread /\ t # 0
    BY DEF Thread
  <2>2. /\ deadlock_sem1[t] = IF t \in 1..3 THEN deadlock_test1(t) ELSE one
        /\ deadlock_sem2[t] = IF t \in 1..4 THEN deadlock_test2(t) ELSE one
    BY <2>1 DEF deadlock_sem1, deadlock_sem2, one
  <2>3. QED
    BY <1>6, <2>2, Sem1ThreadText, Sem2ThreadText
<1>8. 3 \in 1..8 /\ 4 \in 1..8
  OBVIOUS
<1>9. MainText(deadlock_sem1[0], 1..8) /\ MainText(deadlock_sem2[0], 1..8)
  BY <1>5, <1>8, LargerTeam, Zenon
<1>10. QED
  BY <1>7, <1>9

(* Whatever its loops are unrolled to, each program with threads is made   *)
(* of its instructions, ends with an exit, and starts no thread twice.     *)
LEMMA ThreadTexts ==
    \A x \in ThreadTests : /\ MainText(ThreadTest[x][0], Team(x))
                           /\ \A t \in Team(x) : TeamText(ThreadTest[x][t])
<1>1. /\ ThreadTest.phil_din_mutex = phil_din_mutex /\ ThreadTest.sync_sem = sync_sem
      /\ ThreadTest.test_condvar = test_condvar /\ ThreadTest.mpsc_sem = mpsc_sem
      /\ ThreadTest.race_adder = race_adder /\ ThreadTest.threads = threads
      /\ ThreadTest.threads_arg = threads_arg
      /\ ThreadTest.deadlock_mutex1 = deadlock_mutex1
      /\ ThreadTest.deadlock_sem1 = deadlock_sem1
      /\ ThreadTest.deadlock_sem2 = deadlock_sem2
  BY DEF ThreadTest
<1>2. ThreadTests = {"phil_din_mutex", "sync_sem", "test_condvar", "mpsc_sem", "race_adder",
                     "threads", "threads_arg", "deadlock_mutex1", "deadlock_sem1",
                     "deadlock_sem2"}
  BY DEF ThreadTests, ThreadTest
<1>3. MainText(mpsc_sem[0], 1..8)
  <2>1. MainText(mpsc_sem[0], 1..PRODUCER_COUNT + 1)
    BY RingTexts DEF MainSpread
  <2>2. 1..PRODUCER_COUNT + 1 \subseteq 1..8
    BY ThreadCounts
  <2>3. QED
    BY <2>1, <2>2 DEF MainText
<1>4. QED
  BY <1>1, <1>2, <1>3, ForksMainText, PhilosopherTexts, PairTexts, RingTexts, RaceTexts,
     ThreadsTexts, MutexTestText, SemTestTexts DEF Team

-----------------------------------------------------------------------------
(*                      Where the threads are                              *)

TextOf(t) == ThreadTest[test][t]

(* Every thread is inside its text, and was started by main.               *)
ThreadsPlaced ==
    /\ test \in ThreadTests /\ at \in [Thread -> Nat]
    /\ at[0] \in 1..Len(TextOf(0))
    /\ \A k \in 1..8 : at[k] > 0 =>
          /\ k \in Team(test) /\ at[k] <= Len(TextOf(k))
          /\ \E j \in 1 .. at[0] - 1 : TextOf(0)[j] = Start(k)

(* At an exit, at an assertion that fails or a refusal that is one.        *)
EndsThread(op) == op[1] \in {"exit", "assert"} \/ (op[1] = "down" /\ op[3] = 0)

(* Who waits for a unit is at a down, who waits for a signal has a wait in *)
(* its text, and who has exited is where a thread can exit.                *)
WaitersPlaced ==
    /\ exited \cup blocked \cup asleep \subseteq Thread /\ exited \cap blocked = {}
    /\ \A u \in exited : at[u] > 0 /\ EndsThread(Instruction(u))
    /\ \A u \in blocked : at[u] > 0 /\ Instruction(u)[1] = "down"
    /\ \A u \in asleep : at[u] > 0 /\ \E i \in 1..Len(TextOf(u)) : TextOf(u)[i][1] = "wait"

(* The rest of ThreadTypeOK.                                               *)
StateTyped ==
    /\ exit_code \in [Thread -> -1..3] /\ units \in Seq(Nat)
    /\ A \in Nat /\ cur \in [Thread -> Nat]
    /\ DOMAIN BUFFER = 0 .. BUFFER_SIZE - 1 /\ BUFFER = [i \in DOMAIN BUFFER |-> BUFFER[i]]
    /\ FRONT \in DOMAIN BUFFER /\ TAIL \in DOMAIN BUFFER

LEMMA OpShape ==
    ASSUME NEW op \in TeamOps \cup MainOps
    PROVE  /\ op[1] = "exit" => op[2] \in -1..3
           /\ op[1] = "thread" => op \in Starts
           /\ op[1] \in {"create", "down", "up"} => op[2] \in Nat
           /\ op[1] = "down" => op[3] \in Nat /\ 1 \in Offsets(op)
                                /\ (op[3] # 0 => op[3] \in Offsets(op))
           /\ op[1] = "test" => Offsets(op) = {1, 2}
           /\ op[1] \in {"assert", "thread", "join", "sleep", "create", "up"} \cup Accesses
                => Offsets(op) = {1}
<1>1. /\ op[1] = "test" => Offsets(op) = {1, 2}
      /\ op[1] \in {"assert", "thread", "join", "sleep", "create", "up"} \cup Accesses
           => Offsets(op) = {1}
  BY DEF Offsets, Accesses
<1>2. op[1] = "down" => Offsets(op) = {1, IF op[3] = 0 THEN 1 ELSE op[3]}
  BY DEF Offsets
<1>3. /\ op[1] = "exit" => op[2] \in -1..3
      /\ op[1] = "thread" => op \in Starts
      /\ op[1] \in {"create", "down", "up"} => op[2] \in Nat
      /\ op[1] = "down" => op[3] \in Nat
  <2>1. CASE op \in Sleeps
    BY <2>1 DEF Sleeps
  <2>2. CASE op \in Plain \ Sleeps
    BY <2>2 DEF Plain, Accesses
  <2>3. CASE op \in Tries
    BY <2>3 DEF Tries
  <2>4. CASE op \in Starts
    BY <2>4 DEF Starts
  <2>5. CASE op \in {<<"test">>, <<"wait">>}
    BY <2>5
  <2>6. QED
    BY <2>1, <2>2, <2>3, <2>4, <2>5 DEF TeamOps, MainOps
<1>4. QED
  BY <1>1, <1>2, <1>3

LEMMA TextFacts ==
    ASSUME test \in ThreadTests, NEW t \in Thread, t # 0 => t \in Team(test)
    PROVE  /\ IF t = 0 THEN MainText(TextOf(0), Team(test)) ELSE TeamText(TextOf(t))
           /\ TextOf(t) \in Wholes(TeamOps \cup MainOps)
<1>1. IF t = 0 THEN MainText(TextOf(0), Team(test)) ELSE TeamText(TextOf(t))
  BY ThreadTexts DEF TextOf
<1>2. TextOf(t) \in Wholes(TeamOps) \cup Wholes(MainOps)
  BY <1>1 DEF MainText, TeamText
<1>3. QED
  BY <1>1, <1>2 DEF Wholes, Blocks

LEMMA CurrentOp ==
    ASSUME ThreadsPlaced, NEW t \in Thread, at[t] > 0
    PROVE  /\ at[t] \in 1..Len(TextOf(t)) /\ Len(TextOf(t)) \in Nat
           /\ Instruction(t) = TextOf(t)[at[t]] /\ Instruction(t) \in TeamOps \cup MainOps
           /\ \A o \in Offsets(Instruction(t)) : o \in Int /\ at[t] + o \in 1..Len(TextOf(t))
           /\ Instruction(t)[1] = "wait" => t # 0 /\ at[t] >= 3
           /\ Instruction(t)[1] = "thread" => t = 0
<1>1. t = 0 \/ t \in 1..8
  BY DEF Thread
<1>2. t = 0 \/ (t \in Team(test) /\ at[t] <= Len(TextOf(t)))
  <2>1. CASE t \in 1..8
    BY <2>1, Zenon DEF ThreadsPlaced
  <2>2. QED
    BY <1>1, <2>1
<1>3. test \in ThreadTests
  BY DEF ThreadsPlaced
<1>4. /\ IF t = 0 THEN MainText(TextOf(0), Team(test)) ELSE TeamText(TextOf(t))
      /\ TextOf(t) \in Wholes(TeamOps \cup MainOps)
  BY <1>2, <1>3, TextFacts
<1>5. /\ TextOf(t) \in Seq(TeamOps \cup MainOps)
      /\ \A k \in 1..Len(TextOf(t)) : \A o \in Offsets(TextOf(t)[k]) :
             o \in Int /\ k + o \in 1..Len(TextOf(t))
  BY <1>4 DEF Wholes, Blocks
<1>6. at[t] \in 1..Len(TextOf(t)) /\ Len(TextOf(t)) \in Nat
  <2>1. Len(TextOf(t)) \in Nat
    BY <1>5
  <2>2. at[t] \in Nat
    BY DEF ThreadsPlaced
  <2>3. t = 0 => at[t] \in 1..Len(TextOf(t))
    BY DEF ThreadsPlaced
  <2>4. QED
    BY <1>2, <2>1, <2>2, <2>3
<1>7. Instruction(t) = TextOf(t)[at[t]]
  BY DEF Instruction, TextOf
<1>8. Instruction(t)[1] = "wait" => t # 0 /\ at[t] >= 3
  <2>1. CASE t = 0
    <3>1. TextOf(0) \in Seq(MainOps)
      BY <1>4, <2>1 DEF MainText, Wholes, Blocks
    <3>2. Instruction(t) \in MainOps
      BY <1>6, <1>7, <2>1, <3>1
    <3>3. Instruction(t)[1] # "wait"
      <4>1. Instruction(t) \in Starts => Instruction(t)[1] = "thread"
        BY DEF Starts
      <4>2. QED
        BY <3>2, <4>1, PlainShape DEF MainOps
    <3>4. QED
      BY <3>3
  <2>2. CASE t # 0
    BY <1>6, <1>4, <1>7, <2>2 DEF TeamText
  <2>3. QED
    BY <2>1, <2>2
<1>9. Instruction(t)[1] = "thread" => t = 0
  <2>1. CASE t # 0
    <3>1. TextOf(t) \in Seq(TeamOps)
      BY <1>4, <2>1 DEF TeamText, Wholes, Blocks
    <3>2. Instruction(t) \in TeamOps
      BY <1>6, <1>7, <3>1
    <3>3. Instruction(t)[1] # "thread"
      BY <3>2, PlainShape DEF TeamOps
    <3>4. QED
      BY <3>3
  <2>2. QED
    BY <2>1
<1>10. Instruction(t) \in TeamOps \cup MainOps
  BY <1>6, <1>5, <1>7
<1>11. \A o \in Offsets(Instruction(t)) : o \in Int /\ at[t] + o \in 1..Len(TextOf(t))
  BY <1>6, <1>5, <1>7
<1>12. QED
  BY <1>6, <1>7, <1>8, <1>9, <1>10, <1>11

LEMMA SameInstruction ==
    ASSUME test' = test, NEW u, at'[u] = at[u]
    PROVE  Instruction(u)' = Instruction(u) /\ TextOf(u)' = TextOf(u)
BY DEF Instruction, TextOf

-----------------------------------------------------------------------------
(*                     How a step moves the threads                        *)

Goes(t) ==
    /\ \E n \in Offsets(Instruction(t)) : Advance(t, n)
    /\ UNCHANGED <<exited, exit_code, blocked>> /\ asleep' \subseteq asleep

Ends(t) ==
    /\ EndsThread(Instruction(t))
    /\ \E c \in -1..3 : ThreadExits(t, c)
    /\ UNCHANGED <<blocked, asleep>>

Stops(t) ==
    /\ Instruction(t)[1] = "down" /\ blocked' = blocked \cup {t}
    /\ UNCHANGED <<at, exited, exit_code, asleep>>

(* t goes on by n, and u, which it hands a unit to, to its next one.       *)
Hands(t, n, u) == blocked' = blocked \ {u} /\ at' = [at EXCEPT ![t] = @ + n, ![u] = @ + 1]

Gives(t) ==
    /\ \/ \E n \in Offsets(Instruction(t)) :
             /\ \/ Advance(t, n) /\ UNCHANGED blocked
                \/ \E u \in blocked : Hands(t, n, u)
             /\ UNCHANGED asleep
       \/ /\ Instruction(t)[1] = "wait"
          /\ \/ Advance(t, -2) /\ UNCHANGED blocked
             \/ \E u \in blocked : Hands(t, -2, u)
          /\ asleep' = asleep \cup {t}
    /\ UNCHANGED <<exited, exit_code>>

StartsOne(t) ==
    /\ Instruction(t)[1] = "thread"
    /\ at' = [at EXCEPT ![t] = @ + 1, ![Instruction(t)[2]] = 1]
    /\ UNCHANGED <<exited, exit_code, blocked, asleep>>

LEMMA StepKinds ==
    ASSUME ThreadsPlaced, NEW t \in Thread, ThreadStep(t)
    PROVE  /\ at[t] > 0 /\ t \notin exited \cup blocked \cup asleep /\ test' = test
           /\ Goes(t) \/ Ends(t) \/ Stops(t) \/ Gives(t) \/ StartsOne(t)
<1>1. at[t] > 0 /\ t \notin exited \cup blocked \cup asleep /\ test' = test
  BY DEF ThreadStep, thread_exit, thread_assert, thread_create, waittid, sleep, create, down, up,
         condvar_wait, condvar_signal, eat, work, test_A, read_A, write_A, store, front, print, tail,
         Access, Performs
<1> SUFFICES Goes(t) \/ Ends(t) \/ Stops(t) \/ Gives(t) \/ StartsOne(t)
  BY <1>1
<1> DEFINE op == Instruction(t)
<1>2. op \in TeamOps \cup MainOps
  BY <1>1, CurrentOp
<1> HIDE DEF op
<1>3. ASSUME NEW n, n \in Offsets(op), Advance(t, n), UNCHANGED <<exited, exit_code, blocked>>,
             asleep' \subseteq asleep
      PROVE  Goes(t)
  BY <1>3, Zenon DEF Goes, op
<1>4. CASE thread_exit(t)
  <2>1. op[2] \in -1..3 /\ op[1] = "exit"
    BY <1>2, <1>4, OpShape DEF thread_exit, Performs, op
  <2>2. ThreadExits(t, op[2]) /\ UNCHANGED <<blocked, asleep>>
    BY <1>4 DEF thread_exit, Locks, op
  <2>3. QED
    BY <2>1, <2>2 DEF Ends, EndsThread, op
<1>5. CASE thread_assert(t)
  <2> DEFINE ok == ThreadClaim(Instruction(t)[2])
  <2>1. op[1] = "assert" /\ UNCHANGED <<blocked, asleep>> /\ AdvanceOrPanic(t, ok, 1)
    BY <1>5 DEF thread_assert, Performs, Locks, op
  <2>2. 1 \in Offsets(op)
    BY <1>2, <2>1, OpShape
  <2> HIDE DEF ok
  <2>3. CASE ok
    BY <1>3, <2>1, <2>2, <2>3 DEF AdvanceOrPanic
  <2>4. CASE ~ok
    <3>1. ThreadExits(t, 1) /\ 1 \in -1..3
      BY <2>1, <2>4 DEF AdvanceOrPanic
    <3>2. QED
      BY <2>1, <3>1, Zenon DEF Ends, EndsThread, op
  <2>5. QED
    BY <2>3, <2>4
<1>6. CASE thread_create(t)
  BY <1>6 DEF thread_create, Performs, Locks, StartsOne
<1>7. CASE down(t)
  <2>1. op[1] = "down" /\ UNCHANGED asleep
    BY <1>7 DEF down, Performs, op
  <2>2. op[3] \in Nat /\ 1 \in Offsets(op) /\ (op[3] # 0 => op[3] \in Offsets(op))
    BY <1>2, <2>1, OpShape
  <2>3. CASE Advance(t, 1) /\ UNCHANGED <<exited, exit_code, blocked>>
    BY <1>3, <2>1, <2>2, <2>3
  <2>4. CASE blocked' = blocked \cup {t} /\ UNCHANGED <<at, exited, exit_code>>
    BY <2>1, <2>4 DEF Stops, op
  <2>5. CASE AdvanceOrPanic(t, op[3] # 0, op[3]) /\ UNCHANGED blocked
    <3>1. CASE op[3] # 0
      BY <1>3, <2>1, <2>2, <2>5, <3>1 DEF AdvanceOrPanic
    <3>2. CASE op[3] = 0
      <4>1. ThreadExits(t, 1) /\ 1 \in -1..3
        BY <2>5, <3>2 DEF AdvanceOrPanic
      <4>2. QED
        BY <2>1, <2>5, <3>2, <4>1, Zenon DEF Ends, EndsThread, op
    <3>3. QED
      BY <3>1, <3>2
  <2>6. QED
    BY <1>7, <2>3, <2>4, <2>5 DEF down, Locks, op
<1>8. CASE up(t)
  <2>1. op[1] = "up" /\ UNCHANGED <<asleep, exited, exit_code>> /\ GiveBack(t, Instruction(t)[2], 1)
    BY <1>8 DEF up, Performs, op
  <2>2. 1 \in Offsets(op)
    BY <1>2, <2>1, OpShape
  <2>3. \/ Advance(t, 1) /\ UNCHANGED blocked
        \/ \E u \in blocked : Hands(t, 1, u)
    BY <2>1 DEF GiveBack, Hands
  <2>4. QED
    BY <2>1, <2>2, <2>3 DEF Gives, op
<1>9. CASE condvar_wait(t)
  <2>1. /\ op[1] = "wait" /\ UNCHANGED <<exited, exit_code>> /\ asleep' = asleep \cup {t}
        /\ GiveBack(t, 0, -2)
    BY <1>9 DEF condvar_wait, Performs, op
  <2>2. \/ Advance(t, -2) /\ UNCHANGED blocked
        \/ \E u \in blocked : Hands(t, -2, u)
    BY <2>1 DEF GiveBack, Hands
  <2>3. QED
    BY <2>1, <2>2 DEF Gives, op
<1>10. CASE condvar_signal(t)
  <2>1. op[1] = "signal" /\ UNCHANGED <<exited, exit_code, blocked>> /\ Advance(t, 1)
    BY <1>10 DEF condvar_signal, Performs, Locks, op
  <2>2. asleep' \subseteq asleep
    BY <1>10 DEF condvar_signal
  <2>3. 1 \in Offsets(op)
    BY <1>2, <2>1, OpShape DEF Accesses
  <2>4. QED
    BY <1>3, <2>1, <2>2, <2>3
<1>11. CASE test_A(t)
  <2> DEFINE n == IF A = 0 THEN 1 ELSE 2
  <2>1. op[1] = "test" /\ UNCHANGED <<exited, exit_code, blocked, asleep>> /\ Advance(t, n)
    BY <1>11 DEF test_A, Access, Performs, Locks, op
  <2>2. n \in Offsets(op)
    BY <1>2, <2>1, OpShape
  <2> HIDE DEF n
  <2>3. QED
    BY <1>3, <2>1, <2>2
<1>12. CASE waittid(t) \/ sleep(t) \/ create(t)
  <2>1. op[1] \in {"join", "sleep", "create"} /\ Advance(t, 1)
    BY <1>12 DEF waittid, sleep, create, Performs, op
  <2>2. UNCHANGED <<exited, exit_code, blocked, asleep>>
    BY <1>12 DEF waittid, sleep, create, Locks
  <2>3. 1 \in Offsets(op)
    BY <1>2, <2>1, OpShape
  <2>4. QED
    BY <1>3, <2>1, <2>2, <2>3
<1>13. CASE \/ eat(t) \/ work(t) \/ read_A(t) \/ write_A(t)
            \/ store(t) \/ front(t) \/ print(t) \/ tail(t)
  <2>1. op[1] \in {"eat", "work", "read", "write", "store", "front", "print", "tail"}
        /\ Advance(t, 1)
    BY <1>13 DEF eat, work, read_A, write_A, store, front, print, tail, Access, Performs, op
  <2>2. UNCHANGED <<exited, exit_code, blocked, asleep>>
    BY <1>13 DEF eat, work, read_A, write_A, store, front, print, tail, Access, Locks
  <2>3. 1 \in Offsets(op)
    BY <1>2, <2>1, OpShape DEF Accesses
  <2>4. QED
    BY <1>3, <2>1, <2>2, <2>3
<1>14. QED
  BY <1>1, <1>4, <1>5, <1>6, <1>7, <1>8, <1>9, <1>10, <1>11, <1>12, <1>13 DEF ThreadStep

(* A thread that steps is started, and neither over nor waiting.           *)
LEMMA Acting ==
    ASSUME ThreadsPlaced, NEW t \in 1..8, ThreadStep(t)
    PROVE  at[t] > 0 /\ t \in Thread /\ t \notin exited \cup blocked \cup asleep
<1>1. t \in Thread
  BY DEF Thread
<1>2. QED
  BY <1>1, StepKinds

-----------------------------------------------------------------------------
(*              Every thread stays where it can be                         *)

LEMMA Arrive ==
    ASSUME ThreadsPlaced, test' = test, at' \in [Thread -> Nat],
           at'[0] >= at[0], at'[0] <= Len(TextOf(0)),
           \A k \in 1..8 : at'[k] > 0 => at[k] > 0 /\ at'[k] <= Len(TextOf(k))
    PROVE  ThreadsPlaced'
<1>1. \A t : TextOf(t)' = TextOf(t)
  BY DEF TextOf
<1>2. at[0] \in 1..Len(TextOf(0)) /\ at'[0] \in Nat /\ Len(TextOf(0)) \in Nat
  <2>1. 0 \in Thread
    BY DEF Thread
  <2>2. at[0] \in 1..Len(TextOf(0)) /\ at[0] \in Nat /\ at'[0] \in Nat
    BY <2>1 DEF ThreadsPlaced
  <2>3. at[0] > 0
    BY <2>2
  <2>4. QED
    BY <2>1, <2>2, <2>3, CurrentOp
<1>3. at'[0] \in 1..Len(TextOf(0))
  BY <1>2
<1>4. ASSUME NEW k \in 1..8, at'[k] > 0
      PROVE  /\ k \in Team(test) /\ at'[k] <= Len(TextOf(k))
             /\ \E j \in 1 .. at'[0] - 1 : TextOf(0)[j] = Start(k)
  <2>1. at[k] > 0 /\ at'[k] <= Len(TextOf(k))
    BY <1>4
  <2>2. PICK j \in 1 .. at[0] - 1 : TextOf(0)[j] = Start(k)
    BY <2>1 DEF ThreadsPlaced
  <2>3. j \in 1 .. at'[0] - 1
    BY <1>2
  <2>4. k \in Team(test)
    BY <2>1, Zenon DEF ThreadsPlaced
  <2>5. QED
    BY <2>1, <2>2, <2>3, <2>4
<1>5. test \in ThreadTests
  BY DEF ThreadsPlaced
<1>6. QED
  BY <1>1, <1>3, <1>4, <1>5 DEF ThreadsPlaced

(* Main never goes back: it has no wait, and its tries lead onwards.       *)
LEMMA OffsetsOnward ==
    ASSUME NEW op \in TeamOps \cup MainOps
    PROVE  \A o \in Offsets(op) : o >= 1 \/ o \notin Int
<1>1. op[1] \notin {"fork", "getline", "while_child"}
  BY DEF TeamOps, MainOps, Plain, Tries, Starts, Accesses, Sleeps
<1>2. op[1] = "down" => op[3] \in Nat
  BY OpShape
<1>3. QED
  BY <1>1, <1>2 DEF Offsets

LEMMA AdvanceFacts ==
    ASSUME ThreadsPlaced, NEW t \in Thread, at[t] > 0, NEW n,
           n \in Offsets(Instruction(t)) \/ (n = -2 /\ Instruction(t)[1] = "wait")
    PROVE  /\ n \in Int /\ at[t] + n \in 1..Len(TextOf(t)) /\ at[t] + n \in Nat
           /\ t = 0 => n >= 1
<1>1. CASE n \in Offsets(Instruction(t))
  <2>1. n \in Int /\ at[t] + n \in 1..Len(TextOf(t)) /\ at[t] + n \in Nat
    BY <1>1, CurrentOp
  <2>2. n >= 1
    BY <1>1, <2>1, CurrentOp, OffsetsOnward
  <2>3. QED
    BY <2>1, <2>2
<1>2. CASE n = -2 /\ Instruction(t)[1] = "wait"
  <2>1. t # 0 /\ at[t] >= 3 /\ at[t] \in 1..Len(TextOf(t)) /\ Len(TextOf(t)) \in Nat
    BY <1>2, CurrentOp
  <2>2. QED
    BY <1>2, <2>1
<1>3. QED
  BY <1>1, <1>2

LEMMA AdvancePlaced ==
    ASSUME ThreadsPlaced, test' = test, NEW t \in Thread, at[t] > 0, NEW n,
           n \in Offsets(Instruction(t)) \/ (n = -2 /\ Instruction(t)[1] = "wait"),
           Advance(t, n)
    PROVE  ThreadsPlaced'
<1>1. /\ n \in Int /\ at[t] + n \in 1..Len(TextOf(t)) /\ at[t] + n \in Nat
      /\ t = 0 => n >= 1
  BY AdvanceFacts
<1>2. at \in [Thread -> Nat] /\ at' = [at EXCEPT ![t] = @ + n]
  BY DEF ThreadsPlaced, Advance
<1>3. at' \in [Thread -> Nat]
  BY <1>1, <1>2
<1>4. \A u \in Thread : at'[u] = IF u = t THEN at[t] + n ELSE at[u]
  BY <1>2
<1>5. at'[0] >= at[0] /\ at'[0] <= Len(TextOf(0))
  <2>1. 0 \in Thread /\ at[0] \in Nat
    BY <1>2 DEF Thread
  <2>2. at[0] \in 1..Len(TextOf(0))
    BY DEF ThreadsPlaced
  <2>3. QED
    BY <1>1, <1>4, <2>1, <2>2
<1>6. ASSUME NEW k \in 1..8, at'[k] > 0 PROVE at[k] > 0 /\ at'[k] <= Len(TextOf(k))
  <2>1. k \in Thread
    BY DEF Thread
  <2>2. CASE k = t
    BY <1>1, <1>4, <2>1, <2>2
  <2>3. CASE k # t
    <3>1. at'[k] = at[k]
      BY <1>4, <2>1, <2>3
    <3>2. at[k] > 0 => at[k] <= Len(TextOf(k))
      BY Zenon DEF ThreadsPlaced
    <3>3. QED
      BY <1>6, <3>1, <3>2
  <2>4. QED
    BY <2>2, <2>3
<1>7. QED
  BY <1>3, <1>5, <1>6, Arrive

LEMMA HandsPlaced ==
    ASSUME ThreadsPlaced, WaitersPlaced, test' = test, NEW t \in Thread, at[t] > 0,
           t \notin blocked, NEW n,
           n \in Offsets(Instruction(t)) \/ (n = -2 /\ Instruction(t)[1] = "wait"),
           NEW u \in blocked, Hands(t, n, u)
    PROVE  /\ ThreadsPlaced' /\ u # t /\ u \in Thread
           /\ \A s \in Thread : at'[s] = IF s = t THEN at[t] + n
                                         ELSE IF s = u THEN at[u] + 1 ELSE at[s]
<1>1. /\ n \in Int /\ at[t] + n \in 1..Len(TextOf(t)) /\ at[t] + n \in Nat
      /\ t = 0 => n >= 1
  BY AdvanceFacts
<1>2. u \in Thread /\ u # t /\ at[u] > 0 /\ Instruction(u)[1] = "down"
  BY DEF WaitersPlaced
<1>3. 1 \in Offsets(Instruction(u))
  BY <1>2, CurrentOp, OpShape
<1>4. at[u] + 1 \in 1..Len(TextOf(u)) /\ at[u] + 1 \in Nat
  BY <1>2, <1>3, AdvanceFacts
<1>5. at \in [Thread -> Nat] /\ at' = [at EXCEPT ![t] = @ + n, ![u] = @ + 1]
  BY DEF ThreadsPlaced, Hands
<1>6. at' \in [Thread -> Nat]
  BY <1>1, <1>2, <1>4, <1>5
<1>7. \A s \in Thread : at'[s] = IF s = t THEN at[t] + n
                                 ELSE IF s = u THEN at[u] + 1 ELSE at[s]
  BY <1>2, <1>5
<1>8. at'[0] >= at[0] /\ at'[0] <= Len(TextOf(0))
  <2>1. 0 \in Thread /\ at[0] \in Nat
    BY <1>5 DEF Thread
  <2>2. at[0] \in 1..Len(TextOf(0))
    BY DEF ThreadsPlaced
  <2>3. QED
    BY <1>1, <1>4, <1>7, <2>1, <2>2
<1>9. ASSUME NEW k \in 1..8, at'[k] > 0 PROVE at[k] > 0 /\ at'[k] <= Len(TextOf(k))
  <2>1. k \in Thread
    BY DEF Thread
  <2>2. CASE k = t \/ k = u
    BY <1>1, <1>2, <1>4, <1>7, <2>1, <2>2
  <2>3. CASE k # t /\ k # u
    <3>1. at'[k] = at[k]
      BY <1>7, <2>1, <2>3
    <3>2. at[k] > 0 => at[k] <= Len(TextOf(k))
      BY Zenon DEF ThreadsPlaced
    <3>3. QED
      BY <1>9, <3>1, <3>2
  <2>4. QED
    BY <2>2, <2>3
<1>10. QED
  BY <1>2, <1>6, <1>7, <1>8, <1>9, Arrive

(* A thread that main is about to start is not there yet.                  *)
LEMMA StartFacts ==
    ASSUME ThreadsPlaced, NEW t \in Thread, at[t] > 0, Instruction(t)[1] = "thread",
           NEW k, Instruction(t)[2] = k
    PROVE  /\ t = 0 /\ k \in 1..8 /\ k \in Team(test) /\ at[k] = 0
           /\ Instruction(t) = Start(k) /\ 1 <= Len(TextOf(k))
<1>1. /\ t = 0 /\ at[0] \in 1..Len(TextOf(0)) /\ Instruction(0) = TextOf(0)[at[0]]
      /\ Instruction(0) \in TeamOps \cup MainOps
  BY CurrentOp
<1>2. Instruction(0) \in Starts
  BY <1>1, OpShape
<1>3. k \in 1..8 /\ Instruction(0) = Start(k)
  BY <1>1, <1>2 DEF Starts, Start
<1>4. test \in ThreadTests /\ 0 \in Thread
  BY DEF ThreadsPlaced, Thread
<1>5. MainText(TextOf(0), Team(test))
  BY <1>4, TextFacts
<1>6. k \in Team(test)
  BY <1>1, <1>3, <1>5 DEF MainText
<1>7. at[k] = 0
  <2>1. SUFFICES ASSUME at[k] > 0 PROVE FALSE
    <3>1. k \in Thread
      BY <1>3 DEF Thread
    <3>2. at[k] \in Nat
      BY <3>1 DEF ThreadsPlaced
    <3>3. QED
      BY <3>2
  <2>2. PICK j \in 1 .. at[0] - 1 : TextOf(0)[j] = Start(k)
    BY <1>3, <2>1 DEF ThreadsPlaced
  <2>3. j \in 1..Len(TextOf(0)) /\ j # at[0]
    BY <1>1
  <2>4. StartsOnce(TextOf(0))
    BY <1>5 DEF MainText
  <2>5. TextOf(0)[j][1] = "thread" /\ TextOf(0)[at[0]] = TextOf(0)[j]
    BY <1>1, <1>3, <2>2 DEF Start
  <2>6. QED
    BY <1>1, <2>3, <2>4, <2>5 DEF StartsOnce
<1>8. 1 <= Len(TextOf(k))
  <2>1. k \in Thread
    BY <1>3 DEF Thread
  <2>2. TextOf(k) \in Wholes(TeamOps \cup MainOps)
    BY <1>4, <1>6, <2>1, TextFacts
  <2>3. Len(TextOf(k)) \in Nat /\ Len(TextOf(k)) > 0
    BY <2>2 DEF Wholes, Blocks
  <2>4. QED
    BY <2>3
<1>9. QED
  BY <1>1, <1>3, <1>6, <1>7, <1>8

LEMMA StartPlaced ==
    ASSUME ThreadsPlaced, test' = test, NEW t \in Thread, at[t] > 0, StartsOne(t),
           NEW k, Instruction(t)[2] = k
    PROVE  /\ ThreadsPlaced'
           /\ \A s \in Thread : at'[s] = IF s = 0 THEN at[0] + 1 ELSE IF s = k THEN 1 ELSE at[s]
<1>1. /\ t = 0 /\ k \in 1..8 /\ k \in Team(test) /\ at[k] = 0
      /\ Instruction(t) = Start(k) /\ 1 <= Len(TextOf(k))
  BY StartFacts DEF StartsOne
<1>2. /\ Instruction(0) = TextOf(0)[at[0]] /\ Instruction(0) \in TeamOps \cup MainOps
      /\ at[0] \in 1..Len(TextOf(0)) /\ Len(TextOf(0)) \in Nat
  BY <1>1, CurrentOp
<1>3. Offsets(Instruction(0)) = {1}
  BY <1>1, <1>2, OpShape DEF Start
<1>4. at[0] + 1 \in 1..Len(TextOf(0)) /\ at[0] \in Nat
  BY <1>1, <1>2, <1>3, AdvanceFacts
<1>5. at \in [Thread -> Nat] /\ at' = [at EXCEPT ![0] = @ + 1, ![k] = 1]
  BY <1>1 DEF ThreadsPlaced, StartsOne
<1>6. 0 \in Thread /\ k \in Thread /\ k # 0
  BY <1>1 DEF Thread
<1>7. at' \in [Thread -> Nat]
  BY <1>4, <1>5, <1>6
<1>8. \A s \in Thread : at'[s] = IF s = 0 THEN at[0] + 1 ELSE IF s = k THEN 1 ELSE at[s]
  BY <1>5, <1>6
<1>9. \A s : TextOf(s)' = TextOf(s)
  BY DEF TextOf
<1>10. at'[0] = at[0] + 1
  BY <1>6, <1>8
<1>11. ASSUME NEW h \in 1..8, at'[h] > 0
       PROVE  /\ h \in Team(test) /\ at'[h] <= Len(TextOf(h))
              /\ \E j \in 1 .. at'[0] - 1 : TextOf(0)[j] = Start(h)
  <2>1. h \in Thread /\ h # 0
    BY DEF Thread
  <2>2. CASE h = k
    <3>1. at'[h] = 1
      BY <1>8, <2>1, <2>2
    <3>2. at[0] \in 1 .. at'[0] - 1 /\ TextOf(0)[at[0]] = Start(h)
      BY <1>1, <1>2, <1>10, <2>2
    <3>3. QED
      BY <1>1, <2>2, <3>1, <3>2
  <2>3. CASE h # k
    <3>1. at'[h] = at[h]
      BY <1>8, <2>1, <2>3
    <3>2. at[h] > 0
      BY <1>11, <3>1
    <3>3. /\ h \in Team(test) /\ at[h] <= Len(TextOf(h))
          /\ \E j \in 1 .. at[0] - 1 : TextOf(0)[j] = Start(h)
      BY <3>2, Zenon DEF ThreadsPlaced
    <3>4. PICK j \in 1 .. at[0] - 1 : TextOf(0)[j] = Start(h)
      BY <3>3
    <3>5. j \in 1 .. at'[0] - 1
      BY <1>4, <1>10
    <3>6. QED
      BY <3>1, <3>3, <3>4, <3>5
  <2>4. QED
    BY <2>2, <2>3
<1>12. at'[0] \in 1..Len(TextOf(0)) /\ test \in ThreadTests
  BY <1>4, <1>10 DEF ThreadsPlaced
<1>13. ThreadsPlaced'
  BY <1>7, <1>9, <1>11, <1>12 DEF ThreadsPlaced
<1>14. QED
  BY <1>8, <1>13

-----------------------------------------------------------------------------
(*              Who waits is where it can wait                             *)

LEMMA WaitersStay ==
    ASSUME test' = test,
           exited' \cup blocked' \cup asleep' \subseteq Thread, exited' \cap blocked' = {},
           \A u \in exited' : /\ at[u] > 0 /\ at'[u] = at[u]
                              /\ EndsThread(Instruction(u)),
           \A u \in blocked' : /\ at[u] > 0 /\ at'[u] = at[u]
                               /\ Instruction(u)[1] = "down",
           \A u \in asleep' : /\ at'[u] > 0
                              /\ \E i \in 1..Len(TextOf(u)) : TextOf(u)[i][1] = "wait"
    PROVE  WaitersPlaced'
<1>1. \A u : TextOf(u)' = TextOf(u)
  BY DEF TextOf
<1>2. \A u : at'[u] = at[u] => Instruction(u)' = Instruction(u)
  BY DEF Instruction
<1>3. \A u \in exited' : at'[u] > 0 /\ EndsThread(Instruction(u)')
  BY <1>2
<1>4. \A u \in blocked' : at'[u] > 0 /\ Instruction(u)'[1] = "down"
  BY <1>2
<1>5. QED
  BY <1>1, <1>3, <1>4 DEF WaitersPlaced

LEMMA WaitHasWait ==
    ASSUME ThreadsPlaced, NEW t \in Thread, at[t] > 0, Instruction(t)[1] = "wait"
    PROVE  \E i \in 1..Len(TextOf(t)) : TextOf(t)[i][1] = "wait"
<1>1. at[t] \in 1..Len(TextOf(t)) /\ Instruction(t) = TextOf(t)[at[t]]
  BY CurrentOp
<1>2. QED
  BY <1>1

(* A thread that goes on, or is handed a unit, leaves the others alone.    *)
LEMMA StepPlaced ==
    ASSUME ThreadsPlaced, WaitersPlaced, NEW t \in Thread, ThreadStep(t)
    PROVE  ThreadsPlaced' /\ WaitersPlaced'
<1>1. /\ at[t] > 0 /\ t \notin exited \cup blocked \cup asleep /\ test' = test
      /\ Goes(t) \/ Ends(t) \/ Stops(t) \/ Gives(t) \/ StartsOne(t)
  BY StepKinds
<1>2. /\ exited \cup blocked \cup asleep \subseteq Thread /\ exited \cap blocked = {}
      /\ \A u \in exited : at[u] > 0 /\ EndsThread(Instruction(u))
      /\ \A u \in blocked : at[u] > 0 /\ Instruction(u)[1] = "down"
      /\ \A u \in asleep : at[u] > 0 /\ \E i \in 1..Len(TextOf(u)) : TextOf(u)[i][1] = "wait"
  BY DEF WaitersPlaced
<1>3. at \in [Thread -> Nat]
  BY DEF ThreadsPlaced
<1>4. ASSUME at' = at PROVE ThreadsPlaced'
  <2>1. TextOf(0)' = TextOf(0) /\ \A k : TextOf(k)' = TextOf(k)
    BY <1>1 DEF TextOf
  <2>2. QED
    BY <1>1, <1>4, <2>1 DEF ThreadsPlaced
<1>5. ASSUME NEW n, n \in Offsets(Instruction(t)) \/ (n = -2 /\ Instruction(t)[1] = "wait"),
             Advance(t, n), UNCHANGED <<exited, blocked>>,
             asleep' \subseteq asleep \/ (asleep' = asleep \cup {t} /\ Instruction(t)[1] = "wait")
      PROVE  ThreadsPlaced' /\ WaitersPlaced'
  <2>1. ThreadsPlaced'
    BY <1>1, <1>5, AdvancePlaced
  <2>2. \A u \in Thread \ {t} : at'[u] = at[u]
    BY <1>3, <1>5 DEF Advance
  <2>3. exited' \subseteq Thread \ {t} /\ blocked' \subseteq Thread \ {t}
    BY <1>1, <1>2, <1>5
  <2>4. asleep' \subseteq Thread
    BY <1>2, <1>5
  <2>5. ASSUME NEW u \in asleep'
        PROVE  at'[u] > 0 /\ \E i \in 1..Len(TextOf(u)) : TextOf(u)[i][1] = "wait"
    <3>1. CASE u \in asleep
      <4>1. at'[u] = at[u]
        BY <1>1, <1>2, <2>2, <3>1
      <4>2. QED
        BY <1>2, <3>1, <4>1
    <3>2. CASE u \notin asleep
      <4>1. u = t /\ Instruction(t)[1] = "wait"
        BY <1>5, <3>2
      <4>2. at[t] + n > 0
        BY <1>1, <1>5, AdvanceFacts
      <4>3. at'[t] = at[t] + n
        BY <1>3, <1>5 DEF Advance
      <4>4. QED
        BY <1>1, <4>1, <4>2, <4>3, WaitHasWait
    <3>3. QED
      BY <3>1, <3>2
  <2>6. WaitersPlaced'
    BY <1>1, <1>2, <1>5, <2>2, <2>3, <2>4, <2>5, WaitersStay
  <2>7. QED
    BY <2>1, <2>6
<1>6. ASSUME NEW n, n \in Offsets(Instruction(t)) \/ (n = -2 /\ Instruction(t)[1] = "wait"),
             NEW u \in blocked, Hands(t, n, u), UNCHANGED exited,
             asleep' = asleep \/ (asleep' = asleep \cup {t} /\ Instruction(t)[1] = "wait")
      PROVE  ThreadsPlaced' /\ WaitersPlaced'
  <2>1. /\ ThreadsPlaced' /\ u # t /\ u \in Thread
        /\ \A s \in Thread : at'[s] = IF s = t THEN at[t] + n
                                      ELSE IF s = u THEN at[u] + 1 ELSE at[s]
    BY <1>1, <1>6, HandsPlaced
  <2>2. \A s \in Thread \ {t, u} : at'[s] = at[s]
    BY <2>1
  <2>3. exited' \subseteq Thread \ {t, u} /\ blocked' \subseteq Thread \ {t, u}
    BY <1>1, <1>2, <1>6 DEF Hands
  <2>4. asleep' \subseteq Thread
    BY <1>2, <1>6
  <2>5. ASSUME NEW s \in asleep'
        PROVE  at'[s] > 0 /\ \E i \in 1..Len(TextOf(s)) : TextOf(s)[i][1] = "wait"
    <3>1. CASE s \in asleep
      <4>1. s \in Thread /\ s # t /\ at[s] > 0 /\ at[s] \in Nat
        BY <1>1, <1>2, <1>3, <3>1
      <4>2. at'[s] > 0
        BY <2>1, <4>1
      <4>3. QED
        BY <1>2, <3>1, <4>2
    <3>2. CASE s \notin asleep
      <4>1. s = t /\ Instruction(t)[1] = "wait"
        BY <1>6, <3>2
      <4>2. at[t] + n > 0
        BY <1>1, <1>6, AdvanceFacts
      <4>3. at'[t] = at[t] + n
        BY <2>1
      <4>4. QED
        BY <1>1, <4>1, <4>2, <4>3, WaitHasWait
    <3>3. QED
      BY <3>1, <3>2
  <2>6. exited' \cap blocked' = {} /\ exited' \subseteq exited /\ blocked' \subseteq blocked
    BY <1>2, <1>6 DEF Hands
  <2>7. \A s \in exited' : /\ at[s] > 0 /\ at'[s] = at[s]
                           /\ EndsThread(Instruction(s))
    BY <1>2, <2>2, <2>3, <2>6
  <2>8. \A s \in blocked' : at[s] > 0 /\ at'[s] = at[s] /\ Instruction(s)[1] = "down"
    BY <1>2, <2>2, <2>3, <2>6
  <2>9. WaitersPlaced'
    BY <1>1, <2>3, <2>4, <2>5, <2>6, <2>7, <2>8, WaitersStay
  <2>10. QED
    BY <2>1, <2>9
<1>7. CASE Goes(t)
  <2>1. PICK n \in Offsets(Instruction(t)) : Advance(t, n)
    BY <1>7 DEF Goes
  <2>2. UNCHANGED <<exited, blocked>> /\ asleep' \subseteq asleep
    BY <1>7 DEF Goes
  <2>3. QED
    BY <1>5, <2>1, <2>2
<1>8. CASE Ends(t)
  <2>1. /\ at' = at /\ exited' = exited \cup {t} /\ UNCHANGED <<blocked, asleep>>
        /\ EndsThread(Instruction(t))
    BY <1>8 DEF Ends, ThreadExits
  <2>2. exited' \cap blocked' = {}
    BY <1>1, <1>2, <2>1
  <2>3. exited' \cup blocked' \cup asleep' \subseteq Thread
    BY <1>2, <2>1
  <2>4. WaitersPlaced'
    BY <1>1, <1>2, <2>1, <2>2, <2>3, WaitersStay
  <2>5. QED
    BY <1>4, <2>1, <2>4
<1>9. CASE Stops(t)
  <2>1. /\ at' = at /\ blocked' = blocked \cup {t} /\ UNCHANGED <<exited, asleep>>
        /\ Instruction(t)[1] = "down"
    BY <1>9 DEF Stops
  <2>2. exited' \cap blocked' = {}
    BY <1>1, <1>2, <2>1
  <2>3. exited' \cup blocked' \cup asleep' \subseteq Thread
    BY <1>2, <2>1
  <2>4. WaitersPlaced'
    BY <1>1, <1>2, <2>1, <2>2, <2>3, WaitersStay
  <2>5. QED
    BY <1>4, <2>1, <2>4
<1>10. CASE Gives(t)
  <2>1. PICK n : /\ n \in Offsets(Instruction(t)) \/ (n = -2 /\ Instruction(t)[1] = "wait")
                 /\ \/ Advance(t, n) /\ UNCHANGED blocked
                    \/ \E u \in blocked : Hands(t, n, u)
                 /\ \/ asleep' = asleep
                    \/ asleep' = asleep \cup {t} /\ Instruction(t)[1] = "wait"
    BY <1>10, Zenon DEF Gives
  <2>2. UNCHANGED exited
    BY <1>10 DEF Gives
  <2>3. CASE Advance(t, n) /\ UNCHANGED blocked
    BY <1>5, <2>1, <2>2, <2>3
  <2>4. CASE \E u \in blocked : Hands(t, n, u)
    BY <1>6, <2>1, <2>2, <2>4
  <2>5. QED
    BY <2>1, <2>3, <2>4
<1>11. CASE StartsOne(t)
  <2> DEFINE k == Instruction(t)[2]
  <2>1. Instruction(t)[1] = "thread" /\ UNCHANGED <<exited, blocked, asleep>>
    BY <1>11 DEF StartsOne
  <2>2. t = 0 /\ k \in 1..8 /\ at[k] = 0
    BY <1>1, <2>1, StartFacts
  <2>3. /\ ThreadsPlaced'
        /\ \A s \in Thread : at'[s] = IF s = 0 THEN at[0] + 1 ELSE IF s = k THEN 1 ELSE at[s]
    BY <1>1, <1>11, StartPlaced
  <2> HIDE DEF k
  <2>4. \A s \in exited \cup blocked \cup asleep : s # 0 /\ s # k /\ s \in Thread
    BY <1>1, <1>2, <2>2
  <2>5. \A s \in exited \cup blocked \cup asleep : at'[s] = at[s]
    BY <2>3, <2>4
  <2>6. WaitersPlaced'
    BY <1>1, <1>2, <2>1, <2>5, WaitersStay
  <2>7. QED
    BY <2>3, <2>6
<1>12. QED
  BY <1>1, <1>7, <1>8, <1>9, <1>10, <1>11

LEMMA WakePlaced ==
    ASSUME ThreadsPlaced, WaitersPlaced, NEW t \in Thread, SpuriousWakeup(t)
    PROVE  ThreadsPlaced' /\ WaitersPlaced'
<1>1. asleep' \subseteq asleep /\ UNCHANGED <<test, at, exited, blocked>>
  BY DEF SpuriousWakeup, Locks
<1>2. \A k : TextOf(k)' = TextOf(k) /\ Instruction(k)' = Instruction(k)
  BY <1>1 DEF TextOf, Instruction
<1>3. ThreadsPlaced'
  BY <1>1, <1>2 DEF ThreadsPlaced
<1>4. WaitersPlaced'
  BY <1>1, <1>2 DEF WaitersPlaced
<1>5. QED
  BY <1>3, <1>4

-----------------------------------------------------------------------------
(*                     What the threads share                              *)

LEMMA UnitsTyped ==
    ASSUME units \in Seq(Nat), NEW r,
           \/ units' = Append(units, r) /\ r \in Nat
           \/ units' = [units EXCEPT ![r + 1] = @ - 1] /\ Free(r) > 0
           \/ units' = [units EXCEPT ![r + 1] = @ + 1]
           \/ units' = units
    PROVE  units' \in Seq(Nat)
<1>1. CASE units' = Append(units, r) /\ r \in Nat
  BY <1>1
<1>2. ASSUME r + 1 \in 1..Len(units), NEW d, units' = [units EXCEPT ![r + 1] = d], d \in Nat
      PROVE  units' \in Seq(Nat)
  BY <1>2, ExceptSeq, Zenon
<1>3. ASSUME r + 1 \notin 1..Len(units), NEW d, units' = [units EXCEPT ![r + 1] = d]
      PROVE  units' = units
  <2>1. units = [i \in 1..Len(units) |-> units[i]] /\ DOMAIN units = 1..Len(units)
    OBVIOUS
  <2>2. QED
    BY <1>3, <2>1
<1>4. CASE r + 1 \in 1..Len(units)
  <2>1. units[r + 1] \in Nat
    BY <1>4
  <2>2. CASE units' = [units EXCEPT ![r + 1] = @ - 1] /\ Free(r) > 0
    <3>1. units[r + 1] - 1 \in Nat
      BY <2>1, <2>2 DEF Free
    <3>2. units' = [units EXCEPT ![r + 1] = units[r + 1] - 1]
      BY <2>2
    <3>3. QED
      BY <1>2, <1>4, <3>1, <3>2
  <2>3. CASE units' = [units EXCEPT ![r + 1] = @ + 1]
    <3>1. units[r + 1] + 1 \in Nat
      BY <2>1
    <3>2. units' = [units EXCEPT ![r + 1] = units[r + 1] + 1]
      BY <2>3
    <3>3. QED
      BY <1>2, <1>4, <3>1, <3>2
  <2>4. QED
    BY <1>1, <2>2, <2>3
<1>5. CASE r + 1 \notin 1..Len(units)
  <2>1. CASE units' = [units EXCEPT ![r + 1] = @ - 1]
    <3>1. units' = [units EXCEPT ![r + 1] = units[r + 1] - 1]
      BY <2>1
    <3>2. QED
      BY <1>3, <1>5, <3>1
  <2>2. CASE units' = [units EXCEPT ![r + 1] = @ + 1]
    <3>1. units' = [units EXCEPT ![r + 1] = units[r + 1] + 1]
      BY <2>2
    <3>2. QED
      BY <1>3, <1>5, <3>1
  <2>3. QED
    BY <1>1, <2>1, <2>2
<1>6. QED
  BY <1>4, <1>5

LEMMA RingIndex ==
    ASSUME NEW i \in 0 .. BUFFER_SIZE - 1
    PROVE  (i + 1) % BUFFER_SIZE \in 0 .. BUFFER_SIZE - 1
<1>1. BUFFER_SIZE \in Nat \ {0}
  BY ThreadAssumption
<1>2. QED
  BY <1>1

LEMMA StateStep ==
    ASSUME StateTyped, ThreadsPlaced, NEW t \in Thread, ThreadStep(t)
    PROVE  StateTyped'
<1> USE DEF Locks, Shared
<1>1. /\ exit_code \in [Thread -> -1..3] /\ units \in Seq(Nat)
      /\ A \in Nat /\ cur \in [Thread -> Nat]
      /\ DOMAIN BUFFER = 0 .. BUFFER_SIZE - 1 /\ BUFFER = [i \in DOMAIN BUFFER |-> BUFFER[i]]
      /\ FRONT \in DOMAIN BUFFER /\ TAIL \in DOMAIN BUFFER
  BY DEF StateTyped
<1>2. exit_code' \in [Thread -> -1..3]
  <2>1. UNCHANGED exit_code \/ Ends(t)
    BY StepKinds DEF Goes, Stops, Gives, StartsOne
  <2>2. CASE Ends(t)
    BY <1>1, <2>2 DEF Ends, ThreadExits
  <2>3. QED
    BY <1>1, <2>1, <2>2
<1>3. at[t] > 0 /\ Instruction(t) \in TeamOps \cup MainOps
  BY StepKinds, CurrentOp
<1>4. units' \in Seq(Nat)
  <2> DEFINE r == Instruction(t)[2]
  <2>1. CASE create(t)
    <3>1. r \in Nat /\ units' = Append(units, r)
      BY <1>3, <2>1, OpShape DEF create, Performs
    <3>2. QED
      BY <1>1, <3>1, UnitsTyped
  <2>2. CASE down(t)
    <3>1. \/ units' = [units EXCEPT ![r + 1] = @ - 1] /\ Free(r) > 0
          \/ units' = units
      BY <2>2 DEF down
    <3>2. QED
      BY <1>1, <3>1, UnitsTyped
  <2>3. ASSUME NEW q, NEW n, GiveBack(t, q, n) PROVE units' \in Seq(Nat)
    <3>1. \/ units' = [units EXCEPT ![q + 1] = @ + 1]
          \/ units' = units
      BY <2>3 DEF GiveBack
    <3>2. QED
      BY <1>1, <3>1, UnitsTyped
  <2>4. CASE up(t) \/ condvar_wait(t)
    BY <2>3, <2>4 DEF up, condvar_wait
  <2>5. CASE ~(create(t) \/ down(t) \/ up(t) \/ condvar_wait(t))
    <3>1. units' = units
      BY <2>5 DEF ThreadStep, thread_exit, thread_assert, thread_create, waittid, sleep,
                  condvar_signal, eat, work, test_A, read_A, write_A, store, front, print, tail,
                  Access
    <3>2. QED
      BY <1>1, <3>1
  <2>6. QED
    BY <2>1, <2>2, <2>4, <2>5
<1>5. CASE work(t)
  BY <1>1, <1>2, <1>4, <1>5 DEF work, StateTyped
<1>6. CASE read_A(t)
  <2>1. cur' \in [Thread -> Nat]
    BY <1>1, <1>6 DEF read_A
  <2>2. QED
    BY <1>1, <1>2, <1>4, <1>6, <2>1 DEF read_A, StateTyped
<1>7. CASE write_A(t)
  <2>1. cur' \in [Thread -> Nat] /\ A' \in Nat
    BY <1>1, <1>7 DEF write_A
  <2>2. QED
    BY <1>1, <1>2, <1>4, <1>7, <2>1 DEF write_A, StateTyped
<1>8. CASE store(t)
  <2>1. DOMAIN BUFFER' = DOMAIN BUFFER /\ BUFFER' = [i \in DOMAIN BUFFER' |-> BUFFER'[i]]
    BY <1>1, <1>8 DEF store
  <2>2. UNCHANGED <<A, cur, FRONT, TAIL>>
    BY <1>8 DEF store
  <2>3. QED
    BY <1>1, <1>2, <1>4, <2>1, <2>2 DEF StateTyped
<1>9. CASE front(t)
  <2>1. FRONT' \in DOMAIN BUFFER /\ UNCHANGED <<A, cur, BUFFER, TAIL>>
    BY <1>1, <1>9, RingIndex DEF front
  <2>2. QED
    BY <1>1, <1>2, <1>4, <2>1 DEF StateTyped
<1>10. CASE tail(t)
  <2>1. TAIL' \in DOMAIN BUFFER /\ UNCHANGED <<A, cur, BUFFER, FRONT>>
    BY <1>1, <1>10, RingIndex DEF tail
  <2>2. QED
    BY <1>1, <1>2, <1>4, <2>1 DEF StateTyped
<1>11. CASE ~(work(t) \/ read_A(t) \/ write_A(t) \/ store(t) \/ front(t) \/ tail(t))
  <2>1. UNCHANGED <<A, cur, BUFFER, FRONT, TAIL>>
    BY <1>11 DEF ThreadStep, thread_exit, thread_assert, thread_create, waittid, sleep, create,
                 down, up, condvar_wait, condvar_signal, eat, test_A, print, Access
  <2>2. QED
    BY <1>1, <1>2, <1>4, <2>1 DEF StateTyped
<1>12. QED
  BY <1>5, <1>6, <1>7, <1>8, <1>9, <1>10, <1>11

-----------------------------------------------------------------------------
(* The threads' half of a behaviour: while processes run it has not begun. *)
ThreadInv ==
    \/ ThreadsOff
    \/ ThreadsPlaced /\ WaitersPlaced /\ StateTyped

LEMMA StartTyped ==
    ASSUME NEW running, ThreadsAtStart(running)
    PROVE  StateTyped /\ exited \cup blocked \cup asleep \subseteq Thread /\ at \in [Thread -> Nat]
<1>1. BUFFER_SIZE \in Nat \ {0} /\ 0 \in 0 .. BUFFER_SIZE - 1
  BY ThreadAssumption
<1>2. DOMAIN BUFFER = 0 .. BUFFER_SIZE - 1 /\ BUFFER = [i \in DOMAIN BUFFER |-> BUFFER[i]]
  BY DEF ThreadsAtStart
<1>3. QED
  BY <1>1, <1>2 DEF ThreadsAtStart, StateTyped

LEMMA ThreadsStart ==
    ASSUME ThreadInit
    PROVE  ThreadsPlaced /\ WaitersPlaced /\ StateTyped
<1>1. /\ test \in ThreadTests /\ at = [t \in Thread |-> IF t \in {0} THEN 1 ELSE 0]
      /\ exited = {} /\ blocked = {} /\ asleep = {}
  BY DEF ThreadInit, ThreadsAtStart
<1>2. StateTyped
  BY StartTyped DEF ThreadInit
<1>3. 0 \in Thread /\ \A k \in 1..8 : k \in Thread /\ k # 0
  BY DEF Thread
<1>4. at[0] = 1 /\ \A k \in 1..8 : at[k] = 0
  BY <1>1, <1>3
<1>5. 1 \in 1..Len(TextOf(0))
  <2>1. TextOf(0) \in Wholes(TeamOps \cup MainOps)
    BY <1>1, <1>3, TextFacts
  <2>2. Len(TextOf(0)) \in Nat /\ Len(TextOf(0)) > 0
    BY <2>1 DEF Wholes, Blocks
  <2>3. QED
    BY <2>2
<1>6. ThreadsPlaced
  BY <1>1, <1>4, <1>5 DEF ThreadsPlaced
<1>7. WaitersPlaced
  BY <1>1 DEF WaitersPlaced
<1>8. QED
  BY <1>2, <1>6, <1>7

LEMMA ThreadsInvariant == Spec => []ThreadInv
<1>1. Init => ThreadInv
  BY ThreadsStart DEF Init, ThreadInv
<1>2. ThreadInv /\ [Next]_vars => ThreadInv'
  <2> SUFFICES ASSUME ThreadInv, [Next]_vars
               PROVE  ThreadInv'
    OBVIOUS
  <2>1. CASE UNCHANGED tvars
    <3>1. UNCHANGED <<test, at, exited, exit_code, units, held, blocked, asleep, A, cur, BUFFER,
                      FRONT, TAIL, printed>>
      BY <2>1 DEF tvars
    <3>2. \A k : TextOf(k)' = TextOf(k) /\ Instruction(k)' = Instruction(k)
      BY <3>1 DEF TextOf, Instruction
    <3>3. ThreadsOff => ThreadsOff'
      BY <3>1 DEF ThreadsOff, ThreadsAtStart
    <3>4. ThreadsPlaced => ThreadsPlaced'
      BY <3>1, <3>2 DEF ThreadsPlaced
    <3>5. WaitersPlaced => WaitersPlaced'
      BY <3>1, <3>2 DEF WaitersPlaced
    <3>6. StateTyped => StateTyped'
      BY <3>1 DEF StateTyped
    <3>7. QED
      BY <3>3, <3>4, <3>5, <3>6 DEF ThreadInv
  <2>2. CASE test # "none" /\ ThreadNext
    <3>1. ThreadsPlaced /\ WaitersPlaced /\ StateTyped
      BY <2>2 DEF ThreadInv, ThreadsOff
    <3>2. ASSUME NEW t \in Thread, ThreadStep(t) PROVE ThreadInv'
      BY <3>1, <3>2, StepPlaced, StateStep DEF ThreadInv
    <3>3. ASSUME NEW t \in Thread, SpuriousWakeup(t) PROVE ThreadInv'
      <4>1. StateTyped'
        BY <3>1, <3>3 DEF SpuriousWakeup, Locks, Shared, StateTyped
      <4>2. QED
        BY <3>1, <3>3, <4>1, WakePlaced DEF ThreadInv
    <3>4. QED
      BY <2>1, <2>2, <3>2, <3>3 DEF ThreadNext, ThreadsEnded
  <2>3. QED
    BY <2>1, <2>2 DEF Next, vars
<1>3. QED
  BY <1>1, <1>2, PTL DEF Spec

LEMMA ThreadInvTyped == ThreadInv => ThreadTypeOK
<1>1. CASE ThreadsOff
  BY <1>1, StartTyped DEF ThreadsOff, ThreadTypeOK, StateTyped
<1>2. CASE ThreadsPlaced /\ WaitersPlaced /\ StateTyped
  BY <1>2 DEF ThreadsPlaced, WaitersPlaced, StateTyped, ThreadTypeOK
<1>3. QED
  BY <1>1, <1>2 DEF ThreadInv

LEMMA ProcessInvTyped == ProcessInv => ProcessTypeOK
<1> SUFFICES ASSUME ProcessInv PROVE ProcessTypeOK
  OBVIOUS
<1>1. \A p \in Pid : here[p].prog \in Names /\ here[p].i \in 1..Len(Program[here[p].prog])
  BY DEF ProcessInv, AllPlaced, Placed
<1>2. QED
  BY <1>1 DEF ProcessInv, LivesTyped, MemoriesTyped, PipesTyped, ProcessTypeOK

(* No thread or process runs past the end of its program, wherever its     *)
(* loops, forks, tries and waits take it, no thread runs that main has not *)
(* started, and every index of the ring is one of its slots:               *)
(* os/tg-user/src/bin, of any size.                                        *)
THEOREM UserTypesCorrect == Spec => [](TypeOK /\ (test # "none" => ThreadsPlaced))
<1>1. ThreadInv => (test # "none" => ThreadsPlaced)
  BY DEF ThreadInv, ThreadsOff
<1>2. ThreadInv /\ ProcessInv => TypeOK
  BY ThreadInvTyped, ProcessInvTyped DEF TypeOK
<1>3. QED
  BY <1>1, <1>2, ThreadsInvariant, ProcessesInvariant, PTL

-----------------------------------------------------------------------------
(*                       One instruction, one action                       *)

LEMMA ActionOf ==
    ASSUME NEW t \in Thread, ThreadStep(t)
    PROVE  /\ Instruction(t)[1] = "exit" => thread_exit(t)
           /\ Instruction(t)[1] = "assert" => thread_assert(t)
           /\ Instruction(t)[1] = "thread" => thread_create(t)
           /\ Instruction(t)[1] = "join" => waittid(t)
           /\ Instruction(t)[1] = "sleep" => sleep(t)
           /\ Instruction(t)[1] = "create" => create(t)
           /\ Instruction(t)[1] = "down" => down(t)
           /\ Instruction(t)[1] = "up" => up(t)
           /\ Instruction(t)[1] = "wait" => condvar_wait(t)
           /\ Instruction(t)[1] = "signal" => condvar_signal(t)
           /\ Instruction(t)[1] = "eat" => eat(t)
           /\ Instruction(t)[1] = "work" => work(t)
           /\ Instruction(t)[1] = "test" => test_A(t)
           /\ Instruction(t)[1] = "read" => read_A(t)
           /\ Instruction(t)[1] = "write" => write_A(t)
           /\ Instruction(t)[1] = "store" => store(t)
           /\ Instruction(t)[1] = "front" => front(t)
           /\ Instruction(t)[1] = "print" => print(t)
           /\ Instruction(t)[1] = "tail" => tail(t)
BY DEF ThreadStep, thread_exit, thread_assert, thread_create, waittid, sleep, create, down, up,
       condvar_wait, condvar_signal, eat, work, test_A, read_A, write_A, store, front, print, tail,
       Access, Performs

(* t goes on to its next instruction, and u is handed a unit of r or not.  *)
Moves(t) == Advance(t, 1)

Takes(t, r) ==
    /\ Free(r) > 0 /\ units' = [units EXCEPT ![r + 1] = @ - 1]
    /\ Moves(t)

Frees(t, r) == units' = [units EXCEPT ![r + 1] = @ + 1] /\ Moves(t)

Passes(t, r, u) ==
    /\ u \in Thread \ {t} /\ at[u] > 0
    /\ Instruction(u)[1] = "down" /\ Instruction(u)[2] = r
    /\ UNCHANGED units
    /\ at' = [at EXCEPT ![t] = @ + 1, ![u] = @ + 1]

LEMMA DownStep ==
    ASSUME NEW t \in Thread, ThreadStep(t), NEW r, Instruction(t) = Down(r), ~Detecting
    PROVE  /\ Takes(t, r) \/ (at' = at /\ UNCHANGED units)
           /\ UNCHANGED <<test, exited, Shared>>
<1>1. down(t) /\ Instruction(t)[2] = r
  BY ActionOf DEF Down
<1>2. ~Deadlocks(t)
  BY DEF Deadlocks
<1>3. Takes(t, r) \/ (at' = at /\ UNCHANGED units)
  BY <1>1, <1>2 DEF down, Takes, Moves
<1>4. UNCHANGED <<test, Shared>>
  BY <1>1 DEF down
<1>5. UNCHANGED exited
  BY <1>1, <1>2 DEF down
<1>6. QED
  BY <1>3, <1>4, <1>5

LEMMA UpStep ==
    ASSUME WaitersPlaced, NEW t \in Thread, t \notin blocked, ThreadStep(t), NEW r,
           Instruction(t) = Up(r)
    PROVE  /\ Frees(t, r) \/ \E u \in Thread : Passes(t, r, u)
           /\ UNCHANGED <<test, exited, Shared>>
<1>1. up(t) /\ Instruction(t)[2] = r
  BY ActionOf DEF Up
<1>2. GiveBack(t, r, 1) /\ UNCHANGED <<test, exited, Shared>>
  BY <1>1 DEF up
<1>3. CASE \A u \in blocked : Instruction(u)[2] # r
  BY <1>2, <1>3 DEF GiveBack, Frees, Moves
<1>4. CASE \E u \in blocked : Instruction(u)[2] = r
  <2>1. PICK u \in blocked : /\ Instruction(u)[2] = r
                             /\ at' = [at EXCEPT ![t] = @ + 1, ![u] = @ + 1]
                             /\ UNCHANGED units
    BY <1>2, <1>4 DEF GiveBack
  <2>2. u \in Thread \ {t} /\ at[u] > 0 /\ Instruction(u)[1] = "down"
    BY DEF WaitersPlaced
  <2>3. Passes(t, r, u)
    BY <2>1, <2>2 DEF Passes
  <2>4. QED
    BY <1>2, <2>2, <2>3
<1>5. QED
  BY <1>3, <1>4

-----------------------------------------------------------------------------
(*                            Rounds of six                                *)

(* The place in its round of a thread at i; one that has not started is    *)
(* where it will start.                                                    *)
Turn(i) == IF i = 0 THEN 1 ELSE ((i - 1) % 6) + 1

LEMMA TurnFacts ==
    /\ Turn(0) = 1 /\ Turn(1) = 1
    /\ \A i \in Nat : Turn(i) \in 1..6
    /\ \A i \in Nat \ {0} : Turn(i + 1) = IF Turn(i) = 6 THEN 1 ELSE Turn(i) + 1
BY DEF Turn

(* Inside a round or at the end of all of them.                            *)
LEMMA RoundPlace ==
    ASSUME NEW s, NEW row, NEW n \in Nat, NEW last, Rounds(s, row, n, 6, last),
           NEW i \in 1..Len(s)
    PROVE  \/ /\ i = n * 6 + 1 /\ s[i] = last /\ Turn(i) = 1
           \/ /\ i < n * 6 + 1 /\ s[i] = row[Turn(i)]
<1>1. Len(s) = n * 6 + 1 /\ i \in Nat
  BY DEF Rounds
<1>2. CASE i = n * 6 + 1
  <2>1. s[i] = last
    BY <1>2 DEF Rounds
  <2>2. Turn(i) = 1
    BY <1>2 DEF Turn
  <2>3. QED
    BY <1>2, <2>1, <2>2
<1>3. CASE i # n * 6 + 1
  <2> DEFINE k == (i - 1) \div 6 + 1
             j == Turn(i)
  <2>1. i < n * 6 + 1
    BY <1>1, <1>3
  <2>2. k \in 1..n /\ j \in 1..6 /\ i = (k - 1) * 6 + j
    BY <1>1, <2>1 DEF Turn
  <2> HIDE DEF k, j
  <2>3. s[(k - 1) * 6 + j] = row[j]
    BY <2>2 DEF Rounds
  <2>4. QED
    BY <2>1, <2>2, <2>3 DEF j
<1>4. QED
  BY <1>2, <1>3

-----------------------------------------------------------------------------
(*                            Mutual exclusion                             *)

(* Of each mutex of R there is one unit, or one thread that holds it.      *)
Exclusive(holds, u, R) ==
    \A r \in R :
       /\ u[r + 1] \in {0, 1}
       /\ \A t \in 1..8 : r \in holds[t] => u[r + 1] = 0
       /\ \A s, t \in 1..8 : r \in holds[s] /\ r \in holds[t] => s = t

(* t takes q, gives it back, hands it to w, or does neither.               *)
Relocks(holds, u, has, v, t, q) ==
    \/ /\ u[q + 1] > 0 /\ v[q + 1] = u[q + 1] - 1
       /\ has[t] = holds[t] \cup {q} /\ \A s \in 1..8 : s # t => has[s] = holds[s]
    \/ /\ q \in holds[t] /\ v[q + 1] = u[q + 1] + 1
       /\ has[t] = holds[t] \ {q} /\ \A s \in 1..8 : s # t => has[s] = holds[s]
    \/ \E w \in 1..8 \ {t} :
          /\ q \in holds[t] /\ v[q + 1] = u[q + 1]
          /\ has[t] = holds[t] \ {q} /\ has[w] = holds[w] \cup {q}
          /\ \A s \in 1..8 : s # t /\ s # w => has[s] = holds[s]
    \/ v[q + 1] = u[q + 1] /\ \A s \in 1..8 : has[s] = holds[s]

LEMMA LockKept ==
    ASSUME NEW R \in SUBSET Nat, NEW u, NEW v, NEW holds, NEW has, NEW t \in 1..8, NEW q \in R,
           Exclusive(holds, u, R),
           \A r \in R \ {q} : v[r + 1] = u[r + 1],
           Relocks(holds, u, has, v, t, q)
    PROVE  Exclusive(has, v, R)
<1> SUFFICES ASSUME NEW r \in R
             PROVE  /\ v[r + 1] \in {0, 1}
                    /\ \A s \in 1..8 : r \in has[s] => v[r + 1] = 0
                    /\ \A s, w \in 1..8 : r \in has[s] /\ r \in has[w] => s = w
  BY DEF Exclusive
<1>1. /\ u[r + 1] \in {0, 1}
      /\ \A s \in 1..8 : r \in holds[s] => u[r + 1] = 0
      /\ \A s, w \in 1..8 : r \in holds[s] /\ r \in holds[w] => s = w
  BY DEF Exclusive
<1>2. CASE r # q
  <2>1. v[r + 1] = u[r + 1]
    BY <1>2
  <2>2. \A s \in 1..8 : r \in has[s] <=> r \in holds[s]
    BY <1>2 DEF Relocks
  <2>3. QED
    BY <1>1, <2>1, <2>2
<1>3. CASE r = q
  <2>1. CASE /\ u[q + 1] > 0 /\ v[q + 1] = u[q + 1] - 1
             /\ has[t] = holds[t] \cup {q} /\ \A s \in 1..8 : s # t => has[s] = holds[s]
    <3>1. u[q + 1] = 1 /\ v[q + 1] = 0
      BY <1>1, <1>3, <2>1
    <3>2. \A s \in 1..8 : r \in has[s] => s = t
      BY <1>1, <1>3, <2>1, <3>1
    <3>3. QED
      BY <1>3, <3>1, <3>2
  <2>2. CASE /\ q \in holds[t] /\ v[q + 1] = u[q + 1] + 1
             /\ has[t] = holds[t] \ {q} /\ \A s \in 1..8 : s # t => has[s] = holds[s]
    <3>1. u[q + 1] = 0 /\ v[q + 1] = 1
      BY <1>1, <1>3, <2>2
    <3>2. \A s \in 1..8 : r \notin has[s]
      BY <1>1, <1>3, <2>2
    <3>3. QED
      BY <1>3, <3>1, <3>2
  <2>3. ASSUME NEW w \in 1..8 \ {t},
               q \in holds[t] /\ v[q + 1] = u[q + 1],
               has[t] = holds[t] \ {q} /\ has[w] = holds[w] \cup {q},
               \A s \in 1..8 : s # t /\ s # w => has[s] = holds[s]
        PROVE  /\ v[r + 1] \in {0, 1}
               /\ \A s \in 1..8 : r \in has[s] => v[r + 1] = 0
               /\ \A s, x \in 1..8 : r \in has[s] /\ r \in has[x] => s = x
    <3>1. u[q + 1] = 0 /\ v[q + 1] = 0
      BY <1>1, <1>3, <2>3
    <3>2. \A s \in 1..8 : r \in has[s] => s = w
      BY <1>1, <1>3, <2>3
    <3>3. QED
      BY <1>3, <3>1, <3>2
  <2>4. CASE v[q + 1] = u[q + 1] /\ \A s \in 1..8 : has[s] = holds[s]
    BY <1>1, <1>3, <2>4
  <2>5. QED
    BY <2>1, <2>2, <2>3, <2>4 DEF Relocks
<1>4. QED
  BY <1>2, <1>3

(* Units of the semaphores after a step, given how many there are.         *)
LEMMA UnitsAfter ==
    ASSUME units \in Seq(Nat), NEW q \in Nat, q < Len(units)
    PROVE  /\ \A d \in Int : units' = [units EXCEPT ![q + 1] = d] =>
                 /\ units'[q + 1] = d /\ Len(units') = Len(units)
                 /\ \A r \in Nat : r < Len(units) /\ r # q => units'[r + 1] = units[r + 1]
           /\ units[q + 1] \in Nat
<1>1. DOMAIN units = 1..Len(units) /\ Len(units) \in Nat /\ q + 1 \in 1..Len(units)
  OBVIOUS
<1>2. ASSUME NEW d \in Int, units' = [units EXCEPT ![q + 1] = d]
      PROVE  /\ units'[q + 1] = d /\ Len(units') = Len(units)
             /\ \A r \in Nat : r < Len(units) /\ r # q => units'[r + 1] = units[r + 1]
  <2>1. units'[q + 1] = d
    BY <1>1, <1>2
  <2>2. \A r \in Nat : r < Len(units) /\ r # q => units'[r + 1] = units[r + 1]
    BY <1>1, <1>2
  <2>3. units \in Seq(Int)
    OBVIOUS
  <2>4. Len(units') = Len(units)
    <3> DEFINE k == q + 1
    <3>1. k \in 1..Len(units) /\ units' = [units EXCEPT ![k] = d]
      BY <1>1, <1>2
    <3> HIDE DEF k
    <3>2. Len([units EXCEPT ![k] = d]) = Len(units)
      BY <2>3, <3>1, ExceptSeq
    <3>3. QED
      BY <3>1, <3>2
  <2>5. QED
    BY <2>1, <2>2, <2>4
<1>3. QED
  BY <1>1, <1>2

-----------------------------------------------------------------------------
(*                       The dining philosophers                           *)

Forked == test = "phil_din_mutex"

(* The forks that philosopher t - 1 holds when it is at i.                 *)
Grip(t, i) ==
    {r \in {MinFork(t)} : Turn(i) \in 3..6} \cup {r \in {MaxFork(t)} : Turn(i) \in 4..5}

Grips == [t \in 1..8 |-> Grip(t, at[t])]

(* No philosopher gets on before there are all forks, and every fork lies  *)
(* there or is in one hand.                                                *)
ForksInv ==
    /\ Len(units) = IF at[0] <= 2 * N THEN at[0] \div 2 ELSE N
    /\ at[0] <= 2 * N => \A t \in 1..8 : at[t] <= 1
    /\ Exclusive(Grips, units, 0 .. Len(units) - 1)

LEMMA ForksPlace ==
    ASSUME NEW text, ForksMain(text), NEW i \in 1..Len(text)
    PROVE  \/ i <= 2 * N /\ i % 2 = 1 /\ text[i] = Create(1)
           \/ i <= 2 * N /\ i % 2 = 0 /\ i \div 2 \in 1..N /\ text[i] = Start(i \div 2)
           \/ i > 2 * N /\ text[i][1] \in {"join", "exit"}
<1>1. N \in 2..8 /\ Len(text) = 3 * N + 1 /\ i \in Nat
  BY ThreadCounts DEF ForksMain
<1>2. CASE i <= 2 * N /\ i % 2 = 1
  <2>1. (i + 1) \div 2 \in 1..N /\ 2 * ((i + 1) \div 2) - 1 = i
    BY <1>1, <1>2
  <2>2. QED
    BY <1>2, <2>1 DEF ForksMain
<1>3. CASE i <= 2 * N /\ i % 2 = 0
  <2>1. i \div 2 \in 1..N /\ 2 * (i \div 2) = i
    BY <1>1, <1>3
  <2>2. QED
    BY <1>3, <2>1 DEF ForksMain
<1>4. CASE i > 2 * N
  <2>1. i - 2 * N \in 1..N \/ i = 3 * N + 1
    BY <1>1, <1>4
  <2>2. CASE i - 2 * N \in 1..N
    <3>1. text[2 * N + (i - 2 * N)] = Join(i - 2 * N) /\ 2 * N + (i - 2 * N) = i
      BY <1>1, <2>2 DEF ForksMain
    <3>2. QED
      BY <1>4, <3>1 DEF Join
  <2>3. CASE i = 3 * N + 1
    BY <1>4, <2>3 DEF ForksMain, Exit
  <2>4. QED
    BY <2>1, <2>2, <2>3
<1>5. QED
  BY <1>1, <1>2, <1>3, <1>4

(* What main is at, and what a philosopher is at.                          *)
LEMMA ForksMainAt ==
    ASSUME ThreadsPlaced, Forked
    PROVE  /\ at[0] \in 1..3 * N + 1
           /\ \/ at[0] <= 2 * N /\ at[0] % 2 = 1 /\ Instruction(0) = Create(1)
              \/ /\ at[0] <= 2 * N /\ at[0] % 2 = 0 /\ at[0] \div 2 \in 1..N
                 /\ Instruction(0) = Start(at[0] \div 2)
              \/ at[0] > 2 * N /\ Instruction(0)[1] \in {"join", "exit"}
<1>1. TextOf(0) = phil_din_mutex[0] /\ ForksMain(TextOf(0))
  BY ForksMainText DEF Forked, TextOf, ThreadTest
<1>2. at[0] \in 1..Len(TextOf(0)) /\ Instruction(0) = TextOf(0)[at[0]]
  BY DEF ThreadsPlaced, Instruction, TextOf
<1>3. Len(TextOf(0)) = 3 * N + 1
  BY <1>1 DEF ForksMain
<1>4. QED
  BY <1>1, <1>2, <1>3, ForksPlace

LEMMA PhilosopherAt ==
    ASSUME ThreadsPlaced, Forked, NEW t \in 1..8, at[t] > 0
    PROVE  /\ t \in 1..N /\ at[t] \in Nat \ {0} /\ t \in Thread /\ t # 0
           /\ \/ Turn(at[t]) = 1 /\ Instruction(t) = Exit(0)
              \/ Instruction(t) = PhilosopherRow(t)[Turn(at[t])]
<1>1. t \in Thread /\ t # 0
  BY DEF Thread
<1>2. at[t] \in 1..Len(TextOf(t)) /\ Instruction(t) = TextOf(t)[at[t]] /\ at[t] \in Nat \ {0}
  <2>1. at[t] \in 1..Len(TextOf(t)) /\ Len(TextOf(t)) \in Nat /\ Instruction(t) = TextOf(t)[at[t]]
    BY <1>1, CurrentOp
  <2>2. QED
    BY <2>1
<1>3. t \in 1..N
  <2>1. PICK j \in 1 .. at[0] - 1 : TextOf(0)[j] = Start(t)
    BY DEF ThreadsPlaced
  <2>2. TextOf(0) = phil_din_mutex[0] /\ ForksMain(TextOf(0))
    BY ForksMainText DEF Forked, TextOf, ThreadTest
  <2>3. at[0] \in 1..Len(TextOf(0)) /\ Len(TextOf(0)) = 3 * N + 1 /\ N \in 2..8
    BY <2>2, ThreadCounts DEF ThreadsPlaced, ForksMain
  <2>4. j \in 1..Len(TextOf(0))
    BY <2>3
  <2>5. TextOf(0)[j][1] = "thread" /\ TextOf(0)[j][2] = t
    BY <2>1 DEF Start
  <2>6. j \div 2 \in 1..N /\ TextOf(0)[j] = Start(j \div 2)
    BY <2>2, <2>4, <2>5, ForksPlace DEF Create
  <2>7. QED
    BY <2>5, <2>6 DEF Start
<1>4. Rounds(TextOf(t), PhilosopherRow(t), ROUND, 6, Exit(0))
  BY <1>1, PhilosopherTexts DEF Forked, TextOf, ThreadTest
<1>5. QED
  BY <1>1, <1>2, <1>3, <1>4, ThreadCounts, RoundPlace

LEMMA ForkFacts ==
    ASSUME NEW t \in 1..N
    PROVE  /\ MinFork(t) \in 0 .. N - 1 /\ MaxFork(t) \in 0 .. N - 1 /\ MinFork(t) # MaxFork(t)
           /\ \A i : /\ Turn(i) \in 1..2 => Grip(t, i) = {}
                     /\ Turn(i) = 3 => Grip(t, i) = {MinFork(t)}
                     /\ Turn(i) \in 4..5 => Grip(t, i) = {MinFork(t), MaxFork(t)}
                     /\ Turn(i) = 6 => Grip(t, i) = {MinFork(t)}
<1>1. N \in 2..8
  BY ThreadCounts
<1>2. MinFork(t) \in 0 .. N - 1 /\ MaxFork(t) \in 0 .. N - 1 /\ MinFork(t) # MaxFork(t)
  BY <1>1 DEF MinFork, MaxFork
<1>3. \A i : /\ Turn(i) \in 1..2 => Grip(t, i) = {}
             /\ Turn(i) = 3 => Grip(t, i) = {MinFork(t)}
             /\ Turn(i) \in 4..5 => Grip(t, i) = {MinFork(t), MaxFork(t)}
             /\ Turn(i) = 6 => Grip(t, i) = {MinFork(t)}
  BY DEF Grip
<1>4. QED
  BY <1>2, <1>3

(* Main waits at a join or has exited when a first sleep ends.             *)
LEMMA ForksSettled ==
    ASSUME ThreadsPlaced, WaitersPlaced, Forked, Settled(0)
    PROVE  at[0] > 2 * N
<1>1. 0 \in Thread
  BY DEF Thread
<1>2. at[0] > 2 * N \/ Instruction(0)[1] \in {"create", "thread"}
  BY ForksMainAt DEF Create, Start
<1>3. SUFFICES ASSUME Instruction(0)[1] \in {"create", "thread"}, at[0] <= 2 * N PROVE FALSE
  BY <1>2, ThreadCounts, ForksMainAt
<1>4. 0 \notin exited \cup blocked
  BY <1>3 DEF WaitersPlaced, EndsThread
<1>5. 0 \notin asleep
  <2>1. SUFFICES ASSUME NEW i \in 1..Len(TextOf(0)), TextOf(0)[i][1] = "wait" PROVE FALSE
    BY DEF WaitersPlaced
  <2>2. ForksMain(TextOf(0))
    BY ForksMainText DEF Forked, TextOf, ThreadTest
  <2>3. QED
    BY <2>1, <2>2, ForksPlace DEF Create, Start
<1>6. QED
  BY <1>3, <1>4, <1>5 DEF Settled

LEMMA NoGrip ==
    ASSUME NEW t \in 1..8, NEW i \in Nat, i <= 1
    PROVE  Grip(t, i) = {}
<1>1. i = 0 \/ i = 1
  OBVIOUS
<1>2. Turn(i) = 1
  BY <1>1, TurnFacts
<1>3. QED
  BY <1>2 DEF Grip

LEMMA HalfFacts ==
    ASSUME NEW n \in Nat, NEW i \in Nat, i <= 2 * n
    PROVE  /\ i % 2 = 1 => i + 1 <= 2 * n /\ (i + 1) \div 2 = i \div 2 + 1
           /\ i % 2 = 0 => (i + 1) \div 2 = i \div 2 /\ (i + 1 > 2 * n => i \div 2 = n)
<1> DEFINE h == i \div 2
<1>1. h \in Nat /\ (i = 2 * h \/ i = 2 * h + 1) /\ (i % 2 = 1 <=> i = 2 * h + 1)
  OBVIOUS
<1>2. (i + 1) \div 2 = IF i = 2 * h THEN h ELSE h + 1
  OBVIOUS
<1> HIDE DEF h
<1>3. i % 2 = 0 => i = 2 * h
  BY <1>1
<1>4. /\ i = 2 * h + 1 => i + 1 <= 2 * n
      /\ i = 2 * h => (i + 1 > 2 * n => h = n)
  BY <1>1
<1>5. i \div 2 = h
  BY DEF h
<1>6. QED
  BY <1>1, <1>2, <1>3, <1>4, <1>5

LEMMA ForksMainStep ==
    ASSUME ThreadsPlaced, WaitersPlaced, Forked, ForksInv, units \in Seq(Nat), ThreadStep(0)
    PROVE  ForksInv'
<1> USE DEF Forked
<1>1. N \in 2..8 /\ 0 \in Thread /\ at \in [Thread -> Nat] /\ 1..8 \subseteq Thread \ {0}
  BY ThreadCounts DEF ThreadsPlaced, Thread
<1>2. /\ at[0] \in 1..3 * N + 1
      /\ \/ at[0] <= 2 * N /\ at[0] % 2 = 1 /\ Instruction(0) = Create(1)
         \/ /\ at[0] <= 2 * N /\ at[0] % 2 = 0 /\ at[0] \div 2 \in 1..N
            /\ Instruction(0) = Start(at[0] \div 2)
         \/ at[0] > 2 * N /\ Instruction(0)[1] \in {"join", "exit"}
  BY ForksMainAt
<1>a. \A t \in 1..8 : at[t] \in Nat /\ t \in Thread /\ t # 0
  BY <1>1
<1>b. at[0] \in Nat
  BY <1>1
<1>c. N \in 2..8 /\ N \in Nat
  BY <1>1
<1>3. /\ Len(units) = IF at[0] <= 2 * N THEN at[0] \div 2 ELSE N
      /\ at[0] <= 2 * N => \A t \in 1..8 : at[t] <= 1
      /\ Exclusive(Grips, units, 0 .. Len(units) - 1)
  BY DEF ForksInv
<1>4. CASE at[0] <= 2 * N /\ at[0] % 2 = 1 /\ Instruction(0) = Create(1)
  <2>1. create(0) /\ Instruction(0)[2] = 1
    <3>1. Instruction(0)[1] = "create" /\ Instruction(0)[2] = 1
      BY <1>4 DEF Create
    <3>2. QED
      BY <1>1, <3>1, ActionOf
  <2>2. units' = Append(units, 1) /\ Advance(0, 1)
    BY <2>1 DEF create
  <2>3. at'[0] = at[0] + 1 /\ \A t \in 1..8 : at'[t] = at[t]
    BY <1>1, <2>2 DEF Advance
  <2>4. at'[0] <= 2 * N /\ at'[0] \div 2 = at[0] \div 2 + 1
    <3>1. at'[0] = at[0] + 1 /\ at[0] <= 2 * N /\ at[0] % 2 = 1
      BY <1>4, <2>3
    <3>2. /\ at[0] % 2 = 1 => at[0] + 1 <= 2 * N /\ (at[0] + 1) \div 2 = at[0] \div 2 + 1
          /\ at[0] % 2 = 0 => /\ (at[0] + 1) \div 2 = at[0] \div 2
                              /\ (at[0] + 1 > 2 * N => at[0] \div 2 = N)
      BY <1>b, <1>c, <3>1, HalfFacts, Zenon
    <3>3. QED
      BY <3>1, <3>2, Zenon
  <2>5. \A t \in 1..8 : at'[t] <= 1 /\ at'[t] \in Nat
    BY <1>a, <1>3, <1>4, <2>3
  <2>6. Len(units') = Len(units) + 1 /\ Len(units) \in Nat
    BY <2>2
  <2>7. \A r \in 0 .. Len(units') - 1 : units'[r + 1] \in {0, 1}
    <3> SUFFICES ASSUME NEW r \in 0 .. Len(units') - 1 PROVE units'[r + 1] \in {0, 1}
      OBVIOUS
    <3>1. CASE r = Len(units)
      BY <2>2, <2>6, <3>1
    <3>2. CASE r # Len(units)
      <4>1. r \in 0 .. Len(units) - 1 /\ r + 1 \in 1..Len(units)
        BY <2>6, <3>2
      <4>2. units[r + 1] \in {0, 1}
        BY <1>3, <4>1 DEF Exclusive
      <4>3. QED
        BY <2>2, <4>1, <4>2
    <3>3. QED
      BY <3>1, <3>2
  <2>8. \A t \in 1..8 : Grips'[t] = {}
    BY <2>5, NoGrip DEF Grips
  <2>9. Exclusive(Grips', units', 0 .. Len(units') - 1)
    BY <2>7, <2>8 DEF Exclusive
  <2>10. Len(units') = IF at'[0] <= 2 * N THEN at'[0] \div 2 ELSE N
    BY <1>3, <1>4, <2>4, <2>6
  <2>11. QED
    BY <2>5, <2>9, <2>10 DEF ForksInv
<1>5. ASSUME units' = units, \A t \in 1..8 : Grips'[t] = Grips[t]
      PROVE  Exclusive(Grips', units', 0 .. Len(units') - 1)
  BY <1>3, <1>5 DEF Exclusive
<1>6. CASE /\ at[0] <= 2 * N /\ at[0] % 2 = 0 /\ at[0] \div 2 \in 1..N
           /\ Instruction(0) = Start(at[0] \div 2)
  <2> DEFINE k == at[0] \div 2
  <2>1. thread_create(0) /\ Instruction(0)[2] = k /\ k \in 1..8 /\ k \in Thread \ {0}
    <3>1. Instruction(0)[1] = "thread" /\ Instruction(0)[2] = k
      BY <1>6 DEF Start
    <3>2. thread_create(0)
      BY <1>1, <3>1, ActionOf
    <3>3. k \in 1..8
      <4>1. k \in 1..N
        BY <1>6
      <4>2. 1..N \subseteq 1..8
        BY <1>c
      <4>3. QED
        BY <4>1, <4>2, Zenon
    <3>4. k \in Thread \ {0}
      BY <1>a, <3>3
    <3>5. QED
      BY <3>1, <3>2, <3>3, <3>4
  <2>2. UNCHANGED units /\ at' = [at EXCEPT ![0] = @ + 1, ![k] = 1]
    BY <2>1 DEF thread_create, Locks
  <2> HIDE DEF k
  <2>3. at'[0] = at[0] + 1 /\ \A t \in 1..8 : at'[t] = IF t = k THEN 1 ELSE at[t]
    BY <1>1, <2>1, <2>2
  <2>4. \A t \in 1..8 : at'[t] <= 1 /\ at[t] <= 1 /\ at'[t] \in Nat /\ at[t] \in Nat
    <3>1. \A t \in 1..8 : at[t] <= 1
      BY <1>3, <1>6
    <3> SUFFICES ASSUME NEW t \in 1..8
                 PROVE  at'[t] <= 1 /\ at[t] <= 1 /\ at'[t] \in Nat /\ at[t] \in Nat
      OBVIOUS
    <3>2. at[t] <= 1 /\ at[t] \in Nat
      BY <1>a, <3>1
    <3>3. at'[t] = 1 \/ at'[t] = at[t]
      BY <2>3
    <3>4. QED
      BY <3>2, <3>3
  <2>5. \A t \in 1..8 : Grips'[t] = Grips[t]
    BY <2>4, NoGrip DEF Grips
  <2>6. (IF at'[0] <= 2 * N THEN at'[0] \div 2 ELSE N) = at[0] \div 2
    <3>1. at'[0] = at[0] + 1 /\ at[0] <= 2 * N /\ at[0] % 2 = 0
      BY <1>6, <2>3
    <3>2. (at[0] + 1) \div 2 = at[0] \div 2 /\ (at[0] + 1 > 2 * N => at[0] \div 2 = N)
      BY <1>b, <1>c, <3>1, HalfFacts
    <3>3. at'[0] <= 2 * N \/ at[0] + 1 > 2 * N
      BY <1>b, <1>c, <3>1
    <3>4. QED
      BY <3>1, <3>2, <3>3
  <2>7. QED
    BY <1>3, <1>5, <1>6, <2>2, <2>4, <2>5, <2>6 DEF ForksInv
<1>7. CASE at[0] > 2 * N /\ Instruction(0)[1] \in {"join", "exit"}
  <2>1. waittid(0) \/ thread_exit(0)
    BY <1>1, <1>7, ActionOf
  <2>2. UNCHANGED units /\ (Advance(0, 1) \/ at' = at)
    BY <2>1 DEF waittid, thread_exit, ThreadExits, Locks
  <2>3. at'[0] >= at[0] /\ at'[0] \in Nat /\ \A t \in 1..8 : at'[t] = at[t]
    <3>1. CASE at' = at
      BY <1>b, <3>1
    <3>2. CASE at' = [at EXCEPT ![0] = at[0] + 1]
      <4>1. at'[0] = at[0] + 1 /\ \A t \in 1..8 : at'[t] = at[t]
        BY <1>1, <3>2
      <4>2. QED
        BY <1>b, <4>1
    <3>3. QED
      BY <2>2, <3>1, <3>2 DEF Advance
  <2>4. \A t \in 1..8 : Grips'[t] = Grips[t]
    BY <2>3 DEF Grips
  <2>5. ~(at'[0] <= 2 * N) /\ ~(at[0] <= 2 * N)
    <3>1. at'[0] >= at[0] /\ at'[0] \in Nat /\ at[0] > 2 * N
      BY <1>7, <2>3
    <3>2. QED
      BY <1>b, <1>c, <3>1
  <2>6. QED
    BY <1>3, <1>5, <2>2, <2>4, <2>5 DEF ForksInv
<1>8. QED
  BY <1>2, <1>4, <1>6, <1>7

LEMMA ForksKept ==
    ASSUME ForksInv, at[0] > 2 * N, units \in Seq(Nat), at \in [Thread -> Nat],
           at' \in [Thread -> Nat], at'[0] = at[0], Len(units') = Len(units),
           Exclusive(Grips', units', 0 .. N - 1)
    PROVE  ForksInv'
<1>1. 0 \in Thread /\ N \in Nat
  BY ThreadCounts DEF Thread
<1>2. ~(at[0] <= 2 * N) /\ ~(at'[0] <= 2 * N)
  <2>1. at[0] \in Nat
    BY <1>1
  <2>2. QED
    BY <1>1, <2>1
<1>3. Len(units) = N
  BY <1>2 DEF ForksInv
<1>4. QED
  BY <1>2, <1>3 DEF ForksInv

(* A philosopher takes a fork, puts one back or hands it on.               *)
LEMMA ForksTeamStep ==
    ASSUME ThreadsPlaced, WaitersPlaced, Forked, ForksInv, units \in Seq(Nat),
           NEW t \in 1..8, ThreadStep(t)
    PROVE  ForksInv'
<1>1. at[t] > 0 /\ t \in Thread /\ t \notin exited \cup blocked \cup asleep
  BY Acting
<1>2. /\ t \in 1..N /\ at[t] \in Nat \ {0} /\ t # 0
      /\ \/ Turn(at[t]) = 1 /\ Instruction(t) = Exit(0)
         \/ Instruction(t) = PhilosopherRow(t)[Turn(at[t])]
  BY <1>1, PhilosopherAt
<1>3. /\ MinFork(t) \in 0 .. N - 1 /\ MaxFork(t) \in 0 .. N - 1 /\ MinFork(t) # MaxFork(t)
      /\ \A i : /\ Turn(i) \in 1..2 => Grip(t, i) = {}
                /\ Turn(i) = 3 => Grip(t, i) = {MinFork(t)}
                /\ Turn(i) \in 4..5 => Grip(t, i) = {MinFork(t), MaxFork(t)}
                /\ Turn(i) = 6 => Grip(t, i) = {MinFork(t)}
  BY <1>2, ForkFacts
<1>4. /\ Turn(at[t]) \in 1..6
      /\ Turn(at[t] + 1) = IF Turn(at[t]) = 6 THEN 1 ELSE Turn(at[t]) + 1
  BY <1>2, TurnFacts
<1>5. N \in 2..8 /\ at \in [Thread -> Nat] /\ 0 \in Thread /\ 1..8 \subseteq Thread
  BY ThreadCounts DEF ThreadsPlaced, Thread
<1>a. \A s \in 1..8 : at[s] \in Nat /\ s \in Thread /\ s # 0
  <2>1. \A s \in 1..8 : s \in Thread /\ s # 0
    BY DEF Thread
  <2>2. QED
    BY <1>5, <2>1
<1>b. at[0] \in Nat
  BY <1>5
<1>c. N \in 2..8 /\ N \in Nat
  BY <1>5
<1>d. 0 .. N - 1 \in SUBSET Nat
  BY <1>c
<1>6. \A s \in 1..8 : Grips[s] = Grip(s, at[s]) /\ Grips'[s] = Grip(s, at'[s])
  BY DEF Grips
<1>7. ASSUME at[0] > 2 * N
      PROVE  Len(units) = N /\ Exclusive(Grips, units, 0 .. N - 1)
  <2>1. ~(at[0] <= 2 * N)
    BY <1>b, <1>c, <1>7
  <2>2. QED
    BY <2>1 DEF ForksInv
<1>8. at[t] > 1 => at[0] > 2 * N
  <2>1. at[0] > 2 * N \/ at[t] <= 1
    BY <1>b, <1>c DEF ForksInv
  <2>2. QED
    BY <1>2, <2>1
<1>9. ASSUME Moves(t)
      PROVE  /\ at' \in [Thread -> Nat] /\ at'[0] = at[0] /\ at'[t] = at[t] + 1
             /\ \A s \in 1..8 : s # t => at'[s] = at[s]
  <2>1. at' = [at EXCEPT ![t] = at[t] + 1] /\ at[t] + 1 \in Nat
    BY <1>2, <1>9 DEF Moves, Advance
  <2>2. QED
    BY <1>1, <1>2, <1>5, <1>a, <2>1
<1>10. CASE at' = at /\ UNCHANGED units
  BY <1>6, <1>10 DEF ForksInv, Grips
<1>11. ASSUME at[0] > 2 * N, NEW q \in 0 .. N - 1, Takes(t, q), q \notin Grips[t],
              Grip(t, at[t] + 1) = Grips[t] \cup {q}
       PROVE  ForksInv'
  <2>1. /\ units[q + 1] > 0 /\ units[q + 1] \in Nat /\ q \in Nat
        /\ units'[q + 1] = units[q + 1] - 1 /\ Len(units') = Len(units)
        /\ \A r \in Nat : r < Len(units) /\ r # q => units'[r + 1] = units[r + 1]
    <3>1. units[q + 1] > 0 /\ units' = [units EXCEPT ![q + 1] = units[q + 1] - 1]
      BY <1>11 DEF Takes, Free
    <3>2. q \in Nat /\ q < Len(units)
      <4>1. Len(units) = N
        BY <1>7, <1>11
      <4>2. q \in 0 .. N - 1
        BY <1>11
      <4>3. QED
        BY <1>c, <4>1, <4>2
    <3>3. units[q + 1] \in Nat
      BY <3>2, UnitsAfter
    <3>4. units[q + 1] - 1 \in Int
      BY <3>3
    <3>5. QED
      BY <3>1, <3>2, <3>3, <3>4, UnitsAfter
  <2>2. \A r \in (0 .. N - 1) \ {q} : units'[r + 1] = units[r + 1]
    <3>1. \A r \in 0 .. N - 1 : r \in Nat /\ r < Len(units)
      BY <1>c, <1>7, <1>11
    <3>2. QED
      BY <2>1, <3>1
  <2>3. Moves(t)
    BY <1>11 DEF Takes
  <2>4. Grips'[t] = Grips[t] \cup {q} /\ \A s \in 1..8 : s # t => Grips'[s] = Grips[s]
    BY <1>6, <1>9, <1>11, <2>3
  <2>5. Exclusive(Grips', units', 0 .. N - 1)
    <3>1. Relocks(Grips, units, Grips', units', t, q)
      BY <2>1, <2>4 DEF Relocks
    <3>2. QED
      BY <1>7, <1>11, <1>d, <2>2, <3>1, LockKept
  <2>6. at'[0] = at[0] /\ at' \in [Thread -> Nat]
    BY <1>9, <2>3
  <2>7. QED
    BY <1>5, <1>11, <2>1, <2>5, <2>6, ForksKept
<1>12. ASSUME at[0] > 2 * N, NEW q \in 0 .. N - 1, q \in Grips[t],
              Grip(t, at[t] + 1) = Grips[t] \ {q}, Instruction(t) = Up(q)
       PROVE  ForksInv'
  <2>1. Frees(t, q) \/ \E u \in Thread : Passes(t, q, u)
    BY <1>1, <1>12, UpStep
  <2>2. q \in Nat /\ q < Len(units) /\ units[q + 1] \in Nat
    <3>1. q \in Nat /\ q < Len(units)
      BY <1>5, <1>7, <1>12
    <3>2. QED
      BY <3>1, UnitsAfter
  <2>3. CASE Frees(t, q)
    <3>1. Moves(t) /\ units' = [units EXCEPT ![q + 1] = units[q + 1] + 1]
      BY <2>3 DEF Frees
    <3>2. /\ units'[q + 1] = units[q + 1] + 1 /\ Len(units') = Len(units)
          /\ \A r \in Nat : r < Len(units) /\ r # q => units'[r + 1] = units[r + 1]
      <4>1. units[q + 1] + 1 \in Int
        BY <2>2
      <4>2. QED
        BY <2>2, <3>1, <4>1, UnitsAfter
    <3>3. \A r \in (0 .. N - 1) \ {q} : units'[r + 1] = units[r + 1]
      <4>1. \A r \in 0 .. N - 1 : r \in Nat /\ r < Len(units)
        BY <1>c, <1>7, <1>12
      <4>2. QED
        BY <3>2, <4>1
    <3>4. Grips'[t] = Grips[t] \ {q} /\ \A s \in 1..8 : s # t => Grips'[s] = Grips[s]
      BY <1>6, <1>9, <1>12, <3>1
    <3>5. Exclusive(Grips', units', 0 .. N - 1)
      <4>1. Relocks(Grips, units, Grips', units', t, q)
        BY <1>12, <3>2, <3>4 DEF Relocks
      <4>2. QED
        BY <1>7, <1>12, <1>d, <3>3, <4>1, LockKept
    <3>6. at'[0] = at[0] /\ at' \in [Thread -> Nat]
      BY <1>9, <3>1
    <3>7. QED
      BY <1>5, <1>12, <3>2, <3>5, <3>6, ForksKept
  <2>4. ASSUME NEW u \in Thread, Passes(t, q, u) PROVE ForksInv'
    <3>1. /\ u \in Thread \ {t} /\ at[u] > 0 /\ units' = units
          /\ Instruction(u)[1] = "down" /\ Instruction(u)[2] = q
          /\ at' = [at EXCEPT ![t] = @ + 1, ![u] = @ + 1]
      BY <2>4 DEF Passes
    <3>2. u # 0
      <4>1. Instruction(0)[1] # "down"
        BY ForksMainAt DEF Create, Start
      <4>2. QED
        BY <3>1, <4>1
    <3>3. u \in 1..8
      BY <3>1, <3>2 DEF Thread
    <3>4. /\ u \in 1..N /\ at[u] \in Nat \ {0}
          /\ \/ Turn(at[u]) = 1 /\ Instruction(u) = Exit(0)
             \/ Instruction(u) = PhilosopherRow(u)[Turn(at[u])]
      BY <3>1, <3>3, PhilosopherAt
    <3>5. /\ Turn(at[u]) \in 1..6
          /\ Turn(at[u] + 1) = IF Turn(at[u]) = 6 THEN 1 ELSE Turn(at[u]) + 1
      BY <3>4, TurnFacts
    <3>6. \/ Turn(at[u]) = 2 /\ q = MinFork(u)
          \/ Turn(at[u]) = 3 /\ q = MaxFork(u)
      BY <3>1, <3>4, <3>5 DEF PhilosopherRow, Outlast, Down, Do, Up, Exit
    <3>7. Grip(u, at[u] + 1) = Grip(u, at[u]) \cup {q}
      BY <3>4, <3>5, <3>6, ForkFacts
    <3>8. /\ at' \in [Thread -> Nat] /\ at'[0] = at[0] /\ at'[t] = at[t] + 1
          /\ at'[u] = at[u] + 1 /\ \A s \in 1..8 : s # t /\ s # u => at'[s] = at[s]
      <4>1. at' = [at EXCEPT ![t] = at[t] + 1, ![u] = at[u] + 1]
        BY <3>1
      <4>2. at[t] + 1 \in Nat /\ at[u] + 1 \in Nat
        BY <1>2, <3>4
      <4>3. /\ t \in Thread /\ u \in Thread /\ 0 \in Thread /\ t # u /\ t # 0 /\ u # 0
            /\ \A s \in 1..8 : s \in Thread
        BY <1>1, <1>2, <1>5, <1>a, <3>1, <3>2
      <4>4. at \in [Thread -> Nat]
        BY <1>5
      <4>5. QED
        BY <4>1, <4>2, <4>3, <4>4
    <3>9. /\ Grips'[t] = Grips[t] \ {q} /\ Grips'[u] = Grips[u] \cup {q}
          /\ \A s \in 1..8 : s # t /\ s # u => Grips'[s] = Grips[s]
      BY <1>6, <1>12, <3>3, <3>7, <3>8
    <3>10. Exclusive(Grips', units', 0 .. N - 1)
      <4>1. u \in 1..8 \ {t}
        BY <3>1, <3>3
      <4>2. Exclusive(Grips, units, 0 .. N - 1)
        BY <1>7, <1>12
      <4>3. 0 .. N - 1 \in SUBSET Nat
        BY <1>5
      <4>4. Relocks(Grips, units, Grips', units', t, q)
        BY <1>12, <3>1, <3>9, <4>1 DEF Relocks
      <4>5. \A r \in (0 .. N - 1) \ {q} : units'[r + 1] = units[r + 1]
        BY <3>1
      <4>6. QED
        BY <1>12, <4>2, <4>3, <4>4, <4>5, LockKept
    <3>11. Len(units') = Len(units)
      BY <3>1
    <3>12. QED
      BY <1>5, <1>12, <3>8, <3>10, <3>11, ForksKept
  <2>5. QED
    BY <2>1, <2>3, <2>4
<1>13. ASSUME at[0] > 2 * N, Moves(t), units' = units, Grip(t, at[t] + 1) = Grips[t]
       PROVE  ForksInv'
  <2>1. \A s \in 1..8 : Grips'[s] = Grips[s]
    BY <1>6, <1>9, <1>13
  <2>2. Exclusive(Grips', units', 0 .. N - 1)
    BY <1>7, <1>13, <2>1 DEF Exclusive
  <2>3. at'[0] = at[0] /\ at' \in [Thread -> Nat] /\ Len(units') = Len(units)
    BY <1>9, <1>13
  <2>4. QED
    BY <1>5, <1>13, <2>2, <2>3, ForksKept
<1>14. CASE Turn(at[t]) = 1 /\ Instruction(t) = Exit(0)
  <2>1. thread_exit(t)
    BY <1>1, <1>14, ActionOf DEF Exit
  <2>2. QED
    BY <1>10, <2>1 DEF thread_exit, ThreadExits, Locks
<1>15. ASSUME NEW q \in 0 .. N - 1, Instruction(t) = Down(q), at[t] > 1, q \notin Grips[t],
              Grip(t, at[t] + 1) = Grips[t] \cup {q}
       PROVE  ForksInv'
  <2>1. ~Detecting
    BY DEF Forked, Detecting
  <2>2. Takes(t, q) \/ (at' = at /\ UNCHANGED units)
    BY <1>1, <1>15, <2>1, DownStep
  <2>3. QED
    BY <1>8, <1>10, <1>11, <1>15, <2>2
<1>16. CASE Instruction(t) = PhilosopherRow(t)[Turn(at[t])]
  <2>1. at[t] > 1 \/ Turn(at[t]) = 1
    <3>1. at[t] = 1 \/ at[t] > 1
      BY <1>2
    <3>2. QED
      BY <3>1, TurnFacts
  <2>2. CASE Turn(at[t]) = 1
    <3>1. Instruction(t) = Outlast({0})
      BY <1>16, <2>2 DEF PhilosopherRow
    <3>2. sleep(t) /\ Instruction(t)[2] = {0}
      BY <1>1, <3>1, ActionOf DEF Outlast
    <3>3. Settled(0) /\ Moves(t) /\ units' = units
      BY <3>2 DEF sleep, Moves, Locks
    <3>4. at[0] > 2 * N
      BY <3>3, ForksSettled
    <3>5. Grip(t, at[t] + 1) = Grips[t]
      <4>1. Turn(at[t]) \in 1..2 /\ Turn(at[t] + 1) \in 1..2
        BY <1>4, <2>2
      <4>2. QED
        BY <1>3, <1>6, <4>1
    <3>6. QED
      BY <1>13, <3>3, <3>4, <3>5
  <2>3. CASE Turn(at[t]) = 2
    <3>1. Instruction(t) = Down(MinFork(t))
      BY <1>16, <2>3 DEF PhilosopherRow
    <3>2. Grip(t, at[t] + 1) = Grips[t] \cup {MinFork(t)} /\ MinFork(t) \notin Grips[t]
      BY <1>3, <1>4, <1>6, <2>3
    <3>3. QED
      BY <1>3, <1>15, <2>1, <2>3, <3>1, <3>2
  <2>4. CASE Turn(at[t]) = 3
    <3>1. Instruction(t) = Down(MaxFork(t))
      BY <1>16, <2>4 DEF PhilosopherRow
    <3>2. Grip(t, at[t] + 1) = Grips[t] \cup {MaxFork(t)} /\ MaxFork(t) \notin Grips[t]
      BY <1>3, <1>4, <1>6, <2>4
    <3>3. QED
      BY <1>3, <1>15, <2>1, <2>4, <3>1, <3>2
  <2>5. CASE Turn(at[t]) = 4
    <3>1. Instruction(t) = Do("eat")
      BY <1>16, <2>5 DEF PhilosopherRow
    <3>2. eat(t)
      BY <1>1, <3>1, ActionOf DEF Do
    <3>3. Moves(t) /\ units' = units
      BY <3>2 DEF eat, Access, Moves, Locks
    <3>4. Grip(t, at[t] + 1) = Grips[t]
      <4>1. Turn(at[t]) \in 4..5 /\ Turn(at[t] + 1) \in 4..5
        BY <1>4, <2>5
      <4>2. QED
        BY <1>3, <1>6, <4>1
    <3>5. QED
      BY <1>8, <1>13, <2>1, <2>5, <3>3, <3>4
  <2>6. CASE Turn(at[t]) = 5
    <3>1. Instruction(t) = Up(MaxFork(t))
      BY <1>16, <2>6 DEF PhilosopherRow
    <3>2. Grip(t, at[t] + 1) = Grips[t] \ {MaxFork(t)} /\ MaxFork(t) \in Grips[t]
      BY <1>3, <1>4, <1>6, <2>6
    <3>3. QED
      BY <1>3, <1>8, <1>12, <2>1, <2>6, <3>1, <3>2
  <2>7. CASE Turn(at[t]) = 6
    <3>1. Instruction(t) = Up(MinFork(t))
      BY <1>16, <2>7 DEF PhilosopherRow
    <3>2. Grip(t, at[t] + 1) = Grips[t] \ {MinFork(t)} /\ MinFork(t) \in Grips[t]
      BY <1>3, <1>4, <1>6, <2>7
    <3>3. QED
      BY <1>3, <1>8, <1>12, <2>1, <2>7, <3>1, <3>2
  <2>8. QED
    BY <1>4, <2>2, <2>3, <2>4, <2>5, <2>6, <2>7
<1>17. QED
  BY <1>2, <1>14, <1>16

LEMMA ForksApart ==
    ASSUME ThreadsPlaced, Forked, ForksInv
    PROVE  NeighboursEatApart
<1>1. ASSUME NEW s \in Thread, Eating(s)
      PROVE  /\ s \in 1..N /\ Grip(s, at[s]) = {MinFork(s), MaxFork(s)} /\ at[s] > 1
             /\ MinFork(s) \in 0 .. N - 1 /\ MaxFork(s) \in 0 .. N - 1
  <2>1. at[s] > 0 /\ Instruction(s)[1] = "eat"
    BY <1>1 DEF Eating
  <2>2. s # 0
    BY <2>1, ForksMainAt DEF Create, Start
  <2>3. s \in 1..8
    BY <2>2 DEF Thread
  <2>4. /\ s \in 1..N /\ at[s] \in Nat \ {0}
        /\ \/ Turn(at[s]) = 1 /\ Instruction(s) = Exit(0)
           \/ Instruction(s) = PhilosopherRow(s)[Turn(at[s])]
    BY <2>1, <2>3, PhilosopherAt
  <2>5. Turn(at[s]) \in 1..6 /\ Turn(1) = 1
    BY <2>4, TurnFacts
  <2>6. Turn(at[s]) = 4
    BY <2>1, <2>4, <2>5 DEF PhilosopherRow, Outlast, Down, Do, Up, Exit
  <2>7. at[s] > 1
    BY <2>4, <2>5, <2>6
  <2>8. QED
    BY <2>4, <2>6, <2>7, ForkFacts
<1>2. N \in 2..8
  BY ThreadCounts
<1>3. ASSUME NEW s \in Thread, NEW t \in Thread, s # t, Eating(s), Eating(t)
      PROVE  {MinFork(s), MaxFork(s)} \cap {MinFork(t), MaxFork(t)} = {}
  <2>1. s \in 1..8 /\ t \in 1..8
    BY <1>1, <1>2, <1>3
  <2>2. at[0] > 2 * N
    <3>1. at[0] \in Nat /\ at[s] > 1 /\ at[s] \in Nat
      <4>1. 0 \in Thread /\ at \in [Thread -> Nat]
        BY DEF ThreadsPlaced, Thread
      <4>2. QED
        BY <1>1, <1>3, <4>1
    <3>2. at[0] <= 2 * N => \A u \in 1..8 : at[u] <= 1
      BY DEF ForksInv
    <3>3. ~(at[s] <= 1)
      BY <3>1
    <3>4. ~(at[0] <= 2 * N)
      BY <2>1, <3>2, <3>3
    <3>5. QED
      BY <1>2, <3>1, <3>4
  <2>3. Exclusive(Grips, units, 0 .. N - 1)
    <3>1. at[0] \in Nat
      BY DEF ThreadsPlaced, Thread
    <3>2. Len(units) = N
      BY <1>2, <2>2, <3>1 DEF ForksInv
    <3>3. QED
      BY <3>2 DEF ForksInv
  <2>4. Grips[s] = {MinFork(s), MaxFork(s)} /\ Grips[t] = {MinFork(t), MaxFork(t)}
    BY <1>1, <1>3, <2>1 DEF Grips
  <2>5. ASSUME NEW r \in Grips[s] \cap Grips[t] PROVE FALSE
    <3>1. r \in 0 .. N - 1
      BY <1>1, <1>3, <2>4, <2>5
    <3>2. QED
      BY <1>3, <2>1, <2>3, <2>5, <3>1 DEF Exclusive
  <2>6. QED
    BY <2>4, <2>5
<1>4. QED
  BY <1>3 DEF NeighboursEatApart

-----------------------------------------------------------------------------
(*                    The first thread and the second                      *)

PairTests == {"sync_sem", "test_condvar"}

LEMMA PairMainAt ==
    ASSUME ThreadsPlaced, test \in PairTests
    PROVE  /\ at[0] \in 1..6 /\ at[0] \in Nat /\ \A k \in 3..8 : at[k] = 0
           /\ at[0] = 1 => Instruction(0) = Create(IF test = "sync_sem" THEN 0 ELSE 1)
           /\ at[0] \in 2..3 => Instruction(0) = Start(at[0] - 1)
           /\ at[0] \in 4..5 => Instruction(0)[1] = "join"
           /\ at[0] = 6 => Instruction(0)[1] = "exit"
<1> DEFINE n == IF test = "sync_sem" THEN 0 ELSE 1
           text == <<Create(n), Start(1), Start(2), Join(1), Join(2), Exit(0)>>
<1>1. TextOf(0) = text
  BY DEF TextOf, ThreadTest, PairTests, sync_sem, test_condvar, Thread
<1>2. /\ Len(text) = 6
      /\ text[1] = Create(n) /\ text[2] = Start(1) /\ text[3] = Start(2)
      /\ text[4] = Join(1) /\ text[5] = Join(2) /\ text[6] = Exit(0)
  OBVIOUS
<1> HIDE DEF text
<1>3. at[0] \in 1..6 /\ at[0] \in Nat /\ Instruction(0) = text[at[0]]
  BY <1>1, <1>2 DEF ThreadsPlaced, Instruction, TextOf
<1>4. ASSUME NEW k \in 3..8 PROVE at[k] = 0
  <2>1. k \in 1..8 /\ k \in Thread /\ at[k] \in Nat
    <3>1. k \in 1..8
      BY <1>4
    <3>2. k \in Thread
      BY <3>1 DEF Thread
    <3>3. at[k] \in Nat
      BY <3>2 DEF ThreadsPlaced
    <3>4. QED
      BY <3>1, <3>2, <3>3
  <2>2. SUFFICES ASSUME at[k] > 0 PROVE FALSE
    BY <2>1
  <2>3. PICK j \in 1 .. at[0] - 1 : text[j] = Start(k)
    BY <1>1, <2>1, <2>2 DEF ThreadsPlaced
  <2>4. j \in 1..6
    BY <1>3
  <2>5. text[j][1] = "thread" /\ text[j][2] = k
    BY <2>3 DEF Start
  <2>6. QED
    BY <1>2, <2>4, <2>5 DEF Create, Start, Join, Exit
<1>5. /\ at[0] = 1 => Instruction(0) = Create(n)
      /\ at[0] \in 2..3 => Instruction(0) = Start(at[0] - 1)
      /\ at[0] \in 4..5 => Instruction(0)[1] = "join"
      /\ at[0] = 6 => Instruction(0)[1] = "exit"
  BY <1>2, <1>3 DEF Join, Exit
<1>6. QED
  BY <1>3, <1>4, <1>5

LEMMA SemAt ==
    ASSUME ThreadsPlaced, test = "sync_sem"
    PROVE  /\ at[1] > 0 => /\ at[1] \in 1..3
                           /\ at[1] = 1 => Instruction(1) = Do("work")
                           /\ at[1] = 2 => Instruction(1) = Up(0)
                           /\ at[1] = 3 => Instruction(1) = Exit(0)
           /\ at[2] > 0 => /\ at[2] \in 1..2
                           /\ at[2] = 1 => Instruction(2) = Down(0)
                           /\ at[2] = 2 => Instruction(2) = Exit(0)
<1>1. 1 \in Thread /\ 2 \in Thread
  BY DEF Thread
<1>2. /\ TextOf(1) = <<Do("work"), Up(0), Exit(0)>>
      /\ TextOf(2) = <<Down(0), Exit(0)>>
  BY <1>1 DEF TextOf, ThreadTest, sync_sem
<1>3. /\ at[1] > 0 => at[1] \in 1..3 /\ Instruction(1) = TextOf(1)[at[1]]
      /\ at[2] > 0 => at[2] \in 1..2 /\ Instruction(2) = TextOf(2)[at[2]]
  BY <1>1, <1>2, CurrentOp
<1>4. QED
  BY <1>2, <1>3

LEMMA CondvarAt ==
    ASSUME ThreadsPlaced, test = "test_condvar"
    PROVE  /\ at[1] > 0 => /\ at[1] \in 1..5
                           /\ at[1] = 1 => Instruction(1) = Down(0)
                           /\ at[1] = 2 => Instruction(1) = Do("work")
                           /\ at[1] = 3 => Instruction(1) = Do("signal")
                           /\ at[1] = 4 => Instruction(1) = Up(0)
                           /\ at[1] = 5 => Instruction(1) = Exit(0)
           /\ at[2] > 0 => /\ at[2] \in 1..5
                           /\ at[2] = 1 => Instruction(2) = Down(0)
                           /\ at[2] = 2 => Instruction(2) = Do("test")
                           /\ at[2] = 3 => Instruction(2) = Do("wait")
                           /\ at[2] = 4 => Instruction(2) = Up(0)
                           /\ at[2] = 5 => Instruction(2) = Exit(0)
<1>1. 1 \in Thread /\ 2 \in Thread
  BY DEF Thread
<1>2. /\ TextOf(1) = <<Down(0), Do("work"), Do("signal"), Up(0), Exit(0)>>
      /\ TextOf(2) = <<Down(0), Do("test"), Do("wait"), Up(0), Exit(0)>>
  BY <1>1 DEF TextOf, ThreadTest, test_condvar, condvar_first, condvar_second
<1>3. /\ at[1] > 0 => at[1] \in 1..5 /\ Instruction(1) = TextOf(1)[at[1]]
      /\ at[2] > 0 => at[2] \in 1..5 /\ Instruction(2) = TextOf(2)[at[2]]
  BY <1>1, <1>2, CurrentOp
<1>4. QED
  BY <1>2, <1>3

(* In sync_sem there is a unit only when the work is done; in test_condvar *)
(* the second thread passes the loop only then.                            *)
PairInv ==
    /\ test = "sync_sem" =>
          /\ Len(units) = IF at[0] = 1 THEN 0 ELSE 1
          /\ Len(units) = 1 /\ units[1] > 0 => A = 1
          /\ at[1] >= 2 \/ at[2] >= 2 => A = 1
    /\ test = "test_condvar" => A \in {0, 1} /\ (at[2] >= 4 => A = 1)

LEMMA PairStart ==
    ASSUME ThreadsPlaced, test \in PairTests, PairInv, units \in Seq(Nat), ThreadStep(0)
    PROVE  PairInv'
<1>1. 0 \in Thread /\ 1 \in Thread /\ 2 \in Thread /\ at \in [Thread -> Nat]
  BY DEF Thread, ThreadsPlaced
<1>2. /\ at[0] \in 1..6 /\ at[0] \in Nat
      /\ at[0] = 1 => Instruction(0) = Create(IF test = "sync_sem" THEN 0 ELSE 1)
      /\ at[0] \in 2..3 => Instruction(0) = Start(at[0] - 1)
      /\ at[0] \in 4..5 => Instruction(0)[1] = "join"
      /\ at[0] = 6 => Instruction(0)[1] = "exit"
  BY PairMainAt
<1>a. at[1] \in Nat /\ at[2] \in Nat
  BY <1>1
<1>3. CASE at[0] = 1
  <2>1. Instruction(0)[1] = "create" /\ Instruction(0)[2] = IF test = "sync_sem" THEN 0 ELSE 1
    BY <1>2, <1>3 DEF Create
  <2>2. create(0)
    BY <1>1, <2>1, ActionOf
  <2>3. /\ units' = Append(units, Instruction(0)[2]) /\ Advance(0, 1)
        /\ UNCHANGED <<test, A>>
    BY <2>2 DEF create, Shared
  <2>4. at'[0] = 2 /\ at'[1] = at[1] /\ at'[2] = at[2]
    BY <1>1, <1>3, <2>3 DEF Advance
  <2>5. ASSUME test = "sync_sem"
        PROVE  Len(units') = 1 /\ units'[1] = 0
    <3>1. Len(units) = 0 /\ Instruction(0)[2] = 0
      BY <1>3, <2>1, <2>5 DEF PairInv
    <3>2. QED
      BY <2>3, <3>1
  <2>6. QED
    BY <2>3, <2>4, <2>5 DEF PairInv
<1>4. ASSUME at[0] # 1, at'[0] # 1, UNCHANGED <<test, A, units>>,
             at'[1] = at[1] \/ at'[1] = 1, at'[2] = at[2] \/ at'[2] = 1
      PROVE  PairInv'
  BY <1>a, <1>4 DEF PairInv
<1>5. CASE at[0] \in 2..3
  <2> DEFINE k == at[0] - 1
  <2>1. Instruction(0)[1] = "thread" /\ Instruction(0)[2] = k
    BY <1>2, <1>5 DEF Start
  <2>2. thread_create(0)
    BY <1>1, <2>1, ActionOf
  <2>3. at' = [at EXCEPT ![0] = @ + 1, ![k] = 1] /\ UNCHANGED <<test, A, units>>
    BY <2>1, <2>2 DEF thread_create, Locks, Shared
  <2>4. k \in 1..2 /\ at[0] + 1 # 1 /\ at[0] # 1
    BY <1>5
  <2> HIDE DEF k
  <2>5. at'[0] = at[0] + 1 /\ at'[1] = (IF k = 1 THEN 1 ELSE at[1])
        /\ at'[2] = (IF k = 2 THEN 1 ELSE at[2])
    BY <1>1, <2>3, <2>4
  <2>6. QED
    BY <1>4, <2>3, <2>4, <2>5
<1>6. CASE at[0] \in 4..6
  <2>1. waittid(0) \/ thread_exit(0)
    BY <1>1, <1>2, <1>6, ActionOf
  <2>2. (Advance(0, 1) \/ at' = at) /\ UNCHANGED <<test, A, units>>
    BY <2>1 DEF waittid, thread_exit, ThreadExits, Locks, Shared
  <2>3. at'[0] \in {at[0] + 1, at[0]} /\ at'[1] = at[1] /\ at'[2] = at[2]
    BY <1>1, <2>2 DEF Advance
  <2>4. at'[0] # 1 /\ at[0] # 1
    BY <1>6, <2>3
  <2>5. QED
    BY <1>4, <2>2, <2>3, <2>4
<1>7. QED
  BY <1>2, <1>3, <1>5, <1>6

LEMMA SemStep ==
    ASSUME ThreadsPlaced, WaitersPlaced, test = "sync_sem", PairInv, units \in Seq(Nat),
           NEW t \in 1..8, ThreadStep(t)
    PROVE  PairInv'
<1>1. at[t] > 0 /\ t \notin exited \cup blocked \cup asleep /\ t \in Thread
  BY Acting
<1>2. 0 \in Thread /\ 1 \in Thread /\ 2 \in Thread /\ at \in [Thread -> Nat] /\ ~Detecting
  BY DEF Thread, ThreadsPlaced, Detecting
<1>3. at[0] \in 2..6 /\ t \in {1, 2}
  <2>1. at[0] \in 1..6 /\ \A k \in 3..8 : at[k] = 0
    BY PairMainAt DEF PairTests
  <2>2. t \in {1, 2}
    BY <1>1, <2>1
  <2>3. PICK j \in 1 .. at[0] - 1 : TRUE
    BY <1>1 DEF ThreadsPlaced
  <2>4. QED
    BY <2>1, <2>2, <2>3
<1>4. /\ Len(units) = 1 /\ (units[1] > 0 => A = 1) /\ (at[1] >= 2 \/ at[2] >= 2 => A = 1)
  BY <1>3 DEF PairInv
<1>a. at[0] \in Nat /\ at[1] \in Nat /\ at[2] \in Nat
  BY <1>2
<1>5. ASSUME at'[0] = at[0], Len(units') = 1, test' = test, A' = 1
      PROVE  PairInv'
  BY <1>3, <1>5 DEF PairInv
<1>6. CASE t = 1
  <2>1. /\ at[1] \in 1..3
        /\ at[1] = 1 => Instruction(1) = Do("work")
        /\ at[1] = 2 => Instruction(1) = Up(0)
        /\ at[1] = 3 => Instruction(1) = Exit(0)
    BY <1>1, <1>6, SemAt
  <2>2. CASE at[1] = 1
    <3>1. work(1)
      <4>1. Instruction(1)[1] = "work"
        BY <2>1, <2>2 DEF Do
      <4>2. QED
        BY <1>2, <1>6, <4>1, ActionOf
    <3>2. A' = 1 /\ Advance(1, 1) /\ UNCHANGED <<test, units>>
      BY <3>1 DEF work, Access, Locks
    <3>3. at'[0] = at[0]
      BY <1>2, <3>2 DEF Advance
    <3>4. QED
      BY <1>4, <1>5, <3>2, <3>3
  <2>3. CASE at[1] = 2
    <3>1. /\ Frees(1, 0) \/ \E u \in Thread : Passes(1, 0, u)
          /\ UNCHANGED <<test, Shared>>
      BY <1>1, <1>6, <2>1, <2>3, UpStep
    <3>2. A' = 1 /\ test' = test
      BY <1>4, <2>3, <3>1 DEF Shared
    <3>3. CASE Frees(1, 0)
      <4>1. units' = [units EXCEPT ![0 + 1] = units[1] + 1] /\ Advance(1, 1)
        BY <3>3 DEF Frees, Moves
      <4>2. units[1] + 1 \in Int /\ 0 \in Nat /\ 0 < Len(units)
        BY <1>4
      <4>3. Len(units') = 1
        BY <1>4, <4>1, <4>2, UnitsAfter
      <4>4. at'[0] = at[0]
        BY <1>2, <4>1 DEF Advance
      <4>5. QED
        BY <1>5, <3>2, <4>3, <4>4
    <3>4. CASE \E u \in Thread : Passes(1, 0, u)
      <4>1. PICK u \in Thread : Passes(1, 0, u)
        BY <3>4
      <4>2. u # 0
        <5>1. Instruction(0)[1] # "down"
          BY PairMainAt DEF PairTests, Create, Start
        <5>2. QED
          BY <4>1, <5>1 DEF Passes
      <4>3. at'[0] = at[0] /\ units' = units
        BY <1>2, <4>1, <4>2 DEF Passes
      <4>4. QED
        BY <1>4, <1>5, <3>2, <4>3
    <3>5. QED
      BY <3>1, <3>3, <3>4
  <2>4. CASE at[1] = 3
    <3>1. thread_exit(1)
      <4>1. Instruction(1)[1] = "exit"
        BY <2>1, <2>4 DEF Exit
      <4>2. QED
        BY <1>2, <1>6, <4>1, ActionOf
    <3>2. UNCHANGED <<test, at, units, A>>
      BY <3>1 DEF thread_exit, ThreadExits, Locks, Shared
    <3>3. QED
      BY <3>2 DEF PairInv
  <2>5. QED
    BY <2>1, <2>2, <2>3, <2>4
<1>7. CASE t = 2
  <2>1. /\ at[2] \in 1..2
        /\ at[2] = 1 => Instruction(2) = Down(0)
        /\ at[2] = 2 => Instruction(2) = Exit(0)
    BY <1>1, <1>7, SemAt
  <2>2. CASE at[2] = 1
    <3>1. /\ Takes(2, 0) \/ (at' = at /\ UNCHANGED units)
          /\ UNCHANGED <<test, Shared>>
      BY <1>2, <1>7, <2>1, <2>2, DownStep
    <3>2. A' = A /\ test' = test
      BY <3>1 DEF Shared
    <3>3. CASE Takes(2, 0)
      <4>1. units' = [units EXCEPT ![0 + 1] = units[1] - 1] /\ Advance(2, 1) /\ units[1] > 0
        BY <3>3 DEF Takes, Moves, Free
      <4>2. 0 \in Nat /\ 0 < Len(units)
        BY <1>4
      <4>3. units[0 + 1] \in Nat
        BY <4>2, UnitsAfter
      <4>4. units[1] - 1 \in Int
        BY <4>3
      <4>5. Len(units') = 1
        BY <1>4, <4>1, <4>2, <4>4, UnitsAfter
      <4>6. at'[0] = at[0]
        BY <1>2, <4>1 DEF Advance
      <4>7. QED
        BY <1>4, <1>5, <3>2, <4>1, <4>5, <4>6
    <3>4. CASE at' = at /\ UNCHANGED units
      BY <3>2, <3>4 DEF PairInv
    <3>5. QED
      BY <3>1, <3>3, <3>4
  <2>3. CASE at[2] = 2
    <3>1. thread_exit(2)
      <4>1. Instruction(2)[1] = "exit"
        BY <2>1, <2>3 DEF Exit
      <4>2. QED
        BY <1>2, <1>7, <4>1, ActionOf
    <3>2. UNCHANGED <<test, at, units, A>>
      BY <3>1 DEF thread_exit, ThreadExits, Locks, Shared
    <3>3. QED
      BY <3>2 DEF PairInv
  <2>4. QED
    BY <2>1, <2>2, <2>3
<1>8. QED
  BY <1>3, <1>6, <1>7

LEMMA CondvarStep ==
    ASSUME ThreadsPlaced, WaitersPlaced, test = "test_condvar", PairInv,
           NEW t \in 1..8, ThreadStep(t)
    PROVE  PairInv'
<1>1. at[t] > 0 /\ t \notin exited \cup blocked \cup asleep /\ t \in Thread
  BY Acting
<1>2. 0 \in Thread /\ 1 \in Thread /\ 2 \in Thread /\ at \in [Thread -> Nat] /\ ~Detecting
  BY DEF Thread, ThreadsPlaced, Detecting
<1>3. t \in {1, 2}
  <2>1. \A k \in 3..8 : at[k] = 0
    BY PairMainAt DEF PairTests
  <2>2. QED
    BY <1>1, <2>1
<1>4. A \in {0, 1} /\ (at[2] >= 4 => A = 1)
  BY DEF PairInv
<1>a. at[1] \in Nat /\ at[2] \in Nat
  BY <1>2
<1>5. ASSUME test' = test, A' = A \/ A' = 1, at'[2] >= 4 => at[2] >= 4 \/ A' = 1
      PROVE  PairInv'
  BY <1>4, <1>5 DEF PairInv
<1>6. ASSUME NEW u \in Thread, at[u] > 0, Instruction(u)[1] = "down"
      PROVE  u \in 1..2 /\ at[u] = 1
  <2>1. u # 0 /\ \A k \in 3..8 : at[k] = 0
    BY <1>6, PairMainAt DEF PairTests, Create, Start
  <2>2. u \in 1..2
    BY <1>6, <2>1 DEF Thread
  <2>3. QED
    BY <1>6, <2>2, CondvarAt DEF Do, Up, Exit
<1>7. CASE t = 1
  <2>1. /\ at[1] \in 1..5
        /\ at[1] = 1 => Instruction(1) = Down(0)
        /\ at[1] = 2 => Instruction(1) = Do("work")
        /\ at[1] = 3 => Instruction(1) = Do("signal")
        /\ at[1] = 4 => Instruction(1) = Up(0)
        /\ at[1] = 5 => Instruction(1) = Exit(0)
    BY <1>1, <1>7, CondvarAt
  <2>2. CASE at[1] = 1
    <3>1. /\ Takes(1, 0) \/ at' = at
          /\ UNCHANGED <<test, Shared>>
      BY <1>2, <1>7, <2>1, <2>2, DownStep
    <3>2. A' = A /\ test' = test /\ (Advance(1, 1) \/ at' = at)
      BY <3>1 DEF Shared, Takes, Moves
    <3>3. at'[2] = at[2]
      BY <1>2, <3>2 DEF Advance
    <3>4. QED
      BY <1>5, <3>2, <3>3
  <2>3. CASE at[1] \in {2, 3, 5}
    <3>1. work(1) \/ condvar_signal(1) \/ thread_exit(1)
      <4>1. Instruction(1)[1] \in {"work", "signal", "exit"}
        BY <2>1, <2>3 DEF Do, Exit
      <4>2. QED
        BY <1>2, <1>7, <4>1, ActionOf
    <3>2. (A' = A \/ A' = 1) /\ test' = test /\ (Advance(1, 1) \/ at' = at)
      BY <3>1 DEF work, condvar_signal, thread_exit, ThreadExits, Access, Shared
    <3>3. at'[2] = at[2]
      BY <1>2, <3>2 DEF Advance
    <3>4. QED
      BY <1>5, <3>2, <3>3
  <2>4. CASE at[1] = 4
    <3>1. /\ Frees(1, 0) \/ \E u \in Thread : Passes(1, 0, u)
          /\ UNCHANGED <<test, Shared>>
      BY <1>1, <1>7, <2>1, <2>4, UpStep
    <3>2. A' = A /\ test' = test
      BY <3>1 DEF Shared
    <3>3. CASE Frees(1, 0)
      <4>1. at'[2] = at[2]
        BY <1>2, <3>3 DEF Frees, Moves, Advance
      <4>2. QED
        BY <1>5, <3>2, <4>1
    <3>4. CASE \E u \in Thread : Passes(1, 0, u)
      <4>1. PICK u \in Thread : Passes(1, 0, u)
        BY <3>4
      <4>2. u = 2 /\ at[2] = 1
        BY <1>6, <4>1 DEF Passes
      <4>3. at'[2] = 2
        BY <1>2, <4>1, <4>2 DEF Passes
      <4>4. QED
        BY <1>5, <3>2, <4>3
    <3>5. QED
      BY <3>1, <3>3, <3>4
  <2>5. QED
    BY <2>1, <2>2, <2>3, <2>4
<1>8. CASE t = 2
  <2>1. /\ at[2] \in 1..5
        /\ at[2] = 1 => Instruction(2) = Down(0)
        /\ at[2] = 2 => Instruction(2) = Do("test")
        /\ at[2] = 3 => Instruction(2) = Do("wait")
        /\ at[2] = 4 => Instruction(2) = Up(0)
        /\ at[2] = 5 => Instruction(2) = Exit(0)
    BY <1>1, <1>8, CondvarAt
  <2>2. CASE at[2] = 1
    <3>1. /\ Takes(2, 0) \/ at' = at
          /\ UNCHANGED <<test, Shared>>
      BY <1>2, <1>8, <2>1, <2>2, DownStep
    <3>2. A' = A /\ test' = test /\ (Advance(2, 1) \/ at' = at)
      BY <3>1 DEF Shared, Takes, Moves
    <3>3. at'[2] \in {1, 2}
      BY <1>2, <2>2, <3>2 DEF Advance
    <3>4. QED
      BY <1>5, <3>2, <3>3
  <2>3. CASE at[2] = 2
    <3>1. test_A(2)
      <4>1. Instruction(2)[1] = "test"
        BY <2>1, <2>3 DEF Do
      <4>2. QED
        BY <1>2, <1>8, <4>1, ActionOf
    <3>2. A' = A /\ test' = test /\ Advance(2, IF A = 0 THEN 1 ELSE 2)
      BY <3>1 DEF test_A, Access, Shared
    <3>3. at'[2] = 2 + (IF A = 0 THEN 1 ELSE 2)
      BY <1>2, <2>3, <3>2 DEF Advance
    <3>4. A = 0 \/ A' = 1
      BY <1>4, <3>2
    <3>5. QED
      BY <1>5, <3>2, <3>3, <3>4
  <2>4. CASE at[2] = 3
    <3>1. condvar_wait(2)
      <4>1. Instruction(2)[1] = "wait"
        BY <2>1, <2>4 DEF Do
      <4>2. QED
        BY <1>2, <1>8, <4>1, ActionOf
    <3>2. A' = A /\ test' = test /\ GiveBack(2, 0, -2)
      BY <3>1 DEF condvar_wait, Shared
    <3>3. \/ Advance(2, -2)
          \/ \E u \in blocked : at' = [at EXCEPT ![2] = @ + -2, ![u] = @ + 1]
      BY <3>2 DEF GiveBack
    <3>4. at'[2] = 3 + -2
      <4>1. CASE Advance(2, -2)
        BY <1>2, <2>4, <4>1 DEF Advance
      <4>2. ASSUME NEW u \in blocked, at' = [at EXCEPT ![2] = @ + -2, ![u] = @ + 1]
            PROVE  at'[2] = 3 + -2
        <5>1. u # 2
          BY <1>1, <1>8
        <5>2. QED
          BY <1>2, <2>4, <4>2, <5>1
      <4>3. QED
        BY <3>3, <4>1, <4>2
    <3>5. QED
      BY <1>5, <3>2, <3>4
  <2>5. CASE at[2] = 4
    <3>1. UNCHANGED <<test, Shared>>
      BY <1>1, <1>8, <2>1, <2>5, UpStep
    <3>2. A' = A /\ test' = test
      BY <3>1 DEF Shared
    <3>3. QED
      BY <1>5, <2>5, <3>2
  <2>6. CASE at[2] = 5
    <3>1. thread_exit(2)
      <4>1. Instruction(2)[1] = "exit"
        BY <2>1, <2>6 DEF Exit
      <4>2. QED
        BY <1>2, <1>8, <4>1, ActionOf
    <3>2. UNCHANGED <<test, at, A>>
      BY <3>1 DEF thread_exit, ThreadExits, Shared
    <3>3. QED
      BY <1>5, <3>2
  <2>7. QED
    BY <2>1, <2>2, <2>3, <2>4, <2>5, <2>6
<1>9. QED
  BY <1>3, <1>7, <1>8

LEMMA PairOrdered ==
    ASSUME ThreadsPlaced, WaitersPlaced, PairInv
    PROVE  SecondAfterFirst
<1> SUFFICES ASSUME test \in PairTests, 2 \in exited PROVE A = 1
  BY DEF SecondAfterFirst, PairTests
<1>1. at[2] > 0 /\ EndsThread(Instruction(2)) /\ 2 \in Thread
  BY DEF WaitersPlaced, Thread
<1>2. CASE test = "sync_sem"
  <2>1. at[2] = 2
    BY <1>1, <1>2, SemAt DEF EndsThread, Down
  <2>2. QED
    BY <1>2, <2>1 DEF PairInv
<1>3. CASE test = "test_condvar"
  <2>1. at[2] = 5
    BY <1>1, <1>3, CondvarAt DEF EndsThread, Down, Do, Up
  <2>2. QED
    BY <1>3, <2>1 DEF PairInv
<1>4. QED
  BY <1>2, <1>3 DEF PairTests

-----------------------------------------------------------------------------
(*                  The ring: who has done what how often                  *)

(* How often a thread at i has done the k-th instruction of a round.       *)
Done(i, k) == IF i = 0 THEN 0 ELSE (i + 5 - k) \div 6

LEMMA DoneFacts ==
    ASSUME NEW i \in Nat, NEW k \in 1..6
    PROVE  /\ Done(i, k) \in Nat /\ Done(0, k) = 0 /\ Done(1, k) = 0
           /\ i > 0 => Done(i + 1, k) = Done(i, k) + (IF Turn(i) = k THEN 1 ELSE 0)
<1>1. Done(i, k) \in Nat /\ Done(0, k) = 0 /\ Done(1, k) = 0
  BY DEF Done
<1>2. i > 0 => Done(i + 1, k) = Done(i, k) + (IF Turn(i) = k THEN 1 ELSE 0)
  BY DEF Done, Turn
<1>3. QED
  BY <1>1, <1>2

(* An instruction may be one round ahead of a later one.                   *)
LEMMA DoneAhead ==
    ASSUME NEW i \in Nat, NEW k \in 1..6, NEW j \in 1..k
    PROVE  Done(i, j) = Done(i, k) + (IF Turn(i) \in j + 1 .. k THEN 1 ELSE 0)
<1>1. CASE i = 0
  BY <1>1 DEF Done, Turn
<1>2. CASE i > 0
  <2> DEFINE r == (i - 1) \div 6
             m == (i - 1) % 6
  <2>1. r \in Nat /\ m \in 0..5 /\ i = 6 * r + m + 1
    BY <1>2
  <2> HIDE DEF r
  <2>2. Turn(i) = m + 1
    BY <1>2 DEF Turn
  <2> HIDE DEF m
  <2>3. \A l \in 1..6 : Done(i, l) = IF m + 1 > l THEN r + 1 ELSE r
    BY <1>2, <2>1 DEF Done
  <2>4. QED
    BY <2>1, <2>2, <2>3
<1>3. QED
  BY <1>1, <1>2

LEMMA DoneAll ==
    ASSUME NEW n \in Nat, NEW k \in 1..6
    PROVE  Done(n * 6 + 1, k) = n
BY DEF Done

Sum7(f) == f[1] + f[2] + f[3] + f[4] + f[5] + f[6] + f[7]

LEMMA SumOne ==
    ASSUME NEW f \in [1..7 -> Nat], NEW g \in [1..7 -> Nat], NEW t \in 1..7, NEW d \in {0, 1},
           g[t] = f[t] + d, \A s \in 1..7 : s # t => g[s] = f[s]
    PROVE  Sum7(g) = Sum7(f) + d /\ Sum7(f) \in Nat
<1>1. /\ f[1] \in Nat /\ f[2] \in Nat /\ f[3] \in Nat /\ f[4] \in Nat /\ f[5] \in Nat
      /\ f[6] \in Nat /\ f[7] \in Nat
  OBVIOUS
<1>2. t = 1 \/ t = 2 \/ t = 3 \/ t = 4 \/ t = 5 \/ t = 6 \/ t = 7
  OBVIOUS
<1>3. QED
  BY <1>1, <1>2 DEF Sum7

LEMMA SumOrder ==
    ASSUME NEW f \in [1..7 -> Nat], NEW g \in [1..7 -> Nat], \A s \in 1..7 : f[s] <= g[s]
    PROVE  /\ Sum7(f) <= Sum7(g)
           /\ \A t \in 1..7 : f[t] + 1 <= g[t] => Sum7(f) + 1 <= Sum7(g)
<1>1. /\ f[1] \in Nat /\ f[2] \in Nat /\ f[3] \in Nat /\ f[4] \in Nat /\ f[5] \in Nat
      /\ f[6] \in Nat /\ f[7] \in Nat
      /\ g[1] \in Nat /\ g[2] \in Nat /\ g[3] \in Nat /\ g[4] \in Nat /\ g[5] \in Nat
      /\ g[6] \in Nat /\ g[7] \in Nat
  OBVIOUS
<1>2. /\ f[1] <= g[1] /\ f[2] <= g[2] /\ f[3] <= g[3] /\ f[4] <= g[4] /\ f[5] <= g[5]
      /\ f[6] <= g[6] /\ f[7] <= g[7]
  OBVIOUS
<1>3. Sum7(f) <= Sum7(g)
  BY <1>1, <1>2 DEF Sum7
<1>4. ASSUME NEW t \in 1..7, f[t] + 1 <= g[t] PROVE Sum7(f) + 1 <= Sum7(g)
  <2>1. t = 1 \/ t = 2 \/ t = 3 \/ t = 4 \/ t = 5 \/ t = 6 \/ t = 7
    OBVIOUS
  <2>2. QED
    BY <1>1, <1>2, <1>4, <2>1 DEF Sum7
<1>5. QED
  BY <1>3, <1>4

(* What the producers have done, and what the consumer has.                *)
Work(a, k) == [p \in 1..7 |-> IF p <= PRODUCER_COUNT THEN Done(a[p], k) ELSE 0]

Total(a, k) == Sum7(Work(a, k))

Own(a, k) == Done(a[PRODUCER_COUNT + 1], k)

LEMMA WorkTyped ==
    ASSUME NEW a \in [Thread -> Nat], NEW k \in 1..6
    PROVE  /\ Work(a, k) \in [1..7 -> Nat] /\ Total(a, k) \in Nat /\ Own(a, k) \in Nat
           /\ \A p \in 1..PRODUCER_COUNT : p \in 1..7 /\ Work(a, k)[p] = Done(a[p], k)
<1>1. PRODUCER_COUNT \in 1..7 /\ PRODUCER_COUNT + 1 \in 1..8
  BY ThreadCounts
<1>2. \A p \in 1..8 : a[p] \in Nat
  BY DEF Thread
<1>3. Own(a, k) \in Nat
  BY <1>1, <1>2, DoneFacts DEF Own
<1>4. ASSUME NEW p \in 1..7 PROVE Done(a[p], k) \in Nat
  <2>1. a[p] \in Nat
    BY <1>2
  <2>2. QED
    BY <2>1, DoneFacts
<1>5. Work(a, k) \in [1..7 -> Nat]
  BY <1>4 DEF Work
<1>6. Total(a, k) \in Nat
  BY <1>5 DEF Total, Sum7
<1>7. \A p \in 1..PRODUCER_COUNT : p \in 1..7 /\ Work(a, k)[p] = Done(a[p], k)
  BY <1>1 DEF Work
<1>8. QED
  BY <1>3, <1>5, <1>6, <1>7

(* x goes on by one.                                                       *)
GoesOn(a, b, x) ==
    /\ a \in [Thread -> Nat] /\ b \in [Thread -> Nat]
    /\ a[x] > 0 /\ b[x] = a[x] + 1 /\ \A s \in 1..8 : s # x => b[s] = a[s]

LEMMA TotalMoves ==
    ASSUME NEW a, NEW b, NEW x \in 1..PRODUCER_COUNT + 1, GoesOn(a, b, x), NEW k \in 1..6
    PROVE  /\ x <= PRODUCER_COUNT =>
                /\ Total(b, k) = Total(a, k) + (IF Turn(a[x]) = k THEN 1 ELSE 0)
                /\ Own(b, k) = Own(a, k)
           /\ x = PRODUCER_COUNT + 1 =>
                /\ Total(b, k) = Total(a, k)
                /\ Own(b, k) = Own(a, k) + (IF Turn(a[x]) = k THEN 1 ELSE 0)
<1> DEFINE d == IF Turn(a[x]) = k THEN 1 ELSE 0
<1>1. PRODUCER_COUNT \in 1..7 /\ PRODUCER_COUNT + 1 \in 1..8 /\ x \in 1..8
  BY ThreadCounts
<1>2. a[x] \in Nat /\ a[x] > 0 /\ b[x] = a[x] + 1 /\ \A s \in 1..8 : s # x => b[s] = a[s]
  BY <1>1 DEF GoesOn, Thread
<1>3. Done(b[x], k) = Done(a[x], k) + d
  BY <1>2, DoneFacts
<1>4. /\ Work(a, k) \in [1..7 -> Nat] /\ Work(b, k) \in [1..7 -> Nat]
      /\ \A p \in 1..PRODUCER_COUNT :
            p \in 1..7 /\ Work(a, k)[p] = Done(a[p], k) /\ Work(b, k)[p] = Done(b[p], k)
  BY WorkTyped DEF GoesOn
<1>5. d \in {0, 1}
  OBVIOUS
<1> HIDE DEF d
<1>6. CASE x <= PRODUCER_COUNT
  <2>1. x \in 1..7 /\ Work(b, k)[x] = Work(a, k)[x] + d
    BY <1>1, <1>3, <1>4, <1>6
  <2>2. \A s \in 1..7 : s # x => Work(b, k)[s] = Work(a, k)[s]
    BY <1>2 DEF Work
  <2>3. Total(b, k) = Total(a, k) + d
    BY <1>4, <1>5, <2>1, <2>2, SumOne DEF Total
  <2>4. Own(b, k) = Own(a, k)
    BY <1>1, <1>2, <1>6 DEF Own
  <2>5. QED
    BY <1>1, <1>6, <2>3, <2>4 DEF d
<1>7. CASE x = PRODUCER_COUNT + 1
  <2>1. \A s \in 1..7 : Work(b, k)[s] = Work(a, k)[s]
    BY <1>1, <1>2, <1>7 DEF Work
  <2>2. Total(b, k) = Total(a, k)
    BY <2>1 DEF Total, Sum7
  <2>3. Own(b, k) = Own(a, k) + d
    BY <1>3, <1>7 DEF Own
  <2>4. QED
    BY <1>1, <1>7, <2>2, <2>3 DEF d
<1>8. QED
  BY <1>1, <1>6, <1>7

LEMMA TotalOrder ==
    ASSUME NEW a \in [Thread -> Nat], NEW k \in 1..6, NEW j \in 1..k
    PROVE  /\ Total(a, k) <= Total(a, j) /\ Own(a, k) <= Own(a, j)
           /\ \A p \in 1..PRODUCER_COUNT :
                 Turn(a[p]) \in j + 1 .. k => Total(a, k) + 1 <= Total(a, j)
           /\ (\A p \in 1..PRODUCER_COUNT : Turn(a[p]) \notin j + 1 .. k) => Total(a, k) = Total(a, j)
           /\ Own(a, j) = Own(a, k) + (IF Turn(a[PRODUCER_COUNT + 1]) \in j + 1 .. k THEN 1 ELSE 0)
<1>1. PRODUCER_COUNT \in 1..7 /\ PRODUCER_COUNT + 1 \in 1..8 /\ j \in 1..6
  BY ThreadCounts
<1>2. \A p \in 1..8 : a[p] \in Nat
  BY DEF Thread
<1>3. /\ Work(a, k) \in [1..7 -> Nat] /\ Work(a, j) \in [1..7 -> Nat]
      /\ Own(a, k) \in Nat /\ Own(a, j) \in Nat
      /\ \A p \in 1..PRODUCER_COUNT :
            p \in 1..7 /\ Work(a, k)[p] = Done(a[p], k) /\ Work(a, j)[p] = Done(a[p], j)
  BY <1>1, WorkTyped
<1>4. \A p \in 1..8 :
         Done(a[p], j) = Done(a[p], k) + (IF Turn(a[p]) \in j + 1 .. k THEN 1 ELSE 0)
  BY <1>2, DoneAhead
<1>5. \A p \in 1..8 : Done(a[p], k) \in Nat
  BY <1>2, DoneFacts
<1>6. Own(a, j) = Own(a, k) + (IF Turn(a[PRODUCER_COUNT + 1]) \in j + 1 .. k THEN 1 ELSE 0)
  BY <1>1, <1>4 DEF Own
<1>7. \A p \in 1..7 : Work(a, k)[p] <= Work(a, j)[p]
  <2> SUFFICES ASSUME NEW p \in 1..7 PROVE Work(a, k)[p] <= Work(a, j)[p]
    OBVIOUS
  <2>1. Done(a[p], k) <= Done(a[p], j) /\ Done(a[p], k) \in Nat
    <3>1. p \in 1..8
      OBVIOUS
    <3>2. QED
      BY <1>4, <1>5, <3>1
  <2>2. QED
    BY <2>1 DEF Work
<1>8. Total(a, k) <= Total(a, j)
  BY <1>3, <1>7, SumOrder DEF Total
<1>9. ASSUME NEW p \in 1..PRODUCER_COUNT, Turn(a[p]) \in j + 1 .. k
      PROVE  Total(a, k) + 1 <= Total(a, j)
  <2>1. p \in 1..8 /\ p \in 1..7
    BY <1>1
  <2>2. Done(a[p], k) + 1 = Done(a[p], j) /\ Done(a[p], k) \in Nat
    BY <1>4, <1>5, <1>9, <2>1
  <2>3. Work(a, k)[p] + 1 <= Work(a, j)[p]
    BY <1>3, <2>2
  <2>4. QED
    BY <1>3, <1>7, <2>1, <2>3, SumOrder DEF Total
<1>10. ASSUME \A p \in 1..PRODUCER_COUNT : Turn(a[p]) \notin j + 1 .. k
       PROVE  Total(a, k) = Total(a, j)
  <2>1. ASSUME NEW p \in 1..7 PROVE Work(a, k)[p] = Work(a, j)[p]
    <3>1. CASE p <= PRODUCER_COUNT
      <4>1. Done(a[p], j) = Done(a[p], k) + 0 /\ Done(a[p], k) \in Nat
        <5>1. p \in 1..8 /\ p \in 1..PRODUCER_COUNT
          BY <1>1, <3>1
        <5>2. QED
          BY <1>4, <1>5, <1>10, <5>1
      <4>2. QED
        BY <3>1, <4>1 DEF Work
    <3>2. CASE ~(p <= PRODUCER_COUNT)
      BY <3>2 DEF Work
    <3>3. QED
      BY <3>1, <3>2
  <2>2. QED
    BY <2>1 DEF Total, Sum7
<1>11. QED
  BY <1>3, <1>6, <1>8, <1>9, <1>10

-----------------------------------------------------------------------------
(*                      The three semaphores of the ring                   *)

RingRow(x) == IF x <= PRODUCER_COUNT THEN ProducerRow ELSE ConsumerRow

IsDown(op, q) == op[1] = "down" /\ op[2] = q

IsUp(op, q) == op[1] = "up" /\ op[2] = q

LEMMA RingRows ==
    ASSUME NEW x \in 1..PRODUCER_COUNT + 1, NEW k \in 1..6
    PROVE  /\ IsDown(RingRow(x)[k], 0) <=> k = 2
           /\ IsUp(RingRow(x)[k], 0) <=> k = 5
           /\ IsDown(RingRow(x)[k], 1) <=> x <= PRODUCER_COUNT /\ k = 1
           /\ IsDown(RingRow(x)[k], 2) <=> ~(x <= PRODUCER_COUNT) /\ k = 1
           /\ IsUp(RingRow(x)[k], 1) <=> ~(x <= PRODUCER_COUNT) /\ k = 6
           /\ IsUp(RingRow(x)[k], 2) <=> x <= PRODUCER_COUNT /\ k = 6
           /\ RingRow(x)[k][1] = "down" <=> k \in 1..2
           /\ RingRow(x)[k][1] = "up" <=> k \in 5..6
           /\ k \in 1..2 => /\ RingRow(x)[k][2] \in 0..2 /\ RingRow(x)[k][3] = 1
                            /\ RingRow(x)[k] = Down(RingRow(x)[k][2])
           /\ k \in 5..6 => RingRow(x)[k][2] \in 0..2 /\ RingRow(x)[k] = Up(RingRow(x)[k][2])
           /\ k = 3 => RingRow(x)[k] = Do(IF x <= PRODUCER_COUNT THEN "store" ELSE "print")
           /\ k = 4 => RingRow(x)[k] = Do(IF x <= PRODUCER_COUNT THEN "front" ELSE "tail")
<1>1. k = 1 \/ k = 2 \/ k = 3 \/ k = 4 \/ k = 5 \/ k = 6
  OBVIOUS
<1>2. CASE x <= PRODUCER_COUNT
  BY <1>1, <1>2 DEF RingRow, ProducerRow, IsDown, IsUp, Down, Up, Do
<1>3. CASE ~(x <= PRODUCER_COUNT)
  BY <1>1, <1>3 DEF RingRow, ConsumerRow, IsDown, IsUp, Down, Up, Do
<1>4. QED
  BY <1>2, <1>3

(* Semaphores 1 and 2: units taken, given, and there from the start.       *)
Took(a, q) == IF q = 1 THEN Total(a, 1) ELSE Own(a, 1)

Gave(a, q) == IF q = 1 THEN Own(a, 6) ELSE Total(a, 6)

Spare(q) == IF q = 1 THEN BUFFER_SIZE ELSE 0

(* Who is between a down and the up of semaphore 0.                        *)
Inside(a, t) == {r \in {0} : t <= PRODUCER_COUNT + 1 /\ Turn(a[t]) \in 3..5}

Insiders(a) == [t \in 1..8 |-> Inside(a, t)]

RingUnits(a, u) ==
    /\ \A r \in 0..2 : u[r + 1] \in Nat
    /\ Exclusive(Insiders(a), u, {0})
    /\ \A q \in 1..2 : u[q + 1] + Took(a, q) = Spare(q) + Gave(a, q)

(* v is u with d more units of q.                                          *)
Adds(u, v, q, d) == \A r \in 0..2 : v[r + 1] = u[r + 1] + (IF r = q THEN d ELSE 0)

LEMMA TookMoves ==
    ASSUME NEW a, NEW b, NEW x \in 1..PRODUCER_COUNT + 1, GoesOn(a, b, x), NEW q \in 1..2
    PROVE  /\ Took(b, q) = Took(a, q) + (IF IsDown(RingRow(x)[Turn(a[x])], q) THEN 1 ELSE 0)
           /\ Gave(b, q) = Gave(a, q) + (IF IsUp(RingRow(x)[Turn(a[x])], q) THEN 1 ELSE 0)
           /\ Took(a, q) \in Nat /\ Gave(a, q) \in Nat
<1>1. PRODUCER_COUNT \in 1..7 /\ x \in 1..8 /\ 1 \in 1..6 /\ 6 \in 1..6
  BY ThreadCounts
<1>2. a[x] \in Nat /\ a \in [Thread -> Nat]
  BY <1>1 DEF GoesOn, Thread
<1>3. /\ Total(a, 1) \in Nat /\ Own(a, 1) \in Nat /\ Total(a, 6) \in Nat /\ Own(a, 6) \in Nat
  BY <1>1, <1>2, WorkTyped
<1>4. Turn(a[x]) \in 1..6
  BY <1>2, TurnFacts
<1>5. /\ x <= PRODUCER_COUNT =>
           /\ Total(b, 1) = Total(a, 1) + (IF Turn(a[x]) = 1 THEN 1 ELSE 0)
           /\ Own(b, 1) = Own(a, 1)
           /\ Total(b, 6) = Total(a, 6) + (IF Turn(a[x]) = 6 THEN 1 ELSE 0)
           /\ Own(b, 6) = Own(a, 6)
      /\ x = PRODUCER_COUNT + 1 =>
           /\ Total(b, 1) = Total(a, 1)
           /\ Own(b, 1) = Own(a, 1) + (IF Turn(a[x]) = 1 THEN 1 ELSE 0)
           /\ Total(b, 6) = Total(a, 6)
           /\ Own(b, 6) = Own(a, 6) + (IF Turn(a[x]) = 6 THEN 1 ELSE 0)
  BY <1>1, TotalMoves
<1>6. x <= PRODUCER_COUNT \/ (x = PRODUCER_COUNT + 1 /\ ~(x <= PRODUCER_COUNT))
  BY <1>1
<1>7. /\ IsDown(RingRow(x)[Turn(a[x])], 1) <=> x <= PRODUCER_COUNT /\ Turn(a[x]) = 1
      /\ IsDown(RingRow(x)[Turn(a[x])], 2) <=> ~(x <= PRODUCER_COUNT) /\ Turn(a[x]) = 1
      /\ IsUp(RingRow(x)[Turn(a[x])], 1) <=> ~(x <= PRODUCER_COUNT) /\ Turn(a[x]) = 6
      /\ IsUp(RingRow(x)[Turn(a[x])], 2) <=> x <= PRODUCER_COUNT /\ Turn(a[x]) = 6
  BY <1>4, RingRows
<1>8. q = 1 \/ q = 2
  OBVIOUS
<1>9. /\ Took(b, q) = Took(a, q) + (IF IsDown(RingRow(x)[Turn(a[x])], q) THEN 1 ELSE 0)
      /\ Gave(b, q) = Gave(a, q) + (IF IsUp(RingRow(x)[Turn(a[x])], q) THEN 1 ELSE 0)
  BY <1>3, <1>5, <1>6, <1>7, <1>8 DEF Took, Gave
<1>10. QED
  BY <1>3, <1>9 DEF Took, Gave

LEMMA InsideMoves ==
    ASSUME NEW a, NEW b, NEW x \in 1..PRODUCER_COUNT + 1, GoesOn(a, b, x)
    PROVE  /\ \A s \in 1..8 : s # x => Insiders(b)[s] = Insiders(a)[s]
           /\ IsDown(RingRow(x)[Turn(a[x])], 0) => Insiders(b)[x] = Insiders(a)[x] \cup {0}
           /\ IsUp(RingRow(x)[Turn(a[x])], 0) =>
                 Insiders(b)[x] = Insiders(a)[x] \ {0} /\ 0 \in Insiders(a)[x]
           /\ ~IsDown(RingRow(x)[Turn(a[x])], 0) /\ ~IsUp(RingRow(x)[Turn(a[x])], 0) =>
                 Insiders(b)[x] = Insiders(a)[x]
<1>1. x \in 1..8 /\ x <= PRODUCER_COUNT + 1
  BY ThreadCounts
<1>2. /\ a[x] \in Nat \ {0} /\ b[x] = a[x] + 1 /\ \A s \in 1..8 : s # x => b[s] = a[s]
  BY <1>1 DEF GoesOn, Thread
<1>3. /\ Turn(a[x]) \in 1..6
      /\ Turn(b[x]) = IF Turn(a[x]) = 6 THEN 1 ELSE Turn(a[x]) + 1
  BY <1>2, TurnFacts
<1>4. /\ IsDown(RingRow(x)[Turn(a[x])], 0) <=> Turn(a[x]) = 2
      /\ IsUp(RingRow(x)[Turn(a[x])], 0) <=> Turn(a[x]) = 5
  BY <1>3, RingRows
<1>5. \A s \in 1..8 : s # x => Insiders(b)[s] = Insiders(a)[s]
  BY <1>2 DEF Insiders, Inside
<1>6. /\ Insiders(a)[x] = {r \in {0} : Turn(a[x]) \in 3..5}
      /\ Insiders(b)[x] = {r \in {0} : Turn(b[x]) \in 3..5}
  BY <1>1 DEF Insiders, Inside
<1>7. /\ Turn(a[x]) = 2 => Turn(a[x]) \notin 3..5 /\ Turn(b[x]) \in 3..5
      /\ Turn(a[x]) = 5 => Turn(a[x]) \in 3..5 /\ Turn(b[x]) \notin 3..5
      /\ Turn(a[x]) # 2 /\ Turn(a[x]) # 5 => (Turn(a[x]) \in 3..5 <=> Turn(b[x]) \in 3..5)
  BY <1>3
<1>8. QED
  BY <1>4, <1>5, <1>6, <1>7

(* A thread takes a unit, gives one back, or does neither.                 *)
LEMMA RingUnitsMove ==
    ASSUME NEW a, NEW b, NEW x \in 1..PRODUCER_COUNT + 1, GoesOn(a, b, x), NEW u, NEW v,
           RingUnits(a, u), NEW q \in 0..2, NEW op, op = RingRow(x)[Turn(a[x])],
           \/ IsDown(op, q) /\ u[q + 1] > 0 /\ Adds(u, v, q, -1)
           \/ IsUp(op, q) /\ Adds(u, v, q, 1)
           \/ op[1] \notin {"down", "up"} /\ Adds(u, v, q, 0)
    PROVE  RingUnits(b, v)
<1>1. \A r \in 0..2 : u[r + 1] \in Nat
  BY DEF RingUnits
<1>2. \A r \in 0..2 : v[r + 1] \in Nat
  BY <1>1 DEF Adds
<1>3. ASSUME NEW w \in 1..2
      PROVE  v[w + 1] + Took(b, w) = Spare(w) + Gave(b, w)
  <2>1. /\ Took(b, w) = Took(a, w) + (IF IsDown(op, w) THEN 1 ELSE 0)
        /\ Gave(b, w) = Gave(a, w) + (IF IsUp(op, w) THEN 1 ELSE 0)
        /\ Took(a, w) \in Nat /\ Gave(a, w) \in Nat
    BY TookMoves
  <2>2. /\ u[w + 1] + Took(a, w) = Spare(w) + Gave(a, w) /\ Spare(w) \in Nat
        /\ u[w + 1] \in Nat
    BY <1>1, ThreadCounts DEF RingUnits, Spare
  <2>3. v[w + 1] = u[w + 1] + (IF IsUp(op, w) THEN 1 ELSE 0) - (IF IsDown(op, w) THEN 1 ELSE 0)
    BY <2>2 DEF Adds, IsDown, IsUp
  <2>4. QED
    BY <2>1, <2>2, <2>3
<1>4. Exclusive(Insiders(b), v, {0})
  <2>1. /\ \A s \in 1..8 : s # x => Insiders(b)[s] = Insiders(a)[s]
        /\ IsDown(op, 0) => Insiders(b)[x] = Insiders(a)[x] \cup {0}
        /\ IsUp(op, 0) => Insiders(b)[x] = Insiders(a)[x] \ {0} /\ 0 \in Insiders(a)[x]
        /\ ~IsDown(op, 0) /\ ~IsUp(op, 0) => Insiders(b)[x] = Insiders(a)[x]
    BY InsideMoves
  <2>2. Exclusive(Insiders(a), u, {0}) /\ x \in 1..8
    BY ThreadCounts DEF RingUnits
  <2>3. u[1] \in Nat
    BY <1>1
  <2>4. /\ IsDown(op, 0) => u[1] > 0 /\ v[1] = u[1] - 1
        /\ IsUp(op, 0) => v[1] = u[1] + 1
        /\ ~IsDown(op, 0) /\ ~IsUp(op, 0) => v[1] = u[1]
        /\ ~(IsDown(op, 0) /\ IsUp(op, 0))
    BY <2>3 DEF Adds, IsDown, IsUp
  <2>5. Relocks(Insiders(a), u, Insiders(b), v, x, 0)
    <3>1. CASE IsDown(op, 0)
      BY <2>1, <2>4, <3>1 DEF Relocks
    <3>2. CASE IsUp(op, 0)
      BY <2>1, <2>4, <3>2 DEF Relocks
    <3>3. CASE ~IsDown(op, 0) /\ ~IsUp(op, 0)
      BY <2>1, <2>4, <3>3 DEF Relocks
    <3>4. QED
      BY <3>1, <3>2, <3>3
  <2>6. {0} \in SUBSET Nat /\ 0 \in {0} /\ \A r \in {0} \ {0} : v[r + 1] = u[r + 1]
    OBVIOUS
  <2>7. QED
    BY <2>2, <2>5, <2>6, LockKept
<1>5. QED
  BY <1>2, <1>3, <1>4 DEF RingUnits

(* A unit that t gives back goes straight to y, who waits for it.          *)
LEMMA RingUnitsPass ==
    ASSUME NEW a, NEW b, NEW c, NEW t \in 1..PRODUCER_COUNT + 1, NEW y \in 1..PRODUCER_COUNT + 1,
           GoesOn(a, b, t), GoesOn(b, c, y), t # y, NEW u, RingUnits(a, u), NEW q \in 0..2,
           IsUp(RingRow(t)[Turn(a[t])], q), IsDown(RingRow(y)[Turn(a[y])], q)
    PROVE  RingUnits(c, u)
<1> DEFINE v == [i \in 1..3 |-> u[i] + (IF i = q + 1 THEN 1 ELSE 0)]
<1>1. \A r \in 0..2 : u[r + 1] \in Nat
  BY DEF RingUnits
<1>2. Adds(u, v, q, 1) /\ v[q + 1] > 0 /\ Adds(v, u, q, -1)
  <2>1. ASSUME NEW r \in 0..2
        PROVE  v[r + 1] = u[r + 1] + (IF r = q THEN 1 ELSE 0)
    OBVIOUS
  <2>2. \A r \in 0..2 : u[r + 1] = v[r + 1] + (IF r = q THEN -1 ELSE 0)
    BY <1>1, <2>1
  <2>3. v[q + 1] > 0
    BY <1>1, <2>1
  <2>4. QED
    BY <2>1, <2>2, <2>3 DEF Adds
<1> HIDE DEF v
<1>3. RingUnits(b, v)
  BY <1>2, RingUnitsMove
<1>4. b[y] = a[y]
  BY ThreadCounts DEF GoesOn
<1>5. IsDown(RingRow(y)[Turn(b[y])], q)
  BY <1>4
<1>6. QED
  BY <1>2, <1>3, <1>5, RingUnitsMove

-----------------------------------------------------------------------------
(*                        The slots of the ring                            *)

LEMMA Multiples ==
    ASSUME NEW b \in Nat \ {0}, NEW d \in Int
    PROVE  (d >= 1 => b * d >= b) /\ (d <= 0 => b * d <= 0) /\ (d <= -1 => b * d <= -b)
<1>1. ASSUME d >= 1 PROVE b * d >= b
  <2>1. d - 1 \in Nat /\ b \in Nat
    BY <1>1
  <2>2. b * (d - 1) \in Nat
    BY <2>1
  <2>3. b * d = b * (d - 1) + b
    BY <2>1
  <2>4. QED
    BY <2>2, <2>3
<1>2. ASSUME d <= 0 PROVE b * d <= 0
  <2>1. -d \in Nat /\ b \in Nat
    BY <1>2
  <2>2. b * (-d) \in Nat
    BY <2>1
  <2>3. b * d = -(b * (-d))
    BY <2>1
  <2>4. QED
    BY <2>2, <2>3
<1>3. ASSUME d <= -1 PROVE b * d <= -b
  <2>1. -d - 1 \in Nat /\ b \in Nat
    BY <1>3
  <2>2. b * (-d - 1) \in Nat
    BY <2>1
  <2>3. b * d = -(b * (-d - 1)) - b
    BY <2>1
  <2>4. QED
    BY <2>2, <2>3
<1>4. QED
  BY <1>1, <1>2, <1>3

LEMMA RemainderIs ==
    ASSUME NEW b \in Nat \ {0}, NEW q \in Int, NEW p \in Int,
           NEW r \in 0 .. b - 1, NEW s \in 0 .. b - 1, b * q + r = b * p + s
    PROVE  q = p /\ r = s
<1> DEFINE d == q - p
<1>1. d \in Int /\ b * d = s - r
  OBVIOUS
<1>2. (d >= 1 => b * d >= b) /\ (d <= -1 => b * d <= -b)
  BY <1>1, Multiples
<1>3. d = 0
  BY <1>1, <1>2
<1>4. QED
  BY <1>3

LEMMA RemainderFacts ==
    ASSUME NEW n \in Nat, NEW b \in Nat \ {0}
    PROVE  /\ n % b \in 0 .. b - 1
           /\ ((n % b) + 1) % b = (n + 1) % b
           /\ \A m \in Nat : m < n /\ n - m < b => m % b # n % b
<1>1. ASSUME NEW m \in Nat
      PROVE  m \div b \in Int /\ m % b \in 0 .. b - 1 /\ m = b * (m \div b) + (m % b)
  OBVIOUS
<1>2. ((n % b) + 1) % b = (n + 1) % b
  <2> DEFINE r == n % b
             q == n \div b
             e == (n + 1) % b
             f == (n + 1) \div b
  <2>1. q \in Int /\ r \in 0 .. b - 1 /\ n = b * q + r
    BY <1>1
  <2>2. f \in Int /\ e \in 0 .. b - 1 /\ n + 1 = b * f + e
    BY <1>1
  <2> HIDE DEF q, f, e, r
  <2>3. CASE r + 1 < b
    <3>1. r + 1 \in 0 .. b - 1 /\ b * q + (r + 1) = b * f + e
      BY <2>1, <2>2, <2>3
    <3>2. e = r + 1
      BY <2>1, <2>2, <3>1, RemainderIs
    <3> DEFINE g == (r + 1) \div b
               h == (r + 1) % b
    <3>3. g \in Int /\ h \in 0 .. b - 1 /\ r + 1 = b * g + h
      BY <1>1, <2>1
    <3> HIDE DEF g, h
    <3>4. b * 0 + (r + 1) = b * g + h /\ 0 \in Int
      BY <2>1, <3>3
    <3>5. h = r + 1
      BY <3>1, <3>3, <3>4, RemainderIs
    <3>6. QED
      BY <3>2, <3>5 DEF e, h, r
  <2>4. CASE ~(r + 1 < b)
    <3>1. r + 1 = b
      BY <2>1, <2>4
    <3>2. 0 \in 0 .. b - 1 /\ b * (q + 1) + 0 = b * f + e /\ q + 1 \in Int
      BY <2>1, <2>2, <3>1
    <3>3. e = 0
      BY <2>2, <3>2, RemainderIs
    <3> DEFINE g == (r + 1) \div b
               h == (r + 1) % b
    <3>4. g \in Int /\ h \in 0 .. b - 1 /\ r + 1 = b * g + h
      BY <1>1, <2>1
    <3> HIDE DEF g, h
    <3>5. b * 1 + 0 = b * g + h /\ 1 \in Int
      BY <3>1, <3>4
    <3>6. h = 0
      BY <3>2, <3>4, <3>5, RemainderIs
    <3>7. QED
      BY <3>3, <3>6 DEF e, h, r
  <2>5. QED
    BY <2>3, <2>4
<1>3. ASSUME NEW m \in Nat, m < n, n - m < b PROVE m % b # n % b
  <2> DEFINE r == n % b
             q == n \div b
             p == m \div b
  <2> SUFFICES ASSUME m % b = r PROVE FALSE
    OBVIOUS
  <2>1. q \in Int /\ r \in 0 .. b - 1 /\ n = b * q + r
    BY <1>1
  <2>2. p \in Int /\ m = b * p + r
    BY <1>1
  <2> HIDE DEF q, p, r
  <2>3. q - p \in Int /\ b * (q - p) = n - m
    BY <2>1, <2>2
  <2>4. (q - p >= 1 => b * (q - p) >= b) /\ (q - p <= 0 => b * (q - p) <= 0)
    BY <2>3, Multiples
  <2>5. q - p >= 1 \/ q - p <= 0
    BY <2>3
  <2>6. QED
    BY <1>3, <2>3, <2>4, <2>5
<1>4. QED
  BY <1>1, <1>2, <1>3

(* The numbers of producer i + 1 that are in the ring.                     *)
Filled(lo, hi, ring, i) == {n \in lo .. hi - 1 : ring[n % BUFFER_SIZE] = i}

LEMMA FilledType ==
    ASSUME NEW lo \in Nat, NEW hi \in Nat, NEW ring, NEW i
    PROVE  /\ IsFiniteSet(Filled(lo, hi, ring, i))
           /\ Cardinality(Filled(lo, hi, ring, i)) \in Nat
<1>1. hi - 1 \in Int /\ lo \in Int
  OBVIOUS
<1>2. IsFiniteSet(lo .. hi - 1)
  BY <1>1, FS_Interval
<1>3. Filled(lo, hi, ring, i) \in SUBSET (lo .. hi - 1)
  BY DEF Filled
<1>4. IsFiniteSet(Filled(lo, hi, ring, i))
  BY <1>2, <1>3, FS_Subset
<1>5. QED
  BY <1>4, FS_CardinalityType

Stored(ring, hi, w) == [ring EXCEPT ![hi % BUFFER_SIZE] = w]

(* A number goes into the slot behind the last one, which is free.         *)
LEMMA FilledStored ==
    ASSUME NEW lo \in Nat, NEW hi \in Nat, lo <= hi, hi - lo < BUFFER_SIZE,
           NEW ring \in [0 .. BUFFER_SIZE - 1 -> 0 .. PRODUCER_COUNT - 1],
           NEW w \in 0 .. PRODUCER_COUNT - 1, NEW i
    PROVE  Cardinality(Filled(lo, hi + 1, Stored(ring, hi, w), i)) =
               Cardinality(Filled(lo, hi, ring, i)) + (IF i = w THEN 1 ELSE 0)
<1> DEFINE new == Stored(ring, hi, w)
           old == Filled(lo, hi, ring, i)
<1>1. BUFFER_SIZE \in Nat \ {0} /\ hi % BUFFER_SIZE \in 0 .. BUFFER_SIZE - 1
  BY ThreadCounts, RemainderFacts
<1>2. new[hi % BUFFER_SIZE] = w
  BY <1>1 DEF Stored
<1>3. ASSUME NEW n \in lo .. hi - 1 PROVE new[n % BUFFER_SIZE] = ring[n % BUFFER_SIZE]
  <2>1. n \in Nat /\ n < hi /\ hi - n < BUFFER_SIZE
    BY <1>1
  <2>2. n % BUFFER_SIZE \in 0 .. BUFFER_SIZE - 1 /\ n % BUFFER_SIZE # hi % BUFFER_SIZE
    BY <1>1, <2>1, RemainderFacts
  <2>3. QED
    BY <1>1, <2>2 DEF Stored
<1> HIDE DEF new
<1>4. \A n : n \in lo .. hi + 1 - 1 <=> n \in lo .. hi - 1 \/ n = hi
  OBVIOUS
<1>5. hi \notin lo .. hi - 1
  OBVIOUS
<1>6. Filled(lo, hi + 1, new, i) = IF i = w THEN old \cup {hi} ELSE old
  BY <1>2, <1>3, <1>4, <1>5 DEF Filled
<1>7. hi \notin old
  BY <1>5 DEF Filled
<1>8. IsFiniteSet(old) /\ Cardinality(old) \in Nat
  BY FilledType
<1> HIDE DEF new, old
<1>9. CASE i = w
  <2>1. Cardinality(old \cup {hi}) = Cardinality(old) + 1
    BY <1>7, <1>8, FS_AddElement
  <2>2. QED
    BY <1>6, <1>9, <2>1 DEF new, old
<1>10. CASE i # w
  <2>1. Filled(lo, hi + 1, new, i) = old
    BY <1>6, <1>10
  <2>2. Cardinality(old) = Cardinality(old) + 0
    BY <1>8
  <2>3. QED
    BY <1>10, <2>1, <2>2 DEF new, old
<1>11. QED
  BY <1>9, <1>10

(* The first number is taken out.                                          *)
LEMMA FilledPrinted ==
    ASSUME NEW lo \in Nat, NEW hi \in Nat, lo < hi, NEW ring, NEW i
    PROVE  Cardinality(Filled(lo, hi, ring, i)) =
               Cardinality(Filled(lo + 1, hi, ring, i))
               + (IF ring[lo % BUFFER_SIZE] = i THEN 1 ELSE 0)
<1> DEFINE rest == Filled(lo + 1, hi, ring, i)
<1>1. \A n : n \in lo .. hi - 1 <=> n \in lo + 1 .. hi - 1 \/ n = lo
  OBVIOUS
<1>2. lo \notin lo + 1 .. hi - 1
  OBVIOUS
<1>3. Filled(lo, hi, ring, i) = IF ring[lo % BUFFER_SIZE] = i THEN rest \cup {lo} ELSE rest
  BY <1>1, <1>2 DEF Filled
<1>4. lo \notin rest
  BY <1>2 DEF Filled
<1>5. IsFiniteSet(rest) /\ Cardinality(rest) \in Nat
  BY FilledType
<1> HIDE DEF rest
<1>6. CASE ring[lo % BUFFER_SIZE] = i
  <2>1. Cardinality(rest \cup {lo}) = Cardinality(rest) + 1
    BY <1>4, <1>5, FS_AddElement
  <2>2. QED
    BY <1>3, <1>6, <2>1 DEF rest
<1>7. CASE ring[lo % BUFFER_SIZE] # i
  BY <1>3, <1>5, <1>7 DEF rest
<1>8. QED
  BY <1>6, <1>7

-----------------------------------------------------------------------------
(*                     Where the threads of mpsc_sem are                   *)

Ring == test = "mpsc_sem"

Team8 == PRODUCER_COUNT + 1     \* how many threads main starts

(* How many rounds thread t does.                                          *)
Share(t) ==
    IF t <= PRODUCER_COUNT THEN NUMBER_PER_PRODUCER ELSE PRODUCER_COUNT * NUMBER_PER_PRODUCER

LEMMA RingMainAt ==
    ASSUME ThreadsPlaced, Ring
    PROVE  /\ at[0] \in 1..2 * Team8 + 4 /\ at[0] \in Nat /\ Team8 \in 2..8
           /\ at[0] = 1 => Instruction(0) = Create(1)
           /\ at[0] = 2 => Instruction(0) = Create(BUFFER_SIZE)
           /\ at[0] = 3 => Instruction(0) = Create(0)
           /\ at[0] \in 4..Team8 + 3 =>
                 at[0] - 3 \in 1..Team8 /\ Instruction(0) = Start(at[0] - 3)
           /\ at[0] \in Team8 + 4 .. 2 * Team8 + 3 =>
                 at[0] - Team8 - 3 \in 1..Team8 /\ Instruction(0) = Join(at[0] - Team8 - 3)
           /\ at[0] = 2 * Team8 + 4 => Instruction(0) = Exit(0)
           /\ \A t \in 1..8 : at[t] > 0 => t \in 1..Team8 /\ at[0] > t + 3
<1> DEFINE text == TextOf(0)
           first == <<Create(1), Create(BUFFER_SIZE), Create(0)>>
<1>1. MainSpread(text, first, Team8, <<Exit(0)>>)
  BY RingTexts DEF TextOf, ThreadTest, Ring, Team8
<1>2. Team8 \in 2..8
  BY ThreadCounts DEF Team8
<1>3. /\ Len(text) = Len(first) + Team8 + (Team8 + Len(<<Exit(0)>>))
      /\ \A k \in 1..Len(first) : text[k] = first[k]
      /\ \A k \in 1..Team8 : text[Len(first) + k] = Start(k)
      /\ \A k \in 1..Team8 : text[Len(first) + Team8 + k] = Join(k)
      /\ \A k \in 1..Len(<<Exit(0)>>) :
            text[Len(first) + Team8 + (Team8 + k)] = <<Exit(0)>>[k]
  BY <1>1 DEF MainSpread
<1>4. /\ Len(first) = 3 /\ Len(<<Exit(0)>>) = 1 /\ <<Exit(0)>>[1] = Exit(0)
      /\ first[1] = Create(1) /\ first[2] = Create(BUFFER_SIZE) /\ first[3] = Create(0)
  OBVIOUS
<1> HIDE DEF first
<1>5. /\ Len(text) = 2 * Team8 + 4
      /\ text[1] = Create(1) /\ text[2] = Create(BUFFER_SIZE) /\ text[3] = Create(0)
      /\ \A k \in 1..Team8 : text[3 + k] = Start(k) /\ text[3 + Team8 + k] = Join(k)
      /\ text[3 + Team8 + (Team8 + 1)] = Exit(0)
  <2>1. Len(text) = 2 * Team8 + 4
    <3>1. Len(text) = 3 + Team8 + (Team8 + 1)
      BY <1>3, <1>4
    <3>2. QED
      BY <1>2, <3>1
  <2>2. text[1] = Create(1) /\ text[2] = Create(BUFFER_SIZE) /\ text[3] = Create(0)
    BY <1>3, <1>4
  <2>3. \A k \in 1..Team8 : text[3 + k] = Start(k) /\ text[3 + Team8 + k] = Join(k)
    BY <1>3, <1>4
  <2>4. text[3 + Team8 + (Team8 + 1)] = Exit(0)
    BY <1>3, <1>4
  <2>5. QED
    BY <2>1, <2>2, <2>3, <2>4
<1> HIDE DEF text
<1>6. at[0] \in 1..Len(text) /\ Instruction(0) = text[at[0]]
  BY DEF ThreadsPlaced, Instruction, TextOf, text
<1>7. at[0] \in 1..2 * Team8 + 4 /\ at[0] \in Nat
  BY <1>2, <1>5, <1>6
<1>8. /\ at[0] = 1 => Instruction(0) = Create(1)
      /\ at[0] = 2 => Instruction(0) = Create(BUFFER_SIZE)
      /\ at[0] = 3 => Instruction(0) = Create(0)
  BY <1>5, <1>6
<1>9. ASSUME at[0] \in 4..Team8 + 3
      PROVE  at[0] - 3 \in 1..Team8 /\ Instruction(0) = Start(at[0] - 3)
  <2>1. at[0] - 3 \in 1..Team8 /\ 3 + (at[0] - 3) = at[0]
    BY <1>2, <1>9
  <2>2. text[3 + (at[0] - 3)] = Start(at[0] - 3)
    BY <1>5, <2>1
  <2>3. QED
    BY <1>6, <2>1, <2>2
<1>10. ASSUME at[0] \in Team8 + 4 .. 2 * Team8 + 3
       PROVE  at[0] - Team8 - 3 \in 1..Team8 /\ Instruction(0) = Join(at[0] - Team8 - 3)
  <2>1. at[0] - Team8 - 3 \in 1..Team8 /\ 3 + Team8 + (at[0] - Team8 - 3) = at[0]
    BY <1>2, <1>10
  <2>2. text[3 + Team8 + (at[0] - Team8 - 3)] = Join(at[0] - Team8 - 3)
    BY <1>5, <2>1
  <2>3. QED
    BY <1>6, <2>1, <2>2
<1>11. ASSUME at[0] = 2 * Team8 + 4 PROVE Instruction(0) = Exit(0)
  <2>1. 3 + Team8 + (Team8 + 1) = at[0]
    BY <1>2, <1>11
  <2>2. QED
    BY <1>5, <1>6, <2>1
<1>12. ASSUME NEW t \in 1..8, at[t] > 0
       PROVE  t \in 1..Team8 /\ at[0] > t + 3
  <2>1. PICK j \in 1 .. at[0] - 1 : text[j] = Start(t)
    BY <1>12 DEF ThreadsPlaced, text
  <2>2. j \in Nat /\ j < at[0] /\ j \in 1..2 * Team8 + 4
    <3>1. j \in 1 .. at[0] - 1
      BY <2>1
    <3>2. j \in Nat /\ j >= 1 /\ j < at[0]
      BY <1>7, <3>1
    <3>3. Team8 \in Nat /\ at[0] <= 2 * Team8 + 4
      BY <1>2, <1>7
    <3>4. QED
      BY <1>7, <3>2, <3>3
  <2>3. text[j][1] = "thread" /\ text[j][2] = t
    BY <2>1 DEF Start
  <2>4. j > 3
    <3>1. j = 1 \/ j = 2 \/ j = 3 \/ j > 3
      BY <2>2
    <3>2. text[1][1] = "create" /\ text[2][1] = "create" /\ text[3][1] = "create"
      BY <1>5 DEF Create
    <3>3. QED
      BY <2>3, <3>1, <3>2
  <2>5. j - 3 \in 1..Team8
    <3>1. j - 3 \in 1..Team8 \/ j - Team8 - 3 \in 1..Team8 \/ j = 3 + Team8 + (Team8 + 1)
      BY <1>2, <2>2, <2>4
    <3>2. ASSUME j - Team8 - 3 \in 1..Team8 PROVE FALSE
      <4>1. 3 + Team8 + (j - Team8 - 3) = j
        BY <1>2, <2>2
      <4>2. text[j] = Join(j - Team8 - 3)
        BY <1>5, <3>2, <4>1
      <4>3. QED
        BY <2>3, <4>2 DEF Join
    <3>3. ASSUME j = 3 + Team8 + (Team8 + 1) PROVE FALSE
      BY <1>5, <2>3, <3>3 DEF Exit
    <3>4. QED
      BY <3>1, <3>2, <3>3
  <2>6. text[j] = Start(j - 3)
    <3>1. 3 + (j - 3) = j
      BY <2>2
    <3>2. text[3 + (j - 3)] = Start(j - 3)
      BY <1>5, <2>5
    <3>3. QED
      BY <3>1, <3>2
  <2>7. t = j - 3
    BY <2>3, <2>6 DEF Start
  <2>8. QED
    BY <1>7, <2>2, <2>5, <2>7
<1>13. QED
  BY <1>2, <1>7, <1>8, <1>9, <1>10, <1>11, <1>12

LEMMA RingAt ==
    ASSUME ThreadsPlaced, Ring, NEW t \in 1..8, at[t] > 0
    PROVE  /\ t \in 1..Team8 /\ at[t] \in Nat \ {0} /\ t \in Thread /\ Turn(at[t]) \in 1..6
           /\ \/ at[t] = Share(t) * 6 + 1 /\ Instruction(t) = Exit(0)
              \/ Instruction(t) = RingRow(t)[Turn(at[t])]
<1>1. t \in 1..Team8 /\ t \in Thread
  BY RingMainAt DEF Thread
<1>2. at[t] \in 1..Len(TextOf(t)) /\ Instruction(t) = TextOf(t)[at[t]] /\ at[t] \in Nat \ {0}
  <2>1. at[t] \in 1..Len(TextOf(t)) /\ Len(TextOf(t)) \in Nat /\ Instruction(t) = TextOf(t)[at[t]]
    BY <1>1, CurrentOp
  <2>2. QED
    BY <2>1
<1>3. Share(t) \in Nat
  BY ThreadCounts DEF Share
<1>4. Rounds(TextOf(t), RingRow(t), Share(t), 6, Exit(0))
  <2>1. PRODUCER_COUNT \in 1..7
    BY ThreadCounts
  <2>2. TextOf(t) = mpsc_sem[t]
    BY DEF Ring, TextOf, ThreadTest
  <2>3. CASE t <= PRODUCER_COUNT
    <3>1. t \in 1..PRODUCER_COUNT
      BY <2>1, <2>3
    <3>2. QED
      BY <2>2, <2>3, <3>1, RingTexts DEF RingRow, Share
  <2>4. CASE ~(t <= PRODUCER_COUNT)
    <3>1. t \in PRODUCER_COUNT + 1 .. 8
      BY <2>1, <2>4
    <3>2. QED
      BY <2>2, <2>4, <3>1, RingTexts DEF RingRow, Share
  <2>5. QED
    BY <2>3, <2>4
<1>5. \/ at[t] = Share(t) * 6 + 1 /\ TextOf(t)[at[t]] = Exit(0)
      \/ TextOf(t)[at[t]] = RingRow(t)[Turn(at[t])]
  BY <1>2, <1>3, <1>4, RoundPlace
<1>6. Turn(at[t]) \in 1..6
  BY <1>2, TurnFacts
<1>7. QED
  BY <1>1, <1>2, <1>5, <1>6

(* Who has exited has done all its rounds.                                 *)
LEMMA RingExited ==
    ASSUME ThreadsPlaced, WaitersPlaced, Ring, NEW t \in exited \ {0}, NEW k \in 1..6
    PROVE  t \in 1..Team8 /\ Done(at[t], k) = Share(t)
<1>1. t \in 1..8 /\ at[t] > 0 /\ EndsThread(Instruction(t))
  BY DEF WaitersPlaced, Thread
<1>2. /\ t \in 1..Team8 /\ Turn(at[t]) \in 1..6
      /\ \/ at[t] = Share(t) * 6 + 1 /\ Instruction(t) = Exit(0)
         \/ Instruction(t) = RingRow(t)[Turn(at[t])]
  BY <1>1, RingAt
<1>3. Instruction(t) # RingRow(t)[Turn(at[t])]
  <2> DEFINE j == Turn(at[t])
             op == RingRow(t)[j]
  <2>1. j \in 1..6 /\ t \in 1..PRODUCER_COUNT + 1
    BY <1>2 DEF Team8
  <2> HIDE DEF j
  <2>2. op[1] # "exit" /\ op[1] # "assert" /\ (op[1] = "down" => op[3] = 1)
    BY <2>1 DEF RingRow, ProducerRow, ConsumerRow, Down, Up, Do
  <2>3. ~EndsThread(op)
    BY <2>2 DEF EndsThread
  <2>4. QED
    BY <1>1, <2>3 DEF j
<1>4. Share(t) \in Nat
  BY ThreadCounts DEF Share
<1>5. QED
  BY <1>2, <1>3, <1>4, DoneAll

-----------------------------------------------------------------------------
(*                     What the ring holds, and when                       *)

(* The indices and the slots of the ring, and what is printed.             *)
Contents ==
    /\ FRONT = Total(at, 4) % BUFFER_SIZE /\ TAIL = Own(at, 4) % BUFFER_SIZE
    /\ BUFFER \in [0 .. BUFFER_SIZE - 1 -> 0 .. PRODUCER_COUNT - 1]
    /\ printed \in [0 .. PRODUCER_COUNT - 1 -> Nat]
    /\ \A i \in 0 .. PRODUCER_COUNT - 1 :
          Done(at[i + 1], 3) =
              printed[i] + Cardinality(Filled(Own(at, 3), Total(at, 3), BUFFER, i))

(* Main has created the semaphores before it starts a thread, and joined a *)
(* thread only after the end of it.                                        *)
RingInv ==
    /\ at[0] <= 3 => /\ Len(units) = at[0] - 1
                     /\ at[0] >= 2 => units[1] = 1
                     /\ at[0] = 3 => units[2] = BUFFER_SIZE
    /\ at[0] > 3 => Len(units) = 3 /\ RingUnits(at, units)
    /\ Contents
    /\ \A k \in 1..Team8 : at[0] > Team8 + 3 + k => k \in exited

LEMMA TotalSame ==
    ASSUME NEW a, NEW b, NEW k \in 1..6, \A t \in 1..8 : Done(b[t], k) = Done(a[t], k)
    PROVE  Total(b, k) = Total(a, k) /\ Own(b, k) = Own(a, k)
<1>1. \A p \in 1..7 : Work(b, k)[p] = Work(a, k)[p]
  BY DEF Work
<1>2. Total(b, k) = Total(a, k)
  BY <1>1 DEF Total, Sum7
<1>3. Own(b, k) = Own(a, k)
  BY ThreadCounts DEF Own
<1>4. QED
  BY <1>2, <1>3

LEMMA ContentsKept ==
    ASSUME Contents, UNCHANGED <<BUFFER, FRONT, TAIL, printed>>,
           \A t \in 1..8, k \in 3..4 : Done(at'[t], k) = Done(at[t], k)
    PROVE  Contents'
<1>1. /\ Total(at', 3) = Total(at, 3) /\ Own(at', 3) = Own(at, 3)
      /\ Total(at', 4) = Total(at, 4) /\ Own(at', 4) = Own(at, 4)
  <2>1. \A t \in 1..8 : Done(at'[t], 3) = Done(at[t], 3) /\ Done(at'[t], 4) = Done(at[t], 4)
    OBVIOUS
  <2>2. QED
    BY <2>1, TotalSame
<1>2. \A i \in 0 .. PRODUCER_COUNT - 1 : Done(at'[i + 1], 3) = Done(at[i + 1], 3)
  <2>1. \A i \in 0 .. PRODUCER_COUNT - 1 : i + 1 \in 1..8
    BY ThreadCounts
  <2>2. QED
    BY <2>1
<1>3. QED
  BY <1>1, <1>2 DEF Contents

LEMMA RingKept ==
    ASSUME RingInv, at[0] \in Nat, at[0] > 3, at'[0] = at[0], exited \subseteq exited',
           Len(units') = 3, RingUnits(at', units'), Contents'
    PROVE  RingInv'
<1>1. at'[0] > 3 /\ (at'[0] <= 3 <=> at[0] <= 3)
  OBVIOUS
<1>2. \A k \in 1..Team8 : at'[0] > Team8 + 3 + k => k \in exited'
  BY DEF RingInv
<1>3. at'[0] <= 3 => /\ Len(units') = at'[0] - 1
                     /\ at'[0] >= 2 => units'[1] = 1
                     /\ at'[0] = 3 => units'[2] = BUFFER_SIZE
  OBVIOUS
<1>4. QED
  BY <1>2, <1>3 DEF RingInv

(* A thread that is created has done as little as before.                  *)
LEMMA CreatedSame ==
    ASSUME NEW a, NEW b, \A t \in 1..8 : b[t] = a[t] \/ (a[t] = 0 /\ b[t] = 1)
    PROVE  /\ \A t \in 1..8, k \in 1..6 : Done(b[t], k) = Done(a[t], k)
           /\ \A u : RingUnits(a, u) => RingUnits(b, u)
<1>1. \A t \in 1..8, k \in 1..6 : Done(b[t], k) = Done(a[t], k)
  <2> SUFFICES ASSUME NEW t \in 1..8, NEW k \in 1..6 PROVE Done(b[t], k) = Done(a[t], k)
    OBVIOUS
  <2>1. Done(0, k) = 0 /\ Done(1, k) = 0
    BY DoneFacts
  <2>2. QED
    BY <2>1
<1>2. \A t \in 1..8 : Turn(b[t]) = Turn(a[t])
  BY TurnFacts
<1>3. Insiders(b) = Insiders(a)
  BY <1>2 DEF Insiders, Inside
<1>4. \A q \in 1..2 : Took(b, q) = Took(a, q) /\ Gave(b, q) = Gave(a, q)
  <2>1. \A t \in 1..8 : Done(b[t], 1) = Done(a[t], 1) /\ Done(b[t], 6) = Done(a[t], 6)
    BY <1>1
  <2>2. /\ Total(b, 1) = Total(a, 1) /\ Own(b, 1) = Own(a, 1)
        /\ Total(b, 6) = Total(a, 6) /\ Own(b, 6) = Own(a, 6)
    BY <2>1, TotalSame
  <2>3. QED
    BY <2>2 DEF Took, Gave
<1>5. \A u : RingUnits(a, u) => RingUnits(b, u)
  BY <1>3, <1>4 DEF RingUnits
<1>6. QED
  BY <1>1, <1>5

(* No thread has started: nothing is taken, given or held.                 *)
LEMMA NoneStarted ==
    ASSUME NEW a, \A t \in 1..8 : a[t] = 0
    PROVE  /\ \A k \in 1..6 : Total(a, k) = 0 /\ Own(a, k) = 0
           /\ \A q \in 1..2 : Took(a, q) = 0 /\ Gave(a, q) = 0
           /\ \A t \in 1..8 : Insiders(a)[t] = {}
<1>1. ASSUME NEW k \in 1..6 PROVE Total(a, k) = 0 /\ Own(a, k) = 0
  <2>1. Done(0, k) = 0
    BY DoneFacts
  <2>2. \A p \in 1..7 : Work(a, k)[p] = 0
    BY <2>1 DEF Work
  <2>3. Total(a, k) = 0
    BY <2>2 DEF Total, Sum7
  <2>4. Own(a, k) = 0
    BY <2>1, ThreadCounts DEF Own
  <2>5. QED
    BY <2>3, <2>4
<1>2. \A q \in 1..2 : Took(a, q) = 0 /\ Gave(a, q) = 0
  BY <1>1 DEF Took, Gave
<1>3. \A t \in 1..8 : Insiders(a)[t] = {}
  BY TurnFacts DEF Insiders, Inside
<1>4. QED
  BY <1>1, <1>2, <1>3

LEMMA RingMainStep ==
    ASSUME ThreadsPlaced, WaitersPlaced, Ring, RingInv, units \in Seq(Nat), ThreadStep(0)
    PROVE  RingInv'
<1>1. /\ at[0] \in 1..2 * Team8 + 4 /\ at[0] \in Nat /\ Team8 \in 2..8
      /\ at[0] = 1 => Instruction(0) = Create(1)
      /\ at[0] = 2 => Instruction(0) = Create(BUFFER_SIZE)
      /\ at[0] = 3 => Instruction(0) = Create(0)
      /\ at[0] \in 4..Team8 + 3 =>
            at[0] - 3 \in 1..Team8 /\ Instruction(0) = Start(at[0] - 3)
      /\ at[0] \in Team8 + 4 .. 2 * Team8 + 3 =>
            at[0] - Team8 - 3 \in 1..Team8 /\ Instruction(0) = Join(at[0] - Team8 - 3)
      /\ at[0] = 2 * Team8 + 4 => Instruction(0) = Exit(0)
      /\ \A t \in 1..8 : at[t] > 0 => t \in 1..Team8 /\ at[0] > t + 3
  BY RingMainAt
<1>a. at[0] \in Nat /\ Team8 \in Nat /\ Team8 >= 2 /\ Team8 <= 8
  BY <1>1
<1>2. 0 \in Thread /\ at \in [Thread -> Nat] /\ \A t \in 1..8 : t \in Thread /\ t # 0
  BY DEF ThreadsPlaced, Thread
<1>b. ASSUME NEW t \in 1..8, at[0] <= t + 3 PROVE at[t] = 0
  <2>1. ~(at[0] > t + 3)
    BY <1>a, <1>b
  <2>2. ~(at[t] > 0)
    BY <1>1, <2>1
  <2>3. at[t] \in Nat
    BY <1>2
  <2>4. QED
    BY <2>2, <2>3
<1>3. ASSUME UNCHANGED <<BUFFER, FRONT, TAIL, printed>>,
             \A t \in 1..8 : at'[t] = at[t] \/ (at[t] = 0 /\ at'[t] = 1)
      PROVE  Contents' /\ \A u : RingUnits(at, u) => RingUnits(at', u)
  <2>1. /\ \A t \in 1..8, k \in 1..6 : Done(at'[t], k) = Done(at[t], k)
        /\ \A u : RingUnits(at, u) => RingUnits(at', u)
    BY <1>3, CreatedSame
  <2>2. \A t \in 1..8, k \in 3..4 : Done(at'[t], k) = Done(at[t], k)
    BY <2>1
  <2>3. Contents'
    BY <1>3, <2>2, ContentsKept DEF RingInv
  <2>4. QED
    BY <2>1, <2>3
<1>4. CASE at[0] <= 3
  <2> DEFINE n == Instruction(0)[2]
  <2>1. /\ at[0] = 1 \/ at[0] = 2 \/ at[0] = 3
        /\ Instruction(0)[1] = "create"
        /\ at[0] = 1 => n = 1
        /\ at[0] = 2 => n = BUFFER_SIZE
        /\ at[0] = 3 => n = 0
    <3>1. at[0] # 0
      BY <1>1
    <3>2. at[0] = 1 \/ at[0] = 2 \/ at[0] = 3
      BY <1>a, <1>4, <3>1
    <3>3. CASE at[0] = 1
      <4>1. Instruction(0) = Create(1)
        BY <1>1, <3>3, Zenon
      <4>2. QED
        BY <3>3, <4>1 DEF Create
    <3>4. CASE at[0] = 2
      <4>1. Instruction(0) = Create(BUFFER_SIZE)
        BY <1>1, <3>4, Zenon
      <4>2. QED
        BY <3>4, <4>1 DEF Create
    <3>5. CASE at[0] = 3
      <4>1. Instruction(0) = Create(0)
        BY <1>1, <3>5, Zenon
      <4>2. QED
        BY <3>5, <4>1 DEF Create
    <3>6. QED
      BY <3>2, <3>3, <3>4, <3>5
  <2>2. create(0)
    BY <1>2, <2>1, ActionOf
  <2>3. /\ units' = Append(units, n) /\ Advance(0, 1)
        /\ UNCHANGED <<exited, BUFFER, FRONT, TAIL, printed>>
    BY <2>2 DEF create, Shared
  <2>4. at'[0] = at[0] + 1 /\ \A t \in 1..8 : at'[t] = at[t]
    BY <1>2, <2>3 DEF Advance
  <2>5. Contents'
    BY <1>3, <2>3, <2>4
  <2>6. /\ Len(units) = at[0] - 1 /\ (at[0] >= 2 => units[1] = 1)
        /\ (at[0] = 3 => units[2] = BUFFER_SIZE)
    BY <1>4 DEF RingInv
  <2>7. /\ Len(units') = at[0] /\ units'[at[0]] = n
        /\ \A i \in 1 .. at[0] - 1 : units'[i] = units[i]
    BY <2>1, <2>3, <2>6
  <2> HIDE DEF n
  <2>8. \A k \in 1..Team8 : ~(at'[0] > Team8 + 3 + k)
    BY <1>1, <1>4, <2>4
  <2>9. /\ at'[0] <= 3 => /\ Len(units') = at'[0] - 1
                          /\ at'[0] >= 2 => units'[1] = 1
                          /\ at'[0] = 3 => units'[2] = BUFFER_SIZE
    <3>1. CASE at[0] = 1
      BY <2>1, <2>4, <2>7, <3>1
    <3>2. CASE at[0] = 2
      BY <2>1, <2>4, <2>6, <2>7, <3>2
    <3>3. CASE at[0] = 3
      BY <2>4, <3>3
    <3>4. QED
      BY <2>1, <3>1, <3>2, <3>3
  <2>10. ASSUME at'[0] > 3
         PROVE  Len(units') = 3 /\ RingUnits(at', units')
    <3>1. at[0] = 3
      BY <2>1, <2>4, <2>10
    <3>2. Len(units') = 3 /\ units'[1] = 1 /\ units'[2] = BUFFER_SIZE /\ units'[3] = 0
      BY <2>1, <2>6, <2>7, <3>1
    <3>3. \A t \in 1..8 : at'[t] = 0
      <4> SUFFICES ASSUME NEW t \in 1..8 PROVE at[t] = 0
        BY <2>4
      <4>1. at[0] <= t + 3
        BY <3>1
      <4>2. QED
        BY <1>b, <4>1
    <3>4. /\ \A q \in 1..2 : Took(at', q) = 0 /\ Gave(at', q) = 0
          /\ \A t \in 1..8 : Insiders(at')[t] = {}
      BY <3>3, NoneStarted
    <3>5. Exclusive(Insiders(at'), units', {0})
      BY <3>2, <3>4 DEF Exclusive
    <3>6. \A r \in 0..2 : units'[r + 1] \in Nat
      BY <3>2, ThreadCounts
    <3>7. \A q \in 1..2 : units'[q + 1] + Took(at', q) = Spare(q) + Gave(at', q)
      BY <3>2, <3>4, ThreadCounts DEF Spare
    <3>8. QED
      BY <3>2, <3>5, <3>6, <3>7 DEF RingUnits
  <2>11. QED
    BY <2>5, <2>8, <2>9, <2>10 DEF RingInv
<1>5. ASSUME at[0] > 3, at'[0] \in Nat, at'[0] > 3, units' = units, exited \subseteq exited',
             UNCHANGED <<BUFFER, FRONT, TAIL, printed>>,
             \A t \in 1..8 : at'[t] = at[t] \/ (at[t] = 0 /\ at'[t] = 1),
             \A k \in 1..Team8 : at'[0] > Team8 + 3 + k => k \in exited'
      PROVE  RingInv'
  <2>1. Contents' /\ RingUnits(at', units') /\ Len(units') = 3
    BY <1>3, <1>5 DEF RingInv
  <2>2. ~(at'[0] <= 3)
    BY <1>5
  <2>3. QED
    BY <1>5, <2>1, <2>2 DEF RingInv
<1>6. CASE at[0] \in 4..Team8 + 3
  <2> DEFINE k == at[0] - 3
  <2>a. at[0] >= 4 /\ at[0] <= Team8 + 3
    BY <1>a, <1>6
  <2>1. k \in 1..Team8 /\ Instruction(0)[1] = "thread" /\ Instruction(0)[2] = k
    <3>1. k \in 1..Team8 /\ Instruction(0) = Start(k)
      BY <1>1, <1>6, Zenon
    <3> HIDE DEF k
    <3>2. QED
      BY <3>1 DEF Start
  <2>2. thread_create(0)
    BY <1>2, <2>1, ActionOf
  <2>3. /\ at' = [at EXCEPT ![0] = @ + 1, ![k] = 1] /\ units' = units /\ exited' = exited
        /\ UNCHANGED <<BUFFER, FRONT, TAIL, printed>>
    BY <2>1, <2>2 DEF thread_create, Locks, Shared
  <2>4. k \in 1..8 /\ at[0] = k + 3 /\ at[k] = 0
    <3>a. \A j \in 1..Team8 : j \in 1..8
      BY <1>a
    <3>1. k \in 1..8
      BY <2>1, <3>a, Zenon
    <3>2. at[0] = k + 3
      BY <1>a
    <3> HIDE DEF k
    <3>3. at[0] <= k + 3
      BY <1>a, <3>2
    <3>4. QED
      BY <1>b, <3>1, <3>2, <3>3
  <2> HIDE DEF k
  <2>5. at'[0] = at[0] + 1 /\ \A t \in 1..8 : at'[t] = IF t = k THEN 1 ELSE at[t]
    <3>1. at[0] + 1 \in Nat
      BY <1>a
    <3>2. k \in Thread /\ k # 0
      BY <1>2, <2>4
    <3>3. QED
      BY <1>2, <2>3, <3>1, <3>2
  <2>b. at'[0] = at[0] + 1
    BY <2>5
  <2>6. \A j \in 1..Team8 : ~(at'[0] > Team8 + 3 + j)
    BY <1>a, <2>a, <2>b
  <2>7. \A t \in 1..8 : at'[t] = at[t] \/ (at[t] = 0 /\ at'[t] = 1)
    BY <2>4, <2>5
  <2>8. at[0] > 3 /\ at'[0] \in Nat /\ at'[0] > 3
    BY <1>a, <2>a, <2>b
  <2>9. QED
    BY <1>5, <2>3, <2>6, <2>7, <2>8
<1>7. CASE at[0] \in Team8 + 4 .. 2 * Team8 + 3
  <2> DEFINE k == at[0] - Team8 - 3
  <2>1. k \in 1..Team8 /\ Instruction(0)[1] = "join" /\ Instruction(0)[2] = k
    BY <1>1, <1>7 DEF Join
  <2>2. waittid(0)
    BY <1>2, <2>1, ActionOf
  <2>3. /\ k \in exited /\ Advance(0, 1) /\ units' = units /\ exited' = exited
        /\ UNCHANGED <<BUFFER, FRONT, TAIL, printed>>
    BY <2>1, <2>2 DEF waittid, Locks, Shared
  <2>4. at'[0] = at[0] + 1 /\ \A t \in 1..8 : at'[t] = at[t]
    BY <1>2, <2>3 DEF Advance
  <2>5. at[0] > 3 /\ at'[0] \in Nat /\ at'[0] > 3 /\ at[0] = Team8 + 3 + k
    <3>1. at[0] >= Team8 + 4
      BY <1>7
    <3>2. \A x, y \in Nat : x = y + 3 + (x - y - 3)
      OBVIOUS
    <3>3. at[0] = Team8 + 3 + k
      BY <1>a, <3>2
    <3>4. at'[0] = at[0] + 1
      BY <2>4
    <3>5. QED
      BY <1>a, <3>1, <3>3, <3>4
  <2> HIDE DEF k
  <2>6. ASSUME NEW j \in 1..Team8, at'[0] > Team8 + 3 + j PROVE j \in exited'
    <3>1. at'[0] = at[0] + 1 /\ at[0] = Team8 + 3 + k
      BY <2>4, <2>5
    <3>2. k \in Nat /\ j \in Nat
      BY <1>a, <2>1
    <3>3. j = k \/ at[0] > Team8 + 3 + j
      BY <1>a, <2>6, <3>1, <3>2
    <3>4. QED
      BY <2>3, <3>3 DEF RingInv
  <2>7. QED
    BY <1>5, <2>3, <2>4, <2>5, <2>6
<1>8. CASE at[0] = 2 * Team8 + 4
  <2>1. thread_exit(0)
    <3>1. Instruction(0)[1] = "exit"
      BY <1>1, <1>8 DEF Exit
    <3>2. QED
      BY <1>2, <3>1, ActionOf
  <2>2. /\ at' = at /\ units' = units /\ exited \subseteq exited'
        /\ UNCHANGED <<BUFFER, FRONT, TAIL, printed>>
    BY <2>1 DEF thread_exit, ThreadExits, Locks, Shared
  <2>3. at[0] > 3 /\ at'[0] \in Nat
    BY <1>1, <1>8, <2>2
  <2>4. QED
    BY <1>5, <2>2, <2>3 DEF RingInv
<1>9. QED
  <2>1. \/ at[0] <= 3 \/ at[0] \in 4..Team8 + 3 \/ at[0] \in Team8 + 4 .. 2 * Team8 + 3
        \/ at[0] = 2 * Team8 + 4
    BY <1>1
  <2>2. QED
    BY <1>4, <1>6, <1>7, <1>8, <2>1

-----------------------------------------------------------------------------
(*                      Producers and the consumer                         *)

(* No more is stored than there are slots, no more printed than stored.    *)
LEMMA RingCounts ==
    ASSUME NEW a \in [Thread -> Nat], NEW u, RingUnits(a, u)
    PROVE  /\ \A k \in {1, 3, 4, 6} : Total(a, k) \in Nat /\ Own(a, k) \in Nat
           /\ Total(a, 1) <= BUFFER_SIZE + Own(a, 3)
           /\ Own(a, 3) <= Own(a, 1) /\ Own(a, 1) <= Total(a, 3)
<1>1. \A k \in {1, 3, 4, 6} : Total(a, k) \in Nat /\ Own(a, k) \in Nat
  BY WorkTyped
<1>2. Total(a, 6) <= Total(a, 3) /\ Own(a, 6) <= Own(a, 3) /\ Own(a, 3) <= Own(a, 1)
  BY TotalOrder
<1>3. u[2] + Total(a, 1) = BUFFER_SIZE + Own(a, 6) /\ u[3] + Own(a, 1) = 0 + Total(a, 6)
  <2>1. \A q \in 1..2 : u[q + 1] + Took(a, q) = Spare(q) + Gave(a, q)
    BY DEF RingUnits
  <2>2. u[1 + 1] + Took(a, 1) = Spare(1) + Gave(a, 1) /\ u[2 + 1] + Took(a, 2) = Spare(2) + Gave(a, 2)
    BY <2>1
  <2>3. QED
    BY <2>2 DEF Took, Gave, Spare
<1>4. u[2] \in Nat /\ u[3] \in Nat
  <2>1. u[1 + 1] \in Nat /\ u[2 + 1] \in Nat
    BY DEF RingUnits
  <2>2. QED
    BY <2>1
<1>5. QED
  <2>1. /\ Total(a, 1) \in Nat /\ Own(a, 6) \in Nat /\ Own(a, 3) \in Nat /\ Own(a, 1) \in Nat
        /\ Total(a, 6) \in Nat /\ Total(a, 3) \in Nat /\ BUFFER_SIZE \in Nat
    BY <1>1, ThreadCounts
  <2>2. Total(a, 1) <= BUFFER_SIZE + Own(a, 3)
    BY <1>2, <1>3, <1>4, <2>1
  <2>3. Own(a, 1) <= Total(a, 3)
    BY <1>2, <1>3, <1>4, <2>1
  <2>4. QED
    BY <1>1, <1>2, <2>2, <2>3

LEMMA GoesOnFacts ==
    ASSUME NEW x \in 1..PRODUCER_COUNT + 1, GoesOn(at, at', x), NEW k \in 1..6
    PROVE  /\ x \in 1..8 /\ at[x] \in Nat \ {0}
           /\ Done(at'[x], k) = Done(at[x], k) + (IF Turn(at[x]) = k THEN 1 ELSE 0)
           /\ \A s \in 1..8 : s # x => Done(at'[s], k) = Done(at[s], k)
<1>1. x \in 1..8
  BY ThreadCounts
<1>2. at[x] \in Nat \ {0} /\ at'[x] = at[x] + 1 /\ \A s \in 1..8 : s # x => at'[s] = at[s]
  BY <1>1 DEF GoesOn, Thread
<1>3. Done(at'[x], k) = Done(at[x], k) + (IF Turn(at[x]) = k THEN 1 ELSE 0)
  <2> DEFINE i == at[x]
  <2>1. i \in Nat /\ i > 0 /\ at'[x] = i + 1
    BY <1>2
  <2> HIDE DEF i
  <2>2. Done(i + 1, k) = Done(i, k) + (IF Turn(i) = k THEN 1 ELSE 0)
    BY <2>1, DoneFacts
  <2>3. QED
    BY <2>1, <2>2 DEF i
<1>4. QED
  BY <1>1, <1>2, <1>3

LEMMA StoreKept ==
    ASSUME RingUnits(at, units), Contents, NEW t \in 1..PRODUCER_COUNT, GoesOn(at, at', t),
           Turn(at[t]) = 3, BUFFER' = [BUFFER EXCEPT ![FRONT] = t - 1],
           UNCHANGED <<FRONT, TAIL, printed>>
    PROVE  Contents'
<1> DEFINE lo == Own(at, 3)
           hi == Total(at, 3)
           w == t - 1
<1>1. PRODUCER_COUNT \in 1..7 /\ BUFFER_SIZE \in Nat \ {0} /\ t \in 1..PRODUCER_COUNT + 1
  BY ThreadCounts
<1>2. at \in [Thread -> Nat]
  BY DEF GoesOn
<1>3. /\ Total(at', 3) = hi + 1 /\ Own(at', 3) = lo
      /\ Total(at', 4) = Total(at, 4) /\ Own(at', 4) = Own(at, 4)
  <2>1. /\ Total(at', 3) = hi + (IF Turn(at[t]) = 3 THEN 1 ELSE 0) /\ Own(at', 3) = lo
        /\ Total(at', 4) = Total(at, 4) + (IF Turn(at[t]) = 4 THEN 1 ELSE 0)
        /\ Own(at', 4) = Own(at, 4)
    BY <1>1, TotalMoves
  <2>2. Total(at, 4) \in Nat
    BY <1>2, WorkTyped
  <2>3. QED
    BY <2>1, <2>2
<1>4. /\ lo \in Nat /\ hi \in Nat /\ lo <= hi /\ hi - lo < BUFFER_SIZE
  <2>1. /\ Total(at, 1) \in Nat /\ hi \in Nat /\ lo \in Nat /\ Own(at, 1) \in Nat
        /\ Total(at, 1) <= BUFFER_SIZE + lo
        /\ lo <= Own(at, 1) /\ Own(at, 1) <= hi
    BY <1>2, RingCounts
  <2>2. hi + 1 <= Total(at, 1)
    <3>1. 1 \in 1..3 /\ 3 \in 1..6 /\ Turn(at[t]) \in 1 + 1 .. 3
      OBVIOUS
    <3>2. QED
      BY <1>2, <3>1, TotalOrder
  <2> HIDE DEF lo, hi
  <2>3. QED
    BY <1>1, <2>1, <2>2
<1>5. Total(at, 4) = hi
  <2>1. ASSUME NEW p \in 1..PRODUCER_COUNT, Turn(at[p]) \in 3 + 1 .. 4 PROVE FALSE
    <3>1. p \in 1..8 /\ t \in 1..8 /\ p <= PRODUCER_COUNT + 1 /\ t <= PRODUCER_COUNT + 1
      BY <1>1
    <3>2. 0 \in Insiders(at)[p] /\ 0 \in Insiders(at)[t]
      BY <2>1, <3>1 DEF Insiders, Inside
    <3>3. p = t
      BY <3>1, <3>2 DEF RingUnits, Exclusive
    <3>4. QED
      BY <2>1, <3>3
  <2>2. 3 \in 1..4 /\ 4 \in 1..6
    OBVIOUS
  <2>3. QED
    BY <1>2, <2>1, <2>2, TotalOrder
<1>6. FRONT = hi % BUFFER_SIZE /\ FRONT \in 0 .. BUFFER_SIZE - 1
  BY <1>1, <1>4, <1>5, RemainderFacts DEF Contents
<1>7. w \in 0 .. PRODUCER_COUNT - 1
  BY <1>1
<1>8. /\ BUFFER \in [0 .. BUFFER_SIZE - 1 -> 0 .. PRODUCER_COUNT - 1]
      /\ BUFFER' = [BUFFER EXCEPT ![hi % BUFFER_SIZE] = w]
  BY <1>6 DEF Contents
<1>9. BUFFER' \in [0 .. BUFFER_SIZE - 1 -> 0 .. PRODUCER_COUNT - 1]
  BY <1>7, <1>8
<1>10. ASSUME NEW i \in 0 .. PRODUCER_COUNT - 1
       PROVE  Done(at'[i + 1], 3) = printed[i] + Cardinality(Filled(lo, hi + 1, BUFFER', i))
  <2>1. Cardinality(Filled(lo, hi + 1, BUFFER', i)) =
            Cardinality(Filled(lo, hi, BUFFER, i)) + (IF i = w THEN 1 ELSE 0)
    <3> HIDE DEF lo, hi, w
    <3>1. lo \in Nat /\ hi \in Nat /\ lo <= hi /\ hi - lo < BUFFER_SIZE
      BY <1>4
    <3>2. BUFFER \in [0 .. BUFFER_SIZE - 1 -> 0 .. PRODUCER_COUNT - 1]
      BY <1>8
    <3>3. w \in 0 .. PRODUCER_COUNT - 1 /\ BUFFER' = Stored(BUFFER, hi, w)
      BY <1>7, <1>8 DEF Stored
    <3>4. Cardinality(Filled(lo, hi + 1, Stored(BUFFER, hi, w), i)) =
              Cardinality(Filled(lo, hi, BUFFER, i)) + (IF i = w THEN 1 ELSE 0)
      BY <3>1, <3>2, <3>3, FilledStored
    <3>5. QED
      BY <3>3, <3>4
  <2>2. Cardinality(Filled(lo, hi, BUFFER, i)) \in Nat
    BY <1>4, FilledType
  <2>3. Done(at[i + 1], 3) = printed[i] + Cardinality(Filled(lo, hi, BUFFER, i)) /\ printed[i] \in Nat
    BY DEF Contents
  <2>4. Done(at'[i + 1], 3) = Done(at[i + 1], 3) + (IF i = w THEN 1 ELSE 0)
    <3>1. /\ Done(at'[t], 3) = Done(at[t], 3) + (IF Turn(at[t]) = 3 THEN 1 ELSE 0)
          /\ \A s \in 1..8 : s # t => Done(at'[s], 3) = Done(at[s], 3)
      BY <1>1, GoesOnFacts
    <3>2. i + 1 \in 1..8 /\ i + 1 \in Thread /\ (i = w <=> i + 1 = t)
      BY <1>1 DEF Thread
    <3>3. Done(at[i + 1], 3) \in Nat
      BY <1>2, <3>2, DoneFacts
    <3>4. QED
      BY <3>1, <3>2, <3>3
  <2> HIDE DEF lo, hi, w
  <2>5. QED
    BY <2>1, <2>2, <2>3, <2>4
<1>11. QED
  BY <1>3, <1>9, <1>10 DEF Contents

LEMMA PrintKept ==
    ASSUME RingUnits(at, units), Contents, GoesOn(at, at', PRODUCER_COUNT + 1),
           Turn(at[PRODUCER_COUNT + 1]) = 3, printed' = [printed EXCEPT ![BUFFER[TAIL]] = @ + 1],
           UNCHANGED <<BUFFER, FRONT, TAIL>>
    PROVE  Contents'
<1> DEFINE t == PRODUCER_COUNT + 1
           lo == Own(at, 3)
           hi == Total(at, 3)
<1>1. PRODUCER_COUNT \in 1..7 /\ BUFFER_SIZE \in Nat \ {0} /\ t \in 1..PRODUCER_COUNT + 1
  BY ThreadCounts
<1>2. at \in [Thread -> Nat]
  BY DEF GoesOn
<1>3. /\ Total(at', 3) = hi /\ Own(at', 3) = lo + 1
      /\ Total(at', 4) = Total(at, 4) /\ Own(at', 4) = Own(at, 4)
  <2>1. /\ Total(at', 3) = hi /\ Own(at', 3) = lo + (IF Turn(at[t]) = 3 THEN 1 ELSE 0)
        /\ Own(at', 4) = Own(at, 4) + (IF Turn(at[t]) = 4 THEN 1 ELSE 0)
        /\ Total(at', 4) = Total(at, 4)
    BY <1>1, TotalMoves
  <2>2. Own(at, 4) \in Nat
    BY <1>2, WorkTyped
  <2>3. QED
    BY <2>1, <2>2
<1>4. lo \in Nat /\ hi \in Nat /\ lo < hi /\ Own(at, 4) = lo
  <2>1. /\ hi \in Nat /\ lo \in Nat /\ Own(at, 1) \in Nat /\ Own(at, 4) \in Nat
        /\ Own(at, 1) <= hi
    BY <1>2, RingCounts
  <2>2. Own(at, 1) = lo + (IF Turn(at[t]) \in 1 + 1 .. 3 THEN 1 ELSE 0)
    BY <1>2, TotalOrder
  <2>3. lo = Own(at, 4) + (IF Turn(at[t]) \in 3 + 1 .. 4 THEN 1 ELSE 0)
    BY <1>2, TotalOrder
  <2> HIDE DEF lo, hi
  <2>4. QED
    BY <2>1, <2>2, <2>3
<1>5. TAIL = lo % BUFFER_SIZE /\ TAIL \in 0 .. BUFFER_SIZE - 1
  BY <1>1, <1>4, RemainderFacts DEF Contents
<1>6. /\ BUFFER[TAIL] \in 0 .. PRODUCER_COUNT - 1
      /\ printed \in [0 .. PRODUCER_COUNT - 1 -> Nat]
  BY <1>5 DEF Contents
<1>7. printed' \in [0 .. PRODUCER_COUNT - 1 -> Nat]
  BY <1>6
<1>8. ASSUME NEW i \in 0 .. PRODUCER_COUNT - 1
      PROVE  Done(at'[i + 1], 3) = printed'[i] + Cardinality(Filled(lo + 1, hi, BUFFER, i))
  <2>1. Cardinality(Filled(lo, hi, BUFFER, i)) =
            Cardinality(Filled(lo + 1, hi, BUFFER, i))
            + (IF BUFFER[lo % BUFFER_SIZE] = i THEN 1 ELSE 0)
    <3> HIDE DEF lo, hi
    <3>1. QED
      BY <1>4, FilledPrinted
  <2>2. Cardinality(Filled(lo + 1, hi, BUFFER, i)) \in Nat
    <3>1. lo + 1 \in Nat
      BY <1>4
    <3>2. QED
      BY <1>4, <3>1, FilledType
  <2>3. Done(at[i + 1], 3) = printed[i] + Cardinality(Filled(lo, hi, BUFFER, i)) /\ printed[i] \in Nat
    BY DEF Contents
  <2>4. Done(at'[i + 1], 3) = Done(at[i + 1], 3)
    <3>1. \A s \in 1..8 : s # t => Done(at'[s], 3) = Done(at[s], 3)
      BY <1>1, GoesOnFacts
    <3>2. i + 1 \in 1..8 /\ i + 1 # t
      BY <1>1
    <3>3. QED
      BY <3>1, <3>2
  <2>5. printed'[i] = printed[i] + (IF BUFFER[TAIL] = i THEN 1 ELSE 0)
    BY <1>6, <2>3
  <2> HIDE DEF lo, hi
  <2>6. QED
    BY <1>5, <2>1, <2>2, <2>3, <2>4, <2>5
<1>9. QED
  BY <1>3, <1>7, <1>8 DEF Contents

(* The index that follows a store or a print.                              *)
LEMMA IndexKept ==
    ASSUME Contents, NEW t \in 1..PRODUCER_COUNT + 1, GoesOn(at, at', t), Turn(at[t]) = 4,
           IF t <= PRODUCER_COUNT
           THEN FRONT' = (FRONT + 1) % BUFFER_SIZE /\ TAIL' = TAIL
           ELSE TAIL' = (TAIL + 1) % BUFFER_SIZE /\ FRONT' = FRONT,
           UNCHANGED <<BUFFER, printed>>
    PROVE  Contents'
<1>1. PRODUCER_COUNT \in 1..7 /\ BUFFER_SIZE \in Nat \ {0}
  BY ThreadCounts
<1>2. Total(at, 4) \in Nat /\ Own(at, 4) \in Nat /\ Total(at, 3) \in Nat /\ Own(at, 3) \in Nat
  BY WorkTyped DEF GoesOn
<1>3. \A k \in 3..4 :
         /\ t <= PRODUCER_COUNT =>
              /\ Total(at', k) = Total(at, k) + (IF Turn(at[t]) = k THEN 1 ELSE 0)
              /\ Own(at', k) = Own(at, k)
         /\ t = PRODUCER_COUNT + 1 =>
              /\ Total(at', k) = Total(at, k)
              /\ Own(at', k) = Own(at, k) + (IF Turn(at[t]) = k THEN 1 ELSE 0)
  BY TotalMoves
<1>4. /\ Total(at', 3) = Total(at, 3) /\ Own(at', 3) = Own(at, 3)
      /\ t <= PRODUCER_COUNT =>
           Total(at', 4) = Total(at, 4) + 1 /\ Own(at', 4) = Own(at, 4)
      /\ ~(t <= PRODUCER_COUNT) =>
           Total(at', 4) = Total(at, 4) /\ Own(at', 4) = Own(at, 4) + 1
  <2>1. t <= PRODUCER_COUNT \/ t = PRODUCER_COUNT + 1
    BY <1>1
  <2>2. ~(t <= PRODUCER_COUNT) => t = PRODUCER_COUNT + 1
    BY <1>1
  <2>3. QED
    BY <1>2, <1>3, <2>1, <2>2
<1>5. FRONT = Total(at, 4) % BUFFER_SIZE /\ TAIL = Own(at, 4) % BUFFER_SIZE
  BY DEF Contents
<1>6. /\ (FRONT + 1) % BUFFER_SIZE = (Total(at, 4) + 1) % BUFFER_SIZE
      /\ (TAIL + 1) % BUFFER_SIZE = (Own(at, 4) + 1) % BUFFER_SIZE
  BY <1>1, <1>2, <1>5, RemainderFacts
<1>7. FRONT' = Total(at', 4) % BUFFER_SIZE /\ TAIL' = Own(at', 4) % BUFFER_SIZE
  BY <1>4, <1>5, <1>6
<1>8. ASSUME NEW i \in 0 .. PRODUCER_COUNT - 1
      PROVE  Done(at'[i + 1], 3) = Done(at[i + 1], 3)
  <2>1. /\ Done(at'[t], 3) = Done(at[t], 3) + (IF Turn(at[t]) = 3 THEN 1 ELSE 0)
        /\ \A s \in 1..8 : s # t => Done(at'[s], 3) = Done(at[s], 3)
    BY GoesOnFacts
  <2>2. i + 1 \in 1..8 /\ i + 1 \in Thread
    BY <1>1 DEF Thread
  <2>3. Done(at[i + 1], 3) \in Nat
    BY <2>2, DoneFacts DEF GoesOn
  <2>4. QED
    BY <2>1, <2>2, <2>3
<1>9. QED
  BY <1>4, <1>7, <1>8 DEF Contents

LEMMA RingTeamStep ==
    ASSUME ThreadsPlaced, WaitersPlaced, Ring, RingInv, units \in Seq(Nat),
           NEW t \in 1..8, ThreadStep(t)
    PROVE  RingInv'
<1> DEFINE j == Turn(at[t])
           op == RingRow(t)[j]
<1>1. at[t] > 0 /\ t \in Thread /\ t \notin exited \cup blocked \cup asleep
  BY Acting
<1>2. /\ t \in 1..PRODUCER_COUNT + 1 /\ at[t] \in Nat \ {0} /\ j \in 1..6
      /\ \/ at[t] = Share(t) * 6 + 1 /\ Instruction(t) = Exit(0)
         \/ Instruction(t) = op
  BY <1>1, RingAt DEF Team8
<1>3. at \in [Thread -> Nat] /\ 0 \in Thread /\ \A s \in 1..8 : s \in Thread /\ s # 0
  BY DEF ThreadsPlaced, Thread
<1>4. at[0] \in Nat /\ at[0] > 3
  <2>1. at[0] \in Nat /\ at[0] > t + 3
    BY <1>1, RingMainAt
  <2>2. QED
    BY <2>1
<1>5. Len(units) = 3 /\ RingUnits(at, units) /\ Contents
  BY <1>4 DEF RingInv
<1>6. \A q \in 0..2 : q \in Nat /\ q < Len(units) /\ units[q + 1] \in Nat
  <2>1. \A q \in 0..2 : q \in Nat /\ q < Len(units)
    BY <1>5
  <2>2. QED
    BY <2>1, UnitsAfter
<1>7. ~Detecting
  BY DEF Ring, Detecting
<1>8. ASSUME Moves(t)
      PROVE  GoesOn(at, at', t) /\ at'[0] = at[0]
  <2>1. at' = [at EXCEPT ![t] = at[t] + 1] /\ at[t] + 1 \in Nat
    BY <1>2, <1>8 DEF Moves, Advance
  <2>2. /\ at' \in [Thread -> Nat] /\ at'[0] = at[0] /\ at'[t] = at[t] + 1
        /\ \A s \in 1..8 : s # t => at'[s] = at[s]
    BY <1>1, <1>3, <2>1
  <2>3. QED
    BY <1>1, <1>3, <2>2 DEF GoesOn
<1>9. CASE Instruction(t) = Exit(0)
  <2>1. thread_exit(t)
    <3>1. Instruction(t)[1] = "exit"
      BY <1>9 DEF Exit
    <3>2. QED
      BY <1>1, <3>1, ActionOf
  <2>2. /\ at' = at /\ units' = units /\ exited \subseteq exited'
        /\ UNCHANGED <<BUFFER, FRONT, TAIL, printed>>
    BY <2>1 DEF thread_exit, ThreadExits, Locks, Shared
  <2>3. Contents'
    BY <1>5, <2>2, ContentsKept
  <2>4. QED
    BY <1>4, <1>5, <2>2, <2>3, RingKept
<1>10. ASSUME Instruction(t) = op, j \in 1..2
       PROVE  RingInv'
  <2> DEFINE q == op[2]
  <2>1. q \in 0..2 /\ op = Down(q) /\ IsDown(op, q)
    <3>1. op[2] \in 0..2 /\ op = Down(op[2]) /\ op[1] = "down"
      BY <1>2, <1>10, RingRows
    <3>2. QED
      BY <3>1 DEF IsDown
  <2> HIDE DEF q
  <2>2. /\ Takes(t, q) \/ (at' = at /\ UNCHANGED units)
        /\ UNCHANGED <<exited, Shared>>
    BY <1>1, <1>7, <1>10, <2>1, DownStep
  <2>3. UNCHANGED <<exited, BUFFER, FRONT, TAIL, printed>>
    BY <2>2 DEF Shared
  <2>4. CASE at' = at /\ UNCHANGED units
    <3>1. Contents'
      BY <1>5, <2>3, <2>4, ContentsKept
    <3>2. QED
      BY <1>4, <1>5, <2>3, <2>4, <3>1, RingKept
  <2>5. CASE Takes(t, q)
    <3>1. units[q + 1] > 0 /\ units' = [units EXCEPT ![q + 1] = units[q + 1] - 1] /\ Moves(t)
      BY <2>5 DEF Takes, Free
    <3>2. GoesOn(at, at', t) /\ at'[0] = at[0]
      BY <1>8, <3>1
    <3>3. q \in Nat /\ q < Len(units) /\ units[q + 1] \in Nat /\ units[q + 1] - 1 \in Int
      BY <1>6, <2>1
    <3>4. /\ units'[q + 1] = units[q + 1] - 1 /\ Len(units') = 3
          /\ \A r \in Nat : r < Len(units) /\ r # q => units'[r + 1] = units[r + 1]
      BY <1>5, <3>1, <3>3, UnitsAfter
    <3>5. Adds(units, units', q, -1)
      <4> SUFFICES ASSUME NEW r \in 0..2
                   PROVE  units'[r + 1] = units[r + 1] + (IF r = q THEN -1 ELSE 0)
        BY DEF Adds
      <4>1. r \in Nat /\ r < Len(units) /\ units[r + 1] \in Nat
        BY <1>6
      <4>2. r # q => units'[r + 1] = units[r + 1]
        BY <3>4, <4>1
      <4>3. r = q => units'[r + 1] = units[r + 1] - 1
        BY <3>4
      <4>4. QED
        BY <4>1, <4>2, <4>3
    <3>6. RingUnits(at', units')
      BY <1>2, <1>5, <2>1, <3>1, <3>2, <3>5, RingUnitsMove
    <3>7. Contents'
      <4>1. \A s \in 1..8, k \in 3..4 : Done(at'[s], k) = Done(at[s], k)
        <5> SUFFICES ASSUME NEW s \in 1..8, NEW k \in 3..4 PROVE Done(at'[s], k) = Done(at[s], k)
          OBVIOUS
        <5>1. /\ Done(at'[t], k) = Done(at[t], k) + (IF j = k THEN 1 ELSE 0)
              /\ (s # t => Done(at'[s], k) = Done(at[s], k))
          BY <1>2, <3>2, GoesOnFacts
        <5>2. at[t] \in Nat /\ k \in 1..6 /\ j # k
          BY <1>2, <1>10
        <5>3. Done(at[t], k) \in Nat
          BY <5>2, DoneFacts
        <5>4. QED
          BY <5>1, <5>2, <5>3
      <4>2. QED
        BY <1>5, <2>3, <4>1, ContentsKept
    <3>8. QED
      BY <1>4, <2>3, <3>2, <3>4, <3>6, <3>7, RingKept
  <2>6. QED
    BY <2>2, <2>4, <2>5
<1>11. ASSUME Instruction(t) = op, j \in 3..4
       PROVE  RingInv'
  <2>1. op[1] \notin {"down", "up"}
    <3>1. op[1] # "down" /\ op[1] # "up"
      BY <1>2, <1>11, RingRows
    <3>2. QED
      BY <3>1
  <2>2. j = 3 => op = Do(IF t <= PRODUCER_COUNT THEN "store" ELSE "print")
    BY <1>2, RingRows
  <2>3. j = 4 => op = Do(IF t <= PRODUCER_COUNT THEN "front" ELSE "tail")
    BY <1>2, RingRows
  <2>4. /\ j = 3 => op[1] = IF t <= PRODUCER_COUNT THEN "store" ELSE "print"
        /\ j = 4 => op[1] = IF t <= PRODUCER_COUNT THEN "front" ELSE "tail"
    BY <2>2, <2>3 DEF Do
  <2>5. /\ j = 3 /\ t <= PRODUCER_COUNT => store(t)
        /\ j = 3 /\ ~(t <= PRODUCER_COUNT) => print(t)
        /\ j = 4 /\ t <= PRODUCER_COUNT => front(t)
        /\ j = 4 /\ ~(t <= PRODUCER_COUNT) => tail(t)
    BY <1>1, <1>11, <2>4, ActionOf
  <2>6. store(t) \/ print(t) \/ front(t) \/ tail(t)
    BY <1>11, <2>5
  <2>7. Moves(t) /\ units' = units /\ exited' = exited
    BY <2>6 DEF store, print, front, tail, Access, Moves, Locks
  <2>8. GoesOn(at, at', t) /\ at'[0] = at[0]
    BY <1>8, <2>7
  <2>9. RingUnits(at', units')
    <3>1. Adds(units, units', 0, 0)
      <4> SUFFICES ASSUME NEW r \in 0..2 PROVE units'[r + 1] = units[r + 1] + (IF r = 0 THEN 0 ELSE 0)
        BY DEF Adds
      <4>1. QED
        BY <1>6, <2>7
    <3>2. QED
      BY <1>2, <1>5, <2>1, <2>8, <3>1, RingUnitsMove
  <2>10. Contents'
    <3>1. CASE j = 3 /\ t <= PRODUCER_COUNT
      <4>1. t \in 1..PRODUCER_COUNT
        BY <1>2, <3>1, ThreadCounts
      <4>2. BUFFER' = [BUFFER EXCEPT ![FRONT] = t - 1] /\ UNCHANGED <<FRONT, TAIL, printed>>
        BY <2>5, <3>1 DEF store
      <4>3. QED
        BY <1>5, <2>8, <3>1, <4>1, <4>2, StoreKept
    <3>2. CASE j = 3 /\ ~(t <= PRODUCER_COUNT)
      <4>1. t = PRODUCER_COUNT + 1
        BY <1>2, <3>2, ThreadCounts
      <4>2. printed' = [printed EXCEPT ![BUFFER[TAIL]] = @ + 1] /\ UNCHANGED <<BUFFER, FRONT, TAIL>>
        BY <2>5, <3>2 DEF print
      <4>3. QED
        BY <1>5, <2>8, <3>2, <4>1, <4>2, PrintKept
    <3>3. CASE j = 4
      <4>1. IF t <= PRODUCER_COUNT
            THEN FRONT' = (FRONT + 1) % BUFFER_SIZE /\ TAIL' = TAIL
            ELSE TAIL' = (TAIL + 1) % BUFFER_SIZE /\ FRONT' = FRONT
        BY <2>5, <3>3 DEF front, tail
      <4>2. UNCHANGED <<BUFFER, printed>>
        BY <2>5, <3>3 DEF front, tail
      <4>3. QED
        BY <1>2, <1>5, <2>8, <3>3, <4>1, <4>2, IndexKept
    <3>4. QED
      BY <1>11, <3>1, <3>2, <3>3
  <2>11. QED
    BY <1>4, <1>5, <2>7, <2>8, <2>9, <2>10, RingKept
<1>12. ASSUME Instruction(t) = op, j \in 5..6
       PROVE  RingInv'
  <2> DEFINE q == op[2]
  <2>1. q \in 0..2 /\ op = Up(q) /\ IsUp(op, q)
    <3>1. op[2] \in 0..2 /\ op = Up(op[2]) /\ op[1] = "up"
      BY <1>2, <1>12, RingRows
    <3>2. QED
      BY <3>1 DEF IsUp
  <2> HIDE DEF q
  <2>2. /\ Frees(t, q) \/ \E y \in Thread : Passes(t, q, y)
        /\ UNCHANGED <<exited, Shared>>
    BY <1>1, <1>12, <2>1, UpStep
  <2>3. UNCHANGED <<exited, BUFFER, FRONT, TAIL, printed>>
    BY <2>2 DEF Shared
  <2>4. ASSUME \A s \in 1..8 : \/ at'[s] = at[s]
                               \/ /\ at'[s] = at[s] + 1 /\ at[s] \in Nat \ {0}
                                  /\ Turn(at[s]) \notin 3..4
        PROVE  Contents'
    <3>1. ASSUME NEW s \in 1..8, NEW k \in 3..4 PROVE Done(at'[s], k) = Done(at[s], k)
      <4>1. CASE at'[s] = at[s]
        BY <4>1
      <4>2. CASE at'[s] = at[s] + 1 /\ at[s] \in Nat \ {0} /\ Turn(at[s]) \notin 3..4
        <5> DEFINE i == at[s]
        <5>1. i \in Nat /\ i > 0 /\ Turn(i) # k /\ at'[s] = i + 1
          BY <4>2
        <5> HIDE DEF i
        <5>a. k \in 1..6
          OBVIOUS
        <5>2. Done(i + 1, k) = Done(i, k) + (IF Turn(i) = k THEN 1 ELSE 0) /\ Done(i, k) \in Nat
          BY <5>1, <5>a, DoneFacts
        <5>3. Done(i + 1, k) = Done(i, k)
          BY <5>1, <5>2
        <5>4. QED
          BY <5>1, <5>3 DEF i
      <4>3. QED
        BY <2>4, <4>1, <4>2
    <3>2. QED
      BY <1>5, <2>3, <3>1, ContentsKept
  <2>5. CASE Frees(t, q)
    <3>1. units' = [units EXCEPT ![q + 1] = units[q + 1] + 1] /\ Moves(t)
      BY <2>5 DEF Frees
    <3>2. GoesOn(at, at', t) /\ at'[0] = at[0]
      BY <1>8, <3>1
    <3>3. q \in Nat /\ q < Len(units) /\ units[q + 1] \in Nat /\ units[q + 1] + 1 \in Int
      BY <1>6, <2>1
    <3>4. /\ units'[q + 1] = units[q + 1] + 1 /\ Len(units') = 3
          /\ \A r \in Nat : r < Len(units) /\ r # q => units'[r + 1] = units[r + 1]
      BY <1>5, <3>1, <3>3, UnitsAfter
    <3>5. Adds(units, units', q, 1)
      <4> SUFFICES ASSUME NEW r \in 0..2
                   PROVE  units'[r + 1] = units[r + 1] + (IF r = q THEN 1 ELSE 0)
        BY DEF Adds
      <4>1. r \in Nat /\ r < Len(units) /\ units[r + 1] \in Nat
        BY <1>6
      <4>2. QED
        BY <3>4, <4>1
    <3>6. RingUnits(at', units')
      BY <1>2, <1>5, <2>1, <3>2, <3>5, RingUnitsMove
    <3>7. Contents'
      <4>1. j \notin 3..4
        BY <1>12
      <4>2. \A s \in 1..8 : \/ at'[s] = at[s]
                            \/ /\ at'[s] = at[s] + 1 /\ at[s] \in Nat \ {0}
                               /\ Turn(at[s]) \notin 3..4
        BY <1>2, <3>2, <4>1 DEF GoesOn
      <4>3. QED
        BY <2>4, <4>2
    <3>8. QED
      BY <1>4, <2>3, <3>2, <3>4, <3>6, <3>7, RingKept
  <2>6. ASSUME NEW y \in Thread, Passes(t, q, y) PROVE RingInv'
    <3>1. /\ y # t /\ at[y] > 0 /\ units' = units
          /\ Instruction(y)[1] = "down" /\ Instruction(y)[2] = q
          /\ at' = [at EXCEPT ![t] = @ + 1, ![y] = @ + 1]
      BY <2>6 DEF Passes
    <3>2. y \in 1..8
      <4>1. Instruction(0)[1] # "down"
        <5>1. /\ at[0] \in Nat /\ Team8 \in 2..8 /\ at[0] \in 1..2 * Team8 + 4
              /\ at[0] \in 4..Team8 + 3 => Instruction(0) = Start(at[0] - 3)
              /\ at[0] \in Team8 + 4 .. 2 * Team8 + 3 => Instruction(0) = Join(at[0] - Team8 - 3)
              /\ at[0] = 2 * Team8 + 4 => Instruction(0) = Exit(0)
          BY RingMainAt
        <5>2. \/ at[0] \in 4..Team8 + 3 \/ at[0] \in Team8 + 4 .. 2 * Team8 + 3
              \/ at[0] = 2 * Team8 + 4
          BY <1>4, <5>1
        <5>3. QED
          BY <5>1, <5>2 DEF Start, Join, Exit
      <4>2. y # 0
        BY <3>1, <4>1
      <4>3. QED
        BY <4>2 DEF Thread
    <3>3. /\ y \in 1..PRODUCER_COUNT + 1 /\ at[y] \in Nat \ {0} /\ Turn(at[y]) \in 1..6
          /\ \/ Instruction(y) = Exit(0)
             \/ Instruction(y) = RingRow(y)[Turn(at[y])]
      BY <3>1, <3>2, RingAt DEF Team8
    <3>4. Instruction(y) = RingRow(y)[Turn(at[y])]
      BY <3>1, <3>3 DEF Exit
    <3>5. IsDown(RingRow(y)[Turn(at[y])], q) /\ Turn(at[y]) \in 1..2
      <4>1. IsDown(RingRow(y)[Turn(at[y])], q)
        BY <3>1, <3>4 DEF IsDown
      <4>2. RingRow(y)[Turn(at[y])][1] = "down"
        BY <3>1, <3>4
      <4>3. QED
        BY <3>3, <4>1, <4>2, RingRows
    <3> DEFINE b == [at EXCEPT ![t] = at[t] + 1]
    <3>6. /\ at' \in [Thread -> Nat] /\ at'[0] = at[0] /\ at'[t] = at[t] + 1
          /\ at'[y] = at[y] + 1 /\ \A s \in 1..8 : s # t /\ s # y => at'[s] = at[s]
      <4>1. at' = [at EXCEPT ![t] = at[t] + 1, ![y] = at[y] + 1]
        BY <3>1
      <4>2. at[t] + 1 \in Nat /\ at[y] + 1 \in Nat
        BY <1>2, <3>3
      <4>3. y # 0 /\ t # 0
        BY <1>3, <3>2
      <4>4. QED
        BY <1>1, <1>3, <3>1, <4>1, <4>2, <4>3
    <3>7. /\ b \in [Thread -> Nat] /\ b[t] = at[t] + 1
          /\ \A s \in 1..8 : s # t => b[s] = at[s]
      <4>1. at[t] + 1 \in Nat
        BY <1>2
      <4>2. QED
        BY <1>1, <1>3, <4>1
    <3> HIDE DEF b
    <3>8. GoesOn(at, b, t)
      BY <1>1, <1>3, <3>7 DEF GoesOn
    <3>9. GoesOn(b, at', y)
      <4>1. b[y] = at[y] /\ at'[y] = b[y] + 1 /\ b[y] > 0
        BY <3>1, <3>2, <3>6, <3>7
      <4>2. \A s \in 1..8 : s # y => at'[s] = b[s]
        BY <3>6, <3>7
      <4>3. QED
        BY <3>6, <3>7, <4>1, <4>2 DEF GoesOn
    <3>10. RingUnits(at', units')
      BY <1>2, <1>5, <2>1, <3>1, <3>3, <3>5, <3>8, <3>9, RingUnitsPass
    <3>11. Contents'
      <4>1. j \notin 3..4 /\ Turn(at[y]) \notin 3..4
        BY <1>12, <3>5
      <4>2. \A s \in 1..8 : \/ at'[s] = at[s]
                            \/ /\ at'[s] = at[s] + 1 /\ at[s] \in Nat \ {0}
                               /\ Turn(at[s]) \notin 3..4
        BY <1>2, <3>3, <3>6, <4>1
      <4>3. QED
        BY <2>4, <4>2
    <3>12. Len(units') = 3
      BY <1>5, <3>1
    <3>13. QED
      BY <1>4, <2>3, <3>6, <3>10, <3>11, <3>12, RingKept
  <2>7. QED
    BY <2>2, <2>5, <2>6
<1>13. QED
  <2>1. j \in 1..2 \/ j \in 3..4 \/ j \in 5..6
    BY <1>2
  <2>2. QED
    BY <1>2, <1>9, <1>10, <1>11, <1>12, <2>1

LEMMA SumShare ==
    ASSUME NEW f, NEW n \in Nat,
           \A p \in 1..7 : f[p] = IF p <= PRODUCER_COUNT THEN n ELSE 0
    PROVE  Sum7(f) = PRODUCER_COUNT * n
<1>1. \/ PRODUCER_COUNT = 1 \/ PRODUCER_COUNT = 2 \/ PRODUCER_COUNT = 3 \/ PRODUCER_COUNT = 4
      \/ PRODUCER_COUNT = 5 \/ PRODUCER_COUNT = 6 \/ PRODUCER_COUNT = 7
  BY ThreadCounts
<1>2. /\ f[1] = IF 1 <= PRODUCER_COUNT THEN n ELSE 0
      /\ f[2] = IF 2 <= PRODUCER_COUNT THEN n ELSE 0
      /\ f[3] = IF 3 <= PRODUCER_COUNT THEN n ELSE 0
      /\ f[4] = IF 4 <= PRODUCER_COUNT THEN n ELSE 0
      /\ f[5] = IF 5 <= PRODUCER_COUNT THEN n ELSE 0
      /\ f[6] = IF 6 <= PRODUCER_COUNT THEN n ELSE 0
      /\ f[7] = IF 7 <= PRODUCER_COUNT THEN n ELSE 0
  OBVIOUS
<1>3. QED
  BY <1>1, <1>2 DEF Sum7

LEMMA RingPrinted ==
    ASSUME ThreadsPlaced, WaitersPlaced, Ring => RingInv
    PROVE  EachNumberOnce
<1> SUFFICES ASSUME Ring, 0 \in exited
             PROVE  \A i \in DOMAIN printed : printed[i] = NUMBER_PER_PRODUCER
  BY DEF EachNumberOnce, Ring
<1> DEFINE n == NUMBER_PER_PRODUCER
<1>1. PRODUCER_COUNT \in 1..7 /\ n \in Nat /\ PRODUCER_COUNT * n \in Nat
  BY ThreadCounts
<1>2. /\ at[0] \in Nat /\ Team8 \in 2..8 /\ at[0] = 2 * Team8 + 4
  <2>1. /\ at[0] \in 1..2 * Team8 + 4 /\ at[0] \in Nat /\ Team8 \in 2..8
        /\ at[0] = 1 => Instruction(0) = Create(1)
        /\ at[0] = 2 => Instruction(0) = Create(BUFFER_SIZE)
        /\ at[0] = 3 => Instruction(0) = Create(0)
        /\ at[0] \in 4..Team8 + 3 => Instruction(0) = Start(at[0] - 3)
        /\ at[0] \in Team8 + 4 .. 2 * Team8 + 3 => Instruction(0) = Join(at[0] - Team8 - 3)
    BY RingMainAt
  <2>2. EndsThread(Instruction(0))
    BY DEF WaitersPlaced
  <2>3. /\ Instruction(0)[1] # "create" /\ Instruction(0)[1] # "thread"
        /\ Instruction(0)[1] # "join"
    BY <2>2 DEF EndsThread
  <2>4. /\ at[0] # 1 /\ at[0] # 2 /\ at[0] # 3 /\ at[0] \notin 4..Team8 + 3
        /\ at[0] \notin Team8 + 4 .. 2 * Team8 + 3
    BY <2>1, <2>3 DEF Create, Start, Join
  <2>5. QED
    BY <2>1, <2>4
<1>3. \A k \in 1..Team8 : k \in exited
  <2> SUFFICES ASSUME NEW k \in 1..Team8 PROVE k \in exited
    OBVIOUS
  <2>1. at[0] > Team8 + 3 + k
    BY <1>2
  <2>2. QED
    BY <2>1 DEF RingInv
<1>4. \A p \in 1..Team8 : Done(at[p], 3) = Share(p)
  <2> SUFFICES ASSUME NEW p \in 1..Team8 PROVE Done(at[p], 3) = Share(p)
    OBVIOUS
  <2>1. p \in exited \ {0}
    BY <1>2, <1>3
  <2>2. QED
    BY <2>1, RingExited
<1>5. Own(at, 3) = PRODUCER_COUNT * n
  <2>1. PRODUCER_COUNT + 1 \in 1..Team8 /\ ~(PRODUCER_COUNT + 1 <= PRODUCER_COUNT)
    BY <1>1 DEF Team8
  <2>2. QED
    BY <1>4, <2>1 DEF Own, Share
<1>6. \A p \in 1..PRODUCER_COUNT : Done(at[p], 3) = n
  <2>1. \A p \in 1..PRODUCER_COUNT : p \in 1..Team8 /\ p <= PRODUCER_COUNT
    BY <1>1 DEF Team8
  <2>2. QED
    BY <1>4, <2>1 DEF Share
<1>7. Total(at, 3) = PRODUCER_COUNT * n
  <2>1. \A p \in 1..7 : Work(at, 3)[p] = IF p <= PRODUCER_COUNT THEN n ELSE 0
    <3>1. \A p \in 1..7 : p <= PRODUCER_COUNT => p \in 1..PRODUCER_COUNT
      BY <1>1
    <3>2. QED
      BY <1>6, <3>1 DEF Work
  <2>2. QED
    BY <1>1, <2>1, SumShare DEF Total
<1>8. ASSUME NEW i \in 0 .. PRODUCER_COUNT - 1 PROVE printed[i] = n
  <2>1. Done(at[i + 1], 3) = printed[i] + Cardinality(Filled(Own(at, 3), Total(at, 3), BUFFER, i))
    BY DEF RingInv, Contents
  <2>2. Done(at[i + 1], 3) = n
    <3>1. i + 1 \in 1..PRODUCER_COUNT
      BY <1>1
    <3>2. QED
      BY <1>6, <3>1
  <2>3. Cardinality(Filled(Own(at, 3), Total(at, 3), BUFFER, i)) = 0
    <3> DEFINE m == PRODUCER_COUNT * n
    <3>1. m .. m - 1 = {}
      BY <1>1
    <3>2. Filled(m, m, BUFFER, i) = {}
      BY <3>1 DEF Filled
    <3>3. QED
      BY <1>5, <1>7, <3>2, FS_EmptySet
  <2>4. printed[i] \in Nat
    BY DEF RingInv, Contents
  <2>5. QED
    BY <2>1, <2>2, <2>3, <2>4
<1>9. DOMAIN printed = 0 .. PRODUCER_COUNT - 1
  BY DEF RingInv, Contents
<1>10. QED
  BY <1>8, <1>9

-----------------------------------------------------------------------------
(*                     Every program is synchronised                       *)

Kept ==
    /\ Forked => ForksInv
    /\ test \in PairTests => PairInv
    /\ Ring => RingInv

LEMMA KeptAtStart == ThreadInit => Kept
<1> SUFFICES ASSUME ThreadInit PROVE Kept
  OBVIOUS
<1>1. /\ at = [t \in Thread |-> IF t = 0 THEN 1 ELSE 0] /\ units = <<>> /\ exited = {}
      /\ A = 0 /\ FRONT = 0 /\ TAIL = 0
      /\ BUFFER = [i \in 0 .. BUFFER_SIZE - 1 |-> 0]
      /\ printed = [i \in 0 .. PRODUCER_COUNT - 1 |-> 0]
  BY DEF ThreadInit, ThreadsAtStart
<1>2. at[0] = 1 /\ \A t \in 1..8 : at[t] = 0
  BY <1>1 DEF Thread
<1>3. Len(units) = 0
  BY <1>1
<1>4. ForksInv
  <2>1. \A t \in 1..8 : at[t] <= 1 /\ Grips[t] = {}
    BY <1>2, NoGrip DEF Grips
  <2>2. N \in Nat /\ N >= 2
    BY ThreadCounts
  <2>3. at[0] <= 2 * N /\ at[0] \div 2 = 0
    BY <1>2, <2>2
  <2>4. Exclusive(Grips, units, 0 .. Len(units) - 1)
    <3>1. 0 .. Len(units) - 1 = {}
      BY <1>3
    <3>2. QED
      BY <3>1 DEF Exclusive
  <2>5. QED
    BY <1>3, <2>1, <2>3, <2>4 DEF ForksInv
<1>5. PairInv
  BY <1>1, <1>2, <1>3 DEF PairInv
<1>6. RingInv
  <2>1. \A k \in 1..6 : Total(at, k) = 0 /\ Own(at, k) = 0
    BY <1>2, NoneStarted
  <2>2. PRODUCER_COUNT \in 1..7 /\ BUFFER_SIZE \in Nat \ {0}
    BY ThreadCounts
  <2>3. 0 % BUFFER_SIZE = 0
    BY <2>2
  <2>4. Contents
    <3>1. FRONT = Total(at, 4) % BUFFER_SIZE /\ TAIL = Own(at, 4) % BUFFER_SIZE
      BY <1>1, <2>1, <2>3
    <3>2. /\ BUFFER \in [0 .. BUFFER_SIZE - 1 -> 0 .. PRODUCER_COUNT - 1]
          /\ printed \in [0 .. PRODUCER_COUNT - 1 -> Nat]
      BY <1>1, <2>2
    <3>3. ASSUME NEW i \in 0 .. PRODUCER_COUNT - 1
          PROVE  Done(at[i + 1], 3) =
                     printed[i] + Cardinality(Filled(Own(at, 3), Total(at, 3), BUFFER, i))
      <4>1. Done(at[i + 1], 3) = 0
        <5>1. at[i + 1] = 0
          BY <1>2, <2>2
        <5>2. QED
          BY <5>1, DoneFacts
      <4>2. Filled(0, 0, BUFFER, i) = {}
        <5>1. 0 .. 0 - 1 = {}
          OBVIOUS
        <5>2. QED
          BY <5>1 DEF Filled
      <4>3. Cardinality(Filled(Own(at, 3), Total(at, 3), BUFFER, i)) = 0
        BY <2>1, <4>2, FS_EmptySet
      <4>4. printed[i] = 0
        BY <1>1
      <4>5. QED
        BY <4>1, <4>3, <4>4
    <3>4. QED
      BY <3>1, <3>2, <3>3 DEF Contents
  <2>5. \A k \in 1..Team8 : ~(at[0] > Team8 + 3 + k)
    BY <1>2, <2>2 DEF Team8
  <2>6. QED
    BY <1>2, <1>3, <2>4, <2>5 DEF RingInv
<1>7. QED
  BY <1>4, <1>5, <1>6 DEF Kept

LEMMA KeptStep ==
    ASSUME ThreadsPlaced, WaitersPlaced, units \in Seq(Nat), Kept, NEW t \in Thread, ThreadStep(t)
    PROVE  Kept'
<1>1. test' = test
  BY StepKinds
<1>2. t = 0 \/ t \in 1..8
  BY DEF Thread
<1>3. ASSUME Forked PROVE ForksInv'
  BY <1>2, <1>3, ForksMainStep, ForksTeamStep DEF Kept
<1>4. ASSUME test \in PairTests PROVE PairInv'
  <2>1. PairInv /\ (test = "sync_sem" \/ test = "test_condvar")
    BY <1>4 DEF Kept, PairTests
  <2>2. QED
    BY <1>2, <1>4, <2>1, PairStart, SemStep, CondvarStep
<1>5. ASSUME Ring PROVE RingInv'
  BY <1>2, <1>5, RingMainStep, RingTeamStep DEF Kept
<1>6. QED
  BY <1>1, <1>3, <1>4, <1>5 DEF Kept, Forked, Ring

LEMMA KeptUntouched ==
    ASSUME Kept, UNCHANGED <<test, at, units, exited, A, BUFFER, FRONT, TAIL, printed>>
    PROVE  Kept'
<1>1. ForksInv => ForksInv'
  BY DEF ForksInv, Grips
<1>2. PairInv => PairInv'
  BY DEF PairInv
<1>3. RingInv => RingInv'
  <2>1. Contents => Contents'
    BY DEF Contents
  <2>2. QED
    BY <2>1 DEF RingInv
<1>4. QED
  BY <1>1, <1>2, <1>3 DEF Kept, Forked, Ring

LEMMA KeptSynchronised ==
    ASSUME ThreadsPlaced, WaitersPlaced, Kept
    PROVE  Synchronised
<1>1. NeighboursEatApart
  <2>1. CASE Forked
    BY <2>1, ForksApart DEF Kept
  <2>2. CASE ~Forked
    BY <2>2 DEF NeighboursEatApart, Eating, Forked
  <2>3. QED
    BY <2>1, <2>2
<1>2. EachNumberOnce
  BY RingPrinted DEF Kept
<1>3. SecondAfterFirst
  <2>1. CASE test \in PairTests
    BY <2>1, PairOrdered DEF Kept
  <2>2. CASE test \notin PairTests
    BY <2>2 DEF SecondAfterFirst, PairTests
  <2>3. QED
    BY <2>1, <2>2
<1>4. QED
  BY <1>1, <1>2, <1>3 DEF Synchronised

(* Mutexes, semaphores and the condition variable keep the threads in step *)
(* for any number of philosophers, rounds, slots, producers and numbers:   *)
(* no two neighbours eat at once, the consumer prints every number of      *)
(* every producer once, and the second thread goes on only after the first *)
(* has worked: phil_din_mutex, mpsc_sem, sync_sem, test_condvar.           *)
THEOREM ThreadsSynchronised == Spec => []Synchronised
<1> DEFINE Inv == test # "none" => Kept
<1>1. Init => Inv
  <2> SUFFICES ASSUME Init PROVE Inv
    OBVIOUS
  <2>1. ThreadInit \/ ThreadsOff
    BY DEF Init, ThreadsOff
  <2>2. QED
    BY <2>1, KeptAtStart DEF ThreadsOff
<1>2. ThreadInv /\ Inv /\ [Next]_vars => Inv'
  <2> SUFFICES ASSUME ThreadInv, Inv, [Next]_vars PROVE Inv'
    OBVIOUS
  <2>1. CASE UNCHANGED tvars
    <3>1. UNCHANGED <<test, at, units, exited, A, BUFFER, FRONT, TAIL, printed>>
      BY <2>1 DEF tvars
    <3>2. QED
      BY <3>1, KeptUntouched
  <2>2. CASE test # "none" /\ ThreadNext
    <3>1. ThreadsPlaced /\ WaitersPlaced /\ units \in Seq(Nat) /\ Kept
      BY <2>2 DEF ThreadInv, ThreadsOff, StateTyped
    <3>2. ASSUME NEW t \in Thread, ThreadStep(t) PROVE Kept'
      BY <3>1, <3>2, KeptStep
    <3>3. ASSUME NEW t \in Thread, SpuriousWakeup(t) PROVE Kept'
      <4>1. UNCHANGED <<test, at, units, exited, A, BUFFER, FRONT, TAIL, printed>>
        BY <3>3 DEF SpuriousWakeup, Locks, Shared
      <4>2. QED
        BY <3>1, <4>1, KeptUntouched
    <3>4. QED
      BY <2>1, <2>2, <3>2, <3>3 DEF ThreadNext, ThreadsEnded
  <2>3. QED
    BY <2>1, <2>2 DEF Next, vars
<1>3. ThreadInv /\ Inv => Synchronised
  <2>1. CASE test = "none"
    BY <2>1 DEF Synchronised, NeighboursEatApart, Eating, EachNumberOnce, SecondAfterFirst
  <2>2. CASE test # "none"
    BY <2>2, KeptSynchronised DEF ThreadInv, ThreadsOff
  <2>3. QED
    BY <2>1, <2>2
<1>4. QED
  BY <1>1, <1>2, <1>3, ThreadsInvariant, PTL DEF Spec

=============================================================================
