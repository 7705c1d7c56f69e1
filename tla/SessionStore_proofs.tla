-------------------------- MODULE SessionStore_proofs --------------------------
(***************************************************************************)
(* Proofs about SessionStore, for any number of processes, commands, runs  *)
(* and faults.                                                             *)
(***************************************************************************)
EXTENDS SessionStore, SequenceTheorems, Counting

(***************************************************************************)
(* Reading lines.                                                          *)
(***************************************************************************)
Good(lines) == {i \in DOMAIN lines : lines[i].turn # Garbage}
TurnsIn(lines) == {lines[i].turn : i \in Good(lines)}
Members(seq) == {seq[i] : i \in DOMAIN seq}

\* What Readable has kept of the first n lines.
Kept(lines, k) ==
    k = [n \in 0..Len(lines) |->
           IF n = 0 THEN <<>>
           ELSE IF lines[n].turn # Garbage THEN Append(k[n - 1], lines[n].turn)
           ELSE k[n - 1]]

\* Each line holds a turn of T or is garbage.
LinesOf(T, lines) ==
    Len(lines) \in Nat /\ \A i \in 1..Len(lines) : lines[i].turn \in T \cup {Garbage}

\* What was read are turns of T, the ones in the lines that are not garbage.
Reads(T, lines, read) ==
    /\ read \in Seq(T)
    /\ {read[i] : i \in 1..Len(read)}
         = {lines[i].turn : i \in {j \in 1..Len(lines) : lines[j].turn # Garbage}}

\* The recursion of Readable defines a function.
LEMMA KeptExists ==
    ASSUME NEW T, NEW lines, LinesOf(T, lines)
    PROVE  \E k \in [0..Len(lines) -> Seq(T)] : Kept(lines, k)
  <1> USE DEF LinesOf
  <1> DEFINE step == [x \in Seq(T) \X (1..Len(lines)) |->
                        IF lines[x[2]].turn # Garbage THEN Append(x[1], lines[x[2]].turn)
                        ELSE x[1]]
  <1>1. step \in [Seq(T) \X (1..Len(lines)) -> Seq(T)]
    <2>1. ASSUME NEW x \in Seq(T) \X (1..Len(lines))
          PROVE  (IF lines[x[2]].turn # Garbage THEN Append(x[1], lines[x[2]].turn)
                  ELSE x[1]) \in Seq(T)
      <3>1. x[1] \in Seq(T) /\ x[2] \in 1..Len(lines)
        OBVIOUS
      <3>2. lines[x[2]].turn \in T \cup {Garbage}
        BY <3>1
      <3> DEFINE t == lines[x[2]].turn
      <3> HIDE DEF t
      <3>3. t # Garbage => Append(x[1], t) \in Seq(T)
        BY <3>1, <3>2, AppendProperties DEF t
      <3>. QED  BY <3>1, <3>3 DEF t
    <2>. QED  BY <2>1
  <1>2. <<>> \in Seq(T)
    OBVIOUS
  <1>3. \E f \in [0..Len(lines) -> Seq(T)] :
          f[0] = <<>> /\ \A n \in 1..Len(lines) : f[n] = step[<<f[n - 1], n>>]
    <2> HIDE DEF step
    <2>1. PICK V, N, start, st : V = Seq(T) /\ N = Len(lines) /\ start = <<>> /\ st = step
      OBVIOUS
    <2>2. N \in Nat /\ start \in V /\ st \in [V \X (1..N) -> V]
      BY <1>1, <1>2, <2>1
    <2>3. PICK f : Stepwise(f, V, start, N, st)
      BY <2>2, StepByStep
    <2>. QED  BY <2>1, <2>3 DEF Stepwise
  <1>4. PICK f \in [0..Len(lines) -> Seq(T)] :
          f[0] = <<>> /\ \A n \in 1..Len(lines) : f[n] = step[<<f[n - 1], n>>]
    BY <1>3
  <1>5. ASSUME NEW n \in 1..Len(lines)
        PROVE  f[n] = IF lines[n].turn # Garbage THEN Append(f[n - 1], lines[n].turn)
                      ELSE f[n - 1]
    <2>1. n - 1 \in 0..Len(lines)
      OBVIOUS
    <2>2. f[n - 1] \in Seq(T)
      BY <2>1
    <2>3. <<f[n - 1], n>> \in Seq(T) \X (1..Len(lines))
      BY <2>2
    <2>. QED  BY <1>4, <2>3
  <1> HIDE DEF step
  <1>6. f = [n \in 0..Len(lines) |->
               IF n = 0 THEN <<>>
               ELSE IF lines[n].turn # Garbage THEN Append(f[n - 1], lines[n].turn)
               ELSE f[n - 1]]
    <2>1. ASSUME NEW n \in 0..Len(lines)
          PROVE  f[n] = IF n = 0 THEN <<>>
                        ELSE IF lines[n].turn # Garbage THEN Append(f[n - 1], lines[n].turn)
                        ELSE f[n - 1]
      <3>1. CASE n = 0
        BY <1>4, <3>1
      <3>2. CASE n # 0
        <4>1. n \in 1..Len(lines)
          BY <3>2
        <4>. QED  BY <1>5, <3>2, <4>1
      <3>. QED  BY <3>1, <3>2
    <2>. QED  BY <1>4, <2>1
  <1>. QED  BY <1>6 DEF Kept

\* Line by line, what is kept are the turns in the lines that are not garbage.
LEMMA KeptTurnsAre ==
    ASSUME NEW T, NEW lines, LinesOf(T, lines), NEW kept, Kept(lines, kept)
    PROVE  Reads(T, lines, kept[Len(lines)])
  <1> USE DEF LinesOf
  <1> DEFINE Through(n) == /\ kept[n] \in Seq(T)
                           /\ {kept[n][i] : i \in 1..Len(kept[n])}
                                = {lines[i].turn : i \in {j \in 1..n : lines[j].turn # Garbage}}
             S == {n \in Nat : n <= Len(lines) => Through(n)}
  <1>1. /\ kept[0] = <<>>
        /\ \A n \in 1..Len(lines) : kept[n] = IF lines[n].turn # Garbage
                                              THEN Append(kept[n - 1], lines[n].turn)
                                              ELSE kept[n - 1]
    <2>1. \A n \in 0..Len(lines) :
            kept[n] = IF n = 0 THEN <<>>
                      ELSE IF lines[n].turn # Garbage THEN Append(kept[n - 1], lines[n].turn)
                      ELSE kept[n - 1]
      BY Zenon DEF Kept
    <2>2. 0 \in 0..Len(lines) /\ 1..Len(lines) \subseteq 0..Len(lines)
      OBVIOUS
    <2>3. ASSUME NEW n \in 1..Len(lines)
          PROVE  kept[n] = IF lines[n].turn # Garbage THEN Append(kept[n - 1], lines[n].turn)
                           ELSE kept[n - 1]
      <3>1. n # 0 /\ n \in 0..Len(lines)
        OBVIOUS
      <3>. QED  BY <2>1, <3>1, Zenon
    <2>4. kept[0] = <<>>
      BY <2>1, <2>2, Zenon
    <2>. QED  BY <2>3, <2>4
  <1>2. Through(0)
    BY <1>1
  <1>3. ASSUME NEW n \in Nat, n + 1 <= Len(lines), Through(n) PROVE Through(n + 1)
    <2>1. n + 1 \in 1..Len(lines) /\ (n + 1) - 1 = n
      BY <1>3
    <2>2. CASE lines[n + 1].turn = Garbage
      <3>1. kept[n + 1] = kept[n]
        BY <1>1, <2>1, <2>2
      <3>2. {j \in 1..(n + 1) : lines[j].turn # Garbage} = {j \in 1..n : lines[j].turn # Garbage}
        BY <2>2
      <3>. QED  BY <1>3, <3>1, <3>2
    <2>3. CASE lines[n + 1].turn # Garbage
      <3>1. PICK s, e : s = kept[n] /\ e = lines[n + 1].turn
        OBVIOUS
      <3>2. kept[n + 1] = Append(s, e) /\ e \in T /\ s \in Seq(T)
        BY <1>1, <1>3, <2>1, <2>3, <3>1
      <3>3. /\ Append(s, e) \in Seq(T) /\ Len(Append(s, e)) = Len(s) + 1 /\ Len(s) \in Nat
            /\ \A i \in 1..Len(s) : Append(s, e)[i] = s[i]
            /\ Append(s, e)[Len(s) + 1] = e
        BY <3>2, AppendProperties
      <3>4. {Append(s, e)[i] : i \in 1..Len(Append(s, e))} = {s[i] : i \in 1..Len(s)} \cup {e}
        <4>1. 1..Len(Append(s, e)) = (1..Len(s)) \cup {Len(s) + 1}
          BY <3>3
        <4>. QED  BY <3>3, <4>1
      <3>5. {j \in 1..(n + 1) : lines[j].turn # Garbage}
              = {j \in 1..n : lines[j].turn # Garbage} \cup {n + 1}
        BY <2>3
      <3>6. {lines[i].turn : i \in {j \in 1..(n + 1) : lines[j].turn # Garbage}}
              = {lines[i].turn : i \in {j \in 1..n : lines[j].turn # Garbage}} \cup {e}
        BY <3>1, <3>5
      <3>7. kept[n + 1] \in Seq(T)
        BY <3>2, <3>3
      <3>8. {kept[n + 1][i] : i \in 1..Len(kept[n + 1])} = {s[i] : i \in 1..Len(s)} \cup {e}
        BY <3>2, <3>4
      <3>9. {s[i] : i \in 1..Len(s)}
              = {lines[i].turn : i \in {j \in 1..n : lines[j].turn # Garbage}}
        BY <1>3, <3>1
      <3>. QED  BY <3>6, <3>7, <3>8, <3>9
    <2>. QED  BY <2>2, <2>3
  <1> HIDE DEF Through
  <1>4. 0 \in S
    BY <1>2
  <1>5. \A n \in Nat : n \in S => n + 1 \in S
    BY <1>3
  <1> HIDE DEF S
  <1>6. Len(lines) \in S
    BY <1>4, <1>5, NumberInduction
  <1>7. Through(Len(lines))
    <2>1. Len(lines) <= Len(lines)
      OBVIOUS
    <2>. QED  BY <1>6, <2>1, Zenon DEF S
  <1>. QED  BY <1>7 DEF Through, Reads

\* What is read of the lines are the turns in the ones that are not garbage.
LEMMA ReadableTurnsAre ==
    ASSUME NEW T, NEW L, \A l \in L : l.turn \in T \cup {Garbage}, NEW lines \in Seq(L)
    PROVE  Readable(lines) \in Seq(T) /\ Members(Readable(lines)) = TurnsIn(lines)
  <1> DEFINE kept == CHOOSE k : Kept(lines, k)
  <1>1. DOMAIN lines = 1..Len(lines) /\ LinesOf(T, lines)
    BY DEF LinesOf
  <1>2. Readable(lines) = kept[Len(lines)]
    BY Zenon DEF Readable, Kept
  <1>3. Kept(lines, kept)
    BY <1>1, KeptExists, Zenon
  <1> HIDE DEF kept
  <1>4. Reads(T, lines, Readable(lines))
    BY <1>1, <1>2, <1>3, KeptTurnsAre, Zenon
  <1>5. DOMAIN Readable(lines) = 1..Len(Readable(lines))
    BY <1>4 DEF Reads
  <1>. QED  BY <1>1, <1>4, <1>5 DEF Good, TurnsIn, Members, Reads

-----------------------------------------------------------------------------
(***************************************************************************)
(* The inductive invariant.                                                *)
(***************************************************************************)
Loads == {"refresh", "truncate", "write", "load", "load summary"}

\* What a command is, is known by where it is: a turn loads the session, a
\* restore checks it.
FitsPlace(job) ==
    /\ job.pc # "idle" => job.command \in 1..MaxCommands
    /\ job.pc \in Loads => job.run = NoRun
    /\ job.pc = "check" => job.run \in Runs

PlaceInv == \A p \in Procs : FitsPlace(proc[p])

TypeInv == TypeOK /\ PlaceInv

\* Each command has a number of its own, and what it has not appended yet
\* nobody appended for it.
NumbersInv ==
    /\ \A t \in appended : t.command <= commands
    /\ \A p \in Procs :
         /\ proc[p].command <= commands
         /\ \A q \in Procs : p # q /\ ~At(p, "idle") => proc[q].command # proc[p].command
         /\ \A t \in appended : ~At(p, "idle") /\ t.command = proc[p].command =>
              At(p, "answer") /\ t.role = "user"

\* The last line was cut off: the next append runs into it.
LastOpen == transcript # <<>> /\ ~Last(transcript).ended

\* A line that was cut off costs a turn when it is run into, and only then.
LossInv ==
    /\ IsFiniteSet(appended)
    /\ LastOpen => Last(transcript).turn \notin appended
    /\ Cardinality(appended \ TurnsIn(transcript)) + (IF LastOpen THEN 1 ELSE 0) <= torn

\* Without a fault a restore that was counted is about to append, or did.
RestoresInv ==
    faults = 0 =>
        \A run \in Runs :
            /\ restores[run] <= 1
            /\ restores[run] = 1 => \/ \E t \in appended : t.run = run
                                    \/ \E q \in Procs : At(q, "goal") /\ proc[q].run = run

\* The processes that have found the transcript small enough and will append
\* two lines, and the ones that will append one.
AppendTwo == {p \in Procs : proc[p].pc \in {"load summary", "goal"}}
AppendOne == {p \in Procs : At(p, "answer")}

\* The lines that were appended to a transcript that is too large, by processes
\* that append two lines: the first, and the second.
SizeInv ==
    Len(transcript) > MaxLines =>
        Len(transcript) - MaxLines <= Cardinality(Procs \ AppendTwo)
                                      + Cardinality(Procs \ (AppendTwo \cup AppendOne))

\* What a turn that is alone with the session's files knows of them.
Knows(p) ==
    /\ proc[p].pc \in {"truncate", "write"} =>
         proc[p].draft = Summarized(Readable(transcript))
    /\ At(p, "load") => summary = Summarized(Readable(transcript))
    /\ At(p, "load summary") => /\ proc[p].turns = Readable(transcript)
                                /\ summary = Summarized(proc[p].turns)
    /\ At(p, "goal") /\ proc[p].run = NoRun =>
         proc[p].memory = FirstN(Summarized(proc[p].turns), SummaryLines)

AloneInv == \A p \in Procs : proc[p].alone => Knows(p)

-----------------------------------------------------------------------------
(***************************************************************************)
(* Sequences of turns.                                                     *)
(***************************************************************************)
\* The last, all but the last, and the first n members of a sequence.
LEMMA Slices ==
    ASSUME NEW S, NEW s \in Seq(S), NEW n \in Nat
    PROVE  /\ LastN(s, n) \in Seq(S) /\ Len(LastN(s, n)) <= n
           /\ ButLastN(s, n) \in Seq(S)
           /\ FirstN(s, n) \in Seq(S)
           /\ Len(s) <= n => FirstN(s, n) = s
  <1>1. Len(s) \in Nat
    OBVIOUS
  <1>2. LastN(s, n) \in Seq(S) /\ Len(LastN(s, n)) <= n
    <2>1. CASE Len(s) > n
      <3>1. (Len(s) - n) + 1 \in 1..(Len(s) + 1) /\ Len(s) \in ((Len(s) - n) + 1 - 1)..Len(s)
        BY <1>1, <2>1
      <3>. QED  BY <1>1, <2>1, <3>1, SubSeqProperties DEF LastN
    <2>2. CASE ~(Len(s) > n)
      BY <1>1, <2>2, SubSeqProperties DEF LastN
    <2>. QED  BY <2>1, <2>2
  <1>3. ButLastN(s, n) \in Seq(S)
    BY <1>1, SubSeqProperties DEF ButLastN
  <1>4. FirstN(s, n) \in Seq(S)
    BY <1>1, SubSeqProperties DEF FirstN
  <1>5. Len(s) <= n => FirstN(s, n) = s
    BY <1>1, SubSeqFull DEF FirstN
  <1>. QED  BY <1>2, <1>3, <1>4, <1>5

\* The last k + n members are the last n before the last k, and those.
LEMMA LastOfBoth ==
    ASSUME NEW S, NEW s \in Seq(S), NEW k \in Nat, NEW n \in Nat
    PROVE  LastN(ButLastN(s, k), n) \o LastN(s, k) = LastN(s, k + n)
  <1> DEFINE cut == IF Len(s) > k THEN Len(s) - k ELSE 0
             first == IF cut > n THEN cut - n ELSE 0
  <1>1. Len(s) \in Nat /\ cut \in 0..Len(s) /\ first \in 0..cut
    OBVIOUS
  <1>2. first = IF Len(s) > k + n THEN Len(s) - (k + n) ELSE 0
    BY <1>1
  <1>3. ButLastN(s, k) = SubSeq(s, 1, cut) /\ Len(SubSeq(s, 1, cut)) = cut
    BY <1>1, SubSeqProperties DEF ButLastN
  <1>4. LastN(s, k) = SubSeq(s, cut + 1, Len(s))
    BY DEF LastN
  <1>5. LastN(s, k + n) = SubSeq(s, first + 1, Len(s))
    BY <1>2 DEF LastN
  <1>6. LastN(ButLastN(s, k), n) = SubSeq(SubSeq(s, 1, cut), first + 1, cut)
    BY <1>3 DEF LastN
  <1> HIDE DEF cut, first
  <1>7. SubSeq(SubSeq(s, 1, cut), first + 1, cut) = SubSeq(s, first + 1, cut)
    BY <1>1, SubSeqOfSubSeq
  <1>8. SubSeq(s, first + 1, cut) \o SubSeq(s, cut + 1, Len(s)) = SubSeq(s, first + 1, Len(s))
    <2>1. first + 1 \in 1..(Len(s) + 1) /\ cut \in ((first + 1) - 1)..Len(s) /\ Len(s) \in cut..Len(s)
      BY <1>1
    <2>. QED  BY <2>1, ConcatAdjacentSubSeq
  <1>. QED  BY <1>4, <1>5, <1>6, <1>7, <1>8

\* A turn is not garbage.
LEMMA TurnsAreNotGarbage == Garbage \notin Turn
  BY DEF Garbage, Turn

\* What is read of a transcript.
LEMMA ReadableTyped ==
    ASSUME transcript \in Seq(Line)
    PROVE  /\ Readable(transcript) \in Seq(Turn)
           /\ ReadableTurns = TurnsIn(transcript)
  <1>1. \A l \in Line : l.turn \in Turn \cup {Garbage}
    BY DEF Line
  <1>2. Readable(transcript) \in Seq(Turn) /\ Members(Readable(transcript)) = TurnsIn(transcript)
    BY <1>1, ReadableTurnsAre
  <1>. QED  BY <1>2 DEF ReadableTurns, Members

\* The file after an append: a line that has no end becomes garbage, any other
\* stays what it is.
LEMMA ExtendedIs ==
    ASSUME transcript \in Seq(Line), NEW line \in Line
    PROVE  /\ Extended(line) \in Seq(Line) /\ Len(Extended(line)) \in Nat
           /\ Len(Extended(line)) <= Len(transcript) + 1
           /\ Extended(line) # <<>>
           /\ Last(Extended(line)).ended = line.ended
           /\ Last(Extended(line)).turn \in {line.turn, Garbage}
           /\ IF LastOpen
              THEN TurnsIn(transcript) \ {Last(transcript).turn} \subseteq TurnsIn(Extended(line))
              ELSE /\ TurnsIn(transcript) \subseteq TurnsIn(Extended(line))
                   /\ line.turn # Garbage => line.turn \in TurnsIn(Extended(line))
  <1>1. Len(transcript) \in Nat /\ DOMAIN transcript = 1..Len(transcript)
    OBVIOUS
  <1>2. CASE LastOpen
    <2> DEFINE n == Len(transcript)
               new == [turn |-> Garbage, ended |-> line.ended]
    <2>1. n \in 1..Len(transcript)
      BY <1>1, <1>2 DEF LastOpen
    <2>2. new \in Line
      BY DEF Line
    <2>3. Extended(line) = [transcript EXCEPT ![n] = new]
      BY <1>2 DEF Extended, LastOpen
    <2> HIDE DEF n, new
    <2>4. /\ Extended(line) \in Seq(Line) /\ Len(Extended(line)) = Len(transcript)
          /\ Extended(line)[n] = new
          /\ \A i \in 1..Len(transcript) : i # n => Extended(line)[i] = transcript[i]
      BY <2>1, <2>2, <2>3, ExceptSeq
    <2>5. Last(Extended(line)) = new
      BY <2>4 DEF Last, n
    <2>6. Last(transcript) = transcript[n]
      BY DEF Last, n
    <2>7. ASSUME NEW t \in TurnsIn(transcript), t # Last(transcript).turn
          PROVE  t \in TurnsIn(Extended(line))
      <3>1. PICK i \in 1..Len(transcript) : t = transcript[i].turn /\ transcript[i].turn # Garbage
        BY <1>1 DEF TurnsIn, Good
      <3>2. i # n
        BY <2>6, <2>7, <3>1
      <3>3. Extended(line)[i] = transcript[i] /\ i \in DOMAIN Extended(line)
        BY <2>4, <3>2
      <3>. QED  BY <3>1, <3>3 DEF TurnsIn, Good
    <2>8. Extended(line) # <<>>
      BY <2>1, <2>4
    <2>. QED  BY <1>1, <1>2, <2>4, <2>5, <2>7, <2>8 DEF new
  <1>3. CASE ~LastOpen
    <2>1. Extended(line) = Append(transcript, line)
      BY <1>3 DEF Extended, LastOpen
    <2>2. /\ Append(transcript, line) \in Seq(Line)
          /\ Len(Append(transcript, line)) = Len(transcript) + 1
          /\ \A i \in 1..Len(transcript) : Append(transcript, line)[i] = transcript[i]
          /\ Append(transcript, line)[Len(transcript) + 1] = line
      BY AppendProperties
    <2>3. DOMAIN Extended(line) = 1..(Len(transcript) + 1)
      BY <2>1, <2>2
    <2>4. Last(Extended(line)) = line
      BY <2>1, <2>2 DEF Last
    <2>5. ASSUME NEW t \in TurnsIn(transcript) PROVE t \in TurnsIn(Extended(line))
      <3>1. PICK i \in 1..Len(transcript) : t = transcript[i].turn /\ transcript[i].turn # Garbage
        BY <1>1 DEF TurnsIn, Good
      <3>2. Extended(line)[i] = transcript[i] /\ i \in DOMAIN Extended(line)
        BY <1>1, <2>1, <2>2, <2>3
      <3>. QED  BY <3>1, <3>2 DEF TurnsIn, Good
    <2>6. line.turn # Garbage => line.turn \in TurnsIn(Extended(line))
      <3>1. Extended(line)[Len(transcript) + 1] = line
            /\ Len(transcript) + 1 \in DOMAIN Extended(line)
        BY <1>1, <2>1, <2>2, <2>3
      <3>. QED  BY <3>1 DEF TurnsIn, Good
    <2>7. Extended(line) # <<>>
      BY <1>1, <2>1, <2>2
    <2>. QED  BY <1>1, <1>3, <2>1, <2>2, <2>4, <2>5, <2>6, <2>7
  <1>. QED  BY <1>2, <1>3

-----------------------------------------------------------------------------
(***************************************************************************)
(* Steps.                                                                  *)
(***************************************************************************)
\* p goes on as next; the others stay where they are, alone or no longer.
Moves(p, next) ==
    /\ proc' \in [Procs -> ProcState]
    /\ proc'[p] = next
    /\ \A q \in Procs : q # p =>
         /\ proc'[q].pc = proc[q].pc /\ proc'[q].command = proc[q].command
         /\ proc'[q].run = proc[q].run
         /\ proc'[q].alone => proc'[q] = proc[q]

\* Nobody but p who is refreshing or loading is still alone.
Disturbs(p) ==
    \A q \in Procs :
        q # p /\ proc[q].pc \in {"truncate", "write", "load", "load summary"} => ~proc'[q].alone

\* A step that gives one process a new state and leaves the others theirs.
LEMMA SetMoves ==
    ASSUME proc \in [Procs -> ProcState], NEW p \in Procs, NEW next \in ProcState,
           proc' = [proc EXCEPT ![p] = next]
    PROVE  Moves(p, next)
  BY DEF Moves

\* A step that also changes a file: nobody else who reads it is alone then.
LEMMA ChangeMoves ==
    ASSUME proc \in [Procs -> ProcState], NEW p \in Procs, NEW next \in ProcState,
           Change(p, next)
    PROVE  Moves(p, next) /\ Disturbs(p)
  <1>1. ASSUME NEW q \in Procs, q # p
        PROVE  /\ proc'[q] \in ProcState
               /\ proc'[q].pc = proc[q].pc /\ proc'[q].command = proc[q].command
               /\ proc'[q].run = proc[q].run
               /\ proc'[q].alone => proc'[q] = proc[q]
               /\ proc[q].pc \in {"truncate", "write", "load", "load summary"} => ~proc'[q].alone
    <2>1. proc[q] \in ProcState
      OBVIOUS
    <2>2. proc'[q] = IF proc[q].pc \in {"truncate", "write", "load", "load summary"}
                     THEN [proc[q] EXCEPT !.alone = FALSE]
                     ELSE proc[q]
      BY <1>1 DEF Change
    <2>. QED  BY <2>1, <2>2 DEF ProcState
  <1>2. proc'[p] = next
    BY DEF Change
  <1>3. proc' \in [Procs -> ProcState]
    BY <1>1, <1>2 DEF Change
  <1>. QED  BY <1>1, <1>2, <1>3 DEF Moves, Disturbs

\* A process that is idle, or that goes on, is in a state of its type.
LEMMA IdleTyped == Idle \in ProcState
  BY SessionAssumption DEF Idle, ProcState, PCs

\* A command that ends.
LEMMA EndMoves ==
    ASSUME proc \in [Procs -> ProcState], NEW p \in Procs, End(p)
    PROVE  Moves(p, Idle)
  BY IdleTyped, SetMoves DEF End

\* Where each action leads the process that takes it.
Issued(pc, run) == [Idle EXCEPT !.pc = pc, !.command = commands + 1, !.run = run]
Refreshed(p) == [proc[p] EXCEPT !.pc = "truncate", !.draft = Summarized(Readable(transcript))]
Truncated(p) == [proc[p] EXCEPT !.pc = "write"]
Written(p) == [proc[p] EXCEPT !.pc = "load", !.draft = <<>>]
Loaded(p) == [proc[p] EXCEPT !.pc = "load summary", !.turns = Readable(transcript)]
Complete(p) == [proc[p] EXCEPT !.pc = "goal", !.memory = FirstN(summary, SummaryLines)]
Asked(p) == [Idle EXCEPT !.pc = "answer", !.command = proc[p].command, !.run = proc[p].run]
Checked(p) == [proc[p] EXCEPT !.pc = "goal"]

\* A command that starts gets the next number.
LEMMA IssueMoves ==
    ASSUME TypeInv, NEW p \in Procs, NEW pc \in {"refresh", "check"},
           NEW run \in Runs \cup {NoRun}, Issue(p, pc, run)
    PROVE  Moves(p, Issued(pc, run)) /\ commands + 1 \in 1..MaxCommands
  <1>1. proc \in [Procs -> ProcState] /\ commands + 1 \in 1..MaxCommands
    BY SessionAssumption DEF TypeInv, TypeOK, Issue
  <1>2. Issued(pc, run) \in ProcState
    <2>1. commands + 1 \in 0..MaxCommands /\ <<>> \in Seq(Turn)
      BY <1>1
    <2>2. Idle \in ProcState
      BY IdleTyped
    <2>3. [Idle EXCEPT !.pc = pc, !.command = commands + 1, !.run = run] \in ProcState
      BY <2>1, <2>2 DEF ProcState, PCs
    <2>. QED  BY <2>3 DEF Issued
  <1>3. proc' = [proc EXCEPT ![p] = Issued(pc, run)]
    BY DEF Issue, Issued
  <1>. QED  BY <1>1, <1>2, <1>3, SetMoves

\* A refresh reads the transcript, or refuses it.
LEMMA RefreshMoves ==
    ASSUME TypeInv, NEW p \in Procs, Refresh(p)
    PROVE  IF TooLarge THEN Moves(p, Idle) ELSE Moves(p, Refreshed(p))
  <1>1. proc \in [Procs -> ProcState] /\ proc[p] \in ProcState
    BY DEF TypeInv, TypeOK
  <1>2. CASE TooLarge
    BY <1>1, <1>2, EndMoves DEF Refresh
  <1>3. CASE ~TooLarge
    <2>1. Summarized(Readable(transcript)) \in Seq(Turn)
      BY ReadableTyped, Slices, SessionAssumption DEF TypeInv, TypeOK, Summarized
    <2>2. Refreshed(p) \in ProcState
      BY <1>1, <2>1 DEF Refreshed, ProcState, PCs
    <2>3. proc' = [proc EXCEPT ![p] = Refreshed(p)]
      BY <1>3 DEF Refresh, Refreshed
    <2>4. Moves(p, Refreshed(p))
      BY <1>1, <2>2, <2>3, SetMoves
    <2>. QED  BY <1>3, <2>4
  <1>. QED  BY <1>2, <1>3

\* It empties the summary file.
LEMMA TruncateMoves ==
    ASSUME TypeInv, NEW p \in Procs, TruncateSummary(p)
    PROVE  Moves(p, Truncated(p)) /\ Disturbs(p)
  <1>1. proc \in [Procs -> ProcState] /\ proc[p] \in ProcState
    BY DEF TypeInv, TypeOK
  <1>2. Truncated(p) \in ProcState
    BY <1>1 DEF Truncated, ProcState, PCs
  <1>3. Change(p, Truncated(p))
    BY DEF TruncateSummary, Truncated
  <1>. QED  BY <1>1, <1>2, <1>3, ChangeMoves

\* It writes what it has drafted.
LEMMA WriteMoves ==
    ASSUME TypeInv, NEW p \in Procs, WriteSummary(p)
    PROVE  Moves(p, Written(p)) /\ Disturbs(p)
  <1>1. proc \in [Procs -> ProcState] /\ proc[p] \in ProcState
    BY DEF TypeInv, TypeOK
  <1>2. Written(p) \in ProcState
    <2>1. <<>> \in Seq(Turn)
      OBVIOUS
    <2>. QED  BY <1>1, <2>1 DEF Written, ProcState, PCs
  <1>3. Change(p, Written(p))
    BY DEF WriteSummary, Written
  <1>. QED  BY <1>1, <1>2, <1>3, ChangeMoves

\* The turns are loaded from the transcript, or it is refused.
LEMMA LoadMoves ==
    ASSUME TypeInv, NEW p \in Procs, LoadTranscript(p)
    PROVE  IF TooLarge THEN Moves(p, Idle) ELSE Moves(p, Loaded(p))
  <1>1. proc \in [Procs -> ProcState] /\ proc[p] \in ProcState
    BY DEF TypeInv, TypeOK
  <1>2. CASE TooLarge
    BY <1>1, <1>2, EndMoves DEF LoadTranscript
  <1>3. CASE ~TooLarge
    <2>1. Readable(transcript) \in Seq(Turn)
      BY ReadableTyped DEF TypeInv, TypeOK
    <2>2. Loaded(p) \in ProcState
      BY <1>1, <2>1 DEF Loaded, ProcState, PCs
    <2>3. proc' = [proc EXCEPT ![p] = Loaded(p)]
      BY <1>3 DEF LoadTranscript, Loaded
    <2>4. Moves(p, Loaded(p))
      BY <1>1, <2>2, <2>3, SetMoves
    <2>. QED  BY <1>3, <2>4
  <1>. QED  BY <1>2, <1>3

\* The summary is loaded after the turns.
LEMMA CompleteMoves ==
    ASSUME TypeInv, NEW p \in Procs, LoadSummary(p)
    PROVE  Moves(p, Complete(p))
  <1>1. proc \in [Procs -> ProcState] /\ proc[p] \in ProcState
    BY DEF TypeInv, TypeOK
  <1>2. FirstN(summary, SummaryLines) \in Seq(Turn)
    BY Slices, SessionAssumption DEF TypeInv, TypeOK
  <1>3. Complete(p) \in ProcState
    BY <1>1, <1>2 DEF Complete, ProcState, PCs
  <1>4. proc' = [proc EXCEPT ![p] = Complete(p)]
    BY DEF LoadSummary, Complete
  <1>. QED  BY <1>1, <1>3, <1>4, SetMoves

\* The goal is appended.
LEMMA AskMoves ==
    ASSUME TypeInv, NEW p \in Procs, AppendGoal(p)
    PROVE  Moves(p, Asked(p)) /\ Disturbs(p)
  <1>1. proc \in [Procs -> ProcState] /\ proc[p] \in ProcState
    BY DEF TypeInv, TypeOK
  <1>2. Asked(p) \in ProcState
    <2>1. Idle \in ProcState
      BY IdleTyped
    <2>. QED  BY <1>1, <2>1 DEF Asked, ProcState, PCs
  <1>3. Change(p, Asked(p))
    BY DEF AppendGoal, Asked
  <1>. QED  BY <1>1, <1>2, <1>3, ChangeMoves

\* A restore goes on only if its run is not in the transcript yet.
LEMMA CheckMoves ==
    ASSUME TypeInv, NEW p \in Procs, CheckRestored(p)
    PROVE  IF TooLarge \/ IsRestored(proc[p].run) THEN Moves(p, Idle) ELSE Moves(p, Checked(p))
  <1>1. proc \in [Procs -> ProcState] /\ proc[p] \in ProcState
    BY DEF TypeInv, TypeOK
  <1>2. CASE TooLarge \/ IsRestored(proc[p].run)
    BY <1>1, <1>2, EndMoves DEF CheckRestored
  <1>3. CASE ~(TooLarge \/ IsRestored(proc[p].run))
    <2>1. Checked(p) \in ProcState
      BY <1>1 DEF Checked, ProcState, PCs
    <2>2. proc' = [proc EXCEPT ![p] = Checked(p)]
      BY <1>3 DEF CheckRestored, Checked
    <2>3. Moves(p, Checked(p))
      BY <1>1, <2>1, <2>2, SetMoves
    <2>. QED  BY <1>3, <2>3
  <1>. QED  BY <1>2, <1>3

\* A command that is over leaves its process idle.
LEMMA OverMoves ==
    ASSUME TypeInv, NEW p \in Procs
    PROVE  /\ AppendAnswer(p) \/ AppendFails(p) => Moves(p, Idle) /\ Disturbs(p)
           /\ Crash(p) => Moves(p, Idle)
  <1>1. proc \in [Procs -> ProcState]
    BY DEF TypeInv, TypeOK
  <1>2. ASSUME AppendAnswer(p) \/ AppendFails(p) PROVE Moves(p, Idle) /\ Disturbs(p)
    <2>1. Change(p, Idle)
      BY <1>2 DEF AppendAnswer, AppendFails
    <2>. QED  BY <1>1, <2>1, ChangeMoves, IdleTyped
  <1>3. ASSUME Crash(p) PROVE Moves(p, Idle)
    BY <1>1, <1>3, EndMoves DEF Crash
  <1>. QED  BY <1>2, <1>3

-----------------------------------------------------------------------------
(***************************************************************************)
(* Types and places.                                                       *)
(***************************************************************************)
LEMMA PlacesKept ==
    ASSUME TypeInv, NEW p \in Procs, NEW next, Moves(p, next), FitsPlace(next)
    PROVE  proc' \in [Procs -> ProcState] /\ PlaceInv'
  <1>1. ASSUME NEW q \in Procs PROVE FitsPlace(proc'[q])
    <2>1. CASE q = p
      BY <2>1 DEF Moves
    <2>2. CASE q # p
      <3>1. FitsPlace(proc[q])
        BY DEF TypeInv, PlaceInv
      <3>. QED  BY <2>2, <3>1 DEF Moves, FitsPlace
    <2>. QED  BY <2>1, <2>2
  <1>2. PlaceInv'
    BY <1>1 DEF PlaceInv
  <1>. QED  BY <1>2 DEF Moves

\* The turn a command says is a turn.
LEMMA SaysTurns ==
    ASSUME TypeInv, NEW p \in Procs, ~At(p, "idle"), NEW role \in {"user", "assistant"}
    PROVE  /\ Says(p, role) \in Turn
           /\ Says(p, role).command = proc[p].command /\ Says(p, role).role = role
           /\ Says(p, role).run = proc[p].run
  <1>1. proc[p] \in ProcState /\ FitsPlace(proc[p])
    BY DEF TypeInv, TypeOK, PlaceInv
  <1>2. proc[p].command \in 1..MaxCommands /\ proc[p].run \in Runs \cup {NoRun}
    BY <1>1 DEF ProcState, FitsPlace, At
  <1>. QED  BY <1>2 DEF Says, Turn

\* The line a failed append leaves.
LEMMA FailsIs ==
    ASSUME TypeInv, NEW p \in Procs, AppendFails(p)
    PROVE  /\ ~At(p, "idle")
           /\ \E role \in {"user", "assistant"}, cut \in Turn \cup {Garbage} :
                /\ cut \in {Garbage, Says(p, role)}
                /\ role = "user" => At(p, "goal")
                /\ role = "assistant" => At(p, "answer")
                /\ [turn |-> cut, ended |-> FALSE] \in Line
                /\ transcript' = Extended([turn |-> cut, ended |-> FALSE])
  <1>1. proc[p].pc \in {"goal", "answer"}
    BY DEF AppendFails
  <1>2. PICK role \in {"user", "assistant"} :
          /\ role = IF At(p, "goal") THEN "user" ELSE "assistant"
          /\ role = "user" => At(p, "goal")
          /\ role = "assistant" => At(p, "answer")
    BY <1>1 DEF At
  <1>3. PICK cut \in {Garbage, Says(p, role)} :
          transcript' = Extended([turn |-> cut, ended |-> FALSE])
    BY <1>2 DEF AppendFails
  <1>4. ~At(p, "idle")
    BY <1>1 DEF At
  <1>5. Says(p, role) \in Turn
    BY <1>4, SaysTurns
  <1>6. cut \in Turn \cup {Garbage}
    BY <1>3, <1>5
  <1>7. [turn |-> cut, ended |-> FALSE] \in Line
    BY <1>6 DEF Line
  <1>. QED  BY <1>2, <1>3, <1>4, <1>6, <1>7

\* An append adds one whole line, with what the process says in that role.
LEMMA AppendsIs ==
    ASSUME TypeInv, NEW p \in Procs, ~At(p, "idle"), NEW role \in {"user", "assistant"},
           AppendTurn(p, role)
    PROVE  /\ [turn |-> Says(p, role), ended |-> TRUE] \in Line
           /\ transcript' = Extended([turn |-> Says(p, role), ended |-> TRUE])
           /\ appended' = appended \cup {Says(p, role)}
  BY SaysTurns DEF AppendTurn, Line

\* The types hold when nobody has started.
LEMMA TypeInit == Init => TypeInv
  <1> SUFFICES ASSUME Init PROVE TypeInv
    OBVIOUS
  <1>1. TypeOK
    <2>1. proc \in [Procs -> ProcState]
      BY IdleTyped DEF Init
    <2>2. transcript \in Seq(Line) /\ summary \in Seq(Turn)
      BY DEF Init
    <2>. QED  BY <2>1, <2>2, SessionAssumption DEF Init, TypeOK
  <1>2. PlaceInv
    BY DEF Init, PlaceInv, FitsPlace, Idle, Loads
  <1>. QED  BY <1>1, <1>2 DEF TypeInv

\* Every step keeps the types.
LEMMA TypeStep == TypeInv /\ [Next]_vars => TypeInv'
  <1> SUFFICES ASSUME TypeInv, [Next]_vars PROVE TypeInv'
    OBVIOUS
  <1>1. TypeOK /\ PlaceInv
    BY DEF TypeInv
  <1>2. FitsPlace(Idle)
    BY DEF FitsPlace, Idle, Loads
  <1>3. CASE UNCHANGED vars
    BY <1>1, <1>3 DEF TypeInv, TypeOK, vars, PlaceInv, TooLarge, At
  <1>4. ASSUME NEW p \in Procs, NEW pc \in {"refresh", "check"}, NEW run \in Runs \cup {NoRun},
               pc = "refresh" => run = NoRun, pc = "check" => run \in Runs, Issue(p, pc, run)
        PROVE  TypeInv'
    <2>1. Moves(p, Issued(pc, run)) /\ commands + 1 \in 1..MaxCommands
      BY <1>4, IssueMoves
    <2>2. FitsPlace(Issued(pc, run))
      BY <1>4, <2>1 DEF FitsPlace, Issued, Idle, Loads
    <2>3. proc' \in [Procs -> ProcState] /\ PlaceInv'
      BY <2>1, <2>2, PlacesKept
    <2>. QED  BY <1>1, <1>4, <2>1, <2>3 DEF TypeInv, TypeOK, Issue
  <1>5. ASSUME NEW p \in Procs, IssueTurn(p) \/ IssueRestore(p) PROVE TypeInv'
    BY <1>4, <1>5 DEF IssueTurn, IssueRestore
  <1>6. ASSUME NEW p \in Procs, ~At(p, "idle") PROVE FitsPlace(proc[p]) /\ proc[p].command \in 1..MaxCommands
    BY <1>1, <1>6 DEF PlaceInv, FitsPlace, At
  <1>7. ASSUME NEW p \in Procs, Refresh(p) PROVE TypeInv'
    <2>1. FitsPlace(Refreshed(p))
      <3>1. proc[p] \in ProcState /\ FitsPlace(proc[p]) /\ proc[p].command \in 1..MaxCommands
            /\ proc[p].pc \in Loads
        BY <1>1, <1>6, <1>7 DEF Refresh, At, TypeOK, Loads
      <3>2. /\ Refreshed(p).pc = "truncate" /\ Refreshed(p).command = proc[p].command
            /\ Refreshed(p).run = proc[p].run
        BY <3>1, Zenon DEF Refreshed, ProcState
      <3>. QED  BY <3>1, <3>2 DEF FitsPlace, Loads
    <2>2. proc' \in [Procs -> ProcState] /\ PlaceInv'
      BY <1>2, <1>7, <2>1, RefreshMoves, PlacesKept
    <2>. QED  BY <1>1, <1>7, <2>2 DEF TypeInv, TypeOK, Refresh
  <1>8. ASSUME NEW p \in Procs, TruncateSummary(p) PROVE TypeInv'
    <2>1. FitsPlace(Truncated(p))
      BY <1>1, <1>6, <1>8 DEF TruncateSummary, At, FitsPlace, Truncated, TypeOK, ProcState, Loads
    <2>2. proc' \in [Procs -> ProcState] /\ PlaceInv'
      BY <1>8, <2>1, TruncateMoves, PlacesKept
    <2>3. summary' \in Seq(Turn)
      BY <1>8 DEF TruncateSummary
    <2>. QED  BY <1>1, <1>8, <2>2, <2>3 DEF TypeInv, TypeOK, TruncateSummary
  <1>9. ASSUME NEW p \in Procs, WriteSummary(p) PROVE TypeInv'
    <2>1. FitsPlace(Written(p))
      BY <1>1, <1>6, <1>9 DEF WriteSummary, At, FitsPlace, Written, TypeOK, ProcState, Loads
    <2>2. proc' \in [Procs -> ProcState] /\ PlaceInv'
      BY <1>9, <2>1, WriteMoves, PlacesKept
    <2>3. summary' \in Seq(Turn)
      BY <1>1, <1>9 DEF WriteSummary, TypeOK, ProcState
    <2>. QED  BY <1>1, <1>9, <2>2, <2>3 DEF TypeInv, TypeOK, WriteSummary
  <1>10. ASSUME NEW p \in Procs, LoadTranscript(p) PROVE TypeInv'
    <2>1. FitsPlace(Loaded(p))
      <3>1. proc[p] \in ProcState /\ FitsPlace(proc[p]) /\ proc[p].command \in 1..MaxCommands
            /\ proc[p].pc \in Loads
        BY <1>1, <1>6, <1>10 DEF LoadTranscript, At, TypeOK, Loads
      <3>2. /\ Loaded(p).pc = "load summary" /\ Loaded(p).command = proc[p].command
            /\ Loaded(p).run = proc[p].run
        BY <3>1, Zenon DEF Loaded, ProcState
      <3>. QED  BY <3>1, <3>2 DEF FitsPlace, Loads
    <2>2. proc' \in [Procs -> ProcState] /\ PlaceInv'
      BY <1>2, <1>10, <2>1, LoadMoves, PlacesKept
    <2>. QED  BY <1>1, <1>10, <2>2 DEF TypeInv, TypeOK, LoadTranscript
  <1>11. ASSUME NEW p \in Procs, LoadSummary(p) PROVE TypeInv'
    <2>1. FitsPlace(Complete(p))
      BY <1>1, <1>6, <1>11 DEF LoadSummary, At, FitsPlace, Complete, TypeOK, ProcState, Loads
    <2>2. proc' \in [Procs -> ProcState] /\ PlaceInv'
      BY <1>11, <2>1, CompleteMoves, PlacesKept
    <2>. QED  BY <1>1, <1>11, <2>2 DEF TypeInv, TypeOK, LoadSummary
  <1>12. ASSUME NEW p \in Procs, ~At(p, "idle"), NEW role \in {"user", "assistant"}, AppendTurn(p, role)
         PROVE  transcript' \in Seq(Line) /\ appended' \subseteq Turn
    <2>1. /\ [turn |-> Says(p, role), ended |-> TRUE] \in Line
          /\ transcript' = Extended([turn |-> Says(p, role), ended |-> TRUE])
          /\ appended' = appended \cup {Says(p, role)}
      BY <1>12, AppendsIs
    <2>2. Says(p, role) \in Turn
      BY <1>12, SaysTurns
    <2>. QED  BY <1>1, <2>1, <2>2, ExtendedIs DEF TypeOK
  <1>13. ASSUME NEW p \in Procs, AppendGoal(p) PROVE TypeInv'
    <2>1. FitsPlace(Asked(p))
      BY <1>6, <1>13 DEF AppendGoal, At, FitsPlace, Asked, Idle, Loads
    <2>2. proc' \in [Procs -> ProcState] /\ PlaceInv'
      BY <1>13, <2>1, AskMoves, PlacesKept
    <2>3. transcript' \in Seq(Line) /\ appended' \subseteq Turn
      BY <1>12, <1>13 DEF AppendGoal, At
    <2>. QED  BY <1>1, <1>13, <2>2, <2>3 DEF TypeInv, TypeOK, AppendGoal
  <1>14. ASSUME NEW p \in Procs, AppendAnswer(p) PROVE TypeInv'
    <2>1. proc' \in [Procs -> ProcState] /\ PlaceInv'
      BY <1>2, <1>14, OverMoves, PlacesKept
    <2>2. transcript' \in Seq(Line) /\ appended' \subseteq Turn
      BY <1>12, <1>14 DEF AppendAnswer, At
    <2>. QED  BY <1>1, <1>14, <2>1, <2>2 DEF TypeInv, TypeOK, AppendAnswer
  <1>15. ASSUME NEW p \in Procs, AppendFails(p) PROVE TypeInv'
    <2>1. proc' \in [Procs -> ProcState] /\ PlaceInv'
      BY <1>2, <1>15, OverMoves, PlacesKept
    <2>2. transcript' \in Seq(Line)
      BY <1>1, <1>15, FailsIs, ExtendedIs DEF TypeOK
    <2>3. faults' \in 0..MaxFaults /\ torn' \in 0..faults'
      BY <1>1, <1>15, SessionAssumption DEF AppendFails, TypeOK
    <2>. QED  BY <1>1, <1>15, <2>1, <2>2, <2>3 DEF TypeInv, TypeOK, AppendFails
  <1>16. ASSUME NEW p \in Procs, CheckRestored(p) PROVE TypeInv'
    <2>1. FitsPlace(Checked(p))
      BY <1>1, <1>6, <1>16 DEF CheckRestored, At, FitsPlace, Checked, TypeOK, ProcState, Loads
    <2>2. proc' \in [Procs -> ProcState] /\ PlaceInv'
      BY <1>2, <1>16, <2>1, CheckMoves, PlacesKept
    <2>3. proc[p].run \in Runs
      BY <1>1, <1>16 DEF CheckRestored, PlaceInv, FitsPlace, At
    <2>4. restores' \in [Runs -> Nat]
      BY <1>1, <1>16, <2>3, SMTT(30) DEF CheckRestored, TypeOK
    <2>. QED  BY <1>1, <1>16, <2>2, <2>4 DEF TypeInv, TypeOK, CheckRestored
  <1>17. ASSUME NEW p \in Procs, Crash(p) PROVE TypeInv'
    <2>1. proc' \in [Procs -> ProcState] /\ PlaceInv'
      BY <1>2, <1>17, OverMoves, PlacesKept
    <2>2. faults' \in 0..MaxFaults /\ torn' \in 0..faults'
      BY <1>1, <1>17, SessionAssumption DEF Crash, TypeOK
    <2>. QED  BY <1>1, <1>17, <2>1, <2>2 DEF TypeInv, TypeOK, Crash
  <1>. QED  BY <1>3, <1>5, <1>7, <1>8, <1>9, <1>10, <1>11, <1>13, <1>14, <1>15, <1>16, <1>17
            DEF Next, Done

-----------------------------------------------------------------------------
(***************************************************************************)
(* The kinds of steps.                                                     *)
(***************************************************************************)
\* A command is issued.
Starts(p) ==
    /\ At(p, "idle") /\ Moves(p, proc'[p])
    /\ proc'[p].pc \in {"refresh", "check"} /\ proc'[p].command = commands + 1
    /\ commands' = commands + 1
    /\ UNCHANGED <<transcript, torn, appended>>

\* A command goes on or ends, and appends nothing.
Goes(p) ==
    /\ ~At(p, "idle") /\ Moves(p, proc'[p])
    /\ \/ proc'[p] = Idle
       \/ /\ proc[p].pc \in Loads \cup {"check"} /\ proc'[p].pc \in Loads \cup {"goal"}
          /\ proc'[p].command = proc[p].command /\ proc'[p].run = proc[p].run
          /\ proc'[p].pc \in {"load summary", "goal"} => ~TooLarge \/ At(p, "load summary")
    /\ UNCHANGED <<transcript, commands, torn, appended>>

\* A goal, or an answer, is appended.
Appends(p, role) ==
    /\ Moves(p, proc'[p])
    /\ \/ role = "user" /\ At(p, "goal") /\ proc'[p] = Asked(p)
       \/ role = "assistant" /\ At(p, "answer") /\ proc'[p] = Idle
    /\ Says(p, role) \in Turn /\ [turn |-> Says(p, role), ended |-> TRUE] \in Line
    /\ transcript' = Extended([turn |-> Says(p, role), ended |-> TRUE])
    /\ appended' = appended \cup {Says(p, role)}
    /\ UNCHANGED <<commands, torn>>

\* An append is cut off.
Fails(p) ==
    /\ Moves(p, Idle)
    /\ torn' = torn + 1
    /\ \E role \in {"user", "assistant"}, cut \in Turn \cup {Garbage} :
         /\ cut \in {Garbage, Says(p, role)}
         /\ role = "user" => At(p, "goal")
         /\ role = "assistant" => At(p, "answer")
         /\ [turn |-> cut, ended |-> FALSE] \in Line
         /\ transcript' = Extended([turn |-> cut, ended |-> FALSE])
    /\ UNCHANGED <<commands, appended>>

\* Every step is of one of these kinds.
LEMMA StepKinds ==
    ASSUME TypeInv, [Next]_vars
    PROVE  \/ UNCHANGED vars
           \/ \E p \in Procs : \/ Starts(p) \/ Goes(p) \/ Fails(p)
                               \/ \E role \in {"user", "assistant"} : Appends(p, role)
  <1>1. TypeOK /\ \A p \in Procs : proc[p] \in ProcState
    BY DEF TypeInv, TypeOK
  <1>2. ASSUME NEW p \in Procs, NEW pc \in {"refresh", "check"}, NEW run \in Runs \cup {NoRun},
               Issue(p, pc, run)
        PROVE  Starts(p)
    <2>1. Moves(p, Issued(pc, run))
      BY <1>2, IssueMoves
    <2>2. proc'[p] = Issued(pc, run) /\ Issued(pc, run).pc = pc
          /\ Issued(pc, run).command = commands + 1
      BY <2>1 DEF Moves, Issued, Idle
    <2>. QED  BY <1>2, <2>1, <2>2 DEF Starts, Issue
  <1>3. ASSUME NEW p \in Procs, IssueTurn(p) \/ IssueRestore(p) PROVE Starts(p)
    BY <1>2, <1>3 DEF IssueTurn, IssueRestore
  <1>4. ASSUME NEW p \in Procs, Refresh(p) PROVE Goes(p)
    <2>1. CASE TooLarge
      BY <1>4, <2>1, RefreshMoves DEF Goes, Refresh, At, Moves
    <2>2. CASE ~TooLarge
      <3>1. Moves(p, Refreshed(p))
        BY <1>4, <2>2, RefreshMoves
      <3>2. proc'[p] = Refreshed(p)
        BY <3>1 DEF Moves
      <3>3. /\ Refreshed(p).pc = "truncate" /\ Refreshed(p).command = proc[p].command
            /\ Refreshed(p).run = proc[p].run
        BY <1>1, Zenon DEF Refreshed, ProcState
      <3>. QED  BY <1>4, <3>1, <3>2, <3>3 DEF Goes, Refresh, At, Loads
    <2>. QED  BY <2>1, <2>2
  <1>5. ASSUME NEW p \in Procs, TruncateSummary(p) PROVE Goes(p)
    <2>1. Moves(p, Truncated(p)) /\ proc'[p] = Truncated(p)
      BY <1>5, TruncateMoves DEF Moves
    <2>2. /\ Truncated(p).pc = "write" /\ Truncated(p).command = proc[p].command
          /\ Truncated(p).run = proc[p].run
      BY <1>1, Zenon DEF Truncated, ProcState
    <2>. QED  BY <1>5, <2>1, <2>2 DEF Goes, TruncateSummary, At, Loads
  <1>6. ASSUME NEW p \in Procs, WriteSummary(p) PROVE Goes(p)
    <2>1. Moves(p, Written(p)) /\ proc'[p] = Written(p)
      BY <1>6, WriteMoves DEF Moves
    <2>2. /\ Written(p).pc = "load" /\ Written(p).command = proc[p].command
          /\ Written(p).run = proc[p].run
      BY <1>1, Zenon DEF Written, ProcState
    <2>. QED  BY <1>6, <2>1, <2>2 DEF Goes, WriteSummary, At, Loads
  <1>7. ASSUME NEW p \in Procs, LoadTranscript(p) PROVE Goes(p)
    <2>1. CASE TooLarge
      BY <1>7, <2>1, LoadMoves DEF Goes, LoadTranscript, At, Moves
    <2>2. CASE ~TooLarge
      <3>1. Moves(p, Loaded(p))
        BY <1>7, <2>2, LoadMoves
      <3>2. proc'[p] = Loaded(p)
        BY <3>1 DEF Moves
      <3>3. /\ Loaded(p).pc = "load summary" /\ Loaded(p).command = proc[p].command
            /\ Loaded(p).run = proc[p].run
        BY <1>1, Zenon DEF Loaded, ProcState
      <3>. QED  BY <1>7, <2>2, <3>1, <3>2, <3>3 DEF Goes, LoadTranscript, At, Loads
    <2>. QED  BY <2>1, <2>2
  <1>8. ASSUME NEW p \in Procs, LoadSummary(p) PROVE Goes(p)
    <2>1. Moves(p, Complete(p)) /\ proc'[p] = Complete(p)
      BY <1>8, CompleteMoves DEF Moves
    <2>2. /\ Complete(p).pc = "goal" /\ Complete(p).command = proc[p].command
          /\ Complete(p).run = proc[p].run
      BY <1>1, Zenon DEF Complete, ProcState
    <2>. QED  BY <1>8, <2>1, <2>2 DEF Goes, LoadSummary, At, Loads
  <1>9. ASSUME NEW p \in Procs, AppendGoal(p) PROVE Appends(p, "user")
    <2>1. Moves(p, Asked(p)) /\ proc'[p] = Asked(p)
      BY <1>9, AskMoves DEF Moves
    <2>2. ~At(p, "idle") /\ At(p, "goal") /\ AppendTurn(p, "user")
      BY <1>9 DEF AppendGoal, At
    <2>3. Says(p, "user") \in Turn
      BY <2>2, SaysTurns
    <2>. QED  BY <1>9, <2>1, <2>2, <2>3, AppendsIs DEF Appends, AppendGoal
  <1>10. ASSUME NEW p \in Procs, AppendAnswer(p) PROVE Appends(p, "assistant")
    <2>1. Moves(p, Idle) /\ proc'[p] = Idle
      BY <1>10, OverMoves DEF Moves
    <2>2. ~At(p, "idle") /\ At(p, "answer") /\ AppendTurn(p, "assistant")
      BY <1>10 DEF AppendAnswer, At
    <2>3. Says(p, "assistant") \in Turn
      BY <2>2, SaysTurns
    <2>. QED  BY <1>10, <2>1, <2>2, <2>3, AppendsIs DEF Appends, AppendAnswer
  <1>11. ASSUME NEW p \in Procs, AppendFails(p) PROVE Fails(p)
    <2>1. Moves(p, Idle)
      BY <1>11, OverMoves
    <2>2. torn' = torn + 1 /\ UNCHANGED <<commands, appended>>
      BY <1>11 DEF AppendFails
    <2>. QED  BY <1>11, <2>1, <2>2, FailsIs DEF Fails
  <1>12. ASSUME NEW p \in Procs, CheckRestored(p) PROVE Goes(p)
    <2>1. CASE TooLarge \/ IsRestored(proc[p].run)
      BY <1>12, <2>1, CheckMoves DEF Goes, CheckRestored, At, Moves
    <2>2. CASE ~(TooLarge \/ IsRestored(proc[p].run))
      <3>1. Moves(p, Checked(p)) /\ proc'[p] = Checked(p)
        BY <1>12, <2>2, CheckMoves DEF Moves
      <3>2. /\ Checked(p).pc = "goal" /\ Checked(p).command = proc[p].command
            /\ Checked(p).run = proc[p].run
        BY <1>1, Zenon DEF Checked, ProcState
      <3>. QED  BY <1>12, <2>2, <3>1, <3>2 DEF Goes, CheckRestored, At, Loads
    <2>. QED  BY <2>1, <2>2
  <1>13. ASSUME NEW p \in Procs, Crash(p) PROVE Goes(p)
    <2>1. Moves(p, Idle) /\ proc'[p] = Idle
      BY <1>13, OverMoves DEF Moves
    <2>. QED  BY <1>13, <2>1 DEF Goes, Crash
  <1>14. CASE \E p \in Procs :
                \/ IssueTurn(p) \/ IssueRestore(p)
                \/ Refresh(p) \/ TruncateSummary(p) \/ WriteSummary(p)
                \/ LoadTranscript(p) \/ LoadSummary(p)
                \/ AppendGoal(p) \/ AppendAnswer(p) \/ AppendFails(p)
                \/ CheckRestored(p) \/ Crash(p)
    BY <1>3, <1>4, <1>5, <1>6, <1>7, <1>8, <1>9, <1>10, <1>11, <1>12, <1>13, <1>14
  <1>15. CASE Done \/ UNCHANGED vars
    BY <1>15 DEF Done
  <1>. QED  BY <1>14, <1>15 DEF Next

-----------------------------------------------------------------------------
(***************************************************************************)
(* Command numbers.                                                        *)
(***************************************************************************)
LEMMA NumbersStep == TypeInv /\ NumbersInv /\ [Next]_vars => NumbersInv'
  <1> SUFFICES ASSUME TypeInv, NumbersInv, [Next]_vars PROVE NumbersInv'
    OBVIOUS
  <1>1. /\ proc \in [Procs -> ProcState] /\ \A q \in Procs : proc[q].command \in 0..MaxCommands
        /\ commands \in Nat /\ MaxCommands \in Nat /\ appended \subseteq Turn
        /\ \A t \in appended : t.command \in 1..MaxCommands
    <2>1. \A q \in Procs : proc[q] \in ProcState
      BY DEF TypeInv, TypeOK
    <2>2. \A q \in Procs : proc[q].command \in 0..MaxCommands
      BY <2>1 DEF ProcState
    <2>3. \A t \in Turn : t.command \in 1..MaxCommands
      BY DEF Turn
    <2>. QED  BY <2>2, <2>3, SessionAssumption DEF TypeInv, TypeOK
  <1>2. ASSUME NEW p \in Procs, ~At(p, "idle") PROVE proc[p].command \in 1..MaxCommands
    BY <1>2 DEF TypeInv, PlaceInv, FitsPlace, At
  <1>3. CASE UNCHANGED vars
    BY <1>3 DEF NumbersInv, vars, At
  <1>4. ASSUME NEW p \in Procs, Starts(p) PROVE NumbersInv'
    <2>1. /\ proc'[p].command = commands + 1 /\ proc'[p].pc # "idle"
          /\ commands' = commands + 1 /\ appended' = appended
          /\ \A q \in Procs : q # p => /\ proc'[q].pc = proc[q].pc
                                       /\ proc'[q].command = proc[q].command
      BY <1>4 DEF Starts, Moves
    <2>2. /\ \A t \in appended : t.command <= commands /\ t.command \in Nat
          /\ \A q \in Procs : proc[q].command <= commands /\ proc[q].command \in Nat
      BY <1>1 DEF NumbersInv
    <2>3. /\ \A t \in appended' : t.command <= commands'
          /\ \A q \in Procs : proc'[q].command <= commands'
      BY <1>1, <2>1, <2>2
    <2>4. ASSUME NEW r \in Procs, proc'[r].pc # "idle"
          PROVE  /\ \A q \in Procs : r # q => proc'[q].command # proc'[r].command
                 /\ \A t \in appended' : t.command = proc'[r].command =>
                      proc'[r].pc = "answer" /\ t.role = "user"
      <3>1. CASE r = p
        BY <1>1, <2>1, <2>2, <3>1
      <3>2. CASE r # p
        BY <1>1, <2>1, <2>2, <2>4, <3>2 DEF NumbersInv, At
      <3>. QED  BY <3>1, <3>2
    <2>. QED  BY <2>3, <2>4 DEF NumbersInv, At
  <1>5. ASSUME NEW p \in Procs, Goes(p) \/ Fails(p) PROVE NumbersInv'
    <2>1. /\ \/ proc'[p] = Idle
             \/ proc'[p].command = proc[p].command /\ proc[p].pc \notin {"idle", "answer"}
          /\ commands' = commands /\ appended' = appended
          /\ \A q \in Procs : q # p => /\ proc'[q].pc = proc[q].pc
                                       /\ proc'[q].command = proc[q].command
      BY <1>5 DEF Goes, Fails, Moves, Loads
    <2>2. \A q \in Procs : proc'[q].command \in {0, proc[q].command}
      BY <2>1 DEF Idle
    <2>3. /\ \A t \in appended' : t.command <= commands'
          /\ \A q \in Procs : proc'[q].command <= commands'
      BY <1>1, <2>1, <2>2 DEF NumbersInv
    <2>4. ASSUME NEW r \in Procs, proc'[r].pc # "idle"
          PROVE  /\ \A q \in Procs : r # q => proc'[q].command # proc'[r].command
                 /\ \A t \in appended' : t.command = proc'[r].command =>
                      proc'[r].pc = "answer" /\ t.role = "user"
      <3>1. /\ proc[r].pc # "idle" /\ proc'[r].command = proc[r].command
            /\ proc[r].pc = "answer" => proc'[r].pc = "answer"
        BY <2>1, <2>4 DEF Idle
      <3>2. proc[r].command # 0
        BY <1>2, <3>1 DEF At
      <3>. QED  BY <2>1, <2>2, <3>1, <3>2 DEF NumbersInv, At
    <2>. QED  BY <2>3, <2>4 DEF NumbersInv, At
  <1>6. ASSUME NEW p \in Procs, NEW role \in {"user", "assistant"}, Appends(p, role)
        PROVE  NumbersInv'
    <2> DEFINE said == Says(p, role)
    <2>1. /\ \/ proc'[p] = Idle
             \/ /\ role = "user" /\ proc'[p].pc = "answer"
                /\ proc'[p].command = proc[p].command
          /\ proc[p].pc # "idle"
          /\ commands' = commands /\ appended' = appended \cup {said}
          /\ \A q \in Procs : q # p => /\ proc'[q].pc = proc[q].pc
                                       /\ proc'[q].command = proc[q].command
      BY <1>6 DEF Appends, Moves, Asked, At, Idle
    <2>2. said.command = proc[p].command /\ said.role = role
      BY DEF Says
    <2> HIDE DEF said
    <2>3. \A q \in Procs : proc'[q].command \in {0, proc[q].command}
      BY <2>1 DEF Idle
    <2>4. /\ \A t \in appended' : t.command <= commands'
          /\ \A q \in Procs : proc'[q].command <= commands'
      BY <1>1, <2>1, <2>2, <2>3 DEF NumbersInv
    <2>5. ASSUME NEW r \in Procs, proc'[r].pc # "idle"
          PROVE  /\ \A q \in Procs : r # q => proc'[q].command # proc'[r].command
                 /\ \A t \in appended' : t.command = proc'[r].command =>
                      proc'[r].pc = "answer" /\ t.role = "user"
      <3>1. /\ proc[r].pc # "idle" /\ proc'[r].command = proc[r].command
            /\ proc[r].pc = "answer" \/ r = p => proc'[r].pc = "answer"
            /\ r = p => role = "user"
        BY <2>1, <2>5 DEF Idle
      <3>2. proc[r].command # 0
        BY <1>2, <3>1 DEF At
      <3>3. \A q \in Procs : r # q => proc'[q].command # proc'[r].command
        BY <2>3, <3>1, <3>2 DEF NumbersInv, At
      <3>4. ASSUME NEW t \in appended', t.command = proc'[r].command
            PROVE  proc'[r].pc = "answer" /\ t.role = "user"
        <4>1. CASE t \in appended
          BY <3>1, <3>4, <4>1 DEF NumbersInv, At
        <4>2. CASE t = said
          <5>1. r = p
            BY <2>2, <3>1, <3>4, <4>2 DEF NumbersInv, At
          <5>. QED  BY <2>2, <3>1, <4>2, <5>1
        <4>. QED  BY <2>1, <4>1, <4>2
      <3>. QED  BY <3>3, <3>4
    <2>. QED  BY <2>4, <2>5 DEF NumbersInv, At
  <1>. QED  BY <1>3, <1>4, <1>5, <1>6, StepKinds

\* What a command is about to append nobody has appended.
LEMMA SaysNew ==
    ASSUME TypeInv, NumbersInv, NEW p \in Procs,
           NEW role \in {"user", "assistant"}, role = "user" => At(p, "goal"),
           role = "assistant" => At(p, "answer")
    PROVE  Says(p, role) \notin appended
  <1>1. ~At(p, "idle")
    BY DEF At
  <1>2. Says(p, role).command = proc[p].command /\ Says(p, role).role = role
    BY <1>1, SaysTurns
  <1>. QED  BY <1>1, <1>2 DEF NumbersInv, At

-----------------------------------------------------------------------------
(***************************************************************************)
(* Lines that were cut off.                                                *)
(***************************************************************************)
LEMMA LossStep == TypeInv /\ NumbersInv /\ LossInv /\ [Next]_vars => LossInv'
  <1> SUFFICES ASSUME TypeInv, NumbersInv, LossInv, [Next]_vars PROVE LossInv'
    OBVIOUS
  <1> DEFINE lost == appended \ TurnsIn(transcript)
             open == IF LastOpen THEN 1 ELSE 0
  <1>1. transcript \in Seq(Line) /\ torn \in Nat /\ appended \subseteq Turn
    BY DEF TypeInv, TypeOK
  <1>2. /\ IsFiniteSet(appended) /\ IsFiniteSet(lost) /\ Cardinality(lost) \in Nat
        /\ Cardinality(lost) + open <= torn
    BY FS_Subset, FS_CardinalityType DEF LossInv
  <1>3. CASE UNCHANGED <<transcript, torn, appended>>
    BY <1>3 DEF LossInv, LastOpen, Last, TurnsIn, Good
  <1>4. ASSUME NEW p \in Procs, NEW role \in {"user", "assistant"}, Appends(p, role)
        PROVE  LossInv'
    <2> DEFINE said == Says(p, role)
               line == [turn |-> said, ended |-> TRUE]
    <2>1. /\ line \in Line /\ transcript' = Extended(line) /\ appended' = appended \cup {said}
          /\ torn' = torn /\ line.turn = said /\ line.ended = TRUE /\ said \in Turn
      BY <1>4 DEF Appends
    <2> HIDE DEF said, line
    <2>2. ~LastOpen'
      BY <1>1, <2>1, ExtendedIs DEF LastOpen
    <2>3. IsFiniteSet(appended')
      BY <1>2, <2>1, FS_AddElement
    <2>4. Cardinality(appended' \ TurnsIn(transcript')) <= torn
      <3>1. CASE LastOpen
        <4>1. TurnsIn(transcript) \ {Last(transcript).turn} \subseteq TurnsIn(transcript')
          BY <1>1, <2>1, <3>1, ExtendedIs
        <4>2. appended' \ TurnsIn(transcript') \subseteq lost \cup {said}
          BY <2>1, <3>1, <4>1 DEF LossInv
        <4>3. /\ IsFiniteSet(lost \cup {said})
              /\ Cardinality(lost \cup {said}) <= Cardinality(lost) + 1
              /\ Cardinality(lost \cup {said}) \in Nat
          <5> HIDE DEF lost
          <5>1. IsFiniteSet(lost \cup {said})
            BY <1>2, FS_AddElement
          <5>2. \/ Cardinality(lost \cup {said}) = Cardinality(lost)
                \/ Cardinality(lost \cup {said}) = Cardinality(lost) + 1
            BY <1>2, FS_AddElement
          <5>. QED  BY <1>2, <5>1, <5>2
        <4>4. /\ Cardinality(appended' \ TurnsIn(transcript')) <= Cardinality(lost \cup {said})
              /\ Cardinality(appended' \ TurnsIn(transcript')) \in Nat
          BY <4>2, <4>3, FS_Subset, FS_CardinalityType
        <4>. QED  BY <1>1, <1>2, <3>1, <4>3, <4>4
      <3>2. CASE ~LastOpen
        <4>1. TurnsIn(transcript) \subseteq TurnsIn(transcript') /\ said \in TurnsIn(transcript')
          BY <1>1, <2>1, <3>2, ExtendedIs, TurnsAreNotGarbage
        <4>2. appended' \ TurnsIn(transcript') \subseteq lost
          BY <2>1, <4>1
        <4>3. /\ Cardinality(appended' \ TurnsIn(transcript')) <= Cardinality(lost)
              /\ Cardinality(appended' \ TurnsIn(transcript')) \in Nat
          BY <1>2, <4>2, FS_Subset, FS_CardinalityType
        <4>. QED  BY <1>1, <1>2, <3>2, <4>3
      <3>. QED  BY <3>1, <3>2
    <2>5. Cardinality(appended' \ TurnsIn(transcript')) + 0 <= torn'
      <3>1. IsFiniteSet(appended' \ TurnsIn(transcript'))
        BY <2>3, FS_Subset
      <3>. QED  BY <2>1, <2>4, <3>1, FS_CardinalityType
    <2>. QED  BY <2>2, <2>3, <2>5 DEF LossInv
  <1>5. ASSUME NEW p \in Procs, Fails(p) PROVE LossInv'
    <2>1. PICK role \in {"user", "assistant"}, cut \in Turn \cup {Garbage} :
            /\ cut \in {Garbage, Says(p, role)}
            /\ role = "user" => At(p, "goal")
            /\ role = "assistant" => At(p, "answer")
            /\ [turn |-> cut, ended |-> FALSE] \in Line
            /\ transcript' = Extended([turn |-> cut, ended |-> FALSE])
      BY <1>5 DEF Fails
    <2>2. torn' = torn + 1 /\ appended' = appended
      BY <1>5 DEF Fails
    <2>3. Garbage \notin appended /\ cut \notin appended
      BY <1>1, <2>1, SaysNew, TurnsAreNotGarbage
    <2> DEFINE line == [turn |-> cut, ended |-> FALSE]
    <2>4. line \in Line /\ transcript' = Extended(line) /\ line.turn = cut
      BY <2>1
    <2> HIDE DEF line
    <2>5. Last(transcript').turn \in {cut, Garbage}
      BY <1>1, <2>4, ExtendedIs
    <2>6. Last(transcript').turn \notin appended'
      BY <2>2, <2>3, <2>5
    <2>7. appended' \ TurnsIn(transcript') \subseteq lost
      <3>1. CASE LastOpen
        <4>1. TurnsIn(transcript) \ {Last(transcript).turn} \subseteq TurnsIn(transcript')
          BY <1>1, <2>4, <3>1, ExtendedIs
        <4>. QED  BY <2>2, <3>1, <4>1 DEF LossInv
      <3>2. CASE ~LastOpen
        <4>1. TurnsIn(transcript) \subseteq TurnsIn(transcript')
          BY <1>1, <2>4, <3>2, ExtendedIs
        <4>. QED  BY <2>2, <4>1
      <3>. QED  BY <3>1, <3>2
    <2>8. /\ Cardinality(appended' \ TurnsIn(transcript')) <= Cardinality(lost)
          /\ Cardinality(appended' \ TurnsIn(transcript')) \in Nat
      BY <1>2, <2>7, FS_Subset, FS_CardinalityType
    <2>9. Cardinality(appended' \ TurnsIn(transcript')) + (IF LastOpen' THEN 1 ELSE 0) <= torn'
      BY <1>1, <1>2, <2>2, <2>8
    <2>. QED  BY <1>2, <2>2, <2>6, <2>9 DEF LossInv
  <1>6. ASSUME NEW p \in Procs, Starts(p) \/ Goes(p) PROVE LossInv'
    BY <1>3, <1>6 DEF Starts, Goes
  <1>7. CASE UNCHANGED vars
    BY <1>3, <1>7 DEF vars
  <1>. QED  BY <1>4, <1>5, <1>6, <1>7, StepKinds

-----------------------------------------------------------------------------
(***************************************************************************)
(* The size of the transcript.                                             *)
(***************************************************************************)
\* The processes that will append no second line, and those that append none.
NotTwo == Procs \ AppendTwo
NotOne == Procs \ (AppendTwo \cup AppendOne)

\* Both are counted, and neither is larger than the set of all processes.
LEMMA CountsAre ==
    /\ IsFiniteSet(NotTwo) /\ Cardinality(NotTwo) \in Nat
    /\ IsFiniteSet(NotOne) /\ Cardinality(NotOne) \in Nat
    /\ Cardinality(Procs) \in Nat
    /\ Cardinality(NotTwo) <= Cardinality(Procs) /\ Cardinality(NotOne) <= Cardinality(Procs)
  <1>1. NotTwo \subseteq Procs /\ NotOne \subseteq Procs /\ IsFiniteSet(Procs)
    BY SessionAssumption DEF NotTwo, NotOne
  <1>. QED  BY <1>1, FS_Subset, FS_CardinalityType

\* More processes count more, and one that is added counts one more.
LEMMA CountsGrow ==
    ASSUME NEW A, NEW B, IsFiniteSet(A), IsFiniteSet(B)
    PROVE  /\ A \subseteq B => Cardinality(A) <= Cardinality(B)
           /\ \A p : A \cup {p} \subseteq B /\ p \notin A => Cardinality(A) + 1 <= Cardinality(B)
  <1>1. A \subseteq B => Cardinality(A) <= Cardinality(B)
    BY FS_Subset
  <1>2. ASSUME NEW p, A \cup {p} \subseteq B, p \notin A PROVE Cardinality(A) + 1 <= Cardinality(B)
    <2>1. Cardinality(A \cup {p}) = Cardinality(A) + 1
      BY <1>2, FS_AddElement
    <2>2. Cardinality(A \cup {p}) <= Cardinality(B)
      BY <1>2, FS_Subset
    <2>. QED  BY <2>1, <2>2
  <1>. QED  BY <1>1, <1>2

\* Every step keeps the bound on the size of the transcript.
LEMMA SizeStep == TypeInv /\ SizeInv /\ [Next]_vars => SizeInv'
  <1> SUFFICES ASSUME TypeInv, SizeInv, [Next]_vars PROVE SizeInv'
    OBVIOUS
  <1>1. Len(transcript) \in Nat /\ MaxLines \in Nat /\ transcript \in Seq(Line)
    BY SessionAssumption DEF TypeInv, TypeOK
  <1>2. /\ IsFiniteSet(NotTwo) /\ Cardinality(NotTwo) \in Nat
        /\ IsFiniteSet(NotOne) /\ Cardinality(NotOne) \in Nat
        /\ IsFiniteSet(NotTwo') /\ Cardinality(NotTwo') \in Nat
        /\ IsFiniteSet(NotOne') /\ Cardinality(NotOne') \in Nat
    <2>1. (/\ IsFiniteSet(NotTwo) /\ Cardinality(NotTwo) \in Nat
           /\ IsFiniteSet(NotOne) /\ Cardinality(NotOne) \in Nat)'
      BY CountsAre, PTL
    <2>. QED  BY <2>1, CountsAre
  <1>3. Len(transcript) > MaxLines =>
          Len(transcript) - MaxLines <= Cardinality(NotTwo) + Cardinality(NotOne)
    BY DEF SizeInv, NotTwo, NotOne
  <1>4. ASSUME Len(transcript') > MaxLines =>
                 Len(transcript') - MaxLines <= Cardinality(NotTwo') + Cardinality(NotOne')
        PROVE  SizeInv'
    BY <1>4 DEF SizeInv, NotTwo, NotOne
  <1>5. CASE UNCHANGED vars
    BY <1>5 DEF SizeInv, vars, AppendTwo, AppendOne, At
  <1>6. ASSUME NEW p \in Procs, Starts(p) \/ Goes(p) PROVE SizeInv'
    <2>1. transcript' = transcript
      BY <1>6 DEF Starts, Goes
    <2>2. SUFFICES ASSUME Len(transcript) > MaxLines
                   PROVE  NotTwo \subseteq NotTwo' /\ NotOne \subseteq NotOne'
      <3>1. ASSUME NotTwo \subseteq NotTwo', NotOne \subseteq NotOne'
            PROVE  /\ Cardinality(NotTwo) <= Cardinality(NotTwo')
                   /\ Cardinality(NotOne) <= Cardinality(NotOne')
        BY <1>2, <3>1, CountsGrow
      <3>. QED  BY <1>1, <1>2, <1>3, <1>4, <2>1, <2>2, <3>1
    <2>3. \A q \in Procs : q # p => proc'[q].pc = proc[q].pc
      BY <1>6 DEF Starts, Goes, Moves
    <2>4. /\ proc'[p].pc # "answer"
          /\ proc'[p].pc \in {"load summary", "goal"} => proc[p].pc = "load summary"
      <3>1. CASE Starts(p)
        BY <3>1 DEF Starts
      <3>2. CASE Goes(p)
        <4>1. TooLarge /\ Idle.pc = "idle"
          BY <2>2 DEF TooLarge, Idle
        <4>. QED  BY <3>2, <4>1 DEF Goes, Loads, At
      <3>. QED  BY <1>6, <3>1, <3>2
    <2>. QED  BY <2>3, <2>4 DEF NotTwo, NotOne, AppendTwo, AppendOne, At
  <1>7. ASSUME NEW p \in Procs, NEW line \in Line, transcript' = Extended(line),
               \/ NotTwo \cup {p} \subseteq NotTwo' /\ NotOne \subseteq NotOne' /\ p \notin NotTwo
               \/ NotTwo \subseteq NotTwo' /\ NotOne \cup {p} \subseteq NotOne' /\ p \notin NotOne
        PROVE  SizeInv'
    <2>1. Len(transcript') \in Nat /\ Len(transcript') <= Len(transcript) + 1
      BY <1>1, <1>7, ExtendedIs
    <2>2. Cardinality(NotTwo) + Cardinality(NotOne) + 1
            <= Cardinality(NotTwo') + Cardinality(NotOne')
      <3>1. CASE NotTwo \cup {p} \subseteq NotTwo' /\ NotOne \subseteq NotOne' /\ p \notin NotTwo
        <4>1. Cardinality(NotTwo) + 1 <= Cardinality(NotTwo')
          BY <1>2, <3>1, CountsGrow
        <4>2. Cardinality(NotOne) <= Cardinality(NotOne')
          BY <1>2, <3>1, CountsGrow
        <4>. QED  BY <1>2, <4>1, <4>2
      <3>2. CASE NotTwo \subseteq NotTwo' /\ NotOne \cup {p} \subseteq NotOne' /\ p \notin NotOne
        <4>1. Cardinality(NotOne) + 1 <= Cardinality(NotOne')
          BY <1>2, <3>2, CountsGrow
        <4>2. Cardinality(NotTwo) <= Cardinality(NotTwo')
          BY <1>2, <3>2, CountsGrow
        <4>. QED  BY <1>2, <4>1, <4>2
      <3>. QED  BY <1>7, <3>1, <3>2
    <2>. QED  BY <1>1, <1>2, <1>3, <1>4, <2>1, <2>2
  <1>8. ASSUME NEW p \in Procs, NEW role \in {"user", "assistant"}, Appends(p, role)
        PROVE  SizeInv'
    <2>1. /\ \/ proc[p].pc = "goal" /\ proc'[p].pc = "answer"
             \/ proc[p].pc = "answer" /\ proc'[p].pc = "idle"
          /\ \A q \in Procs : q # p => proc'[q].pc = proc[q].pc
      <3>1. Asked(p).pc = "answer" /\ Idle.pc = "idle"
        BY DEF Asked, Idle
      <3>. QED  BY <1>8, <3>1 DEF Appends, Moves, At
    <2>2. \/ NotTwo \cup {p} \subseteq NotTwo' /\ NotOne \subseteq NotOne' /\ p \notin NotTwo
          \/ NotTwo \subseteq NotTwo' /\ NotOne \cup {p} \subseteq NotOne' /\ p \notin NotOne
      BY <2>1 DEF NotTwo, NotOne, AppendTwo, AppendOne, At
    <2>3. \E line \in Line : transcript' = Extended(line)
      BY <1>8 DEF Appends
    <2>. QED  BY <1>7, <2>2, <2>3
  <1>9. ASSUME NEW p \in Procs, Fails(p) PROVE SizeInv'
    <2>1. /\ proc[p].pc \in {"goal", "answer"} /\ proc'[p].pc = "idle"
          /\ \A q \in Procs : q # p => proc'[q].pc = proc[q].pc
      BY <1>9 DEF Fails, Moves, Idle, At
    <2>2. \/ NotTwo \cup {p} \subseteq NotTwo' /\ NotOne \subseteq NotOne' /\ p \notin NotTwo
          \/ NotTwo \subseteq NotTwo' /\ NotOne \cup {p} \subseteq NotOne' /\ p \notin NotOne
      BY <2>1 DEF NotTwo, NotOne, AppendTwo, AppendOne, At
    <2>3. \E line \in Line : transcript' = Extended(line)
      BY <1>9 DEF Fails
    <2>. QED  BY <1>7, <2>2, <2>3
  <1>. QED  BY <1>5, <1>6, <1>8, <1>9, StepKinds

-----------------------------------------------------------------------------
(***************************************************************************)
(* Restores.                                                               *)
(***************************************************************************)
\* A run whose restore is about to append, or has appended.
Restoring(run) == \/ \E t \in appended : t.run = run
                  \/ \E q \in Procs : At(q, "goal") /\ proc[q].run = run

\* Every step keeps the bound on the restores of a run.
LEMMA RestoresStep ==
    TypeInv /\ LossInv /\ RestoresInv /\ [Next]_vars => RestoresInv'
  <1> SUFFICES ASSUME TypeInv, LossInv, RestoresInv, [Next]_vars, faults' = 0,
                      NEW run \in Runs
               PROVE  /\ restores'[run] <= 1
                      /\ restores'[run] = 1 => Restoring(run)'
    BY DEF RestoresInv, Restoring
  <1>1. /\ faults \in Nat /\ faults' \in Nat /\ torn \in 0..faults /\ restores \in [Runs -> Nat]
        /\ transcript \in Seq(Line)
    <2>1. TypeInv'
      BY TypeStep
    <2>. QED  BY <2>1 DEF TypeInv, TypeOK
  <1>2. faults = 0
    <2>1. ASSUME NEW p \in Procs, AppendFails(p) \/ Crash(p) PROVE faults' = faults + 1
      BY <2>1 DEF AppendFails, Crash
    <2>2. ASSUME NEW p \in Procs,
                 \/ IssueTurn(p) \/ IssueRestore(p) \/ Refresh(p) \/ TruncateSummary(p)
                 \/ WriteSummary(p) \/ LoadTranscript(p) \/ LoadSummary(p)
                 \/ AppendGoal(p) \/ AppendAnswer(p) \/ CheckRestored(p)
          PROVE  faults' = faults
      BY <2>2 DEF Issue, IssueTurn, IssueRestore, Refresh, TruncateSummary, WriteSummary,
                  LoadTranscript, LoadSummary, AppendGoal, AppendAnswer, CheckRestored
    <2>3. UNCHANGED vars => faults' = faults
      BY DEF vars
    <2>. QED  BY <1>1, <2>1, <2>2, <2>3 DEF Next, Done
  <1>3. restores[run] <= 1 /\ (restores[run] = 1 => Restoring(run)) /\ restores[run] \in Nat
    BY <1>1, <1>2 DEF RestoresInv, Restoring
  <1>4. ASSUME NEW p \in Procs, restores' = restores, appended' = appended,
               \A q \in Procs : q # p => proc'[q].pc = proc[q].pc /\ proc'[q].run = proc[q].run,
               At(p, "goal") => proc'[p].pc = "goal" /\ proc'[p].run = proc[p].run
        PROVE  restores'[run] <= 1 /\ (restores'[run] = 1 => Restoring(run)')
    <2>1. Restoring(run) => Restoring(run)'
      BY <1>4 DEF Restoring, At
    <2>. QED  BY <1>3, <1>4, <2>1
  <1>5. CASE UNCHANGED vars
    BY <1>3, <1>5 DEF vars, Restoring, At
  <1>6. ASSUME NEW p \in Procs,
               \/ IssueTurn(p) \/ IssueRestore(p) \/ Refresh(p) \/ TruncateSummary(p)
               \/ WriteSummary(p) \/ LoadTranscript(p) \/ LoadSummary(p)
        PROVE  restores'[run] <= 1 /\ (restores'[run] = 1 => Restoring(run)')
    <2>1. /\ restores' = restores /\ appended' = appended /\ ~At(p, "goal")
      BY <1>6 DEF IssueTurn, IssueRestore, Issue, Refresh, TruncateSummary, WriteSummary,
                  LoadTranscript, LoadSummary, At
    <2>2. \E next : Moves(p, next)
      BY <1>6, IssueMoves, RefreshMoves, TruncateMoves, WriteMoves, LoadMoves, CompleteMoves
         DEF IssueTurn, IssueRestore
    <2>3. \A q \in Procs : q # p => proc'[q].pc = proc[q].pc /\ proc'[q].run = proc[q].run
      BY <2>2 DEF Moves
    <2>. QED  BY <1>4, <2>1, <2>3
  <1>7. ASSUME NEW p \in Procs, NEW role \in {"user", "assistant"}, restores' = restores,
               Moves(p, proc'[p]), appended' = appended \cup {Says(p, role)}
        PROVE  restores'[run] <= 1 /\ (restores'[run] = 1 => Restoring(run)')
    <2>1. Says(p, role).run = proc[p].run /\ Says(p, role) \in appended'
      BY <1>7 DEF Says
    <2>2. Restoring(run) => Restoring(run)'
      <3>1. CASE \E t \in appended : t.run = run
        BY <1>7, <3>1 DEF Restoring
      <3>2. ASSUME NEW q \in Procs, At(q, "goal"), proc[q].run = run PROVE Restoring(run)'
        <4>1. CASE q = p
          BY <2>1, <3>2, <4>1 DEF Restoring
        <4>2. CASE q # p
          BY <1>7, <3>2, <4>2 DEF Restoring, Moves, At
        <4>. QED  BY <4>1, <4>2
      <3>. QED  BY <3>1, <3>2 DEF Restoring
    <2>. QED  BY <1>3, <1>7, <2>2
  <1>8. ASSUME NEW p \in Procs, AppendGoal(p)
        PROVE  restores'[run] <= 1 /\ (restores'[run] = 1 => Restoring(run)')
    BY <1>7, <1>8, AskMoves DEF AppendGoal, AppendTurn, Moves
  <1>9. ASSUME NEW p \in Procs, AppendAnswer(p)
        PROVE  restores'[run] <= 1 /\ (restores'[run] = 1 => Restoring(run)')
    BY <1>7, <1>9, OverMoves DEF AppendAnswer, AppendTurn, Moves
  <1>10. ASSUME NEW p \in Procs, CheckRestored(p)
         PROVE  restores'[run] <= 1 /\ (restores'[run] = 1 => Restoring(run)')
    <2>1. ~At(p, "goal") /\ appended' = appended
      BY <1>10 DEF CheckRestored, At
    <2>2. CASE TooLarge \/ IsRestored(proc[p].run)
      <3>1. restores' = restores /\ Moves(p, Idle)
        BY <1>10, <2>2, CheckMoves DEF CheckRestored
      <3>. QED  BY <1>4, <2>1, <3>1 DEF Moves
    <2>3. CASE ~(TooLarge \/ IsRestored(proc[p].run))
      <3>1. Moves(p, Checked(p))
        BY <1>10, <2>3, CheckMoves
      <3>2. \A q \in Procs : q # p => proc'[q].pc = proc[q].pc /\ proc'[q].run = proc[q].run
        BY <3>1 DEF Moves
      <3>3. CASE restores'[run] = restores[run]
        <4>1. Restoring(run) => Restoring(run)'
          BY <2>1, <3>2 DEF Restoring, At
        <4>. QED  BY <1>3, <3>3, <4>1
      <3>4. CASE restores'[run] # restores[run]
        <4>1. /\ run = proc[p].run /\ restores'[run] = restores[run] + 1
              /\ ~ \E q \in Procs : At(q, "goal") /\ proc[q].run = proc[p].run
          BY <1>1, <1>10, <2>3, <3>4 DEF CheckRestored
        <4>2. run \notin {t.run : t \in ReadableTurns}
          BY <2>3, <4>1 DEF IsRestored, ReadableTurns
        <4>3. appended \subseteq ReadableTurns
          <5>1. Cardinality(appended \ TurnsIn(transcript)) <= 0
                /\ IsFiniteSet(appended \ TurnsIn(transcript))
            <6>1. IsFiniteSet(appended \ TurnsIn(transcript))
              BY FS_Subset DEF LossInv
            <6>2. Cardinality(appended \ TurnsIn(transcript)) \in Nat
              BY <6>1, FS_CardinalityType
            <6>. QED  BY <1>1, <1>2, <6>1, <6>2 DEF LossInv
          <5>2. appended \ TurnsIn(transcript) = {}
            BY <5>1, FS_EmptySet, FS_CardinalityType
          <5>. QED  BY <1>1, <5>2, ReadableTyped
        <4>4. ~Restoring(run)
          BY <4>1, <4>2, <4>3 DEF Restoring
        <4>5. restores'[run] = 1
          BY <1>3, <4>1, <4>4
        <4>6. proc'[p].pc = "goal" /\ proc'[p].run = run
          <5>1. proc'[p] = Checked(p) /\ proc[p] \in ProcState
            BY <3>1 DEF Moves, TypeInv, TypeOK
          <5>. QED  BY <4>1, <5>1 DEF Checked, ProcState
        <4>. QED  BY <4>5, <4>6 DEF Restoring, At
      <3>. QED  BY <3>3, <3>4
    <2>. QED  BY <2>2, <2>3
  <1>11. ASSUME NEW p \in Procs, AppendFails(p) \/ Crash(p) PROVE FALSE
    BY <1>1, <1>11, <1>2 DEF AppendFails, Crash
  <1>. QED  BY <1>5, <1>6, <1>8, <1>9, <1>10, <1>11 DEF Next, Done

-----------------------------------------------------------------------------
(***************************************************************************)
(* Summary and transcript.                                                 *)
(***************************************************************************)
\* A process that stays, undisturbed or while the files stay, knows them still.
LEMMA OthersKnow ==
    ASSUME TypeInv, AloneInv, NEW p \in Procs, NEW next, Moves(p, next),
           Disturbs(p) \/ (transcript' = transcript /\ summary' = summary),
           NEW q \in Procs, q # p, proc'[q].alone
    PROVE  Knows(q)'
  <1>1. proc'[q] = proc[q] /\ Knows(q)
    BY DEF Moves, AloneInv
  <1>2. CASE transcript' = transcript /\ summary' = summary
    BY <1>1, <1>2 DEF Knows, At
  <1>3. CASE Disturbs(p)
    <2>1. proc[q].pc \notin {"truncate", "write", "load", "load summary"}
      BY <1>1, <1>3 DEF Disturbs
    <2>. QED  BY <1>1, <2>1 DEF Knows, At
  <1>. QED  BY <1>2, <1>3

\* Every step keeps what is known of a process that is alone.
LEMMA AloneStep == TypeInv /\ AloneInv /\ [Next]_vars => AloneInv'
  <1> SUFFICES ASSUME TypeInv, AloneInv, [Next]_vars PROVE AloneInv'
    OBVIOUS
  <1>1. \A p \in Procs : proc[p] \in ProcState
    BY DEF TypeInv, TypeOK
  <1>2. ASSUME NEW p \in Procs, NEW next, Moves(p, next),
               Disturbs(p) \/ (transcript' = transcript /\ summary' = summary),
               proc'[p].alone => Knows(p)'
        PROVE  AloneInv'
    <2>1. ASSUME NEW q \in Procs, proc'[q].alone PROVE Knows(q)'
      <3>1. CASE q = p
        BY <1>2, <2>1, <3>1
      <3>2. CASE q # p
        BY <1>2, <2>1, <3>2, OthersKnow
      <3>. QED  BY <3>1, <3>2
    <2>. QED  BY <2>1 DEF AloneInv
  <1>3. ASSUME NEW p \in Procs,
               proc'[p].pc \notin {"truncate", "write", "load", "load summary", "goal"}
        PROVE  Knows(p)'
    BY <1>3 DEF Knows, At
  <1>4. Idle.pc = "idle"
    BY DEF Idle
  <1>5. CASE UNCHANGED vars
    BY <1>5 DEF AloneInv, Knows, vars, At
  <1>6. ASSUME NEW p \in Procs, NEW pc \in {"refresh", "check"}, NEW run \in Runs \cup {NoRun},
               Issue(p, pc, run)
        PROVE  AloneInv'
    <2>1. Moves(p, Issued(pc, run)) /\ Issued(pc, run).pc = pc
      BY <1>6, IssueMoves DEF Issued, Idle
    <2>2. proc'[p] = Issued(pc, run) /\ transcript' = transcript /\ summary' = summary
      BY <1>6, <2>1 DEF Moves, Issue
    <2>3. Knows(p)'
      BY <1>3, <2>1, <2>2
    <2>. QED  BY <1>2, <2>1, <2>2, <2>3
  <1>7. ASSUME NEW p \in Procs, IssueTurn(p) \/ IssueRestore(p) PROVE AloneInv'
    BY <1>6, <1>7 DEF IssueTurn, IssueRestore
  <1>8. ASSUME NEW p \in Procs, Moves(p, Idle),
               Disturbs(p) \/ (transcript' = transcript /\ summary' = summary)
        PROVE  AloneInv'
    <2>1. proc'[p].pc = "idle"
      BY <1>4, <1>8 DEF Moves
    <2>. QED  BY <1>2, <1>3, <1>8, <2>1
  <1>9. ASSUME NEW p \in Procs, Refresh(p) PROVE AloneInv'
    <2>1. transcript' = transcript /\ summary' = summary
      BY <1>9 DEF Refresh
    <2>2. CASE TooLarge
      BY <1>8, <1>9, <2>1, <2>2, RefreshMoves
    <2>3. CASE ~TooLarge
      <3>1. Moves(p, Refreshed(p)) /\ proc'[p] = Refreshed(p)
        BY <1>9, <2>3, RefreshMoves DEF Moves
      <3>2. /\ Refreshed(p).pc = "truncate"
            /\ Refreshed(p).draft = Summarized(Readable(transcript))
        BY <1>1, Zenon DEF Refreshed, ProcState
      <3>3. Knows(p)'
        BY <2>1, <3>1, <3>2 DEF Knows, At
      <3>. QED  BY <1>2, <2>1, <3>1, <3>3
    <2>. QED  BY <2>2, <2>3
  <1>10. ASSUME NEW p \in Procs, TruncateSummary(p) PROVE AloneInv'
    <2>1. Moves(p, Truncated(p)) /\ Disturbs(p) /\ proc'[p] = Truncated(p)
      BY <1>10, TruncateMoves DEF Moves
    <2>2. /\ Truncated(p).pc = "write" /\ Truncated(p).draft = proc[p].draft
          /\ Truncated(p).alone = proc[p].alone
      BY <1>1, Zenon DEF Truncated, ProcState
    <2>3. proc'[p].alone => Knows(p)'
      BY <1>10, <2>1, <2>2 DEF AloneInv, Knows, At, TruncateSummary
    <2>. QED  BY <1>2, <2>1, <2>3
  <1>11. ASSUME NEW p \in Procs, WriteSummary(p) PROVE AloneInv'
    <2>1. Moves(p, Written(p)) /\ Disturbs(p) /\ proc'[p] = Written(p)
      BY <1>11, WriteMoves DEF Moves
    <2>2. Written(p).pc = "load" /\ Written(p).alone = proc[p].alone
      BY <1>1, Zenon DEF Written, ProcState
    <2>3. proc'[p].alone => Knows(p)'
      BY <1>11, <2>1, <2>2 DEF AloneInv, Knows, At, WriteSummary
    <2>. QED  BY <1>2, <2>1, <2>3
  <1>12. ASSUME NEW p \in Procs, LoadTranscript(p) PROVE AloneInv'
    <2>1. transcript' = transcript /\ summary' = summary
      BY <1>12 DEF LoadTranscript
    <2>2. CASE TooLarge
      BY <1>8, <1>12, <2>1, <2>2, LoadMoves
    <2>3. CASE ~TooLarge
      <3>1. Moves(p, Loaded(p)) /\ proc'[p] = Loaded(p)
        BY <1>12, <2>3, LoadMoves DEF Moves
      <3>2. /\ Loaded(p).pc = "load summary" /\ Loaded(p).turns = Readable(transcript)
            /\ Loaded(p).alone = proc[p].alone
        BY <1>1, Zenon DEF Loaded, ProcState
      <3>3. proc'[p].alone => Knows(p)'
        BY <1>12, <2>1, <3>1, <3>2 DEF AloneInv, Knows, At, LoadTranscript
      <3>. QED  BY <1>2, <2>1, <3>1, <3>3
    <2>. QED  BY <2>2, <2>3
  <1>13. ASSUME NEW p \in Procs, LoadSummary(p) PROVE AloneInv'
    <2>1. transcript' = transcript /\ summary' = summary
      BY <1>13 DEF LoadSummary
    <2>2. Moves(p, Complete(p)) /\ proc'[p] = Complete(p)
      BY <1>13, CompleteMoves DEF Moves
    <2>3. /\ Complete(p).pc = "goal" /\ Complete(p).memory = FirstN(summary, SummaryLines)
          /\ Complete(p).turns = proc[p].turns /\ Complete(p).alone = proc[p].alone
      BY <1>1, Zenon DEF Complete, ProcState
    <2>4. proc'[p].alone => Knows(p)'
      BY <1>13, <2>2, <2>3 DEF AloneInv, Knows, At, LoadSummary
    <2>. QED  BY <1>2, <2>1, <2>2, <2>4
  <1>14. ASSUME NEW p \in Procs, AppendGoal(p) PROVE AloneInv'
    <2>1. Moves(p, Asked(p)) /\ Disturbs(p) /\ proc'[p] = Asked(p)
      BY <1>14, AskMoves DEF Moves
    <2>2. Asked(p).pc = "answer"
      BY DEF Asked, Idle
    <2>3. Knows(p)'
      BY <1>3, <2>1, <2>2
    <2>. QED  BY <1>2, <2>1, <2>3
  <1>15. ASSUME NEW p \in Procs, AppendAnswer(p) \/ AppendFails(p) PROVE AloneInv'
    BY <1>8, <1>15, OverMoves
  <1>16. ASSUME NEW p \in Procs, CheckRestored(p) PROVE AloneInv'
    <2>1. transcript' = transcript /\ summary' = summary
      BY <1>16 DEF CheckRestored
    <2>2. CASE TooLarge \/ IsRestored(proc[p].run)
      BY <1>8, <1>16, <2>1, <2>2, CheckMoves
    <2>3. CASE ~(TooLarge \/ IsRestored(proc[p].run))
      <3>1. Moves(p, Checked(p)) /\ proc'[p] = Checked(p)
        BY <1>16, <2>3, CheckMoves DEF Moves
      <3>2. /\ Checked(p).pc = "goal" /\ Checked(p).run = proc[p].run
        BY <1>1, Zenon DEF Checked, ProcState
      <3>3. proc[p].run # NoRun
        BY <1>16, SessionAssumption DEF TypeInv, PlaceInv, FitsPlace, CheckRestored, At
      <3>4. Knows(p)'
        BY <3>1, <3>2, <3>3 DEF Knows, At
      <3>. QED  BY <1>2, <2>1, <3>1, <3>4
    <2>. QED  BY <2>2, <2>3
  <1>17. ASSUME NEW p \in Procs, Crash(p) PROVE AloneInv'
    <2>1. transcript' = transcript /\ summary' = summary
      BY <1>17 DEF Crash
    <2>. QED  BY <1>8, <1>17, <2>1, OverMoves
  <1>. QED  BY <1>5, <1>7, <1>9, <1>10, <1>11, <1>12, <1>13, <1>14, <1>15, <1>16, <1>17
            DEF Next, Done

-----------------------------------------------------------------------------
(***************************************************************************)
(* The theorems.                                                           *)
(***************************************************************************)
SessInv == TypeInv /\ NumbersInv /\ LossInv /\ RestoresInv /\ SizeInv /\ AloneInv

\* The invariant holds when nobody has started.
LEMMA SessInit == Init => SessInv
  <1> SUFFICES ASSUME Init PROVE SessInv
    OBVIOUS
  <1>1. \A p \in Procs : proc[p] = Idle
    BY DEF Init
  <1>2. Idle.pc = "idle" /\ Idle.command = 0
    BY DEF Idle
  <1>3. NumbersInv
    BY <1>1, <1>2 DEF Init, NumbersInv, At
  <1>4. LossInv
    <2>1. IsFiniteSet({}) /\ Cardinality({}) = 0
      BY FS_EmptySet
    <2>2. appended = {} /\ appended \ TurnsIn(transcript) = {} /\ ~LastOpen /\ torn = 0
      BY DEF Init, LastOpen
    <2>. QED  BY <2>1, <2>2 DEF LossInv
  <1>5. RestoresInv
    BY DEF Init, RestoresInv
  <1>6. SizeInv
    BY SessionAssumption DEF Init, SizeInv
  <1>7. AloneInv
    BY <1>1, <1>2 DEF AloneInv, Knows, At
  <1>. QED  BY <1>3, <1>4, <1>5, <1>6, <1>7, TypeInit DEF SessInv

\* The invariant holds in every state.
LEMMA SessInvariant == Spec => []SessInv
  <1>1. SessInv /\ [Next]_vars => SessInv'
    BY TypeStep, NumbersStep, LossStep, RestoresStep, SizeStep, AloneStep DEF SessInv
  <1>. QED  BY SessInit, <1>1, PTL DEF Spec

\* What commands read from the session's files and write to them are turns, and
\* never a line that was cut off: every state of every process has its type.
THEOREM SessionTypeCorrect == Spec => []TypeOK
  <1>1. SessInv => TypeOK
    BY DEF SessInv, TypeInv
  <1>. QED  BY <1>1, SessInvariant, PTL

\* Of the turns whose append returned, all but one for each line that was cut
\* off are read by every later load, whoever appends at the same time.
THEOREM AppendedTurnsAreRead == Spec => []OnlyTornLinesLose
  <1>1. SessInv => OnlyTornLinesLose
    <2> SUFFICES ASSUME SessInv PROVE OnlyTornLinesLose
      OBVIOUS
    <2>1. ReadableTurns = TurnsIn(transcript) /\ torn \in Nat
      BY ReadableTyped DEF SessInv, TypeInv, TypeOK
    <2>2. IsFiniteSet(appended \ TurnsIn(transcript))
      BY FS_Subset DEF SessInv, LossInv
    <2>3. Cardinality(appended \ TurnsIn(transcript)) \in Nat
      BY <2>2, FS_CardinalityType
    <2>. QED  BY <2>1, <2>3 DEF SessInv, LossInv, OnlyTornLinesLose
  <1>. QED  BY <1>1, SessInvariant, PTL

\* While nothing fails, a run is restored once by the restores whose check did
\* not race another one that had checked and not yet appended the goal.
THEOREM RunsAreRestoredOnce == Spec => []RestoredOnce
  <1>1. SessInv => RestoredOnce
    BY DEF SessInv, RestoresInv, RestoredOnce
  <1>. QED  BY <1>1, SessInvariant, PTL

\* The transcript outgrows what a load accepts by two lines for each process at
\* most: the ones of the command that had found it small enough.
THEOREM TranscriptIsBounded == Spec => []TranscriptBounded
  <1>1. SessInv => TranscriptBounded
    <2> SUFFICES ASSUME SessInv PROVE TranscriptBounded
      OBVIOUS
    <2>1. Len(transcript) \in Nat /\ MaxLines \in Nat
      BY SessionAssumption DEF SessInv, TypeInv, TypeOK
    <2>2. Len(transcript) > MaxLines =>
            Len(transcript) - MaxLines <= Cardinality(NotTwo) + Cardinality(NotOne)
      BY DEF SessInv, SizeInv, NotTwo, NotOne
    <2>. QED  BY <2>1, <2>2, CountsAre DEF TranscriptBounded
  <1>. QED  BY <1>1, SessInvariant, PTL

\* A turn that refreshed and loaded the session while nobody changed it starts
\* with the last KeepTurns + SummaryTurns turns: the summary ends where the turns
\* that are kept begin.
THEOREM NothingIsForgotten == Spec => []NothingForgotten
  <1>1. SessInv => NothingForgotten
    <2> SUFFICES ASSUME SessInv, SummaryTurns <= SummaryLines,
                        NEW p \in Procs, StartsTurn(p), proc[p].alone
                 PROVE  Shown(p) = LastN(proc[p].turns, KeepTurns + SummaryTurns)
      BY DEF NothingForgotten
    <2> DEFINE turns == proc[p].turns
               older == ButLastN(turns, KeepTurns)
    <2>1. turns \in Seq(Turn)
      BY DEF SessInv, TypeInv, TypeOK, ProcState
    <2>2. proc[p].memory = FirstN(LastN(older, SummaryTurns), SummaryLines)
      BY DEF SessInv, AloneInv, Knows, StartsTurn, Summarized
    <2> HIDE DEF turns
    <2>3. older \in Seq(Turn)
      BY <2>1, Slices, SessionAssumption
    <2>4. LastN(older, SummaryTurns) \in Seq(Turn) /\ Len(LastN(older, SummaryTurns)) <= SummaryTurns
      <3> HIDE DEF older
      <3>. QED  BY <2>3, Slices, SessionAssumption
    <2>5. FirstN(LastN(older, SummaryTurns), SummaryLines) = LastN(older, SummaryTurns)
      <3>1. Len(LastN(older, SummaryTurns)) <= SummaryLines
        <4>1. Len(LastN(older, SummaryTurns)) \in Nat
          BY <2>4
        <4>. QED  BY <2>4, <4>1, SessionAssumption
      <3> HIDE DEF older
      <3>. QED  BY <2>4, <3>1, Slices, SessionAssumption
    <2>6. LastN(older, SummaryTurns) \o LastN(turns, KeepTurns)
            = LastN(turns, KeepTurns + SummaryTurns)
      BY <2>1, LastOfBoth, SessionAssumption
    <2>. QED  BY <2>2, <2>5, <2>6 DEF Shown, turns
  <1>. QED  BY <1>1, SessInvariant, PTL
==============================================================================
