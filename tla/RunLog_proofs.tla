----------------------------- MODULE RunLog_proofs -----------------------------
(***************************************************************************)
(* Proofs about RunLog, for every value of its constants.  What is proved  *)
(* of the loop in AgentLoop_proofs holds of the run here: the logger and   *)
(* the commands leave its variables alone.                                 *)
(***************************************************************************)
EXTENDS RunLog, AgentLoop_proofs, Counting

\* Every step of the whole is a step of the loop or leaves the loop alone.
LEMMA LoopGoesOn == [RunLogNext]_runLogVars => [Next]_vars
  BY DEF RunLogNext, RunStep, WriteEvent, DropEvent, TearEvent, KillRun, CommandStep,
     ResumeReads, RestoreReads, ReadLog, ResumeEnds, CheckSession, AppendGoal, AppendAnswer,
     CommandDies, AllQuiet, runLogVars, Next

(***************************************************************************)
(* The file.  Debt is what the last line, when it has no end, will still   *)
(* cost: itself, if it can be read, and the line that continues it.        *)
(***************************************************************************)
Line == [event : 0..written, ended : BOOLEAN]

Increasing == \A m, n \in Readable : m < n => file[m].event < file[n].event

Open == file # <<>> /\ ~file[Len(file)].ended

Debt == IF ~Open THEN 0 ELSE IF file[Len(file)].event = Garbage THEN 1 ELSE 2

Lost == dropped + 2 * torn

FileOK ==
    /\ written \in Nat
    /\ dropped \in Nat /\ torn \in Nat
    /\ file \in Seq(Line)
    /\ Increasing

FileInv ==
    /\ FileOK
    /\ written <= Len(log)
    /\ written - Cardinality(Readable) + Debt <= Lost

\* The readable lines are finitely many and hold events that were written.
LEMMA ReadableLines ==
    ASSUME FileOK
    PROVE  /\ Len(file) \in Nat /\ DOMAIN file = 1..Len(file)
           /\ Readable \subseteq 1..Len(file)
           /\ IsFiniteSet(Readable) /\ Cardinality(Readable) \in Nat
           /\ \A n \in Readable : file[n].event \in 1..written
           /\ \A n \in 1..Len(file) : file[n] \in Line
  <1>1. Len(file) \in Nat /\ DOMAIN file = 1..Len(file)
    BY DEF FileOK
  <1>2. Readable \subseteq 1..Len(file)
    BY <1>1 DEF Readable
  <1>3. IsFiniteSet(Readable) /\ Cardinality(Readable) \in Nat
    <2>1. IsFiniteSet(1..Len(file))
      BY <1>1, FS_Interval
    <2>2. IsFiniteSet(Readable)
      BY <1>2, <2>1, FS_Subset
    <2>. QED  BY <2>2, FS_CardinalityType
  <1>4. \A n \in 1..Len(file) : file[n] \in Line
    BY <1>1 DEF FileOK
  <1>5. \A n \in Readable : file[n].event \in 1..written
    BY <1>2, <1>4 DEF Readable, Line, Garbage, FileOK
  <1>. QED  BY <1>1, <1>2, <1>3, <1>4, <1>5

\* A line of the next event, whole or torn, is added: it either is a line of
\* its own or spoils the line it continues.
LEMMA LineAdded ==
    ASSUME FileOK, NEW e \in {Garbage, written + 1}, NEW ended \in BOOLEAN,
           file' = WithLine([event |-> e, ended |-> ended]),
           written' = written + 1, dropped' \in Nat, torn' \in Nat
    PROVE  /\ FileOK'
           /\ Open => /\ Cardinality(Readable') = Cardinality(Readable) - (Debt - 1)
                      /\ Debt' = IF ended THEN 0 ELSE 1
           /\ ~Open => /\ Cardinality(Readable') =
                            Cardinality(Readable) + (IF e = Garbage THEN 0 ELSE 1)
                       /\ Debt' = IF ended THEN 0 ELSE IF e = Garbage THEN 1 ELSE 2
  <1> DEFINE n == Len(file)
             line == [event |-> e, ended |-> ended]
             Line1 == [event : 0..(written + 1), ended : BOOLEAN]
  <1>0. /\ written \in Nat /\ file \in Seq(Line) /\ n \in Nat /\ DOMAIN file = 1..n
        /\ Readable \subseteq 1..n
        /\ IsFiniteSet(Readable) /\ Cardinality(Readable) \in Nat
        /\ \A k \in Readable : file[k].event \in 1..written
        /\ \A k \in 1..n : file[k] \in Line
    BY ReadableLines DEF FileOK
  <1>1. Line' = Line1
    BY DEF Line
  <1>2. file \in Seq(Line1) /\ line \in Line1
    <2>1. Line \subseteq Line1
      BY <1>0 DEF Line
    <2>2. file \in Seq(Line1)
      <3>. HIDE DEF Line1
      <3>. QED  BY <1>0, <2>1, SeqMonotonic
    <2>3. e \in 0..(written + 1)
      BY <1>0 DEF Garbage
    <2>. QED  BY <2>2, <2>3
  <1>3. CASE Open
    <2> DEFINE bad == [event |-> Garbage, ended |-> ended]
    <2>1. n > 0 /\ n \in 1..n /\ ~file[n].ended
      BY <1>0, <1>3 DEF Open
    <2>2. file' = [file EXCEPT ![n] = bad]
      BY <2>1 DEF WithLine
    <2>3. bad \in Line1
      BY <1>0 DEF Garbage
    <2> HIDE DEF Line1, line, bad
    <2>4. /\ file' \in Seq(Line1) /\ Len(file') = n /\ DOMAIN file' = 1..n
          /\ \A k \in 1..n : file'[k] = IF k = n THEN bad ELSE file[k]
      <3>1. /\ file' \in Seq(Line1) /\ Len(file') = n
            /\ \A k \in 1..n : file'[k] = IF k = n THEN bad ELSE file[k]
        BY <1>2, <2>1, <2>2, <2>3, ExceptSeq
      <3>. QED  BY <3>1, LenProperties
    <2>5. bad.event = Garbage /\ bad.ended = ended
      BY DEF bad
    <2>6. Readable' = Readable \ {n}
      BY <1>0, <2>4, <2>5 DEF Readable
    <2>7. Increasing'
      BY <1>0, <2>4, <2>6 DEF Increasing, FileOK
    <2>8. n \in Readable <=> file[n].event # Garbage
      BY <1>0, <2>1 DEF Readable
    <2>9. Cardinality(Readable') = Cardinality(Readable) - (Debt - 1)
      <3>1. Cardinality(Readable') =
              IF n \in Readable THEN Cardinality(Readable) - 1 ELSE Cardinality(Readable)
        BY <1>0, <2>6, FS_RemoveElement
      <3>2. Debt = IF n \in Readable THEN 2 ELSE 1
        BY <1>3, <2>8 DEF Debt
      <3>. QED  BY <1>0, <3>1, <3>2
    <2>10. file' # <<>> /\ file'[Len(file')] = bad
      BY <2>1, <2>4, EmptySeq
    <2>11. Debt' = IF ended THEN 0 ELSE 1
      BY <2>5, <2>10 DEF Debt, Open, Garbage
    <2>12. FileOK'
      <3>1. file' \in Seq(Line')
        BY <1>1, <2>4
      <3>2. written' \in Nat
        BY <1>0
      <3>. QED  BY <2>7, <3>1, <3>2 DEF FileOK
    <2>. QED  BY <1>3, <2>9, <2>11, <2>12
  <1>4. CASE ~Open
    <2>1. file' = Append(file, line)
      <3>1. ~(n > 0 /\ ~file[n].ended)
        BY <1>0, <1>4 DEF Open
      <3>. QED  BY <3>1 DEF WithLine
    <2>0. line.event = e /\ line.ended = ended
      OBVIOUS
    <2> HIDE DEF Line1, line
    <2>2. /\ file' \in Seq(Line1) /\ Len(file') = n + 1
          /\ \A k \in 1..n : file'[k] = file[k]
          /\ file'[n + 1] = line
      <3>1. /\ Append(file, line) \in Seq(Line1) /\ Len(Append(file, line)) = n + 1
            /\ \A k \in 1..n : Append(file, line)[k] = file[k]
            /\ Append(file, line)[n + 1] = line
        BY <1>2, AppendProperties
      <3>. QED  BY <2>1, <3>1
    <2> HIDE DEF n
    <2>3. DOMAIN file' = 1..(n + 1) /\ n + 1 \notin 1..n /\ file' # <<>>
      BY <1>0, <2>2, LenProperties, EmptySeq
    <2>4. Readable' = Readable \cup (IF e = Garbage THEN {} ELSE {n + 1})
      BY <1>0, <2>0, <2>2, <2>3 DEF Readable
    <2>5. Increasing'
      <3>1. SUFFICES ASSUME NEW k \in Readable', NEW m \in Readable', k < m
                     PROVE  file'[k].event < file'[m].event
        BY DEF Increasing
      <3>0. m \in 1..(n + 1) /\ k \in 1..(n + 1)
        BY <1>0, <2>4
      <3>2. k \in Readable
        BY <1>0, <2>4, <3>0, <3>1
      <3>3. CASE m \in Readable
        BY <1>0, <2>2, <3>1, <3>2, <3>3 DEF FileOK, Increasing
      <3>4. CASE m = n + 1 /\ e # Garbage
        BY <1>0, <2>0, <2>2, <3>2, <3>4
      <3>. QED  BY <2>4, <3>1, <3>3, <3>4
    <2>6. Cardinality(Readable') = Cardinality(Readable) + (IF e = Garbage THEN 0 ELSE 1)
      <3>1. n + 1 \notin Readable
        BY <1>0, <2>3
      <3>2. CASE e = Garbage
        BY <1>0, <2>4, <3>2
      <3>3. CASE e # Garbage
        <4>1. Readable' = Readable \cup {n + 1}
          BY <2>4, <3>3
        <4>. QED  BY <1>0, <3>1, <3>3, <4>1, FS_AddElement
      <3>. QED  BY <3>2, <3>3
    <2>7. Debt' = IF ended THEN 0 ELSE IF e = Garbage THEN 1 ELSE 2
      BY <2>0, <2>2, <2>3 DEF Debt, Open
    <2>. QED  BY <1>0, <1>1, <1>4, <2>2, <2>5, <2>6, <2>7 DEF FileOK
  <1>. QED  BY <1>3, <1>4

\* The file starts empty.
LEMMA FileInit == RunLogInit => FileInv
  <1> SUFFICES ASSUME RunLogInit PROVE FileInv
    OBVIOUS
  <1>1. file = <<>> /\ written = 0 /\ dropped = 0 /\ torn = 0 /\ log = <<>>
    BY DEF RunLogInit, Init
  <1>2. Readable = {}
    BY <1>1 DEF Readable
  <1>. QED
    BY <1>1, <1>2, FS_EmptySet DEF FileInv, FileOK, Increasing, Debt, Open, Lost

\* Each step keeps what the file promises.
LEMMA FileStep == TypeOK /\ TypeOK' /\ LogStep /\ FileInv /\ [RunLogNext]_runLogVars => FileInv'
  <1> SUFFICES ASSUME TypeOK, TypeOK', LogStep, FileInv, [RunLogNext]_runLogVars
               PROVE  FileInv'
    OBVIOUS
  <1>0. /\ FileOK /\ written \in Nat /\ dropped \in Nat /\ torn \in Nat
        /\ Len(log) \in Nat /\ Len(log') \in Nat
        /\ Cardinality(Readable) \in Nat /\ Debt \in 0..2
    <2>1. Len(log) \in Nat /\ Len(log') \in Nat
      BY DEF TypeOK
    <2>2. Debt \in 0..2
      BY DEF Debt
    <2>. QED  BY <2>1, <2>2, ReadableLines DEF FileInv, FileOK
  <1>1. Len(log) <= Len(log')
    <2>1. PICK new \in Seq(LogEvent) : log' = log \o new
      BY DEF LogStep
    <2>. QED  BY <1>0, <2>1, LogGrows
  <1>2. CASE UNCHANGED logVars
    BY <1>0, <1>1, <1>2 DEF logVars, FileInv, FileOK, Increasing, Readable, Line, Debt, Open, Lost
  <1>3. CASE WriteEvent
    <2>1. /\ file' = WithLine([event |-> written + 1, ended |-> TRUE])
          /\ written' = written + 1 /\ UNCHANGED <<log, dropped, torn>> /\ written < Len(log)
          /\ written + 1 # Garbage
      BY <1>0, <1>3 DEF WriteEvent, vars, Garbage
    <2>2. /\ FileOK'
          /\ Open => /\ Cardinality(Readable') = Cardinality(Readable) - (Debt - 1)
                     /\ Debt' = 0
          /\ ~Open => /\ Cardinality(Readable') = Cardinality(Readable) + 1
                      /\ Debt' = 0
      BY <1>0, <2>1, LineAdded
    <2>3. Lost' = Lost /\ (~Open => Debt = 0)
      BY <2>1 DEF Lost, Debt
    <2>4. written' - Cardinality(Readable') + Debt' = written - Cardinality(Readable) + Debt
      BY <1>0, <2>1, <2>2, <2>3
    <2>. QED  BY <1>0, <2>1, <2>2, <2>3, <2>4 DEF FileInv
  <1>4. CASE DropEvent
    <2>1. /\ written' = written + 1 /\ dropped' = dropped + 1 /\ UNCHANGED <<file, torn, log>>
          /\ written < Len(log)
      BY <1>4 DEF DropEvent, vars
    <2>2. Readable' = Readable /\ Debt' = Debt
      BY <2>1 DEF Readable, Debt, Open
    <2>3. Line \subseteq Line'
      BY <1>0, <2>1 DEF Line
    <2>4. FileOK'
      BY <1>0, <2>1, <2>2, <2>3 DEF FileOK, Increasing
    <2>. QED  BY <1>0, <2>1, <2>2, <2>4 DEF FileInv, Lost
  <1>5. CASE TearEvent
    <2>1. PICK cut \in {Garbage, written + 1} :
            file' = WithLine([event |-> cut, ended |-> FALSE])
      BY <1>5 DEF TearEvent
    <2>2. /\ written' = written + 1 /\ torn' = torn + 1 /\ UNCHANGED <<log, dropped>>
          /\ written < Len(log)
      BY <1>5 DEF TearEvent, vars
    <2>3. /\ FileOK'
          /\ Open => /\ Cardinality(Readable') = Cardinality(Readable) - (Debt - 1)
                     /\ Debt' = 1
          /\ ~Open => /\ Cardinality(Readable') =
                           Cardinality(Readable) + (IF cut = Garbage THEN 0 ELSE 1)
                      /\ Debt' = IF cut = Garbage THEN 1 ELSE 2
      <3>1. torn' \in Nat /\ dropped' \in Nat
        BY <1>0, <2>2
      <3>. QED  BY <1>0, <2>1, <2>2, <3>1, LineAdded
    <2>4. Lost' = Lost + 2 /\ (~Open => Debt = 0)
      BY <1>0, <2>2 DEF Lost, Debt
    <2>5. written' - Cardinality(Readable') + Debt' <= written - Cardinality(Readable) + Debt + 2
      BY <1>0, <2>2, <2>3, <2>4, SMTT(30)
    <2>6. Cardinality(Readable') \in Nat /\ Debt' \in 0..2 /\ Lost \in Nat
      <3>1. Cardinality(Readable') \in Nat
        <4>1. (FileOK => Cardinality(Readable) \in Nat)'
          BY ReadableLines, PTL
        <4>. QED  BY <2>3, <4>1
      <3>2. Debt' \in 0..2
        BY DEF Debt
      <3>. QED  BY <1>0, <3>1, <3>2 DEF Lost
    <2>7. written' - Cardinality(Readable') + Debt' <= Lost'
      BY <1>0, <2>2, <2>4, <2>5, <2>6 DEF FileInv
    <2>. QED  BY <1>0, <2>2, <2>3, <2>7 DEF FileInv
  <1>. QED
    BY <1>2, <1>3, <1>4, <1>5 DEF RunLogNext, RunStep, KillRun, CommandStep, ResumeReads,
       RestoreReads, ReadLog, ResumeEnds, CheckSession, AppendGoal, AppendAnswer, CommandDies,
       AllQuiet, runLogVars

\* The whole, with what the loop promises about its log.
BaseInv == LogInv /\ FileInv

\* It holds at the start and each step keeps it.
LEMMA BaseInit == RunLogInit => BaseInv
  BY LogInit, FileInit DEF RunLogInit, BaseInv

\* A step of the whole keeps it.
LEMMA BaseStep == BaseInv /\ [RunLogNext]_runLogVars => BaseInv'
  <1> SUFFICES ASSUME BaseInv, [RunLogNext]_runLogVars PROVE BaseInv'
    OBVIOUS
  <1>1. [Next]_vars
    BY LoopGoesOn
  <1>2. LogInv'
    BY <1>1, LogInvStep DEF BaseInv
  <1>3. LogStep
    BY <1>1, LogSteps DEF BaseInv, LogInv
  <1>. QED  BY <1>2, <1>3, FileStep DEF BaseInv, LogInv

\* Readers see the events in their order, and all but at most one for each
\* write that left nothing and two for each that was cut off.
THEOREM LossIsBounded == RunLogSpec => []LossBounded
  <1>1. BaseInv => LossBounded
    <2>. SUFFICES ASSUME BaseInv PROVE LossBounded
      OBVIOUS
    <2>1. FileOK /\ written - Cardinality(Readable) + Debt <= Lost
      BY DEF BaseInv, FileInv
    <2>2. Debt \in Nat /\ Lost \in Nat /\ Cardinality(Readable) \in Nat /\ written \in Nat
      BY <2>1, ReadableLines DEF Debt, Lost, FileOK
    <2>3. ASSUME NEW n \in Readable, NEW m \in 1..(n - 1) PROVE file[m].event < file[n].event
      <3>1. /\ n \in 1..Len(file) /\ m \in 1..Len(file) /\ m < n
            /\ file[n].event \in 1..written /\ m \in DOMAIN file
        <4>1. /\ Len(file) \in Nat /\ DOMAIN file = 1..Len(file)
              /\ n \in 1..Len(file) /\ file[n].event \in 1..written
          BY <2>1, ReadableLines
        <4>. QED  BY <4>1
      <3>2. CASE m \in Readable
        BY <2>1, <3>1, <3>2 DEF FileOK, Increasing
      <3>3. CASE m \notin Readable
        BY <2>2, <3>1, <3>3 DEF Readable, Garbage
      <3>. QED  BY <3>2, <3>3
    <2>. QED  BY <2>1, <2>2, <2>3 DEF LossBounded, Lost
  <1>. QED  BY <1>1, BaseInit, BaseStep, PTL DEF RunLogSpec

(***************************************************************************)
(* Positions.  A property that compares the summary with the run counts    *)
(* positions in log rather than lines: those that were kept and those that *)
(* are missing.                                                            *)
(***************************************************************************)
Positions(lines) == {file[n].event : n \in lines}

Kept == Positions(Readable)

Missing == (1..written) \ Kept

\* Lines and the positions they hold are equally many.
LEMMA LinesCounted ==
    ASSUME FileOK, NEW A \in SUBSET Readable
    PROVE  /\ IsFiniteSet(A) /\ Cardinality(A) \in Nat
           /\ IsFiniteSet(Positions(A)) /\ Cardinality(Positions(A)) = Cardinality(A)
  <1> DEFINE f == [n \in Readable |-> file[n].event]
  <1>1. IsFiniteSet(A) /\ Cardinality(A) \in Nat
    <2>1. IsFiniteSet(A)
      BY ReadableLines, FS_Subset
    <2>. QED  BY <2>1, FS_CardinalityType
  <1>2. ASSUME NEW m \in A, NEW n \in A, file[m].event = file[n].event
        PROVE  m = n
    <2>1. /\ m \in Nat /\ n \in Nat /\ file[m].event \in Nat /\ file[n].event \in Nat
      BY ReadableLines DEF FileOK
    <2>. QED  BY <1>2, <2>1 DEF FileOK, Increasing
  <1>3. Positions(A) = {f[n] : n \in A}
    BY DEF Positions
  <1>4. \A m, n \in A : f[m] = f[n] => m = n
    BY <1>2
  <1> HIDE DEF f
  <1>5. LET T == {f[n] : n \in A} IN IsFiniteSet(T) /\ Cardinality(T) = Cardinality(A)
    BY <1>1, <1>4, ImageBound
  <1>. QED  BY <1>1, <1>3, <1>5

\* What was kept is in the log; what is missing is at most what was lost.
LEMMA KeptAndMissing ==
    ASSUME BaseInv
    PROVE  /\ written \in Nat /\ Lost \in Nat /\ Len(log) \in Nat /\ DOMAIN log = 1..Len(log)
           /\ written <= Len(log)
           /\ Kept \subseteq 1..written
           /\ \A i \in 1..written : i \in Kept \/ i \in Missing
           /\ IsFiniteSet(Missing) /\ Cardinality(Missing) \in Nat
           /\ Cardinality(Missing) <= Lost
  <1>1. /\ FileOK /\ written \in Nat /\ Lost \in Nat /\ written <= Len(log)
        /\ written - Cardinality(Readable) + Debt <= Lost /\ Debt \in Nat
    BY DEF BaseInv, FileInv, FileOK, Lost, Debt
  <1>2. Kept \subseteq 1..written
    BY <1>1, ReadableLines DEF Kept, Positions
  <1>3. /\ IsFiniteSet(Kept) /\ Cardinality(Kept) = Cardinality(Readable)
        /\ Cardinality(Readable) \in Nat
    BY <1>1, LinesCounted DEF Kept
  <1>4. IsFiniteSet(1..written) /\ Cardinality(1..written) = written
    BY <1>1, FS_Interval
  <1>5. IsFiniteSet(Missing) /\ Cardinality(Missing) = written - Cardinality(Kept)
    <2>1. /\ IsFiniteSet((1..written) \ Kept)
          /\ Cardinality((1..written) \ Kept) =
               Cardinality(1..written) - Cardinality((1..written) \cap Kept)
      BY <1>4, FS_Difference
    <2>2. (1..written) \cap Kept = Kept
      BY <1>2
    <2>. QED  BY <1>4, <2>1, <2>2 DEF Missing
  <1>6. Cardinality(Missing) \in Nat
    BY <1>5, FS_CardinalityType
  <1>7. Len(log) \in Nat /\ DOMAIN log = 1..Len(log)
    BY DEF BaseInv, LogInv, TypeOK
  <1>. QED  BY <1>1, <1>2, <1>3, <1>5, <1>6, <1>7 DEF Missing

\* The last of some lines is one of them.
LEMMA LastLine ==
    ASSUME FileOK, NEW A \in SUBSET Readable, A # {}
    PROVE  LastOf(A) \in A /\ \A m \in A : m <= LastOf(A)
  <1>1. Len(file) \in Nat /\ A \subseteq 0..Len(file)
    BY ReadableLines
  <1>2. \E n \in A : \A m \in A : m <= n
    BY <1>1, GreatestNumber
  <1>. QED  BY <1>2 DEF LastOf

\* The positions of the lines of one kind.
LEMMA KindPositions ==
    ASSUME BaseInv, NEW kind
    PROVE  /\ Of(kind) \subseteq Readable
           /\ Positions(Of(kind)) = {i \in Kept : log[i].event = kind}
           /\ \A n \in Of(kind) : file[n].event \in Kept /\ log[file[n].event].event = kind
  BY DEF Of, EventAt, Positions, Kept

\* The status that is shown is that of the run, or unknown.
LEMMA StatusShown ==
    ASSUME BaseInv
    PROVE  StatusOf = "unknown" \/ (pc = "done" /\ StatusOf = final_status)
  <1>0. FileOK /\ LogShape
    BY DEF BaseInv, LogInv, FileInv
  <1>1. CASE Of("run_finished") = {}
    BY <1>1 DEF StatusOf
  <1>2. CASE Of("run_finished") # {}
    <2> DEFINE n == LastOf(Of("run_finished"))
    <2>1. n \in Of("run_finished")
      BY <1>0, <1>2, KindPositions, LastLine
    <2>2. file[n].event \in DOMAIN log /\ log[file[n].event].event = "run_finished"
      BY <2>1, KindPositions, KeptAndMissing
    <2>3. StatusOf = log[file[n].event].detail
      BY <1>2 DEF StatusOf, EventAt
    <2>. QED  BY <1>0, <2>2, <2>3 DEF LogShape
  <1>. QED  BY <1>1, <1>2

\* The summary invents nothing, whatever was lost and whenever the log is read.
THEOREM SummariesInventNothing == RunLogSpec => []SummaryInventsNothing
  <1>1. BaseInv => SummaryInventsNothing
    <2>. SUFFICES ASSUME BaseInv PROVE SummaryInventsNothing
      OBVIOUS
    <2>0. FileOK /\ LogShape /\ TypeOK /\ CountsMatch /\ Kept \subseteq DOMAIN log
      BY KeptAndMissing DEF BaseInv, LogInv, FileInv
    <2>1. StatusOf \in {"unknown", final_status}
      BY StatusShown
    <2>2. Cardinality(Of("tool_finished")) <= Len(observations)
      <3>1. Positions(Of("tool_finished")) \subseteq Finished
        BY <2>0, KindPositions DEF Finished
      <3>2. IsFiniteSet(Finished)
        BY <2>0, LogFinite DEF Finished
      <3>3. Cardinality(Positions(Of("tool_finished"))) <= Cardinality(Finished)
        BY <3>1, <3>2, FS_Subset
      <3>. QED  BY <2>0, <3>3, KindPositions, LinesCounted DEF CountsMatch
    <2>3. Cardinality(Failures) <= Cardinality(Failing)
      <3>1. Failures \subseteq Readable
        BY KindPositions DEF Failures
      <3>2. Positions(Failures) \subseteq Failed
        BY <2>0, KindPositions DEF Failures, EventAt, Positions, Failed, Finished
      <3>3. IsFiniteSet(Failed)
        BY <2>0, LogFinite DEF Failed, Finished
      <3>4. Cardinality(Positions(Failures)) <= Cardinality(Failed)
        BY <3>2, <3>3, FS_Subset
      <3>. QED  BY <2>0, <3>1, <3>4, LinesCounted DEF CountsMatch
    <2>4. ModelErrors # {} => final_status = "model_error"
      BY <2>0, KindPositions DEF ModelErrors, EventAt, LogShape
    <2>. QED  BY <2>1, <2>2, <2>3, <2>4 DEF SummaryInventsNothing, Summary, Failing
  <1>. QED  BY <1>1, BaseInit, BaseStep, PTL DEF RunLogSpec

(***************************************************************************)
(* The snapshot beside the calls.  ShownAt is the position of the last     *)
(* snapshot that was kept, Covered the calls before it, of which it lists  *)
(* as many as a list in the log may have.                                  *)
(***************************************************************************)
ShownAt ==
    LET snapshots == Of("run_snapshot")
    IN  IF snapshots = {} THEN 0 ELSE file[LastOf(snapshots)].event

Covered == {i \in 1..ShownAt : log[i].event = "tool_finished"}

KeptCalls == {i \in Kept : log[i].event = "tool_finished"}

\* What is shown is what the snapshot covers; no later snapshot was kept.
LEMMA SnapshotShown ==
    ASSUME BaseInv
    PROVE  /\ ShownAt \in 0..written
           /\ ShownObservations = Redacted(Cardinality(Covered))
           /\ \A i \in Kept : log[i].event = "run_snapshot" => i <= ShownAt
  <1>0. FileOK /\ Kept \subseteq 1..written /\ written \in Nat
    BY KeptAndMissing DEF BaseInv, FileInv
  <1>1. CASE Of("run_snapshot") = {}
    <2>1. ShownAt = 0 /\ ShownObservations = 0
      BY <1>1 DEF ShownAt, ShownObservations
    <2>2. Covered = {} /\ Redacted(0) = 0
      BY <2>1, RunLogAssumption DEF Covered, Redacted
    <2>3. \A i \in Kept : log[i].event # "run_snapshot"
      BY <1>1, KindPositions DEF Positions
    <2>. QED  BY <1>0, <2>1, <2>2, <2>3, FS_EmptySet
  <1>2. CASE Of("run_snapshot") # {}
    <2> DEFINE n == LastOf(Of("run_snapshot"))
    <2>1. n \in Of("run_snapshot") /\ \A m \in Of("run_snapshot") : m <= n
      BY <1>0, <1>2, KindPositions, LastLine
    <2>2. ShownAt = file[n].event
      BY <1>2 DEF ShownAt
    <2> HIDE DEF n
    <2>3. ShownAt \in 1..written
      BY <1>0, <2>1, <2>2, KindPositions
    <2>4. ShownObservations = Redacted(Cardinality(Covered))
      BY <1>2, <2>2 DEF ShownObservations, SnapshotSize, Covered, n
    <2>5. ASSUME NEW i \in Kept, log[i].event = "run_snapshot" PROVE i <= ShownAt
      <3>1. PICK m \in Of("run_snapshot") : i = file[m].event
        BY <2>5, KindPositions DEF Positions
      <3>2. m \in Readable /\ n \in Readable /\ m <= n /\ m \in Nat /\ n \in Nat
        BY <1>0, <2>1, KindPositions, ReadableLines
      <3>3. m < n \/ m = n
        BY <3>2
      <3>4. file[m].event \in Nat /\ file[n].event \in Nat
        BY <1>0, <3>2, ReadableLines
      <3>. QED  BY <1>0, <2>2, <3>1, <3>2, <3>3, <3>4 DEF FileOK, Increasing
    <2>. QED  BY <1>0, <2>3, <2>4, <2>5
  <1>. QED  BY <1>1, <1>2

\* The calls a snapshot lists were kept or are missing.
LEMMA CoveredBound ==
    ASSUME BaseInv
    PROVE  /\ IsFiniteSet(Covered) /\ IsFiniteSet(KeptCalls)
           /\ Cardinality(Covered) \in Nat /\ Cardinality(KeptCalls) \in Nat
           /\ Cardinality(Covered) <= Cardinality(KeptCalls) + Lost
  <1>0. /\ written \in Nat /\ Lost \in Nat /\ Kept \subseteq 1..written
        /\ \A i \in 1..written : i \in Kept \/ i \in Missing
        /\ IsFiniteSet(Missing) /\ Cardinality(Missing) \in Nat
        /\ Cardinality(Missing) <= Lost
    BY KeptAndMissing
  <1>1. ShownAt \in 0..written
    BY SnapshotShown
  <1>2. KeptCalls \subseteq 1..written /\ Covered \subseteq 1..written
    <2>1. 1..ShownAt \subseteq 1..written
      BY <1>0, <1>1
    <2>. QED  BY <1>0, <2>1 DEF KeptCalls, Covered
  <1>3. IsFiniteSet(1..written)
    BY <1>0, FS_Interval
  <1>4. IsFiniteSet(Covered) /\ IsFiniteSet(KeptCalls)
    BY <1>2, <1>3, FS_Subset
  <1>5. Cardinality(Covered) \in Nat /\ Cardinality(KeptCalls) \in Nat
    BY <1>4, FS_CardinalityType
  <1>6. Covered \in SUBSET (KeptCalls \cup Missing)
    BY <1>0, <1>2 DEF Covered, KeptCalls
  <1>7. Cardinality(Covered) <= Cardinality(KeptCalls) + Cardinality(Missing)
    BY <1>0, <1>4, <1>6, CoverBound
  <1>. QED  BY <1>0, <1>4, <1>5, <1>7

\* A call that was kept and that no snapshot shows lost the snapshot that
\* follows it, but for the last event written of a run that goes on.
LEMMA LateCallsBound ==
    ASSUME BaseInv
    PROVE  Cardinality(KeptCalls)
             <= Cardinality(Covered) + Lost + (IF RunClosed THEN 0 ELSE 1)
  <1> DEFINE Late     == KeptCalls \ Covered
             Followed == Late \ {written}
             f        == [i \in Followed |-> i + 1]
  <1>0. /\ written \in Nat /\ Lost \in Nat /\ Len(log) \in Nat /\ DOMAIN log = 1..Len(log)
        /\ written <= Len(log) /\ Kept \subseteq 1..written
        /\ \A i \in 1..written : i \in Kept \/ i \in Missing
        /\ IsFiniteSet(Missing) /\ Cardinality(Missing) \in Nat
        /\ Cardinality(Missing) <= Lost /\ LogShape
    BY KeptAndMissing DEF BaseInv, LogInv
  <1>1. /\ ShownAt \in 0..written
        /\ \A i \in Kept : log[i].event = "run_snapshot" => i <= ShownAt
    BY SnapshotShown
  <1>2. /\ IsFiniteSet(Covered) /\ IsFiniteSet(KeptCalls)
        /\ Cardinality(Covered) \in Nat /\ Cardinality(KeptCalls) \in Nat
    BY CoveredBound
  <1>3. ASSUME NEW i \in Late
        PROVE  /\ i \in 1..written /\ i > ShownAt
               /\ i + 1 \in 1..Len(log) /\ log[i + 1].event = "run_snapshot"
    <2>1. i \in 1..written /\ i \in Finished
      <3>1. i \in Kept /\ log[i].event = "tool_finished"
        BY DEF KeptCalls
      <3>2. i \in 1..Len(log)
        BY <1>0, <3>1
      <3>. QED  BY <1>0, <3>1, <3>2 DEF Finished
    <2>2. i \notin 1..ShownAt
      BY DEF KeptCalls, Covered
    <2>. QED  BY <1>0, <1>1, <2>1, <2>2 DEF LogShape
  <1>4. ASSUME NEW i \in Late, i # written
        PROVE  i + 1 \in Missing
    <2>1. i + 1 \in 1..written /\ ~(i + 1 <= ShownAt)
      BY <1>0, <1>1, <1>3, <1>4
    <2>. QED  BY <1>0, <1>1, <1>3, <2>1
  <1>5. IsFiniteSet(Late) /\ IsFiniteSet(Followed)
    <2>1. Late \subseteq KeptCalls /\ Followed \subseteq KeptCalls
      OBVIOUS
    <2> HIDE DEF Late, Followed
    <2>. QED  BY <1>2, <2>1, FS_Subset
  <1>6. f \in Injection(Followed, Missing)
    <2>1. f \in [Followed -> Missing]
      BY <1>4
    <2>2. \A i, j \in Followed : i + 1 = j + 1 => i = j
      BY <1>0, <1>3
    <2>. QED  BY <2>1, <2>2 DEF Injection, IsInjective
  <1>7. Cardinality(Followed) <= Lost /\ Cardinality(Followed) \in Nat
    <2> HIDE DEF f, Followed
    <2>1. Cardinality(Followed) <= Cardinality(Missing)
      BY <1>0, <1>6, FS_Injection
    <2>2. Cardinality(Followed) \in Nat
      BY <1>5, FS_CardinalityType
    <2>. QED  BY <1>0, <2>1, <2>2
  <1>8. RunClosed => written \notin Late
    BY <1>0, <1>3 DEF RunClosed
  <1>9. Cardinality(Late) <= Lost + (IF RunClosed THEN 0 ELSE 1) /\ Cardinality(Late) \in Nat
    <2>1. IF written \in Late THEN Cardinality(Followed) = Cardinality(Late) - 1
                              ELSE Cardinality(Followed) = Cardinality(Late)
      BY <1>5, FS_RemoveElement
    <2>2. Cardinality(Late) \in Nat
      BY <1>5, FS_CardinalityType
    <2>. QED  BY <1>0, <1>7, <1>8, <2>1, <2>2
  <1>10. KeptCalls \in SUBSET (Covered \cup Late)
    OBVIOUS
  <1> HIDE DEF Late
  <1>11. Cardinality(KeptCalls) <= Cardinality(Covered) + Cardinality(Late)
    BY <1>2, <1>5, <1>10, CoverBound
  <1>. QED  BY <1>0, <1>2, <1>9, <1>11

\* When nothing was lost, everything that was written can be read.
LEMMA NothingMissing ==
    ASSUME BaseInv, Lost = 0
    PROVE  Kept = 1..written
  <1>1. Cardinality(Missing) = 0
    BY KeptAndMissing
  <1>2. Missing = {}
    BY <1>1, KeptAndMissing, FS_EmptySet
  <1>. QED  BY <1>2, KeptAndMissing

\* Without a loss a closed run has every call before its last snapshot, and all
\* of them can be read.
LEMMA ClosedIsExact ==
    ASSUME BaseInv, RunClosed, Lost = 0
    PROVE  /\ Cardinality(Covered) = Len(observations)
           /\ Cardinality(KeptCalls) = Len(observations)
  <1>0. /\ LogShape /\ CountsMatch /\ DOMAIN log = 1..Len(log) /\ Len(log) \in Nat
        /\ written = Len(log) /\ pc = "done" /\ Kept = 1..Len(log)
    BY KeptAndMissing, NothingMissing DEF BaseInv, LogInv, RunClosed
  <1>1. \A i \in 1..Len(log) : log[i].event = "run_snapshot" => i <= ShownAt
    BY <1>0, SnapshotShown
  <1>2. ShownAt \in 0..Len(log)
    BY <1>0, SnapshotShown
  <1>3. ASSUME NEW i \in Finished PROVE i \in Covered
    <2>1. i \in 1..Len(log) /\ i + 1 \in 1..Len(log) /\ log[i + 1].event = "run_snapshot"
      BY <1>0 DEF LogShape, Finished
    <2>2. i + 1 <= ShownAt
      BY <1>1, <2>1
    <2>. QED  BY <1>2, <2>1, <2>2 DEF Covered, Finished
  <1>4. Covered \subseteq Finished
    BY <1>0, <1>2 DEF Covered, Finished
  <1>5. Covered = Finished
    BY <1>3, <1>4
  <1>6. KeptCalls = Finished
    BY <1>0 DEF KeptCalls, Finished
  <1>. QED  BY <1>0, <1>5, <1>6 DEF CountsMatch

\* The calls counted and the snapshot shown beside them differ by the events
\* lost and the call whose snapshot is still to be written, as long as the
\* snapshot is shorter than a list in the log may be.
THEOREM SnapshotsAgreeWithCalls == RunLogSpec => []SnapshotAgreesWithCalls
  <1>1. BaseInv => SnapshotAgreesWithCalls
    <2>. SUFFICES ASSUME BaseInv PROVE SnapshotAgreesWithCalls
      OBVIOUS
    <2>1. /\ ShownObservations = Redacted(Cardinality(Covered))
          /\ Cardinality(Covered) \in Nat /\ Cardinality(KeptCalls) \in Nat /\ Lost \in Nat
      BY SnapshotShown, CoveredBound, KeptAndMissing
    <2>2. Cardinality(Of("tool_finished")) = Cardinality(KeptCalls)
      <3>1. FileOK
        BY DEF BaseInv, FileInv
      <3>2. Positions(Of("tool_finished")) = KeptCalls /\ Of("tool_finished") \subseteq Readable
        BY KindPositions DEF KeptCalls
      <3>. QED  BY <3>1, <3>2, LinesCounted
    <2>3. Cardinality(Covered) - Cardinality(KeptCalls) <= Lost
      BY <2>1, CoveredBound
    <2>4. Cardinality(KeptCalls) - Cardinality(Covered) <= Lost + (IF RunClosed THEN 0 ELSE 1)
      BY <2>1, LateCallsBound
    <2>5. RunClosed /\ Lost = 0 => Cardinality(Covered) = Len(observations)
      BY ClosedIsExact
    <2>6. RunClosed /\ Lost = 0 => Cardinality(KeptCalls) = Len(observations)
      BY ClosedIsExact
    <2> DEFINE shown == ShownObservations
               calls == Cardinality(Of("tool_finished"))
               pending == IF RunClosed THEN 0 ELSE 1
    <2>7. /\ shown <= LogItems
          /\ shown - calls <= Lost
          /\ shown < LogItems => calls - shown <= Lost + pending
          /\ RunClosed /\ Lost = 0 =>
               /\ calls = Len(observations)
               /\ shown = IF calls < LogItems THEN calls ELSE LogItems
      <3>1. LogItems \in Nat
        BY RunLogAssumption
      <3>2. calls = Cardinality(KeptCalls)
        BY <2>2
      <3>3. shown = IF Cardinality(Covered) > LogItems THEN LogItems ELSE Cardinality(Covered)
        BY <2>1 DEF Redacted
      <3> HIDE DEF shown, calls
      <3>. QED  BY <2>1, <2>3, <2>4, <2>5, <2>6, <3>1, <3>2, <3>3
    <2>. QED  BY <2>7 DEF SnapshotAgreesWithCalls, Summary, Lost
  <1>. QED  BY <1>1, BaseInit, BaseStep, PTL DEF RunLogSpec

(***************************************************************************)
(* Commands.  Every step leaves the commands alone or is one of these      *)
(* steps of one of them.                                                   *)
(***************************************************************************)
Active == {c \in Commands : ~CommandAt(c, "idle")}

Answering == {c \in Commands : CommandAt(c, "answer")}

CommandType == [pc : {"idle", "resumed", "check", "goal", "answer"},
                number : 0..MaxIssued, report : ReportType]

Turn == [number : 1..MaxIssued, role : {"user", "assistant"}, report : ReportType]

ReadStep(c, next) ==
    /\ c \notin Active /\ issued < MaxIssued
    /\ issued' = issued + 1
    /\ command' = [command EXCEPT ![c] = [pc |-> next, number |-> issued + 1, report |-> Report]]
    /\ UNCHANGED <<died, session>>

LeaveStep(c) ==
    /\ c \in Active
    /\ command' = [command EXCEPT ![c] = Idle]
    /\ died' = died + (IF c \in Answering THEN 1 ELSE 0)
    /\ UNCHANGED <<issued, session>>

MoveStep(c) ==
    /\ c \in Active \ Answering
    /\ command' = [command EXCEPT ![c].pc = "goal"]
    /\ UNCHANGED <<issued, died, session>>

GoalStep(c) ==
    /\ c \in Active \ Answering
    /\ RestoreTurn(c, "user", NoReport)
    /\ command' = [command EXCEPT ![c].pc = "answer"]
    /\ UNCHANGED <<issued, died>>

ReplyStep(c) ==
    /\ c \in Answering
    /\ RestoreTurn(c, "assistant", command[c].report)
    /\ command' = [command EXCEPT ![c] = Idle]
    /\ UNCHANGED <<issued, died>>

CommandKind ==
    \/ UNCHANGED commandVars
    \/ \E c \in Commands :
         \/ ReadStep(c, "resumed") \/ ReadStep(c, "check")
         \/ LeaveStep(c) \/ MoveStep(c) \/ GoalStep(c) \/ ReplyStep(c)

\* Each step is of one of these kinds.
LEMMA CommandKinds ==
    ASSUME [RunLogNext]_runLogVars, died \in Nat
    PROVE  CommandKind
  <1> USE DEF Active, Answering, CommandAt, commandVars
  <1>1. CASE RunStep \/ WriteEvent \/ DropEvent \/ TearEvent \/ KillRun \/ AllQuiet
             \/ UNCHANGED runLogVars
    BY <1>1 DEF RunStep, WriteEvent, DropEvent, TearEvent, KillRun, AllQuiet, runLogVars,
       CommandKind
  <1>2. ASSUME NEW c \in Commands, CommandStep(c) PROVE CommandKind
    <2>1. CASE ResumeReads(c) \/ RestoreReads(c)
      BY <2>1 DEF ResumeReads, RestoreReads, ReadLog, ReadStep, CommandKind
    <2>2. CASE ResumeEnds(c)
      <3>1. LeaveStep(c)
        BY <2>2 DEF ResumeEnds, Leave, LeaveStep
      <3>. QED  BY <3>1 DEF CommandKind
    <2>3. CASE CheckSession(c)
      <3>1. LeaveStep(c) \/ MoveStep(c)
        BY <2>3 DEF CheckSession, Leave, LeaveStep, MoveStep
      <3>. QED  BY <3>1 DEF CommandKind
    <2>4. CASE AppendGoal(c)
      BY <2>4 DEF AppendGoal, GoalStep, CommandKind
    <2>5. CASE AppendAnswer(c)
      BY <2>5 DEF AppendAnswer, Leave, ReplyStep, CommandKind
    <2>6. CASE CommandDies(c)
      <3>1. LeaveStep(c)
        BY <2>6 DEF CommandDies, Leave, LeaveStep
      <3>. QED  BY <3>1 DEF CommandKind
    <2>. QED  BY <1>2, <2>1, <2>2, <2>3, <2>4, <2>5, <2>6 DEF CommandStep
  <1>. QED  BY <1>1, <1>2 DEF RunLogNext

(***************************************************************************)
(* Reports.  What a command read of the run is true and stays true: a      *)
(* final status is not replaced.                                           *)
(***************************************************************************)
TrueReport(r) ==
    /\ r.status # "unknown" => pc = "done" /\ r.status = final_status
    /\ r.model_error => final_status = "model_error"
    /\ r.settled => pc = "done" /\ r.status = final_status

CommandsTyped ==
    /\ command \in [Commands -> CommandType]
    /\ issued \in 0..MaxIssued
    /\ died \in Nat
    /\ session \in Seq(Turn)

ReportsTrue ==
    /\ \A c \in Active : TrueReport(command[c].report)
    /\ \A i \in DOMAIN session :
         session[i].role = "assistant" => TrueReport(session[i].report)

\* What is read of the log is a true report.
LEMMA ReportIsTrue ==
    ASSUME BaseInv
    PROVE  Report \in ReportType /\ TrueReport(Report)
  <1>0. /\ LogShape /\ TypeOK /\ DOMAIN log = 1..Len(log) /\ Len(log) \in Nat
        /\ Kept \subseteq DOMAIN log /\ dropped \in Nat /\ torn \in Nat
    BY KeptAndMissing DEF BaseInv, LogInv, FileInv, FileOK
  <1>1. /\ Report.status = StatusOf /\ Report.model_error = (ModelErrors # {})
        /\ Report.settled = (RunClosed /\ dropped + torn = 0)
        /\ Report \in [status : {StatusOf}, model_error : BOOLEAN, settled : BOOLEAN]
    BY DEF Report, Summary
  <1>2. StatusOf = "unknown" \/ (pc = "done" /\ StatusOf = final_status)
    BY StatusShown
  <1>3. StatusOf \in Statuses
    BY <1>0, <1>2 DEF TypeOK, Statuses
  <1>4. ModelErrors # {} => final_status = "model_error"
    BY <1>0, KindPositions DEF ModelErrors, EventAt, LogShape
  <1>5. ASSUME RunClosed, dropped + torn = 0
        PROVE  pc = "done" /\ StatusOf = final_status
    <2>1. Lost = 0
      BY <1>0, <1>5 DEF Lost
    <2>2. pc = "done" /\ Kept = 1..Len(log)
      BY <1>5, <2>1, NothingMissing DEF RunClosed
    <2>3. Len(log) \in Kept /\ log[Len(log)].event = "run_finished"
      BY <1>0, <2>2 DEF LogShape
    <2>4. Of("run_finished") # {}
      BY <2>3, KindPositions DEF Positions
    <2> DEFINE n == LastOf(Of("run_finished"))
    <2>5. n \in Of("run_finished")
      BY <2>4, KindPositions, LastLine DEF BaseInv, FileInv
    <2>6. file[n].event \in DOMAIN log /\ log[file[n].event].event = "run_finished"
      BY <1>0, <2>5, KindPositions
    <2>7. StatusOf = log[file[n].event].detail
      BY <2>4 DEF StatusOf, EventAt
    <2>. QED  BY <1>0, <2>2, <2>6, <2>7 DEF LogShape
  <1>6. Report \in ReportType
    BY <1>1, <1>3 DEF ReportType
  <1>. QED  BY <1>1, <1>2, <1>4, <1>5, <1>6 DEF TrueReport

\* A true report stays true: the end of a run and its status are final.
LEMMA LoopCloses ==
    ASSUME BaseInv, [Next]_vars
    PROVE  /\ final_status # "none" => final_status' = final_status
           /\ pc = "done" => pc' = "done" /\ final_status # "none"
  <1>0. TypeOK /\ ControlOK /\ LogStep
    BY LogSteps DEF BaseInv, LogInv
  <1>1. final_status # "none" => final_status' = final_status
    BY <1>0, OutcomeStep
  <1>2. pc = "done" => pc' = "done"
    BY <1>0 DEF LogStep, AskLogged, FinishLogged, OtherLogged, AnswerLogged
  <1>3. pc = "done" => final_status # "none"
    BY <1>0 DEF ControlOK
  <1>. QED  BY <1>1, <1>2, <1>3

\* Reports stay true when they are either read now or passed on.
LEMMA ReportsKept ==
    ASSUME BaseInv, [Next]_vars, ReportsTrue,
           \A d \in Active' : \/ command'[d].report = Report
                              \/ d \in Active /\ command'[d].report = command[d].report,
           \A i \in DOMAIN session' : session'[i].role = "assistant" =>
               \/ i \in DOMAIN session /\ session'[i] = session[i]
               \/ \E c \in Active : session'[i].report = command[c].report
    PROVE  ReportsTrue'
  <1>0. /\ final_status # "none" => final_status' = final_status
        /\ pc = "done" => pc' = "done" /\ final_status # "none"
        /\ TrueReport(Report)
    BY LoopCloses, ReportIsTrue
  <1>1. ASSUME NEW r, TrueReport(r)
        PROVE  /\ r.status # "unknown" => pc' = "done" /\ r.status = final_status'
               /\ r.model_error => final_status' = "model_error"
               /\ r.settled => pc' = "done" /\ r.status = final_status'
    BY <1>0, <1>1 DEF TrueReport
  <1>2. ASSUME NEW d \in Active' PROVE TrueReport(command[d].report)'
    <2>1. TrueReport(command'[d].report)
      BY <1>0, <1>2 DEF ReportsTrue
    <2>. QED  BY <1>1, <2>1 DEF TrueReport
  <1>3. ASSUME NEW i \in DOMAIN session', session'[i].role = "assistant"
        PROVE  TrueReport(session[i].report)'
    <2>1. TrueReport(session'[i].report)
      BY <1>3 DEF ReportsTrue
    <2>. QED  BY <1>1, <2>1 DEF TrueReport
  <1>. QED  BY <1>2, <1>3 DEF ReportsTrue

\* No command has read anything at the start.
LEMMA CommandsInit == RunLogInit => CommandsTyped /\ ReportsTrue
  <1> SUFFICES ASSUME RunLogInit PROVE CommandsTyped /\ ReportsTrue
    OBVIOUS
  <1>1. Idle \in CommandType
    BY RunLogAssumption DEF Idle, CommandType, NoReport, ReportType, Statuses
  <1>2. Active = {}
    BY DEF RunLogInit, Active, CommandAt, Idle
  <1>. QED
    BY <1>1, <1>2, RunLogAssumption DEF RunLogInit, CommandsTyped, ReportsTrue

\* Where the command of each kind of step is afterwards, and the other ones.
LEMMA CommandMoves ==
    ASSUME CommandsTyped, NEW c \in Commands, NEW x \in CommandType,
           command' = [command EXCEPT ![c] = x]
    PROVE  /\ command' \in [Commands -> CommandType]
           /\ command'[c] = x
           /\ \A d \in Commands \ {c} : command'[d] = command[d]
           /\ Active' = IF x.pc = "idle" THEN Active \ {c} ELSE Active \cup {c}
           /\ Answering' = IF x.pc = "answer" THEN Answering \cup {c} ELSE Answering \ {c}
  <1>1. /\ command' \in [Commands -> CommandType]
        /\ command'[c] = x
        /\ \A d \in Commands \ {c} : command'[d] = command[d]
    BY DEF CommandsTyped
  <1>2. Active' = IF x.pc = "idle" THEN Active \ {c} ELSE Active \cup {c}
    BY <1>1 DEF Active, CommandAt
  <1>3. Answering' = IF x.pc = "answer" THEN Answering \cup {c} ELSE Answering \ {c}
    BY <1>1 DEF Answering, CommandAt
  <1>. QED  BY <1>1, <1>2, <1>3

\* A change of the place alone.
LEMMA PlaceMoves ==
    ASSUME CommandsTyped, NEW c \in Commands, NEW where \in {"goal", "answer"}
    PROVE  \E x \in CommandType :
              /\ x.pc = where /\ x.number = command[c].number /\ x.report = command[c].report
              /\ [command EXCEPT ![c].pc = where] = [command EXCEPT ![c] = x]
  <1> DEFINE x == [command[c] EXCEPT !.pc = where]
  <1>1. command[c] \in CommandType
    BY DEF CommandsTyped
  <1>2. /\ x \in CommandType /\ x.pc = where /\ x.number = command[c].number
        /\ x.report = command[c].report
    BY <1>1 DEF CommandType
  <1>3. [command EXCEPT ![c].pc = where] = [command EXCEPT ![c] = x]
    BY DEF CommandsTyped
  <1>. QED  BY <1>2, <1>3

\* A restored turn is one more number of its role.
LEMMA TurnAdded ==
    ASSUME CommandsTyped, NEW c \in Commands, NEW role \in {"user", "assistant"},
           NEW r \in ReportType, command[c].number \in 1..MaxIssued,
           RestoreTurn(c, role, r)
    PROVE  /\ session' \in Seq(Turn)
           /\ DOMAIN session = 1..Len(session) /\ Len(session) \in Nat
           /\ DOMAIN session' = 1..(Len(session) + 1)
           /\ \A i \in DOMAIN session : session'[i] = session[i]
           /\ session'[Len(session) + 1].number = command[c].number
           /\ session'[Len(session) + 1].role = role
           /\ session'[Len(session) + 1].report = r
           /\ Restored(role)' = Restored(role) \cup {command[c].number}
           /\ \A other \in {"user", "assistant"} : other # role =>
                Restored(other)' = Restored(other)
  <1> DEFINE t == [number |-> command[c].number, role |-> role, report |-> r]
             n == Len(session)
  <1>1. t \in Turn /\ t.number = command[c].number /\ t.role = role /\ t.report = r
    BY DEF Turn
  <1>2. session' = Append(session, t) /\ session \in Seq(Turn)
    BY DEF RestoreTurn, CommandsTyped
  <1> HIDE DEF t
  <1>3. /\ session' \in Seq(Turn) /\ Len(session') = n + 1
        /\ \A i \in 1..n : session'[i] = session[i]
        /\ session'[n + 1] = t
    <2>1. /\ Append(session, t) \in Seq(Turn) /\ Len(Append(session, t)) = n + 1
          /\ \A i \in 1..n : Append(session, t)[i] = session[i]
          /\ Append(session, t)[n + 1] = t
      BY <1>1, <1>2, AppendProperties
    <2>. QED  BY <1>2, <2>1
  <1>4. DOMAIN session = 1..n /\ n \in Nat /\ DOMAIN session' = 1..(n + 1)
    BY <1>2, <1>3, LenProperties
  <1> HIDE DEF n
  <1>5. 1..(n + 1) = (1..n) \cup {n + 1} /\ n + 1 \notin 1..n
    BY <1>4
  <1>6. Restored(role)' = Restored(role) \cup {command[c].number}
    BY <1>1, <1>3, <1>4, <1>5 DEF Restored
  <1>7. \A other \in {"user", "assistant"} : other # role => Restored(other)' = Restored(other)
    BY <1>1, <1>3, <1>4, <1>5 DEF Restored
  <1>. QED  BY <1>1, <1>3, <1>4, <1>6, <1>7 DEF n

(***************************************************************************)
(* Numbers.  Each command that goes on has a number of its own; the goals  *)
(* without an answer belong to commands that are at it or died at it.      *)
(***************************************************************************)
Unanswered == Restored("user") \ Restored("assistant")

NumbersInv ==
    /\ IsFiniteSet(Active) /\ died + Cardinality(Active) <= issued
    /\ \A c \in Active : /\ command[c].number \in 1..issued
                         /\ command[c].number \notin Restored("assistant")
    /\ \A c, d \in Active : command[c].number = command[d].number => c = d
    /\ \A i \in DOMAIN session : session[i].number \in 1..issued
    /\ \A c \in Answering : command[c].number \in Restored("user")
    /\ HalfRestored

CommandsInv == CommandsTyped /\ ReportsTrue /\ NumbersInv

\* The goals without an answer, the commands at their answer and the active
\* ones are finitely many.
LEMMA NumbersFinite ==
    ASSUME CommandsTyped, NumbersInv
    PROVE  /\ IsFiniteSet(Unanswered) /\ Cardinality(Unanswered) \in Nat
           /\ Answering \subseteq Active
           /\ IsFiniteSet(Answering) /\ Cardinality(Answering) \in Nat
           /\ Cardinality(Active) \in Nat
           /\ issued \in Nat
           /\ Unanswered \subseteq 1..issued /\ Restored("assistant") \subseteq 1..issued
           /\ Cardinality(Unanswered) <= died + Cardinality(Answering)
  <1>0. issued \in Nat
    BY RunLogAssumption DEF CommandsTyped
  <1>1. Restored("user") \subseteq 1..issued /\ Restored("assistant") \subseteq 1..issued
    BY DEF Restored, NumbersInv
  <1>2. IsFiniteSet(1..issued)
    BY <1>0, FS_Interval
  <1>3. Unanswered \subseteq 1..issued
    BY <1>1 DEF Unanswered
  <1>4. IsFiniteSet(Unanswered)
    BY <1>2, <1>3, FS_Subset
  <1>5. Answering \subseteq Active
    BY DEF Answering, Active, CommandAt
  <1>6. IsFiniteSet(Answering)
    BY <1>5, FS_Subset DEF NumbersInv
  <1>7. /\ Cardinality(Unanswered) \in Nat /\ Cardinality(Answering) \in Nat
        /\ Cardinality(Active) \in Nat
    BY <1>4, <1>6, FS_CardinalityType DEF NumbersInv
  <1>8. Cardinality(Unanswered) <= died + Cardinality(Answering)
    BY DEF NumbersInv, HalfRestored, Unanswered, Answering
  <1>. QED  BY <1>0, <1>1, <1>3, <1>4, <1>5, <1>6, <1>7, <1>8

\* No command goes on at the start, and no turn is restored.
LEMMA CommandsInvInit == RunLogInit => CommandsInv
  <1> SUFFICES ASSUME RunLogInit PROVE NumbersInv
    BY CommandsInit DEF CommandsInv
  <1>1. /\ Active = {} /\ Answering = {} /\ session = <<>> /\ died = 0 /\ issued = 0
    BY DEF RunLogInit, Active, Answering, CommandAt, Idle
  <1>2. Restored("user") = {} /\ Restored("assistant") = {}
    BY <1>1 DEF Restored
  <1>3. HalfRestored
    <2>1. /\ Cardinality({}) = 0 /\ Cardinality(Unanswered) = Cardinality({})
          /\ Cardinality(Answering) = Cardinality({}) /\ DOMAIN session = {}
      BY <1>1, <1>2, FS_EmptySet DEF Unanswered
    <2>2. \A i \in DOMAIN session : FALSE
      BY <2>1
    <2>3. Cardinality(Unanswered) <= died + Cardinality(Answering)
      BY <1>1, <2>1
    <2>. QED  BY <2>2, <2>3, Zenon DEF HalfRestored, Unanswered, Answering
  <1>. QED  BY <1>1, <1>2, <1>3, FS_EmptySet DEF NumbersInv

\* A command that reads the log takes the next number.
LEMMA ReadKeeps ==
    ASSUME BaseInv, [Next]_vars, CommandsInv,
           NEW c \in Commands, NEW next \in {"resumed", "check"}, ReadStep(c, next)
    PROVE  CommandsInv'
  <1> DEFINE x == [pc |-> next, number |-> issued + 1, report |-> Report]
  <1>0. CommandsTyped /\ ReportsTrue /\ NumbersInv /\ issued \in Nat /\ died \in Nat
    BY RunLogAssumption DEF CommandsInv, CommandsTyped
  <1>1. issued' = issued + 1 /\ issued + 1 \in 1..MaxIssued
    BY <1>0, RunLogAssumption DEF ReadStep, CommandsTyped
  <1>2. x \in CommandType /\ x.pc = next /\ x.number = issued + 1 /\ x.report = Report
    BY <1>1, ReportIsTrue DEF CommandType
  <1>3. command' = [command EXCEPT ![c] = x] /\ UNCHANGED <<died, session>> /\ c \notin Active
    BY DEF ReadStep
  <1> HIDE DEF x
  <1>4. /\ command' \in [Commands -> CommandType] /\ command'[c] = x
        /\ \A d \in Commands \ {c} : command'[d] = command[d]
        /\ Active' = Active \cup {c} /\ Answering' = Answering
    <2>1. c \notin Answering
      BY <1>3 DEF Active, Answering, CommandAt
    <2>2. /\ command' \in [Commands -> CommandType] /\ command'[c] = x
          /\ \A d \in Commands \ {c} : command'[d] = command[d]
          /\ Active' = IF x.pc = "idle" THEN Active \ {c} ELSE Active \cup {c}
          /\ Answering' = IF x.pc = "answer" THEN Answering \cup {c} ELSE Answering \ {c}
      BY <1>0, <1>2, <1>3, CommandMoves
    <2>3. x.pc # "idle" /\ x.pc # "answer"
      BY <1>2
    <2>. QED  BY <2>1, <2>2, <2>3
  <1>5. CommandsTyped'
    BY <1>0, <1>1, <1>3, <1>4 DEF CommandsTyped
  <1>6. ReportsTrue'
    <2>1. Active \subseteq Commands
      BY DEF Active
    <2>2. \A d \in Active' : \/ command'[d].report = Report
                             \/ d \in Active /\ command'[d].report = command[d].report
      BY <1>2, <1>4, <2>1
    <2>. QED  BY <1>0, <1>3, <2>2, ReportsKept
  <1>7. Restored("user")' = Restored("user") /\ Restored("assistant")' = Restored("assistant")
    BY <1>3 DEF Restored
  <1>8. /\ Restored("assistant") \subseteq 1..issued
        /\ \A d \in Active : command[d].number \in 1..issued
        /\ Active \subseteq Commands /\ Answering \subseteq Active
    BY <1>0, NumbersFinite DEF NumbersInv, Active
  <1>9. NumbersInv'
    <2>1. IsFiniteSet(Active') /\ died' + Cardinality(Active') <= issued'
      <3>1. IsFiniteSet(Active') /\ Cardinality(Active') = Cardinality(Active) + 1
        BY <1>0, <1>3, <1>4, FS_AddElement DEF NumbersInv
      <3>2. Cardinality(Active) \in Nat
        BY <1>0, NumbersFinite
      <3>. QED  BY <1>0, <1>1, <1>3, <3>1, <3>2 DEF NumbersInv
    <2>2. \A d \in Active' : /\ command'[d].number \in 1..issued'
                             /\ command'[d].number \notin Restored("assistant")'
      BY <1>0, <1>1, <1>2, <1>4, <1>7, <1>8 DEF NumbersInv
    <2>3. \A d, e \in Active' : command'[d].number = command'[e].number => d = e
      BY <1>0, <1>1, <1>2, <1>3, <1>4, <1>8 DEF NumbersInv
    <2>4. \A i \in DOMAIN session' : session'[i].number \in 1..issued'
      BY <1>0, <1>1, <1>3 DEF NumbersInv
    <2>5. \A d \in Answering' : command'[d].number \in Restored("user")'
      BY <1>0, <1>3, <1>4, <1>7, <1>8 DEF NumbersInv
    <2>6. HalfRestored'
      BY <1>0, <1>3, <1>4, <1>7 DEF NumbersInv, HalfRestored, Answering
    <2>. QED  BY <2>1, <2>2, <2>3, <2>4, <2>5, <2>6 DEF NumbersInv
  <1>. QED  BY <1>5, <1>6, <1>9 DEF CommandsInv

\* A command that ends or dies without writing leaves the session as it is.
LEMMA LeaveKeeps ==
    ASSUME BaseInv, [Next]_vars, CommandsInv, NEW c \in Commands, LeaveStep(c)
    PROVE  CommandsInv'
  <1>0. CommandsTyped /\ ReportsTrue /\ NumbersInv /\ issued \in Nat /\ died \in Nat
    BY RunLogAssumption DEF CommandsInv, CommandsTyped
  <1>1. /\ command' = [command EXCEPT ![c] = Idle] /\ UNCHANGED <<issued, session>>
        /\ died' = died + (IF c \in Answering THEN 1 ELSE 0) /\ c \in Active
    BY DEF LeaveStep
  <1>2. Idle \in CommandType /\ Idle.pc = "idle"
    BY RunLogAssumption DEF Idle, CommandType, NoReport, ReportType, Statuses
  <1>3. /\ command' \in [Commands -> CommandType]
        /\ \A d \in Commands \ {c} : command'[d] = command[d]
        /\ Active' = Active \ {c} /\ Answering' = Answering \ {c}
    BY <1>0, <1>1, <1>2, CommandMoves
  <1>4. CommandsTyped'
    BY <1>0, <1>1, <1>3 DEF CommandsTyped
  <1>5. Active \subseteq Commands /\ Answering \subseteq Active
    BY <1>0, NumbersFinite DEF Active
  <1>6. ReportsTrue'
    BY <1>0, <1>1, <1>3, <1>5, ReportsKept
  <1>7. Restored("user")' = Restored("user") /\ Restored("assistant")' = Restored("assistant")
    BY <1>1 DEF Restored
  <1>8. IsFiniteSet(Active') /\ died' + Cardinality(Active') <= issued'
    <2>1. IsFiniteSet(Active') /\ Cardinality(Active') = Cardinality(Active) - 1
      BY <1>0, <1>1, <1>3, FS_RemoveElement DEF NumbersInv
    <2>2. Cardinality(Active) \in Nat
      BY <1>0, NumbersFinite
    <2>. QED  BY <1>0, <1>1, <2>1, <2>2 DEF NumbersInv
  <1>9. HalfRestored'
    <2>1. Cardinality(Answering') =
            IF c \in Answering THEN Cardinality(Answering) - 1 ELSE Cardinality(Answering)
      BY <1>0, <1>3, NumbersFinite, FS_RemoveElement
    <2>2. Cardinality(Answering) \in Nat
      BY <1>0, NumbersFinite
    <2>3. died' + Cardinality(Answering') = died + Cardinality(Answering)
      BY <1>0, <1>1, <2>1, <2>2
    <2>. QED  BY <1>0, <1>1, <1>7, <2>3 DEF NumbersInv, HalfRestored, Answering
  <1>10. NumbersInv'
    BY <1>0, <1>1, <1>3, <1>5, <1>7, <1>8, <1>9 DEF NumbersInv
  <1>. QED  BY <1>4, <1>6, <1>10 DEF CommandsInv

\* A command that goes on to write keeps its number and its report.
LEMMA MoveKeeps ==
    ASSUME BaseInv, [Next]_vars, CommandsInv, NEW c \in Commands, MoveStep(c)
    PROVE  CommandsInv'
  <1>0. CommandsTyped /\ ReportsTrue /\ NumbersInv
    BY DEF CommandsInv
  <1>1. /\ command' = [command EXCEPT ![c].pc = "goal"] /\ UNCHANGED <<issued, died, session>>
        /\ c \in Active /\ c \notin Answering
    BY DEF MoveStep
  <1>2. PICK x \in CommandType :
          /\ x.pc = "goal" /\ x.number = command[c].number /\ x.report = command[c].report
          /\ [command EXCEPT ![c].pc = "goal"] = [command EXCEPT ![c] = x]
    BY <1>0, PlaceMoves
  <1>3. /\ command' \in [Commands -> CommandType] /\ command'[c] = x
        /\ \A d \in Commands \ {c} : command'[d] = command[d]
        /\ Active' = Active /\ Answering' = Answering
    <2>1. /\ command' \in [Commands -> CommandType] /\ command'[c] = x
          /\ \A d \in Commands \ {c} : command'[d] = command[d]
          /\ Active' = IF x.pc = "idle" THEN Active \ {c} ELSE Active \cup {c}
          /\ Answering' = IF x.pc = "answer" THEN Answering \cup {c} ELSE Answering \ {c}
      BY <1>0, <1>1, <1>2, CommandMoves
    <2>. QED  BY <1>1, <1>2, <2>1
  <1>4. \A d \in Commands : /\ command'[d].number = command[d].number
                            /\ command'[d].report = command[d].report
    BY <1>2, <1>3
  <1>5. CommandsTyped'
    BY <1>0, <1>1, <1>3 DEF CommandsTyped
  <1>6. Active \subseteq Commands /\ Answering \subseteq Active
    BY <1>0, NumbersFinite DEF Active
  <1>7. ReportsTrue'
    <2>1. \A d \in Active' : d \in Active /\ command'[d].report = command[d].report
      BY <1>3, <1>4, <1>6
    <2>. QED  BY <1>0, <1>1, <2>1, ReportsKept
  <1>8. Restored("user")' = Restored("user") /\ Restored("assistant")' = Restored("assistant")
    BY <1>1 DEF Restored
  <1>9. HalfRestored'
    BY <1>0, <1>1, <1>3, <1>8 DEF NumbersInv, HalfRestored, Answering
  <1>10. NumbersInv'
    BY <1>0, <1>1, <1>3, <1>4, <1>6, <1>8, <1>9 DEF NumbersInv
  <1>. QED  BY <1>5, <1>7, <1>10 DEF CommandsInv

\* The first part of HalfRestored: an answer follows the goal of its command.
GoalsFirst ==
    \A i \in DOMAIN session : session[i].role = "assistant" =>
      \E k \in 1..(i - 1) : /\ session[k].role = "user"
                            /\ session[k].number = session[i].number

\* The goal: one more goal without an answer, one more command at its answer.
LEMMA GoalKeeps ==
    ASSUME BaseInv, [Next]_vars, CommandsInv, NEW c \in Commands, GoalStep(c)
    PROVE  CommandsInv'
  <1>0. CommandsTyped /\ ReportsTrue /\ NumbersInv /\ issued \in Nat /\ died \in Nat
        /\ issued <= MaxIssued /\ MaxIssued \in Nat
    BY RunLogAssumption DEF CommandsInv, CommandsTyped
  <1>1. /\ command' = [command EXCEPT ![c].pc = "answer"] /\ UNCHANGED <<issued, died>>
        /\ c \in Active /\ c \notin Answering /\ RestoreTurn(c, "user", NoReport)
    BY DEF GoalStep
  <1>2. PICK x \in CommandType :
          /\ x.pc = "answer" /\ x.number = command[c].number /\ x.report = command[c].report
          /\ [command EXCEPT ![c].pc = "answer"] = [command EXCEPT ![c] = x]
    BY <1>0, PlaceMoves
  <1>3. /\ command' \in [Commands -> CommandType] /\ command'[c] = x
        /\ \A d \in Commands \ {c} : command'[d] = command[d]
        /\ Active' = Active /\ Answering' = Answering \cup {c}
    <2>1. /\ command' \in [Commands -> CommandType] /\ command'[c] = x
          /\ \A d \in Commands \ {c} : command'[d] = command[d]
          /\ Active' = IF x.pc = "idle" THEN Active \ {c} ELSE Active \cup {c}
          /\ Answering' = IF x.pc = "answer" THEN Answering \cup {c} ELSE Answering \ {c}
      BY <1>0, <1>1, <1>2, CommandMoves
    <2>. QED  BY <1>1, <1>2, <2>1
  <1>4. \A d \in Commands : /\ command'[d].number = command[d].number
                            /\ command'[d].report = command[d].report
    BY <1>2, <1>3
  <1>5. command[c].number \in 1..issued /\ command[c].number \in 1..MaxIssued
    BY <1>0, <1>1 DEF NumbersInv
  <1>6. /\ session' \in Seq(Turn)
        /\ DOMAIN session = 1..Len(session) /\ Len(session) \in Nat
        /\ DOMAIN session' = 1..(Len(session) + 1)
        /\ \A i \in DOMAIN session : session'[i] = session[i]
        /\ session'[Len(session) + 1].number = command[c].number
        /\ session'[Len(session) + 1].role = "user"
        /\ Restored("user")' = Restored("user") \cup {command[c].number}
        /\ Restored("assistant")' = Restored("assistant")
    <2>1. NoReport \in ReportType
      BY DEF NoReport, ReportType, Statuses
    <2>. QED  BY <1>0, <1>1, <1>5, <2>1, TurnAdded
  <1>7. CommandsTyped'
    BY <1>0, <1>1, <1>3, <1>6 DEF CommandsTyped
  <1>8. Active \subseteq Commands /\ Answering \subseteq Active
    BY <1>0, NumbersFinite DEF Active
  <1>9. \A i \in DOMAIN session' : i \in DOMAIN session \/ i = Len(session) + 1
    BY <1>6
  <1>10. ReportsTrue'
    <2>1. \A d \in Active' : d \in Active /\ command'[d].report = command[d].report
      BY <1>3, <1>4, <1>8
    <2>2. \A i \in DOMAIN session' : session'[i].role = "assistant" =>
             i \in DOMAIN session /\ session'[i] = session[i]
      BY <1>6, <1>9
    <2>. QED  BY <1>0, <2>1, <2>2, ReportsKept
  <1>11. HalfRestored'
    <2>1. GoalsFirst'
      <3>1. SUFFICES ASSUME NEW i \in DOMAIN session', session'[i].role = "assistant"
                     PROVE  \E k \in 1..(i - 1) : /\ session'[k].role = "user"
                                                  /\ session'[k].number = session'[i].number
        BY DEF GoalsFirst
      <3>2. i \in DOMAIN session /\ session'[i] = session[i]
        BY <1>6, <1>9, <3>1
      <3>3. PICK k \in 1..(i - 1) : session[k].role = "user" /\ session[k].number = session[i].number
        BY <1>0, <3>1, <3>2 DEF NumbersInv, HalfRestored
      <3>4. k \in DOMAIN session
        BY <1>6, <3>2
      <3>. QED  BY <1>6, <3>2, <3>3, <3>4
    <2>2. Cardinality(Answering') = Cardinality(Answering) + 1
      BY <1>0, <1>1, <1>3, NumbersFinite, FS_AddElement
    <2>3. Cardinality(Unanswered') <= Cardinality(Unanswered) + 1
      <3>1. Unanswered' \in SUBSET (Unanswered \cup {command[c].number})
        BY <1>6 DEF Unanswered
      <3>2. /\ IsFiniteSet({command[c].number}) /\ Cardinality({command[c].number}) = 1
            /\ IsFiniteSet(Unanswered)
        BY <1>0, NumbersFinite, FS_Singleton
      <3>. QED  BY <3>1, <3>2, CoverBound
    <2>4. /\ Cardinality(Unanswered) <= died + Cardinality(Answering)
          /\ Cardinality(Unanswered) \in Nat /\ Cardinality(Answering) \in Nat
      BY <1>0, NumbersFinite
    <2>5. Cardinality(Unanswered') <= died' + Cardinality(Answering')
      <3>1. IsFiniteSet(Unanswered')
        <4>1. IsFiniteSet(Unanswered \cup {command[c].number})
          BY <1>0, NumbersFinite, FS_AddElement
        <4>2. Unanswered' \subseteq Unanswered \cup {command[c].number}
          BY <1>6 DEF Unanswered
        <4>. QED  BY <4>1, <4>2, FS_Subset
      <3>2. Cardinality(Unanswered') \in Nat
        BY <3>1, FS_CardinalityType
      <3>. QED  BY <1>0, <1>1, <2>2, <2>3, <2>4, <3>2
    <2>. QED  BY <2>1, <2>5 DEF HalfRestored, GoalsFirst, Unanswered, Answering
  <1>12. NumbersInv'
    <2>1. \A i \in DOMAIN session' : session'[i].number \in 1..issued'
      BY <1>0, <1>1, <1>5, <1>6, <1>9 DEF NumbersInv
    <2>2. \A d \in Answering' : command'[d].number \in Restored("user")'
      BY <1>0, <1>3, <1>4, <1>6, <1>8 DEF NumbersInv
    <2>3. IsFiniteSet(Active') /\ died' + Cardinality(Active') <= issued'
      BY <1>0, <1>1, <1>3 DEF NumbersInv
    <2>4. /\ \A d \in Active' : /\ command'[d].number \in 1..issued'
                                /\ command'[d].number \notin Restored("assistant")'
          /\ \A d, e \in Active' : command'[d].number = command'[e].number => d = e
      BY <1>0, <1>1, <1>3, <1>4, <1>6, <1>8 DEF NumbersInv
    <2>. QED  BY <1>11, <2>1, <2>2, <2>3, <2>4 DEF NumbersInv
  <1>. QED  BY <1>7, <1>10, <1>12 DEF CommandsInv

\* The answer: one goal without an answer less, one command at its answer less.
LEMMA ReplyKeeps ==
    ASSUME BaseInv, [Next]_vars, CommandsInv, NEW c \in Commands, ReplyStep(c)
    PROVE  CommandsInv'
  <1>0. CommandsTyped /\ ReportsTrue /\ NumbersInv /\ issued \in Nat /\ died \in Nat
        /\ issued <= MaxIssued /\ MaxIssued \in Nat
    BY RunLogAssumption DEF CommandsInv, CommandsTyped
  <1>1. /\ command' = [command EXCEPT ![c] = Idle] /\ UNCHANGED <<issued, died>>
        /\ c \in Answering /\ RestoreTurn(c, "assistant", command[c].report)
    BY DEF ReplyStep
  <1>2. Idle \in CommandType /\ Idle.pc = "idle"
    BY RunLogAssumption DEF Idle, CommandType, NoReport, ReportType, Statuses
  <1>3. /\ command' \in [Commands -> CommandType]
        /\ \A d \in Commands \ {c} : command'[d] = command[d]
        /\ Active' = Active \ {c} /\ Answering' = Answering \ {c}
    BY <1>0, <1>1, <1>2, CommandMoves
  <1>4. Active \subseteq Commands /\ Answering \subseteq Active /\ c \in Active
    BY <1>0, <1>1, NumbersFinite DEF Active
  <1>5. /\ command[c].number \in 1..issued /\ command[c].number \in 1..MaxIssued
        /\ command[c].number \in Unanswered
    BY <1>0, <1>1, <1>4 DEF NumbersInv, Unanswered
  <1>6. /\ session' \in Seq(Turn)
        /\ DOMAIN session = 1..Len(session) /\ Len(session) \in Nat
        /\ DOMAIN session' = 1..(Len(session) + 1)
        /\ \A i \in DOMAIN session : session'[i] = session[i]
        /\ session'[Len(session) + 1].number = command[c].number
        /\ session'[Len(session) + 1].report = command[c].report
        /\ Restored("assistant")' = Restored("assistant") \cup {command[c].number}
        /\ Restored("user")' = Restored("user")
    <2>1. command[c].report \in ReportType
      BY <1>0 DEF CommandsTyped, CommandType
    <2>. QED  BY <1>0, <1>1, <1>5, <2>1, TurnAdded
  <1>7. CommandsTyped'
    BY <1>0, <1>1, <1>3, <1>6 DEF CommandsTyped
  <1>8. \A i \in DOMAIN session' : i \in DOMAIN session \/ i = Len(session) + 1
    BY <1>6
  <1>9. ReportsTrue'
    <2>1. \A d \in Active' : d \in Active /\ command'[d].report = command[d].report
      BY <1>3, <1>4
    <2>2. \A i \in DOMAIN session' : session'[i].role = "assistant" =>
             \/ i \in DOMAIN session /\ session'[i] = session[i]
             \/ \E d \in Active : session'[i].report = command[d].report
      BY <1>4, <1>6, <1>8
    <2>. QED  BY <1>0, <2>1, <2>2, ReportsKept
  <1>10. HalfRestored'
    <2>1. GoalsFirst'
      <3>1. SUFFICES ASSUME NEW i \in DOMAIN session', session'[i].role = "assistant"
                     PROVE  \E k \in 1..(i - 1) : /\ session'[k].role = "user"
                                                  /\ session'[k].number = session'[i].number
        BY DEF GoalsFirst
      <3>2. CASE i \in DOMAIN session
        <4>1. PICK k \in 1..(i - 1) : session[k].role = "user" /\ session[k].number = session[i].number
          BY <1>0, <1>6, <3>1, <3>2 DEF NumbersInv, HalfRestored
        <4>2. k \in DOMAIN session
          BY <1>6, <3>2
        <4>. QED  BY <1>6, <3>2, <4>1, <4>2
      <3>3. CASE i = Len(session) + 1
        <4>1. PICK k \in DOMAIN session : session[k].role = "user" /\ session[k].number = command[c].number
          BY <1>5 DEF Unanswered, Restored
        <4>2. k \in 1..(i - 1)
          BY <1>6, <3>3
        <4>. QED  BY <1>6, <3>3, <4>1, <4>2
      <3>. QED  BY <1>8, <3>2, <3>3
    <2>2. Cardinality(Answering') = Cardinality(Answering) - 1
      BY <1>0, <1>1, <1>3, NumbersFinite, FS_RemoveElement
    <2>3. Cardinality(Unanswered') = Cardinality(Unanswered) - 1
      <3>1. Unanswered' = Unanswered \ {command[c].number}
        BY <1>6 DEF Unanswered
      <3>. QED  BY <1>0, <1>5, <3>1, NumbersFinite, FS_RemoveElement
    <2>4. /\ Cardinality(Unanswered) <= died + Cardinality(Answering)
          /\ Cardinality(Unanswered) \in Nat /\ Cardinality(Answering) \in Nat
      BY <1>0, NumbersFinite
    <2>5. Cardinality(Unanswered') <= died' + Cardinality(Answering')
      BY <1>0, <1>1, <2>2, <2>3, <2>4
    <2>. QED  BY <2>1, <2>5 DEF HalfRestored, GoalsFirst, Unanswered, Answering
  <1>11. NumbersInv'
    <2>1. \A i \in DOMAIN session' : session'[i].number \in 1..issued'
      BY <1>0, <1>1, <1>5, <1>6, <1>8 DEF NumbersInv
    <2>2. \A d \in Answering' : command'[d].number \in Restored("user")'
      BY <1>0, <1>3, <1>4, <1>6 DEF NumbersInv
    <2>3. IsFiniteSet(Active') /\ died' + Cardinality(Active') <= issued'
      <3>1. IsFiniteSet(Active') /\ Cardinality(Active') = Cardinality(Active) - 1
        BY <1>0, <1>3, <1>4, FS_RemoveElement DEF NumbersInv
      <3>2. Cardinality(Active) \in Nat
        BY <1>0, NumbersFinite
      <3>. QED  BY <1>0, <1>1, <3>1, <3>2 DEF NumbersInv
    <2>4. /\ \A d \in Active' : /\ command'[d].number \in 1..issued'
                                /\ command'[d].number \notin Restored("assistant")'
          /\ \A d, e \in Active' : command'[d].number = command'[e].number => d = e
      BY <1>0, <1>1, <1>3, <1>4, <1>6 DEF NumbersInv
    <2>. QED  BY <1>10, <2>1, <2>2, <2>3, <2>4 DEF NumbersInv
  <1>. QED  BY <1>7, <1>9, <1>11 DEF CommandsInv

\* Each step keeps what is said of the commands.
LEMMA CommandsStep ==
    BaseInv /\ CommandsInv /\ [RunLogNext]_runLogVars => CommandsInv'
  <1> SUFFICES ASSUME BaseInv, CommandsInv, [RunLogNext]_runLogVars
               PROVE  CommandsInv'
    OBVIOUS
  <1>0. [Next]_vars /\ CommandKind
    BY LoopGoesOn, CommandKinds DEF CommandsInv, CommandsTyped
  <1>1. CASE UNCHANGED commandVars
    <2>1. UNCHANGED <<command, issued, died, session>>
      BY <1>1 DEF commandVars
    <2>2. CommandsTyped' /\ NumbersInv'
      BY <2>1 DEF CommandsInv, CommandsTyped, NumbersInv, HalfRestored, Restored, Active,
         Answering, CommandAt
    <2>3. Active' = Active
      BY <2>1 DEF Active, CommandAt
    <2>4. ReportsTrue'
      BY <1>0, <2>1, <2>3, ReportsKept DEF CommandsInv
    <2>. QED  BY <2>2, <2>4 DEF CommandsInv
  <1>. QED
    BY <1>0, <1>1, ReadKeeps, LeaveKeeps, MoveKeeps, GoalKeeps, ReplyKeeps DEF CommandKind

\* The types of the log, of the commands that read it and of the session.
THEOREM RunLogTypeCorrect == RunLogSpec => []RunLogTypeOK
  <1>1. BaseInv /\ CommandsInv /\ alive \in BOOLEAN => RunLogTypeOK
    <2>. SUFFICES ASSUME BaseInv, CommandsInv, alive \in BOOLEAN PROVE RunLogTypeOK
      OBVIOUS
    <2>1. /\ TypeOK /\ written \in Nat /\ written <= Len(log) /\ Len(log) \in Nat
          /\ dropped \in Nat /\ torn \in Nat /\ file \in Seq(Line)
      BY KeptAndMissing DEF BaseInv, LogInv, FileInv, FileOK
    <2>2. file \in Seq([event : 0..Len(log), ended : BOOLEAN])
      <3>1. Line \subseteq [event : 0..Len(log), ended : BOOLEAN]
        BY <2>1 DEF Line
      <3> DEFINE L == [event : 0..Len(log), ended : BOOLEAN]
      <3> HIDE DEF L
      <3>2. file \in Seq(L)
        BY <2>1, <3>1, SeqMonotonic DEF L
      <3>. QED  BY <3>2 DEF L
    <2>3. died \in 0..issued
      <3>1. /\ died \in Nat /\ issued \in Nat /\ Cardinality(Active) \in Nat
            /\ died + Cardinality(Active) <= issued
        BY NumbersFinite DEF CommandsInv, CommandsTyped, NumbersInv
      <3>. QED  BY <3>1
    <2>. QED
      BY <2>1, <2>2, <2>3 DEF RunLogTypeOK, CommandsInv, CommandsTyped, CommandType, Turn
  <1>2. RunLogInit => alive \in BOOLEAN
    BY DEF RunLogInit
  <1>3. alive \in BOOLEAN /\ [RunLogNext]_runLogVars => (alive \in BOOLEAN)'
    BY DEF RunLogNext, RunStep, WriteEvent, DropEvent, TearEvent, KillRun, CommandStep,
       ResumeReads, RestoreReads, ReadLog, ResumeEnds, CheckSession, AppendGoal, AppendAnswer,
       CommandDies, AllQuiet, runLogVars
  <1>. QED
    BY <1>1, <1>2, <1>3, BaseInit, BaseStep, CommandsInvInit, CommandsStep, PTL DEF RunLogSpec

\* What a session or a resumed run was told of the run is true and stays true.
THEOREM ReportsStayTrue == RunLogSpec => []ToldTheTruth
  <1>1. BaseInv /\ CommandsInv => ToldTheTruth
    <2>. SUFFICES ASSUME BaseInv, CommandsInv, NEW r \in Reports
                  PROVE  /\ r.status \in {"unknown", final_status}
                         /\ r.model_error => final_status = "model_error"
                         /\ r.settled => r.status = final_status
      BY DEF ToldTheTruth
    <2>1. TrueReport(r)
      BY DEF Reports, CommandsInv, ReportsTrue, Active
    <2>. QED  BY <2>1 DEF TrueReport
  <1>. QED
    BY <1>1, BaseInit, BaseStep, CommandsInvInit, CommandsStep, PTL DEF RunLogSpec

\* A restored answer follows the goal of its command; goals without one belong
\* to commands that go on or died.
THEOREM HalvesAreAccountedFor == RunLogSpec => []HalfRestored
  <1>1. CommandsInv => HalfRestored
    BY DEF CommandsInv, NumbersInv
  <1>. QED
    BY <1>1, BaseInit, BaseStep, CommandsInvInit, CommandsStep, PTL DEF RunLogSpec
==============================================================================
