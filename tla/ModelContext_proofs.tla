-------------------------- MODULE ModelContext_proofs --------------------------
(***************************************************************************)
(* Proofs about ModelContext, for every conversation, every limit and any  *)
(* number of steps, retries and calls.                                     *)
(***************************************************************************)
EXTENDS ModelContext, SequenceTheorems, Counting

(***************************************************************************)
(* The items of the conversation.                                          *)
(***************************************************************************)
Positions == 1..Len(Conversation)

Found(sticky, f) ==
    f = [n \in 0..Len(Conversation) |->
           IF n = 0 THEN <<>>
           ELSE IF Conversation[n].sticky = sticky THEN Append(f[n - 1], n)
           ELSE f[n - 1]]

\* The recursion of TurnsThat defines a function.
LEMMA FoundExists ==
    ASSUME NEW sticky
    PROVE  \E f : Found(sticky, f) /\ f \in [0..Len(Conversation) -> Seq(Positions)]
  <1> DEFINE add == [x \in Seq(Positions) \X Positions |->
                        IF Conversation[x[2]].sticky = sticky THEN Append(x[1], x[2]) ELSE x[1]]
  <1>1. Len(Conversation) \in Nat
    BY ContextAssumption
  <1>2. add \in [Seq(Positions) \X Positions -> Seq(Positions)]
    <2>1. ASSUME NEW x \in Seq(Positions) \X Positions
          PROVE  (IF Conversation[x[2]].sticky = sticky THEN Append(x[1], x[2]) ELSE x[1])
                   \in Seq(Positions)
      <3>1. x[1] \in Seq(Positions) /\ x[2] \in Positions
        OBVIOUS
      <3>2. Append(x[1], x[2]) \in Seq(Positions)
        BY <3>1, AppendProperties
      <3>. QED  BY <3>1, <3>2
    <2>. QED  BY <2>1
  <1>3. PICK f : Stepwise(f, Seq(Positions), <<>>, Len(Conversation), add)
    <2>1. PICK V, N, start, st : /\ V = Seq(Positions) /\ N = Len(Conversation)
                                 /\ start = <<>> /\ st = add
      OBVIOUS
    <2>2. start \in V
      BY <2>1
    <2> HIDE DEF add
    <2>3. N \in Nat /\ st \in [V \X (1..N) -> V]
      BY <1>1, <1>2, <2>1 DEF Positions
    <2>4. \E f : Stepwise(f, V, start, N, st)
      BY <2>2, <2>3, StepByStep
    <2>. QED  BY <2>1, <2>4
  <1>4. /\ f \in [0..Len(Conversation) -> Seq(Positions)] /\ f[0] = <<>>
        /\ \A n \in 1..Len(Conversation) : f[n] = add[<<f[n - 1], n>>]
    <2> HIDE DEF add
    <2>. QED  BY <1>3 DEF Stepwise
  <1>5. ASSUME NEW n \in 1..Len(Conversation)
        PROVE  f[n] = IF Conversation[n].sticky = sticky THEN Append(f[n - 1], n) ELSE f[n - 1]
    <2>1. n - 1 \in 0..Len(Conversation)
      BY <1>1
    <2>2. f[n - 1] \in Seq(Positions)
      BY <1>4, <2>1
    <2>3. <<f[n - 1], n>> \in Seq(Positions) \X Positions
      BY <2>2 DEF Positions
    <2>. QED  BY <1>4, <2>3
  <1> HIDE DEF add
  <1>6. f = [n \in 0..Len(Conversation) |->
               IF n = 0 THEN <<>>
               ELSE IF Conversation[n].sticky = sticky THEN Append(f[n - 1], n)
               ELSE f[n - 1]]
    <2>1. ASSUME NEW n \in 0..Len(Conversation)
          PROVE  f[n] = IF n = 0 THEN <<>>
                        ELSE IF Conversation[n].sticky = sticky THEN Append(f[n - 1], n)
                        ELSE f[n - 1]
      <3>1. CASE n = 0
        BY <1>4, <3>1
      <3>2. CASE n # 0
        <4>1. n \in 1..Len(Conversation)
          BY <1>1, <3>2
        <4>. QED  BY <1>5, <3>2, <4>1
      <3>. QED  BY <3>1, <3>2
    <2>. QED  BY <1>4, <2>1
  <1>. QED  BY <1>4, <1>6 DEF Found

\* A function of that definition has its values, whichever one was chosen.
LEMMA FoundAre ==
    ASSUME NEW sticky, NEW f, Found(sticky, f)
    PROVE  f[Len(Conversation)] \in Seq(Positions)
  <1> DEFINE S == {n \in Nat : n <= Len(Conversation) => f[n] \in Seq(Positions)}
  <1>1. Len(Conversation) \in Nat
    BY ContextAssumption
  <1>2. \A n \in 0..Len(Conversation) :
          f[n] = IF n = 0 THEN <<>>
                 ELSE IF Conversation[n].sticky = sticky THEN Append(f[n - 1], n)
                 ELSE f[n - 1]
    BY Zenon DEF Found
  <1>3. 0 \in S
    <2>1. 0 \in 0..Len(Conversation) /\ <<>> \in Seq(Positions)
      BY <1>1
    <2>2. f[0] = <<>>
      BY <1>2, <2>1, Zenon
    <2>. QED  BY <2>1, <2>2
  <1>4. ASSUME NEW n \in Nat, n \in S PROVE n + 1 \in S
    <2> SUFFICES ASSUME n + 1 <= Len(Conversation) PROVE f[n + 1] \in Seq(Positions)
      OBVIOUS
    <2>1. f[n] \in Seq(Positions) /\ n + 1 \in Positions /\ n + 1 \in 0..Len(Conversation)
          /\ (n + 1) - 1 = n /\ n + 1 # 0
      BY <1>1, <1>4 DEF Positions
    <2>2. Append(f[n], n + 1) \in Seq(Positions)
      BY <2>1, AppendProperties
    <2>. QED  BY <1>2, <2>1, <2>2
  <1> HIDE DEF S
  <1>5. Len(Conversation) \in S
    BY <1>1, <1>3, <1>4, NumberInduction
  <1>. QED  BY <1>1, <1>5 DEF S

\* The turns that are found are positions in the conversation.
LEMMA TurnsTyped == ASSUME NEW sticky PROVE TurnsThat(sticky) \in Seq(Positions)
  <1> DEFINE found == CHOOSE f : Found(sticky, f)
  <1>1. Found(sticky, found)
    BY FoundExists
  <1>2. TurnsThat(sticky) = found[Len(Conversation)]
    BY Zenon DEF TurnsThat, Found
  <1> HIDE DEF found
  <1>. QED  BY <1>1, <1>2, FoundAre

\* The smaller of two numbers.
LEMMA SmallerIs ==
    ASSUME NEW a \in Nat, NEW b \in Nat
    PROVE  Smaller(a, b) \in Nat /\ Smaller(a, b) <= a /\ Smaller(a, b) <= b
  BY DEF Smaller

\* The last n members of a sequence.
LEMMA LastNProperties ==
    ASSUME NEW S, NEW s \in Seq(S), NEW n \in Nat
    PROVE  /\ LastN(s, n) \in Seq(S)
           /\ Len(LastN(s, n)) = Smaller(Len(s), n)
           /\ \A i \in 1..Smaller(Len(s), n) :
                LastN(s, n)[i] = s[i + (Len(s) - Smaller(Len(s), n))]
  <1> DEFINE m == Larger(Len(s) - n, 0) + 1
  <1>1. Len(s) \in Nat /\ m \in Int /\ m >= 1 /\ Smaller(Len(s), n) \in Nat
        /\ Smaller(Len(s), n) <= n /\ m = (Len(s) - Smaller(Len(s), n)) + 1
        /\ Smaller(Len(s), n) <= Len(s)
    <2>1. Len(s) \in Nat
      OBVIOUS
    <2>2. CASE Len(s) < n
      BY <2>1, <2>2 DEF Larger, Smaller
    <2>3. CASE ~(Len(s) < n)
      BY <2>1, <2>3 DEF Larger, Smaller
    <2>. QED  BY <2>2, <2>3
  <1> HIDE DEF m
  <1>2. \A i \in m..Len(s) : s[i] \in S
    BY <1>1
  <1>3. /\ SubSeq(s, m, Len(s)) \in Seq(S)
        /\ Len(SubSeq(s, m, Len(s))) = IF m <= Len(s) THEN (Len(s) - m) + 1 ELSE 0
        /\ \A i \in 1..((Len(s) - m) + 1) : SubSeq(s, m, Len(s))[i] = s[(m + i) - 1]
    BY <1>1, <1>2, SubSeqProperties
  <1>4. LastN(s, n) = SubSeq(s, m, Len(s))
    BY DEF LastN, m
  <1>5. (Len(s) - m) + 1 = Smaller(Len(s), n)
    BY <1>1
  <1>6. ASSUME NEW i \in 1..Smaller(Len(s), n)
        PROVE  LastN(s, n)[i] = s[i + (Len(s) - Smaller(Len(s), n))]
    <2>1. (m + i) - 1 = i + (Len(s) - Smaller(Len(s), n))
      BY <1>1
    <2>. QED  BY <1>3, <1>4, <1>5, <2>1
  <1>7. Len(SubSeq(s, m, Len(s))) = Smaller(Len(s), n)
    BY <1>1, <1>3, <1>5
  <1>. QED  BY <1>3, <1>4, <1>6, <1>7

\* The conversation, as the model gets it: turns, then the goal, within the
\* limit.
LEMMA ConversationItemsAre ==
    LET n == Len(ConversationItems) IN
    /\ ConversationItems \in Seq(Items) /\ n \in 1..MaxItems
    /\ ConversationItems[n] = Goal
    /\ \A i \in 1..(n - 1) : ConversationItems[i].kind = "turn"
    /\ Conversation = <<>> => ConversationItems = <<Goal>>
  <1> DEFINE sticky == LastN(TurnsThat(TRUE), Smaller(ContextTurns, MaxAnchors))
             budget == Larger(MaxItems - Len(sticky) - 1, 0)
             recent == LastN(TurnsThat(FALSE), Smaller(ContextTurns, budget))
             chosen == sticky \o recent
             turns == [i \in DOMAIN chosen |-> Turn(chosen[i])]
  <1>1. sticky \in Seq(Positions) /\ Len(sticky) \in Nat /\ Len(sticky) <= MaxAnchors
    <2>1. Smaller(ContextTurns, MaxAnchors) \in Nat /\ Smaller(ContextTurns, MaxAnchors) <= MaxAnchors
      BY ContextAssumption DEF Smaller
    <2>2. PICK t \in Seq(Positions) : t = TurnsThat(TRUE)
      BY TurnsTyped, Zenon
    <2>3. /\ sticky \in Seq(Positions)
          /\ Len(sticky) = Smaller(Len(t), Smaller(ContextTurns, MaxAnchors))
      BY <2>1, <2>2, LastNProperties
    <2>4. Len(t) \in Nat
      BY LenProperties
    <2> HIDE DEF sticky
    <2>5. /\ Smaller(Len(t), Smaller(ContextTurns, MaxAnchors)) \in Nat
          /\ Smaller(Len(t), Smaller(ContextTurns, MaxAnchors)) <= Smaller(ContextTurns, MaxAnchors)
      BY <2>1, <2>4, SmallerIs
    <2>. QED  BY <2>1, <2>3, <2>5, ContextAssumption
  <1>2. recent \in Seq(Positions) /\ Len(recent) \in Nat /\ Len(recent) <= MaxItems - Len(sticky) - 1
    <2> HIDE DEF sticky
    <2>1. budget \in Nat /\ budget = MaxItems - Len(sticky) - 1
      BY <1>1, ContextAssumption DEF Larger
    <2> HIDE DEF budget
    <2>2. Smaller(ContextTurns, budget) \in Nat /\ Smaller(ContextTurns, budget) <= budget
      BY <2>1, ContextAssumption DEF Smaller
    <2>3. PICK t \in Seq(Positions) : t = TurnsThat(FALSE)
      BY TurnsTyped, Zenon
    <2>4. /\ recent \in Seq(Positions)
          /\ Len(recent) = Smaller(Len(t), Smaller(ContextTurns, budget))
      BY <2>2, <2>3, LastNProperties
    <2>5. Len(t) \in Nat
      BY LenProperties
    <2> HIDE DEF recent
    <2>6. /\ Smaller(Len(t), Smaller(ContextTurns, budget)) \in Nat
          /\ Smaller(Len(t), Smaller(ContextTurns, budget)) <= Smaller(ContextTurns, budget)
      BY <2>2, <2>5, SmallerIs
    <2>. QED  BY <1>1, <2>1, <2>2, <2>4, <2>6, ContextAssumption
  <1>3. ConversationItems = Append(turns, Goal)
    BY DEF ConversationItems
  <1> HIDE DEF sticky, recent
  <1>4. chosen \in Seq(Positions) /\ Len(chosen) \in Nat /\ Len(chosen) <= MaxItems - 1
        /\ DOMAIN chosen = 1..Len(chosen)
    BY <1>1, <1>2, ConcatProperties, ContextAssumption
  <1> HIDE DEF chosen
  <1>5. /\ turns \in Seq(Items) /\ Len(turns) = Len(chosen)
        /\ \A i \in 1..Len(turns) : turns[i].kind = "turn"
    <2>1. ASSUME NEW i \in 1..Len(chosen) PROVE Turn(chosen[i]) \in Items /\ Turn(chosen[i]).kind = "turn"
      <3>1. chosen[i] \in 1..Len(Conversation) /\ Len(Conversation) \in Nat
        BY <1>4, ContextAssumption DEF Positions
      <3>2. MaxSteps * MaxCalls \in Nat
        BY ContextAssumption
      <3>3. chosen[i] \in 0..(Len(Conversation) + MaxSteps * MaxCalls)
        BY <3>1, <3>2
      <3>. QED  BY <3>3 DEF Turn, Item, Items
    <2>2. turns = [i \in 1..Len(chosen) |-> Turn(chosen[i])]
      BY <1>4
    <2>. QED  BY <1>4, <2>1, <2>2
  <1>6. Goal \in Items
    <2>1. MaxSteps * MaxCalls \in Nat /\ Len(Conversation) \in Nat
      BY ContextAssumption
    <2>2. 0 \in 0..(Len(Conversation) + MaxSteps * MaxCalls)
      BY <2>1
    <2>. QED  BY <2>2 DEF Goal, Item, Items
  <1> HIDE DEF turns
  <1>7. /\ Append(turns, Goal) \in Seq(Items) /\ Len(Append(turns, Goal)) = Len(turns) + 1
        /\ \A i \in 1..Len(turns) : Append(turns, Goal)[i] = turns[i]
        /\ Append(turns, Goal)[Len(turns) + 1] = Goal
    BY <1>5, <1>6, AppendProperties
  <1>8. ASSUME Conversation = <<>> PROVE Append(turns, Goal) = <<Goal>>
    <2>1. Positions = {}
      BY <1>8 DEF Positions
    <2>2. Len(chosen) = 0
      <3>1. \A i \in 1..Len(chosen) : chosen[i] \in Positions
        BY <1>4
      <3>2. Len(chosen) # 0 => 1 \in 1..Len(chosen)
        BY <1>4
      <3>. QED  BY <2>1, <3>1, <3>2
    <2>3. turns = <<>>
      BY <1>5, <2>2, EmptySeq
    <2>. QED  BY <2>3
  <1>. QED  BY <1>3, <1>4, <1>5, <1>7, <1>8, ContextAssumption

(***************************************************************************)
(* Trimming.                                                               *)
(***************************************************************************)
\* The anchors a context starts with, as many as are kept.
LEMMA LeadingAnchorsAre ==
    ASSUME NEW S, NEW c \in Seq(S)
    PROVE  LET n == LeadingAnchors(c) IN
           /\ n \in 0..MaxAnchors /\ n <= Len(c)
           /\ \A i \in 1..n : IsAnchor(c[i])
           /\ n < Len(c) /\ n < MaxAnchors => ~IsAnchor(c[n + 1])
  <1> DEFINE most == Smaller(Len(c), MaxAnchors)
             Leading(n) == /\ \A i \in 1..n : IsAnchor(c[i])
                           /\ n = most \/ ~IsAnchor(c[n + 1])
             A == {n \in 0..most : \A i \in 1..n : IsAnchor(c[i])}
  <1>1. Len(c) \in Nat
    BY LenProperties
  <1>2. most \in Nat /\ most <= Len(c) /\ most <= MaxAnchors /\ (most = Len(c) \/ most = MaxAnchors)
    BY <1>1, ContextAssumption DEF Smaller
  <1> HIDE DEF most
  <1>3. 0 \in A /\ A \subseteq 0..most
    BY <1>2
  <1>4. PICK n \in A : \A m \in A : m <= n
    <2> HIDE DEF A
    <2>1. A \in SUBSET (0..most) /\ A # {}
      BY <1>3
    <2>. QED  BY <1>2, <2>1, GreatestNumber
  <1>5. n \in 0..most /\ Leading(n)
    <2>1. n \in 0..most /\ \A i \in 1..n : IsAnchor(c[i])
      OBVIOUS
    <2>2. ASSUME n # most, IsAnchor(c[n + 1]) PROVE FALSE
      <3>1. n + 1 \in 0..most
        BY <1>2, <2>1, <2>2
      <3>2. ASSUME NEW i \in 1..(n + 1) PROVE IsAnchor(c[i])
        BY <2>1, <2>2, <3>2
      <3>3. n + 1 \in A
        BY <3>1, <3>2
      <3>. QED  BY <1>4, <2>1, <3>3
    <2>. QED  BY <2>1, <2>2
  <1>6. LeadingAnchors(c) = CHOOSE k \in 0..most : Leading(k)
    BY DEF LeadingAnchors, most
  <1> HIDE DEF Leading
  <1>7. LeadingAnchors(c) \in 0..most /\ Leading(LeadingAnchors(c))
    BY <1>5, <1>6, Zenon
  <1>. QED  BY <1>1, <1>2, <1>7, ContextAssumption DEF Leading

\* t is c without the d items after the first a, which are anchors.
Cut(c, t, a, d) ==
    /\ a \in 0..Len(t) /\ d \in Nat /\ Len(c) = Len(t) + d
    /\ \A i \in 1..Len(t) : t[i] = IF i <= a THEN c[i] ELSE c[i + d]
    /\ \A i \in 1..a : IsAnchor(c[i])
    /\ d > 0 /\ a < MaxAnchors => ~IsAnchor(c[a + 1])

\* A context is cut to the limit, behind the anchors it starts with.
LEMMA TrimIs ==
    ASSUME NEW S, NEW c \in Seq(S)
    PROVE  /\ Trim(c) \in Seq(S) /\ Len(Trim(c)) \in Nat /\ Len(Trim(c)) <= MaxItems
           /\ Len(c) <= MaxItems => Trim(c) = c
           /\ Len(c) > MaxItems => Len(Trim(c)) = MaxItems
           /\ \E a, d \in Nat : Cut(c, Trim(c), a, d)
  <1>1. Len(c) \in Nat
    BY LenProperties
  <1>2. CASE Len(c) <= MaxItems
    <2>1. Trim(c) = c
      BY <1>2 DEF Trim
    <2>2. Cut(c, c, 0, 0)
      BY <1>1 DEF Cut
    <2>3. \E a, d \in Nat : Cut(c, Trim(c), a, d)
      <3>1. Cut(c, Trim(c), 0, 0) /\ 0 \in Nat
        BY <2>1, <2>2, Zenon
      <3>. QED  BY <3>1, Zenon
    <2>4. Trim(c) \in Seq(S) /\ Len(Trim(c)) \in Nat /\ Len(Trim(c)) <= MaxItems
      BY <1>1, <1>2, <2>1
    <2>5. ~(Len(c) > MaxItems)
      BY <1>1, <1>2, ContextAssumption
    <2>. QED  BY <1>2, <2>1, <2>3, <2>4, <2>5
  <1>3. CASE ~(Len(c) <= MaxItems)
    <2> DEFINE a == LeadingAnchors(c)
               d == Len(c) - MaxItems
               front == SubSeq(c, 1, a)
               back == LastN(c, MaxItems - a)
    <2>1. /\ a \in 0..MaxAnchors /\ a <= Len(c)
          /\ \A i \in 1..a : IsAnchor(c[i])
          /\ a < Len(c) /\ a < MaxAnchors => ~IsAnchor(c[a + 1])
      BY LeadingAnchorsAre
    <2>2. Trim(c) = front \o back
      BY <1>3 DEF Trim
    <2> HIDE DEF a
    <2>3. MaxItems - a \in Nat /\ a < Len(c) /\ a <= MaxItems /\ d \in Nat /\ d > 0
          /\ Smaller(Len(c), MaxItems - a) = MaxItems - a
      BY <1>1, <1>3, <2>1, ContextAssumption DEF Smaller
    <2>4. /\ front \in Seq(S) /\ Len(front) = a
          /\ \A i \in 1..a : front[i] = c[i]
      <3>1. \A i \in 1..a : c[i] \in S
        BY <1>1, <2>1
      <3>. QED  BY <2>1, <3>1, SubSeqProperties
    <2>5. /\ back \in Seq(S) /\ Len(back) = MaxItems - a
          /\ \A i \in 1..(MaxItems - a) : back[i] = c[i + (Len(c) - (MaxItems - a))]
      <3>1. PICK n \in Nat : n = MaxItems - a
        BY <2>3
      <3>2. /\ LastN(c, n) \in Seq(S) /\ Len(LastN(c, n)) = Smaller(Len(c), n)
            /\ \A i \in 1..Smaller(Len(c), n) : LastN(c, n)[i] = c[i + (Len(c) - Smaller(Len(c), n))]
        BY LastNProperties
      <3>3. Smaller(Len(c), n) = n
        BY <2>3, <3>1
      <3>. QED  BY <3>1, <3>2, <3>3
    <2> HIDE DEF front, back
    <2>6. /\ front \o back \in Seq(S) /\ Len(front \o back) = MaxItems
          /\ \A i \in 1..MaxItems : (front \o back)[i] = IF i <= a THEN front[i] ELSE back[i - a]
      <3>1. /\ front \o back \in Seq(S) /\ Len(front \o back) = Len(front) + Len(back)
            /\ \A i \in 1..(Len(front) + Len(back)) :
                 (front \o back)[i] = IF i <= Len(front) THEN front[i] ELSE back[i - Len(front)]
        BY <2>4, <2>5, ConcatProperties
      <3>2. Len(front) + Len(back) = MaxItems
        BY <2>1, <2>4, <2>5, ContextAssumption
      <3>. QED  BY <2>4, <3>1, <3>2
    <2>7. \A i \in 1..MaxItems : (front \o back)[i] = IF i <= a THEN c[i] ELSE c[i + d]
      <3>1. ASSUME NEW i \in 1..MaxItems PROVE (front \o back)[i] = IF i <= a THEN c[i] ELSE c[i + d]
        <4>1. CASE i <= a
          BY <2>1, <2>4, <2>6, <4>1
        <4>2. CASE ~(i <= a)
          <5>1. i - a \in 1..(MaxItems - a) /\ (i - a) + (Len(c) - (MaxItems - a)) = i + d
            BY <1>1, <2>1, <2>3, <4>2, ContextAssumption
          <5>. QED  BY <2>5, <2>6, <4>2, <5>1
        <4>. QED  BY <4>1, <4>2
      <3>. QED  BY <3>1
    <2>8. Cut(c, front \o back, a, d)
      BY <1>1, <2>1, <2>3, <2>6, <2>7, ContextAssumption DEF Cut
    <2>. QED  BY <1>3, <2>1, <2>2, <2>3, <2>6, <2>8, ContextAssumption
  <1>. QED  BY <1>2, <1>3

-----------------------------------------------------------------------------
(***************************************************************************)
(* The inductive invariant.                                                *)
(***************************************************************************)
Is(c, i, kind) == i \in 1..Len(c) /\ c[i].kind = kind

\* Some output of c is the one of observation n.
Carries(c, n) == \E i \in 1..Len(c) : Is(c, i, "output") /\ c[i].n = n

\* The outputs in c are those of the newest of n observations, in order.
NewestOutputs(c, n) ==
    /\ \A i, j \in 1..Len(c) :
         i < j /\ Is(c, i, "output") /\ Is(c, j, "output") => c[i].n < c[j].n
    /\ \A i \in 1..Len(c) : Is(c, i, "output") =>
         c[i].n \in 1..n /\ \A m \in (c[i].n)..n : Carries(c, m)

\* Every call in c has its output behind it, or its call_id is still open.
AnsweredBut(c, open) ==
    \A i \in 1..Len(c) : Is(c, i, "call") =>
        \/ Strip[c[i].id] \in open
        \/ \E j \in (i + 1)..Len(c) : Is(c, j, "output") /\ c[j].id = Strip[c[i].id]

\* A call in c, before position k, with this call_id.
CalledBefore(c, k, id) == \E i \in 1..Len(c) : i < k /\ Is(c, i, "call") /\ Strip[c[i].id] = id

\* All outputs are in c, those there are answer calls, and what is open was asked.
NothingLost(c, n, open) ==
    /\ \A m \in 1..n : Carries(c, m)
    /\ \A j \in 1..Len(c) : Is(c, j, "output") => CalledBefore(c, j, c[j].id)
    /\ \A id \in open : CalledBefore(c, Len(c) + 1, id)

\* c starts with the conversation and the goal.
Leads(c) ==
    /\ Len(ConversationItems) <= Len(c)
    /\ \A i \in 1..Len(ConversationItems) : c[i] = ConversationItems[i]

\* A context for n observations that were sent, and these call_ids without output.
Fits(c, n, open, whole) ==
    /\ c \in Seq(Items)
    /\ NewestOutputs(c, n)
    /\ AnsweredBut(c, open)
    /\ whole => NothingLost(c, n, open)
    /\ AnchorsSuffice => Leads(c)

\* The context the next request extends.
Base == IF items = <<>> THEN ConversationItems ELSE items

\* The call_ids that were asked for and not sent: executed, or still to be.
Open == {observations[n] : n \in (sent + 1)..Len(observations)}
        \cup {pending[k] : k \in 1..Len(pending)}

CountInv ==
    /\ Len(observations) + Len(pending) <= step * MaxCalls
    /\ pc \in {"build", "sent"} =>
         pending = <<>> /\ Len(observations) <= (step - 1) * MaxCalls

RequestInv == pc = "sent" => request = Base /\ sent = Len(observations)

ContextInv ==
    TypeOK /\ CountInv /\ RequestInv /\ Fits(Base, sent, Open, lossless)

\* What trimming does to the positions of outputs and calls.
LEMMA CutMoves ==
    ASSUME NEW S, NEW c \in Seq(S), NEW t \in Seq(S), NEW a \in Nat, NEW d \in Nat,
           Cut(c, t, a, d)
    PROVE  /\ \A i, kind : kind \in {"output", "call"} /\ Is(t, i, kind) =>
                a < i /\ i \in Nat /\ Is(c, i + d, kind) /\ t[i] = c[i + d]
           /\ \A k \in 1..Len(c) : a + d < k => k - d \in 1..Len(t) /\ t[k - d] = c[k]
  <1>1. /\ Len(t) \in Nat /\ Len(c) = Len(t) + d /\ a <= Len(t)
        /\ \A i \in 1..Len(t) : t[i] = IF i <= a THEN c[i] ELSE c[i + d]
        /\ \A i \in 1..a : IsAnchor(c[i])
    BY LenProperties DEF Cut
  <1>2. ASSUME NEW i, NEW kind, kind \in {"output", "call"}, Is(t, i, kind)
        PROVE  a < i /\ i \in Nat /\ Is(c, i + d, kind) /\ t[i] = c[i + d]
    <2>1. i \in 1..Len(t) /\ t[i].kind = kind
      BY <1>2 DEF Is
    <2>2. a < i
      <3> SUFFICES ASSUME i <= a PROVE FALSE
        BY <2>1
      <3>1. t[i] = c[i] /\ IsAnchor(c[i])
        BY <1>1, <2>1
      <3>. QED  BY <1>2, <2>1, <3>1 DEF IsAnchor
    <2>3. t[i] = c[i + d] /\ i + d \in 1..Len(c)
      BY <1>1, <2>1, <2>2
    <2>. QED  BY <2>1, <2>2, <2>3 DEF Is
  <1>3. ASSUME NEW k \in 1..Len(c), a + d < k PROVE k - d \in 1..Len(t) /\ t[k - d] = c[k]
    <2>1. k - d \in 1..Len(t) /\ ~(k - d <= a) /\ (k - d) + d = k
      BY <1>1, <1>3
    <2>. QED  BY <1>1, <2>1
  <1>. QED  BY <1>2, <1>3

\* A context that fits still fits when it was trimmed, but may have lost items.
LEMMA TrimFits ==
    ASSUME NEW n \in Nat, NEW open, NEW whole \in BOOLEAN, NEW c, Fits(c, n, open, whole)
    PROVE  /\ Fits(Trim(c), n, open, whole /\ Len(c) <= MaxItems)
           /\ Len(Trim(c)) <= MaxItems
           /\ c # <<>> => Trim(c) # <<>>
  <1>1. c \in Seq(Items) /\ Len(c) \in Nat
    <2>1. c \in Seq(Items)
      BY DEF Fits
    <2>. QED  BY <2>1, LenProperties
  <1>2. /\ Trim(c) \in Seq(Items) /\ Len(Trim(c)) \in Nat /\ Len(Trim(c)) <= MaxItems
        /\ Len(c) <= MaxItems => Trim(c) = c
        /\ Len(c) > MaxItems => Len(Trim(c)) = MaxItems
        /\ \E a, d \in Nat : Cut(c, Trim(c), a, d)
    BY <1>1, TrimIs
  <1>3. PICK t : t = Trim(c)
    OBVIOUS
  <1>4. PICK a, d \in Nat : Cut(c, t, a, d)
    BY <1>2, <1>3
  <1>5. t \in Seq(Items) /\ Len(t) \in Nat
    BY <1>2, <1>3
  <1>6. /\ \A i, kind : kind \in {"output", "call"} /\ Is(t, i, kind) =>
             a < i /\ i \in Nat /\ Is(c, i + d, kind) /\ t[i] = c[i + d]
        /\ \A k \in 1..Len(c) : a + d < k => k - d \in 1..Len(t) /\ t[k - d] = c[k]
    BY <1>1, <1>4, <1>5, CutMoves
  <1>7. NewestOutputs(t, n)
    <2>1. ASSUME NEW i \in 1..Len(t), NEW j \in 1..Len(t), i < j, Is(t, i, "output"), Is(t, j, "output")
          PROVE  t[i].n < t[j].n
      <3>1. /\ Is(c, i + d, "output") /\ t[i] = c[i + d]
            /\ Is(c, j + d, "output") /\ t[j] = c[j + d]
        BY <1>6, <2>1
      <3>2. i + d < j + d /\ i + d \in 1..Len(c) /\ j + d \in 1..Len(c)
        BY <2>1, <3>1 DEF Is
      <3>3. \A k, l \in 1..Len(c) :
              k < l /\ Is(c, k, "output") /\ Is(c, l, "output") => c[k].n < c[l].n
        BY DEF Fits, NewestOutputs
      <3>. QED  BY <3>1, <3>2, <3>3
    <2>2. ASSUME NEW i \in 1..Len(t), Is(t, i, "output")
          PROVE  t[i].n \in 1..n /\ \A m \in (t[i].n)..n : Carries(t, m)
      <3>1. a < i /\ Is(c, i + d, "output") /\ t[i] = c[i + d] /\ i + d \in 1..Len(c)
        BY <1>6, <2>2 DEF Is
      <3>2. c[i + d].n \in 1..n /\ \A m \in (c[i + d].n)..n : Carries(c, m)
        BY <3>1 DEF Fits, NewestOutputs
      <3>3. ASSUME NEW m \in (c[i + d].n)..n PROVE Carries(t, m)
        <4>1. PICK k \in 1..Len(c) : Is(c, k, "output") /\ c[k].n = m
          BY <3>2 DEF Carries
        <4>2. k < i + d => c[k].n < c[i + d].n
          BY <3>1, <4>1 DEF Fits, NewestOutputs
        <4>3. i + d <= k
          BY <1>1, <3>2, <4>1, <4>2
        <4>4. k - d \in 1..Len(t) /\ t[k - d] = c[k]
          BY <1>6, <3>1, <4>3
        <4>. QED  BY <4>1, <4>4 DEF Carries, Is
      <3>. QED  BY <3>1, <3>2, <3>3
    <2>. QED  BY <2>1, <2>2 DEF NewestOutputs
  <1>8. AnsweredBut(t, open)
    <2> SUFFICES ASSUME NEW i \in 1..Len(t), Is(t, i, "call"), Strip[t[i].id] \notin open
                 PROVE  \E j \in (i + 1)..Len(t) : Is(t, j, "output") /\ t[j].id = Strip[t[i].id]
      BY DEF AnsweredBut
    <2>1. a < i /\ Is(c, i + d, "call") /\ t[i] = c[i + d] /\ i + d \in 1..Len(c)
      BY <1>6 DEF Is
    <2>2. PICK j \in ((i + d) + 1)..Len(c) : Is(c, j, "output") /\ c[j].id = Strip[c[i + d].id]
      BY <2>1 DEF Fits, AnsweredBut
    <2>3. j \in 1..Len(c) /\ a + d < j /\ j - d >= i + 1
      BY <1>1, <2>1, <2>2, SMTT(30)
    <2>4. j - d \in 1..Len(t) /\ t[j - d] = c[j]
      BY <1>6, <2>3
    <2>5. j - d \in (i + 1)..Len(t)
      BY <1>5, <2>3, <2>4
    <2>. QED  BY <2>1, <2>2, <2>4, <2>5 DEF Is
  <1>9. whole /\ Len(c) <= MaxItems => NothingLost(t, n, open)
    <2> SUFFICES ASSUME whole, Len(c) <= MaxItems PROVE NothingLost(t, n, open)
      OBVIOUS
    <2>1. t = c
      BY <1>2, <1>3
    <2>. QED  BY <2>1 DEF Fits
  <1>10. ASSUME AnchorsSuffice PROVE Leads(t)
    <2>1. PICK K : K = ConversationItems
      OBVIOUS
    <2>2. /\ Len(K) \in Nat /\ Len(K) <= MaxAnchors
          /\ \A i \in 1..Len(K) : IsAnchor(K[i])
      <3>1. /\ Len(K) \in 1..MaxItems /\ K[Len(K)] = Goal
            /\ \A i \in 1..(Len(K) - 1) : K[i].kind = "turn"
        BY <2>1, ConversationItemsAre
      <3>2. ASSUME NEW i \in 1..Len(K) PROVE IsAnchor(K[i])
        <4>1. CASE i = Len(K)
          BY <3>1, <4>1 DEF IsAnchor, Goal, Item
        <4>2. CASE i # Len(K)
          <5>1. i \in 1..(Len(K) - 1)
            BY <3>1, <4>2
          <5>. QED  BY <3>1, <5>1 DEF IsAnchor
        <4>. QED  BY <4>1, <4>2
      <3>. QED  BY <1>10, <2>1, <3>1, <3>2 DEF AnchorsSuffice
    <2>3. Len(K) <= Len(c) /\ \A i \in 1..Len(K) : c[i] = K[i]
      BY <1>10, <2>1 DEF Fits, Leads
    <2>4. /\ a \in 0..Len(t) /\ Len(c) = Len(t) + d
          /\ \A i \in 1..Len(t) : t[i] = IF i <= a THEN c[i] ELSE c[i + d]
          /\ d > 0 /\ a < MaxAnchors => ~IsAnchor(c[a + 1])
      BY <1>4 DEF Cut
    <2>5. d = 0 \/ Len(K) <= a
      <3> SUFFICES ASSUME d # 0, a < Len(K) PROVE FALSE
        BY <2>2
      <3>1. a + 1 \in 1..Len(K) /\ d > 0 /\ a < MaxAnchors
        BY <2>2, ContextAssumption
      <3>2. IsAnchor(c[a + 1])
        BY <2>2, <2>3, <3>1
      <3>. QED  BY <2>4, <3>1, <3>2
    <2>6. Len(K) <= Len(t) /\ \A i \in 1..Len(K) : t[i] = K[i]
      <3>1. CASE d = 0
        <4>1. Len(K) <= Len(t) /\ \A i \in 1..Len(t) : t[i] = c[i]
          BY <1>5, <2>3, <2>4, <3>1
        <4>. QED  BY <1>5, <2>2, <2>3, <4>1
      <3>2. CASE Len(K) <= a
        BY <1>5, <2>2, <2>3, <2>4, <3>2
      <3>. QED  BY <2>5, <3>1, <3>2
    <2>. QED  BY <2>1, <2>6 DEF Leads
  <1>11. c # <<>> => t # <<>>
    <2>1. c # <<>> => Len(c) > 0
      BY <1>1, EmptySeq
    <2>2. Len(c) > 0 => Len(t) > 0
      BY <1>1, <1>2, <1>3, ContextAssumption
    <2>3. t = <<>> => Len(t) = 0
      OBVIOUS
    <2>. QED  BY <1>1, <2>1, <2>2, <2>3
  <1>12. Fits(t, n, open, whole /\ Len(c) <= MaxItems)
    BY <1>5, <1>7, <1>8, <1>9, <1>10, Zenon DEF Fits
  <1>. QED  BY <1>2, <1>3, <1>11, <1>12, Zenon

\* The conversation alone is a context: nothing was sent, nothing is open.
LEMMA ConversationFits ==
    /\ ConversationItems \in Seq(Items) /\ Len(ConversationItems) \in 1..MaxItems
    /\ ConversationItems # <<>>
    /\ Fits(ConversationItems, 0, {}, TRUE)
  <1>1. PICK c : c = ConversationItems
    OBVIOUS
  <1>2. /\ c \in Seq(Items) /\ Len(c) \in 1..MaxItems /\ c[Len(c)] = Goal
        /\ \A i \in 1..(Len(c) - 1) : c[i].kind = "turn"
    BY <1>1, ConversationItemsAre
  <1>3. ASSUME NEW i, NEW kind, kind \in {"output", "call"} PROVE ~Is(c, i, kind)
    <2> SUFFICES ASSUME i \in 1..Len(c), c[i].kind = kind PROVE FALSE
      BY DEF Is
    <2>1. i = Len(c) \/ i \in 1..(Len(c) - 1)
      BY <1>2
    <2>. QED  BY <1>2, <1>3, <2>1 DEF Goal, Item
  <1>4. NewestOutputs(c, 0) /\ AnsweredBut(c, {})
    BY <1>3 DEF NewestOutputs, AnsweredBut
  <1>5. NothingLost(c, 0, {})
    BY <1>3 DEF NothingLost
  <1>6. Leads(c)
    BY <1>1, <1>2 DEF Leads
  <1>7. c # <<>>
    <2>1. c = <<>> => Len(c) = 0
      OBVIOUS
    <2>. QED  BY <1>2, <2>1
  <1>. QED  BY <1>1, <1>2, <1>4, <1>5, <1>6, <1>7, Zenon DEF Fits

\* What an item behind another context is.
LEMMA Behind ==
    ASSUME NEW S, NEW c \in Seq(S), NEW e \in Seq(S)
    PROVE  /\ c \o e \in Seq(S) /\ Len(c \o e) = Len(c) + Len(e)
           /\ \A i \in 1..Len(c) : i \in 1..Len(c \o e) /\ (c \o e)[i] = c[i]
           /\ \A k \in 1..Len(e) : Len(c) + k \in 1..Len(c \o e) /\ (c \o e)[Len(c) + k] = e[k]
           /\ \A i \in 1..Len(c \o e) :
                i \in 1..Len(c) \/ \E k \in 1..Len(e) : i = Len(c) + k
  <1>1. Len(c) \in Nat /\ Len(e) \in Nat
    BY LenProperties
  <1>2. /\ c \o e \in Seq(S) /\ Len(c \o e) = Len(c) + Len(e)
        /\ \A i \in 1..(Len(c) + Len(e)) :
             (c \o e)[i] = IF i <= Len(c) THEN c[i] ELSE e[i - Len(c)]
    BY ConcatProperties
  <1>3. ASSUME NEW k \in 1..Len(e) PROVE Len(c) + k \in 1..Len(c \o e) /\ (c \o e)[Len(c) + k] = e[k]
    <2>1. Len(c) + k \in 1..(Len(c) + Len(e)) /\ ~(Len(c) + k <= Len(c)) /\ (Len(c) + k) - Len(c) = k
      BY <1>1
    <2>. QED  BY <1>2, <2>1
  <1>4. ASSUME NEW i \in 1..Len(c) PROVE i \in 1..Len(c \o e) /\ (c \o e)[i] = c[i]
    <2>1. i \in 1..(Len(c) + Len(e)) /\ i <= Len(c)
      BY <1>1
    <2>. QED  BY <1>2, <2>1
  <1>5. ASSUME NEW i \in 1..Len(c \o e), i \notin 1..Len(c) PROVE \E k \in 1..Len(e) : i = Len(c) + k
    <2>1. i - Len(c) \in 1..Len(e) /\ i = Len(c) + (i - Len(c))
      BY <1>1, <1>2, <1>5
    <2>. QED  BY <2>1
  <1>. QED  BY <1>2, <1>3, <1>4, <1>5

\* A response is put behind the context: its calls are open, or lost with it.
LEMMA OutputFits ==
    ASSUME NEW n \in Nat, NEW open, NEW wider, NEW whole \in BOOLEAN, NEW still \in BOOLEAN,
           NEW c, Fits(c, n, open, whole), still => whole,
           NEW e \in Seq(Items),
           \A k \in 1..Len(e) : \/ e[k].kind = "other"
                                \/ e[k].kind = "call" /\ Strip[e[k].id] \in wider,
           open \subseteq wider,
           still => \A id \in wider :
             id \in open \/ \E k \in 1..Len(e) : e[k].kind = "call" /\ Strip[e[k].id] = id
    PROVE  Fits(c \o e, n, wider, still)
  <1>1. c \in Seq(Items) /\ Len(c) \in Nat /\ Len(e) \in Nat
    <2>1. c \in Seq(Items)
      BY DEF Fits
    <2>. QED  BY <2>1, LenProperties
  <1>2. PICK t : t = c \o e
    OBVIOUS
  <1>3. /\ t \in Seq(Items) /\ Len(t) = Len(c) + Len(e)
        /\ \A i \in 1..Len(c) : i \in 1..Len(t) /\ t[i] = c[i]
        /\ \A k \in 1..Len(e) : Len(c) + k \in 1..Len(t) /\ t[Len(c) + k] = e[k]
        /\ \A i \in 1..Len(t) : i \in 1..Len(c) \/ \E k \in 1..Len(e) : i = Len(c) + k
    BY <1>1, <1>2, Behind
  <1>4. ASSUME NEW i PROVE Is(t, i, "output") <=> Is(c, i, "output")
    <2>1. ASSUME Is(t, i, "output") PROVE Is(c, i, "output")
      <3>1. i \in 1..Len(t) /\ t[i].kind = "output"
        BY <2>1 DEF Is
      <3>2. ASSUME NEW k \in 1..Len(e), i = Len(c) + k PROVE FALSE
        <4>1. t[i] = e[k]
          BY <1>3, <3>2
        <4>. QED  BY <3>1, <4>1
      <3>3. i \in 1..Len(c)
        BY <1>3, <3>1, <3>2
      <3>. QED  BY <1>3, <3>1, <3>3 DEF Is
    <2>2. ASSUME Is(c, i, "output") PROVE Is(t, i, "output")
      BY <1>3, <2>2 DEF Is
    <2>. QED  BY <2>1, <2>2
  <1>5. ASSUME NEW i, Is(c, i, "output") PROVE i \in 1..Len(c) /\ t[i] = c[i]
    BY <1>3, <1>5 DEF Is
  <1>6. NewestOutputs(t, n)
    <2>1. ASSUME NEW m, Carries(c, m) PROVE Carries(t, m)
      <3>1. PICK i \in 1..Len(c) : Is(c, i, "output") /\ c[i].n = m
        BY <2>1 DEF Carries
      <3>. QED  BY <1>3, <1>4, <3>1 DEF Carries
    <2>. QED  BY <1>4, <1>5, <2>1 DEF Fits, NewestOutputs
  <1>7. AnsweredBut(t, wider)
    <2> SUFFICES ASSUME NEW i \in 1..Len(t), Is(t, i, "call"), Strip[t[i].id] \notin wider
                 PROVE  \E j \in (i + 1)..Len(t) : Is(t, j, "output") /\ t[j].id = Strip[t[i].id]
      BY DEF AnsweredBut
    <2>1. i \in 1..Len(c)
      <3>1. ASSUME NEW k \in 1..Len(e), i = Len(c) + k PROVE FALSE
        <4>1. t[i] = e[k] /\ t[i].kind = "call"
          BY <1>3, <3>1 DEF Is
        <4>. QED  BY <4>1
      <3>. QED  BY <1>3, <3>1
    <2>2. Is(c, i, "call") /\ t[i] = c[i]
      BY <1>3, <2>1 DEF Is
    <2>3. PICK j \in (i + 1)..Len(c) : Is(c, j, "output") /\ c[j].id = Strip[c[i].id]
      BY <2>1, <2>2 DEF Fits, AnsweredBut
    <2>4. j \in (i + 1)..Len(t)
      BY <1>1, <1>3, <2>1, <2>3
    <2>. QED  BY <1>4, <1>5, <2>2, <2>3, <2>4
  <1>8. ASSUME still PROVE NothingLost(t, n, wider)
    <2>1. NothingLost(c, n, open)
      BY <1>8 DEF Fits
    <2>2. ASSUME NEW k, NEW id, CalledBefore(c, k, id) PROVE CalledBefore(t, k, id)
      <3>1. PICK i \in 1..Len(c) : i < k /\ Is(c, i, "call") /\ Strip[c[i].id] = id
        BY <2>2 DEF CalledBefore
      <3>. QED  BY <1>3, <3>1 DEF CalledBefore, Is
    <2>3. ASSUME NEW m \in 1..n PROVE Carries(t, m)
      <3>1. PICK i \in 1..Len(c) : Is(c, i, "output") /\ c[i].n = m
        BY <2>1 DEF NothingLost, Carries
      <3>. QED  BY <1>3, <1>4, <3>1 DEF Carries
    <2>4. ASSUME NEW j \in 1..Len(t), Is(t, j, "output") PROVE CalledBefore(t, j, t[j].id)
      <3>1. Is(c, j, "output") /\ j \in 1..Len(c) /\ t[j] = c[j]
        BY <1>4, <1>5, <2>4
      <3>2. CalledBefore(c, j, c[j].id)
        BY <2>1, <3>1 DEF NothingLost
      <3>. QED  BY <2>2, <3>1, <3>2
    <2>5. ASSUME NEW id \in wider PROVE CalledBefore(t, Len(t) + 1, id)
      <3>1. CASE id \in open
        <4>1. PICK i \in 1..Len(c) : Is(c, i, "call") /\ Strip[c[i].id] = id
          BY <2>1, <3>1 DEF NothingLost, CalledBefore
        <4>2. i \in 1..Len(t) /\ t[i] = c[i] /\ i < Len(t) + 1
          BY <1>1, <1>3, <4>1
        <4>. QED  BY <4>1, <4>2 DEF CalledBefore, Is
      <3>2. ASSUME NEW k \in 1..Len(e), e[k].kind = "call", Strip[e[k].id] = id
            PROVE  CalledBefore(t, Len(t) + 1, id)
        <4>1. PICK i : i = Len(c) + k
          OBVIOUS
        <4>2. i \in 1..Len(t) /\ t[i] = e[k] /\ i < Len(t) + 1
          BY <1>1, <1>3, <4>1
        <4>. QED  BY <3>2, <4>2 DEF CalledBefore, Is
      <3>. QED  BY <1>8, <3>1, <3>2
    <2>. QED  BY <2>3, <2>4, <2>5 DEF NothingLost
  <1>9. ASSUME AnchorsSuffice PROVE Leads(t)
    <2>1. Leads(c)
      BY <1>9 DEF Fits
    <2>2. PICK K : K = ConversationItems
      OBVIOUS
    <2>3. Len(K) \in Nat /\ Len(K) <= Len(c) /\ \A i \in 1..Len(K) : c[i] = K[i]
      BY <2>1, <2>2, ConversationFits DEF Leads
    <2>4. Len(K) <= Len(t) /\ \A i \in 1..Len(K) : t[i] = K[i]
      BY <1>1, <1>3, <2>3
    <2>. QED  BY <2>2, <2>4 DEF Leads
  <1>10. Fits(t, n, wider, still)
    BY <1>3, <1>6, <1>7, <1>8, <1>9, Zenon DEF Fits
  <1>. QED  BY <1>2, <1>10, Zenon

\* The observations that were not sent are put behind the context: all that was
\* open is answered.
LEMMA UnsentFits ==
    ASSUME TypeOK, Len(observations) <= MaxSteps * MaxCalls, pending = <<>>,
           NEW c, Fits(c, sent, Open, lossless)
    PROVE  /\ Unsent \in Seq(Items)
           /\ Fits(c \o Unsent, Len(observations), {}, lossless)
  <1> DEFINE n == Len(observations)
  <1>1. c \in Seq(Items) /\ Len(c) \in Nat
    <2>1. c \in Seq(Items)
      BY DEF Fits
    <2>. QED  BY <2>1, LenProperties
  <1>2. /\ n \in Nat /\ sent \in Nat /\ sent <= n /\ lossless \in BOOLEAN
        /\ \A i \in 1..n : observations[i] \in CallIds
    BY LenProperties DEF TypeOK
  <1>3. PICK e : e = Unsent
    OBVIOUS
  <1>4. /\ e \in Seq(Items) /\ Len(e) = n - sent
        /\ \A k \in 1..(n - sent) :
             /\ e[k].kind = "output" /\ e[k].n = sent + k /\ e[k].id = observations[sent + k]
    <2>1. MaxSteps * MaxCalls \in Nat /\ Len(Conversation) \in Nat
      BY ContextAssumption
    <2>2. ASSUME NEW k \in 1..(n - sent) PROVE OutputItem(sent + k) \in Items
      <3>1. sent + k \in 1..n /\ n <= Len(Conversation) + MaxSteps * MaxCalls
        BY <1>2, <2>1
      <3>2. sent + k \in 0..(Len(Conversation) + MaxSteps * MaxCalls) /\ observations[sent + k] \in CallIds
        BY <1>2, <2>1, <3>1
      <3>. QED  BY <3>2 DEF OutputItem, Item, Items
    <2>3. e = [k \in 1..(n - sent) |-> OutputItem(sent + k)]
      BY <1>3 DEF Unsent
    <2>4. n - sent \in Nat
      BY <1>2
    <2> HIDE DEF n
    <2>5. e \in Seq(Items) /\ Len(e) = n - sent
      BY <2>2, <2>3, <2>4
    <2>. QED  BY <2>3, <2>5 DEF OutputItem, Item
  <1>5. ASSUME NEW id \in Open PROVE \E k \in 1..(n - sent) : id = observations[sent + k]
    <2>1. PICK m \in (sent + 1)..n : id = observations[m]
      BY <1>5 DEF Open
    <2>2. m - sent \in 1..(n - sent) /\ sent + (m - sent) = m
      BY <1>2
    <2>. QED  BY <2>1, <2>2
  <1>6. ASSUME NEW m \in (sent + 1)..n PROVE observations[m] \in Open
    BY <1>6 DEF Open
  <1> HIDE DEF n
  <1>7. PICK t : t = c \o e
    OBVIOUS
  <1>8. /\ t \in Seq(Items) /\ Len(t) = Len(c) + (n - sent)
        /\ \A i \in 1..Len(c) : i \in 1..Len(t) /\ t[i] = c[i]
        /\ \A k \in 1..(n - sent) : Len(c) + k \in 1..Len(t) /\ t[Len(c) + k] = e[k]
        /\ \A i \in 1..Len(t) : i \in 1..Len(c) \/ \E k \in 1..(n - sent) : i = Len(c) + k
    <2>1. /\ t \in Seq(Items) /\ Len(t) = Len(c) + Len(e)
          /\ \A i \in 1..Len(c) : i \in 1..Len(t) /\ t[i] = c[i]
          /\ \A k \in 1..Len(e) : Len(c) + k \in 1..Len(t) /\ t[Len(c) + k] = e[k]
          /\ \A i \in 1..Len(t) : i \in 1..Len(c) \/ \E k \in 1..Len(e) : i = Len(c) + k
      <3>1. c \in Seq(Items) /\ e \in Seq(Items)
        BY <1>1, <1>4
      <3>. QED  BY <1>7, <3>1, Behind
    <2>2. Len(e) = n - sent
      BY <1>4
    <2>. QED  BY <2>1, <2>2, Zenon
  <1>9. ASSUME NEW i \in 1..Len(c) PROVE \A kind : Is(t, i, kind) <=> Is(c, i, kind)
    BY <1>8, <1>9 DEF Is
  <1>10. ASSUME NEW k \in 1..(n - sent)
         PROVE  /\ Is(t, Len(c) + k, "output") /\ t[Len(c) + k].n = sent + k
                /\ t[Len(c) + k].id = observations[sent + k]
    BY <1>4, <1>8, <1>10 DEF Is
  <1>11. ASSUME NEW m \in 1..n, m <= sent => Carries(c, m) PROVE Carries(t, m)
    <2>1. CASE m <= sent
      <3>1. PICK i \in 1..Len(c) : Is(c, i, "output") /\ c[i].n = m
        BY <1>11, <2>1 DEF Carries
      <3>. QED  BY <1>8, <1>9, <3>1 DEF Carries
    <2>2. CASE ~(m <= sent)
      <3>1. m - sent \in 1..(n - sent) /\ sent + (m - sent) = m
        BY <1>2, <2>2
      <3>2. Len(c) + (m - sent) \in 1..Len(t)
        BY <1>8, <3>1
      <3>3. Is(t, Len(c) + (m - sent), "output") /\ t[Len(c) + (m - sent)].n = m
        BY <1>10, <3>1
      <3>. QED  BY <3>2, <3>3 DEF Carries
    <2>. QED  BY <2>1, <2>2
  <1>12. NewestOutputs(t, n)
    <2>1. ASSUME NEW i \in 1..Len(t), NEW j \in 1..Len(t), i < j, Is(t, i, "output"), Is(t, j, "output")
          PROVE  t[i].n < t[j].n
      <3>1. CASE j \in 1..Len(c)
        <4>1. i \in 1..Len(c)
          BY <1>1, <2>1, <3>1
        <4>2. Is(c, i, "output") /\ Is(c, j, "output") /\ t[i] = c[i] /\ t[j] = c[j]
          BY <1>8, <1>9, <2>1, <3>1, <4>1
        <4>. QED  BY <2>1, <3>1, <4>1, <4>2 DEF Fits, NewestOutputs
      <3>2. ASSUME NEW k \in 1..(n - sent), j = Len(c) + k PROVE t[i].n < t[j].n
        <4>1. t[j].n = sent + k
          BY <1>10, <3>2
        <4>2. CASE i \in 1..Len(c)
          <5>1. Is(c, i, "output") /\ t[i] = c[i]
            BY <1>8, <1>9, <2>1, <4>2
          <5>2. c[i].n \in 1..sent
            BY <4>2, <5>1 DEF Fits, NewestOutputs
          <5>. QED  BY <1>2, <4>1, <5>1, <5>2
        <4>3. ASSUME NEW l \in 1..(n - sent), i = Len(c) + l PROVE t[i].n < t[j].n
          <5>1. t[i].n = sent + l
            BY <1>10, <4>3
          <5>. QED  BY <1>1, <1>2, <2>1, <3>2, <4>1, <4>3, <5>1
        <4>. QED  BY <1>8, <4>2, <4>3
      <3>. QED  BY <1>8, <3>1, <3>2
    <2>2. ASSUME NEW i \in 1..Len(t), Is(t, i, "output")
          PROVE  t[i].n \in 1..n /\ \A m \in (t[i].n)..n : Carries(t, m)
      <3>1. CASE i \in 1..Len(c)
        <4>1. Is(c, i, "output") /\ t[i] = c[i]
          BY <1>8, <1>9, <2>2, <3>1
        <4>2. c[i].n \in 1..sent /\ \A m \in (c[i].n)..sent : Carries(c, m)
          BY <3>1, <4>1 DEF Fits, NewestOutputs
        <4>3. ASSUME NEW m \in (c[i].n)..n PROVE Carries(t, m)
          <5>1. m \in 1..n /\ (m <= sent => m \in (c[i].n)..sent)
            BY <1>2, <4>2
          <5>. QED  BY <1>11, <4>2, <5>1
        <4>4. t[i].n \in 1..n
          BY <1>2, <4>1, <4>2
        <4>. QED  BY <4>1, <4>3, <4>4
      <3>2. ASSUME NEW k \in 1..(n - sent), i = Len(c) + k
            PROVE  t[i].n \in 1..n /\ \A m \in (t[i].n)..n : Carries(t, m)
        <4>1. t[i].n = sent + k /\ sent + k \in 1..n
          BY <1>2, <1>10, <3>2
        <4>2. ASSUME NEW m \in (sent + k)..n PROVE Carries(t, m)
          <5>1. m \in 1..n /\ ~(m <= sent)
            BY <1>2
          <5>. QED  BY <1>11, <5>1
        <4>. QED  BY <4>1, <4>2
      <3>. QED  BY <1>8, <2>2, <3>1, <3>2
    <2>. QED  BY <2>1, <2>2 DEF NewestOutputs
  <1>13. AnsweredBut(t, {})
    <2> SUFFICES ASSUME NEW i \in 1..Len(t), Is(t, i, "call")
                 PROVE  \E j \in (i + 1)..Len(t) : Is(t, j, "output") /\ t[j].id = Strip[t[i].id]
      BY DEF AnsweredBut
    <2>1. i \in 1..Len(c)
      <3>1. ASSUME NEW k \in 1..(n - sent), i = Len(c) + k PROVE FALSE
        BY <1>10, <3>1 DEF Is
      <3>. QED  BY <1>8, <3>1
    <2>2. Is(c, i, "call") /\ t[i] = c[i]
      BY <1>8, <1>9, <2>1
    <2>3. CASE Strip[c[i].id] \in Open
      <3>1. PICK k \in 1..(n - sent) : Strip[c[i].id] = observations[sent + k]
        BY <1>5, <2>3
      <3>2. Len(c) + k \in (i + 1)..Len(t)
        BY <1>1, <1>2, <1>8, <2>1
      <3>. QED  BY <1>10, <2>2, <3>1, <3>2
    <2>4. CASE Strip[c[i].id] \notin Open
      <3>1. PICK j \in (i + 1)..Len(c) : Is(c, j, "output") /\ c[j].id = Strip[c[i].id]
        BY <2>1, <2>2, <2>4 DEF Fits, AnsweredBut
      <3>2. j \in 1..Len(c) /\ j \in (i + 1)..Len(t)
        BY <1>1, <1>2, <1>8, <2>1, <3>1
      <3>3. Is(t, j, "output") /\ t[j] = c[j]
        BY <1>8, <1>9, <3>1, <3>2
      <3>. QED  BY <2>2, <3>1, <3>2, <3>3
    <2>. QED  BY <2>3, <2>4
  <1>14. ASSUME lossless PROVE NothingLost(t, n, {})
    <2>1. NothingLost(c, sent, Open)
      BY <1>14 DEF Fits
    <2>2. ASSUME NEW m \in 1..n PROVE Carries(t, m)
      <3>1. m <= sent => m \in 1..sent
        BY <1>2
      <3>. QED  BY <1>11, <2>1, <3>1 DEF NothingLost
    <2>3. ASSUME NEW j \in 1..Len(t), Is(t, j, "output") PROVE CalledBefore(t, j, t[j].id)
      <3>1. CASE j \in 1..Len(c)
        <4>1. Is(c, j, "output") /\ t[j] = c[j]
          BY <1>8, <1>9, <2>3, <3>1
        <4>2. PICK i \in 1..Len(c) : i < j /\ Is(c, i, "call") /\ Strip[c[i].id] = c[j].id
          BY <2>1, <3>1, <4>1 DEF NothingLost, CalledBefore
        <4>3. i \in 1..Len(t) /\ Is(t, i, "call") /\ t[i] = c[i]
          BY <1>8, <1>9, <4>2
        <4>. QED  BY <4>1, <4>2, <4>3 DEF CalledBefore
      <3>2. ASSUME NEW k \in 1..(n - sent), j = Len(c) + k PROVE CalledBefore(t, j, t[j].id)
        <4>1. sent + k \in (sent + 1)..n
          BY <1>2
        <4>2. t[j].id = observations[sent + k] /\ observations[sent + k] \in Open
          BY <1>6, <1>10, <3>2, <4>1
        <4>3. PICK i \in 1..Len(c) : Is(c, i, "call") /\ Strip[c[i].id] = t[j].id
          BY <2>1, <4>2 DEF NothingLost, CalledBefore
        <4>4. i \in 1..Len(t) /\ Is(t, i, "call") /\ t[i] = c[i] /\ i < j
          BY <1>1, <1>8, <1>9, <3>2, <4>3
        <4>. QED  BY <4>3, <4>4 DEF CalledBefore
      <3>. QED  BY <1>8, <2>3, <3>1, <3>2
    <2>. QED  BY <2>2, <2>3 DEF NothingLost
  <1>15. ASSUME AnchorsSuffice PROVE Leads(t)
    <2>1. Leads(c)
      BY <1>15 DEF Fits
    <2>2. PICK K : K = ConversationItems
      OBVIOUS
    <2>3. Len(K) \in Nat /\ Len(K) <= Len(c) /\ \A i \in 1..Len(K) : c[i] = K[i]
      BY <2>1, <2>2, ConversationFits DEF Leads
    <2>4. Len(K) <= Len(t) /\ \A i \in 1..Len(K) : t[i] = K[i]
      BY <1>1, <1>2, <1>8, <2>3
    <2>. QED  BY <2>2, <2>4 DEF Leads
  <1>16. Fits(t, n, {}, lossless)
    BY <1>8, <1>12, <1>13, <1>14, <1>15, Zenon DEF Fits
  <1>17. Fits(c \o Unsent, n, {}, lossless)
    BY <1>3, <1>7, <1>16, Zenon
  <1>. QED  BY <1>3, <1>4, <1>17, Zenon DEF n

\* More steps never allow fewer calls.
LEMMA CallBudget ==
    ASSUME NEW a \in Nat, NEW b \in Nat, NEW m \in Nat, a <= b
    PROVE  a * m \in Nat /\ b * m \in Nat /\ a * m <= b * m /\ (a + 1) * m = a * m + m
  <1>1. b = a + (b - a) /\ b - a \in Nat
    OBVIOUS
  <1>2. (b - a) * m \in Nat /\ a * m \in Nat
    BY <1>1
  <1>3. PICK d \in Nat : d = b - a
    BY <1>1
  <1>4. (a + d) * m = a * m + d * m
    OBVIOUS
  <1>. QED  BY <1>1, <1>2, <1>3, <1>4

\* The context the next request extends is never empty.
LEMMA BaseIs ==
    ASSUME TypeOK
    PROVE  Base \in Seq(Items) /\ Len(Base) \in 1..MaxItems /\ Base # <<>>
  <1>1. CASE items = <<>>
    BY <1>1, ConversationFits DEF Base
  <1>2. CASE items # <<>>
    <2>1. items \in Seq(Items) /\ Len(items) <= MaxItems /\ Len(items) \in Nat
      BY LenProperties DEF TypeOK
    <2>2. Len(items) # 0
      BY <1>2, <2>1, EmptySeq
    <2>. QED  BY <1>2, <2>1, <2>2, ContextAssumption DEF Base
  <1>. QED  BY <1>1, <1>2

\* What a response brings are items.
LEMMA NewItems ==
    /\ OtherItem \in Items /\ OtherItem.kind = "other"
    /\ \A id \in CallIds : /\ CallItem(id) \in Items /\ CallItem(id).kind = "call"
                           /\ CallItem(id).id = id
  <1>1. MaxSteps * MaxCalls \in Nat /\ Len(Conversation) \in Nat
    BY ContextAssumption
  <1>2. 0 \in 0..(Len(Conversation) + MaxSteps * MaxCalls)
    BY <1>1
  <1>. QED  BY <1>2 DEF OtherItem, CallItem, Item, Items

\* A response is appended to the context and the context is cut.
LEMMA ExtendKeeps ==
    ASSUME TypeOK, Fits(Base, sent, Open, lossless), Open = {},
           NEW e \in Seq(Items), NEW complete \in BOOLEAN, NEW wider,
           Extend(e, complete),
           \A k \in 1..Len(e) : \/ e[k].kind = "other"
                                \/ e[k].kind = "call" /\ Strip[e[k].id] \in wider,
           complete => \A id \in wider :
             \E k \in 1..Len(e) : e[k].kind = "call" /\ Strip[e[k].id] = id
    PROVE  /\ items' \in Seq(Items) /\ Len(items') <= MaxItems /\ lossless' \in BOOLEAN
           /\ Fits(Base', sent, wider, lossless')
  <1>1. /\ items \in Seq(Items) /\ Len(items) <= MaxItems /\ sent \in Nat /\ lossless \in BOOLEAN
        /\ Base \in Seq(Items) /\ Len(Base) \in 1..MaxItems /\ Base # <<>>
    <2>1. sent \in 0..Len(observations) /\ Len(observations) \in Nat
      BY LenProperties DEF TypeOK
    <2>. QED  BY <2>1, BaseIs DEF TypeOK
  <1>2. PICK b \in Seq(Items) : b = Base
    BY <1>1
  <1>3. PICK still \in BOOLEAN : still = (lossless /\ complete)
    OBVIOUS
  <1>4. PICK c : c = b \o e
    OBVIOUS
  <1>5. Fits(c, sent, wider, still)
    <2>1. PICK open, n, whole : open = Open /\ n = sent /\ whole = lossless
      OBVIOUS
    <2>2. /\ Fits(b, n, open, whole) /\ (still => whole) /\ (still => complete)
          /\ open = {} /\ n \in Nat /\ whole \in BOOLEAN
      BY <1>1, <1>2, <1>3, <2>1, Zenon
    <2>3. still => \A id \in wider :
            id \in open \/ \E k \in 1..Len(e) : e[k].kind = "call" /\ Strip[e[k].id] = id
      BY <2>2
    <2>4. open \subseteq wider
      BY <2>2
    <2>5. Fits(b \o e, n, wider, still)
      BY <2>2, <2>3, <2>4, OutputFits
    <2>. QED  BY <1>4, <2>1, <2>5, Zenon
  <1>6. /\ items' = Trim(c)
        /\ lossless' = (lossless /\ complete /\ Len(c) <= MaxItems)
    BY <1>2, <1>4, Zenon DEF Extend, Base
  <1>7. c # <<>>
    <2>1. Len(c) = Len(b) + Len(e) /\ Len(b) \in Nat /\ Len(e) \in Nat /\ Len(b) # 0
      BY <1>1, <1>2, <1>4, Behind, LenProperties
    <2>2. c = <<>> => Len(c) = 0
      OBVIOUS
    <2>. QED  BY <2>1, <2>2
  <1>8. /\ Fits(Trim(c), sent, wider, still /\ Len(c) <= MaxItems)
        /\ Len(Trim(c)) <= MaxItems /\ Trim(c) # <<>>
    BY <1>1, <1>5, <1>7, TrimFits
  <1>9. Base' = Trim(c) /\ (still /\ Len(c) <= MaxItems) = lossless' /\ lossless' \in BOOLEAN
    <2>1. Base' = IF items' = <<>> THEN ConversationItems ELSE items'
      BY DEF Base
    <2>. QED  BY <1>3, <1>6, <1>8, <2>1, Zenon
  <1>10. Fits(Base', sent, wider, lossless')
    BY <1>8, <1>9, Zenon
  <1>11. items' \in Seq(Items)
    BY <1>6, <1>8 DEF Fits
  <1>. QED  BY <1>6, <1>8, <1>9, <1>10, <1>11

\* The invariant holds before the first request.
LEMMA ContextInvInit == Init => ContextInv
  <1> SUFFICES ASSUME Init PROVE ContextInv
    OBVIOUS
  <1>1. /\ pc = "build" /\ step = 1 /\ attempt = 1 /\ items = <<>> /\ observations = <<>>
        /\ sent = 0 /\ request = <<>> /\ pending = <<>> /\ lossless = TRUE
    BY DEF Init
  <1>2. /\ 1 \in 1..MaxSteps /\ 1 \in 1..RetryAttempts /\ MaxItems \in Nat
        /\ 1 * MaxCalls \in Nat /\ (1 - 1) * MaxCalls = 0
    BY ContextAssumption
  <1>3. /\ <<>> \in Seq(Items) /\ <<>> \in Seq(CallIds) /\ Len(<<>>) = 0
    OBVIOUS
  <1>4. TypeOK
    BY <1>1, <1>2, <1>3 DEF TypeOK
  <1>5. CountInv
    BY <1>1, <1>2, <1>3 DEF CountInv
  <1>6. RequestInv
    BY <1>1 DEF RequestInv
  <1>7. Open = {} /\ Base = ConversationItems
    BY <1>1, <1>3 DEF Open, Base
  <1>8. Fits(Base, sent, Open, lossless)
    BY <1>1, <1>7, ConversationFits, Zenon
  <1>. QED  BY <1>4, <1>5, <1>6, <1>8 DEF ContextInv

\* Every step keeps the context one that fits.
LEMMA ContextInvStep == ContextInv /\ [Next]_vars => ContextInv'
  <1> SUFFICES ASSUME ContextInv, [Next]_vars PROVE ContextInv'
    OBVIOUS
  <1>1. TypeOK /\ CountInv /\ RequestInv /\ Fits(Base, sent, Open, lossless)
    BY DEF ContextInv
  <1>2. /\ step \in 1..MaxSteps /\ attempt \in 1..RetryAttempts
        /\ items \in Seq(Items) /\ Len(items) <= MaxItems
        /\ request \in Seq(Items) /\ Len(request) <= MaxItems
        /\ observations \in Seq(CallIds) /\ sent \in 0..Len(observations)
        /\ pending \in Seq(CallIds) /\ lossless \in BOOLEAN
        /\ Len(observations) \in Nat /\ Len(pending) \in Nat
        /\ step \in Nat /\ step - 1 \in Nat /\ step <= MaxSteps /\ MaxSteps \in Nat /\ MaxCalls \in Nat
    BY <1>1, LenProperties, ContextAssumption DEF TypeOK
  <1>3. Base \in Seq(Items) /\ Len(Base) \in 1..MaxItems /\ Base # <<>>
    BY <1>1, BaseIs
  <1>4. /\ step * MaxCalls \in Nat /\ (step - 1) * MaxCalls \in Nat
        /\ (step - 1) * MaxCalls + MaxCalls = step * MaxCalls
        /\ step * MaxCalls <= MaxSteps * MaxCalls /\ MaxSteps * MaxCalls \in Nat
        /\ (step + 1) * MaxCalls = step * MaxCalls + MaxCalls
    <2>1. ((step - 1) + 1) * MaxCalls = (step - 1) * MaxCalls + MaxCalls /\ (step - 1) * MaxCalls \in Nat
      BY <1>2, CallBudget
    <2>2. /\ step * MaxCalls \in Nat /\ MaxSteps * MaxCalls \in Nat
          /\ step * MaxCalls <= MaxSteps * MaxCalls /\ (step + 1) * MaxCalls = step * MaxCalls + MaxCalls
      BY <1>2, CallBudget
    <2>3. (step - 1) + 1 = step
      BY <1>2
    <2>. QED  BY <2>1, <2>2, <2>3
  <1>5. /\ Len(observations) + Len(pending) <= step * MaxCalls
        /\ pc \in {"build", "sent"} =>
             pending = <<>> /\ Len(observations) <= (step - 1) * MaxCalls
    BY <1>1 DEF CountInv
  <1>6. pc = "sent" => Open = {}
    <2> SUFFICES ASSUME pc = "sent" PROVE Open = {}
      OBVIOUS
    <2>1. sent = Len(observations) /\ pending = <<>>
      BY <1>1, <1>5 DEF RequestInv
    <2>2. (sent + 1)..Len(observations) = {} /\ 1..Len(pending) = {}
      BY <1>2, <2>1
    <2>. QED  BY <2>2 DEF Open
  <1>7. CASE BuildInput
    <2>1. /\ pc = "build" /\ pc' = "sent" /\ step' = step /\ attempt' = attempt
          /\ observations' = observations /\ pending' = pending /\ pending = <<>>
      BY <1>5, <1>7 DEF BuildInput
    <2>2. /\ Unsent \in Seq(Items)
          /\ Fits(Base \o Unsent, Len(observations), {}, lossless)
      <3>1. Len(observations) <= MaxSteps * MaxCalls
        BY <1>2, <1>4, <1>5, <2>1, SMTT(30)
      <3>. QED  BY <1>1, <2>1, <3>1, UnsentFits
    <2>3. /\ sent' = Len(observations)
          /\ items' \in Seq(Items) /\ Len(items') <= MaxItems /\ lossless' \in BOOLEAN
          /\ request' = Base' /\ Fits(Base', sent', {}, lossless')
      <3>1. CASE items # <<>> \/ Unsent # <<>>
        <4>1. PICK c : c = Base \o Unsent
          OBVIOUS
        <4>2. /\ items' = Trim(c) /\ request' = items' /\ sent' = Len(observations)
              /\ lossless' = (lossless /\ Len(c) <= MaxItems)
          BY <1>7, <3>1, <4>1, Zenon DEF BuildInput, Base, MarkSent
        <4>3. c # <<>>
          <5>1. Len(c) = Len(Base) + Len(Unsent) /\ Len(Unsent) \in Nat
            BY <1>3, <2>2, <4>1, Behind, LenProperties
          <5>2. c = <<>> => Len(c) = 0
            OBVIOUS
          <5>. QED  BY <1>3, <5>1, <5>2
        <4>4. /\ Fits(Trim(c), Len(observations), {}, lossless /\ Len(c) <= MaxItems)
              /\ Len(Trim(c)) <= MaxItems /\ Trim(c) # <<>>
          <5>1. PICK n, whole : n = Len(observations) /\ whole = lossless
            OBVIOUS
          <5>2. n \in Nat /\ whole \in BOOLEAN /\ Fits(c, n, {}, whole)
            BY <1>2, <2>2, <4>1, <5>1, Zenon
          <5>3. /\ Fits(Trim(c), n, {}, whole /\ Len(c) <= MaxItems)
                /\ Len(Trim(c)) <= MaxItems /\ Trim(c) # <<>>
            BY <4>3, <5>2, TrimFits
          <5>. QED  BY <5>1, <5>3, Zenon
        <4>5. Base' = Trim(c)
          <5>1. Base' = IF items' = <<>> THEN ConversationItems ELSE items'
            BY DEF Base
          <5>. QED  BY <4>2, <4>4, <5>1, Zenon
        <4>6. Fits(Base', sent', {}, lossless') /\ request' = Base'
          BY <4>2, <4>4, <4>5, Zenon
        <4>7. Trim(c) \in Seq(Items)
          BY <4>4 DEF Fits
        <4>. QED  BY <1>2, <4>2, <4>4, <4>6, <4>7
      <3>2. CASE ~(items # <<>> \/ Unsent # <<>>)
        <4>1. /\ request' = (IF Conversation = <<>> THEN <<Goal>> ELSE Trim(ConversationItems))
              /\ items' = items /\ sent' = sent /\ lossless' = lossless
          BY <1>7, <3>2, Zenon DEF BuildInput
        <4>2. Base = ConversationItems /\ Base' = ConversationItems
          BY <3>2, <4>1 DEF Base
        <4>3. request' = ConversationItems
          <5>1. /\ ConversationItems \in Seq(Items) /\ Len(ConversationItems) <= MaxItems
                /\ Conversation = <<>> => ConversationItems = <<Goal>>
            BY ConversationItemsAre, ContextAssumption
          <5>2. Trim(ConversationItems) = ConversationItems
            BY <5>1 DEF Trim
          <5>. QED  BY <4>1, <5>1, <5>2, Zenon
        <4>4. sent = Len(observations)
          <5>1. Len(observations) - sent \in Nat
            BY <1>2
          <5>2. Len(Unsent) = Len(observations) - sent
            BY <5>1 DEF Unsent
          <5>3. Len(Unsent) = 0
            BY <3>2
          <5>. QED  BY <1>2, <5>2, <5>3
        <4>5. Open = {}
          <5>1. (sent + 1)..Len(observations) = {} /\ 1..Len(pending) = {}
            BY <1>2, <2>1, <4>4
          <5>. QED  BY <5>1 DEF Open
        <4>6. Fits(Base', sent', {}, lossless')
          BY <1>1, <4>1, <4>2, <4>5, Zenon
        <4>. QED  BY <1>2, <4>1, <4>2, <4>3, <4>4, <4>6
      <3>. QED  BY <3>1, <3>2
    <2>4. Open' = {}
      <3>1. Open' = {observations'[n] : n \in (sent' + 1)..Len(observations')}
                    \cup {pending'[k] : k \in 1..Len(pending')}
        BY DEF Open
      <3>2. (sent' + 1)..Len(observations') = {} /\ 1..Len(pending') = {}
        BY <1>2, <2>1, <2>3
      <3>. QED  BY <3>1, <3>2
    <2>5. request' \in Seq(Items) /\ Len(request') <= MaxItems
      <3>1. CASE items' = <<>>
        <4>1. request' = ConversationItems
          BY <2>3, <3>1 DEF Base
        <4>. QED  BY <4>1, ConversationFits
      <3>2. CASE items' # <<>>
        <4>1. request' = items'
          BY <2>3, <3>2 DEF Base
        <4>. QED  BY <2>3, <4>1
      <3>. QED  BY <3>1, <3>2
    <2>6. TypeOK'
      <3>1. sent' \in 0..Len(observations')
        BY <1>2, <2>1, <2>3
      <3>. QED  BY <1>2, <2>1, <2>3, <2>5, <3>1 DEF TypeOK
    <2>7. CountInv'
      BY <1>5, <2>1 DEF CountInv
    <2>8. RequestInv'
      BY <2>1, <2>3 DEF RequestInv
    <2>9. Fits(Base', sent', Open', lossless')
      BY <2>3, <2>4, Zenon
    <2>. QED  BY <2>6, <2>7, <2>8, <2>9 DEF ContextInv
  <1>8. ASSUME pc = "sent", pc' \in {"build", "end"}, Raise \/ UNCHANGED attempt,
               UNCHANGED <<step, observations, sent, request, pending>>,
               items' \in Seq(Items), Len(items') <= MaxItems, lossless' \in BOOLEAN,
               Fits(Base', sent, {}, lossless')
        PROVE  ContextInv'
    <2>1. attempt' \in 1..RetryAttempts
      <3>1. RetryAttempts \in Nat
        BY ContextAssumption
      <3>. QED  BY <1>2, <1>8, <3>1 DEF Raise
    <2>2. TypeOK'
      BY <1>2, <1>8, <2>1 DEF TypeOK
    <2>3. CountInv' /\ RequestInv'
      BY <1>5, <1>8 DEF CountInv, RequestInv
    <2>4. Open' = Open /\ Open = {}
      BY <1>6, <1>8 DEF Open
    <2>5. Fits(Base', sent', Open', lossless')
      BY <1>8, <2>4, Zenon
    <2>. QED  BY <2>2, <2>3, <2>5 DEF ContextInv
  <1>9. CASE ResponseUnusable
    <2>1. /\ pc = "sent" /\ Raise /\ pc' \in {"build", "end"}
          /\ UNCHANGED <<step, items, observations, sent, request, pending, lossless>>
      BY <1>9 DEF ResponseUnusable, Raise
    <2>2. Base' = Base /\ Open = {}
      BY <1>6, <2>1 DEF Base
    <2>3. Fits(Base', sent, {}, lossless')
      BY <1>1, <2>1, <2>2, Zenon
    <2>. QED  BY <1>2, <1>8, <2>1, <2>3
  <1>10. CASE ResponseWithoutCall
    <2>1. /\ pc = "sent" /\ (Raise \/ UNCHANGED attempt) /\ pc' \in {"build", "end"}
          /\ UNCHANGED <<step, observations, sent, request, pending>>
      BY <1>10 DEF ResponseWithoutCall, Raise
    <2>2. Open = {}
      BY <1>6, <2>1
    <2>3. CASE UNCHANGED <<items, lossless>>
      <3>1. Base' = Base
        BY <2>3 DEF Base
      <3>2. Fits(Base', sent, {}, lossless')
        BY <1>1, <2>2, <2>3, <3>1, Zenon
      <3>. QED  BY <1>2, <1>8, <2>1, <2>3, <3>2
    <2>4. ASSUME NEW e \in {<<>>, <<OtherItem>>}, Extend(e, TRUE)
          PROVE  ContextInv'
      <3>1. e \in Seq(Items) /\ \A k \in 1..Len(e) : e[k].kind = "other"
        <4>1. <<>> \in Seq(Items) /\ Len(<<>>) = 0
          OBVIOUS
        <4>2. OtherItem \in Items /\ OtherItem.kind = "other"
          BY NewItems
        <4>3. /\ <<OtherItem>> \in Seq(Items) /\ Len(<<OtherItem>>) = 1
              /\ <<OtherItem>>[1] = OtherItem
          BY <4>2
        <4>4. CASE e = <<>>
          BY <4>1, <4>4
        <4>5. CASE e = <<OtherItem>>
          <5>1. \A k \in 1..Len(e) : k = 1
            BY <4>3, <4>5
          <5>. QED  BY <4>2, <4>3, <4>5, <5>1
        <4>. QED  BY <2>4, <4>4, <4>5
      <3>2. PICK complete \in BOOLEAN : complete = TRUE
        OBVIOUS
      <3>3. Extend(e, complete)
        BY <2>4, <3>2, Zenon
      <3>4. /\ items' \in Seq(Items) /\ Len(items') <= MaxItems /\ lossless' \in BOOLEAN
            /\ Fits(Base', sent, {}, lossless')
        BY <1>1, <2>2, <3>1, <3>3, ExtendKeeps
      <3>. QED  BY <1>8, <2>1, <3>4
    <2>. QED  BY <1>10, <2>3, <2>4 DEF ResponseWithoutCall
  <1>11. CASE ResponseWithCalls
    <2>1. PICK calls \in CallLists : \E kept \in Serialized(calls) :
            /\ Extend([k \in DOMAIN kept |->
                         IF kept[k] = 0 THEN OtherItem ELSE CallItem(calls[kept[k]])],
                      \A i \in DOMAIN calls : \E k \in DOMAIN kept : kept[k] = i)
            /\ pending' = [i \in DOMAIN calls |-> Strip[calls[i]]]
            /\ pc' = IF Distinct(calls) THEN "execute" ELSE "end"
      BY <1>11 DEF ResponseWithCalls
    <2>2. /\ pc = "sent" /\ pc' \in {"execute", "end"}
          /\ UNCHANGED <<step, attempt, observations, sent, request>>
      BY <1>11, <2>1 DEF ResponseWithCalls
    <2>3. PICK n \in 1..MaxCalls : calls \in [1..n -> CallIds]
      BY DEF CallLists
    <2>4. /\ DOMAIN calls = 1..n /\ n \in Nat /\ n <= MaxCalls
          /\ \A i \in 1..n : calls[i] \in CallIds /\ Strip[calls[i]] \in CallIds
      BY <1>2, <2>3, ContextAssumption
    <2>5. PICK wider : wider = {Strip[calls[i]] : i \in 1..n}
      OBVIOUS
    <2>6. PICK kept \in Serialized(calls) :
            Extend([k \in DOMAIN kept |->
                      IF kept[k] = 0 THEN OtherItem ELSE CallItem(calls[kept[k]])],
                   \A i \in DOMAIN calls : \E k \in DOMAIN kept : kept[k] = i)
      BY <2>1
    <2>7. PICK size \in Nat : kept \in [1..size -> 0..n]
      <3>1. Len(calls) = n
        BY <2>3, <2>4
      <3>. QED  BY <2>6, <3>1 DEF Serialized
    <2>8. PICK e : e = [k \in 1..size |->
                          IF kept[k] = 0 THEN OtherItem ELSE CallItem(calls[kept[k]])]
      OBVIOUS
    <2>complete. PICK complete \in BOOLEAN :
                   complete = \A i \in 1..n : \E k \in 1..size : kept[k] = i
      OBVIOUS
    <2>extended. Extend(e, complete)
      BY <2>4, <2>6, <2>7, <2>8, <2>complete
    <2>9. /\ e \in Seq(Items)
          /\ \A k \in 1..Len(e) : \/ e[k].kind = "other"
                                  \/ e[k].kind = "call" /\ Strip[e[k].id] \in wider
          /\ complete => \A id \in wider :
               \E k \in 1..Len(e) : e[k].kind = "call" /\ Strip[e[k].id] = id
      <3>1. \A k \in 1..size :
              /\ kept[k] = 0 => e[k] = OtherItem
              /\ kept[k] # 0 => kept[k] \in 1..n /\ e[k] = CallItem(calls[kept[k]])
        BY <2>7, <2>8
      <3>2. \A k \in 1..size : e[k] \in Items
        BY <2>4, <3>1, NewItems
      <3>3. e \in Seq(Items) /\ Len(e) = size
        BY <2>7, <2>8, <3>2
      <3>4. ASSUME NEW k \in 1..size
            PROVE  \/ e[k].kind = "other"
                   \/ e[k].kind = "call" /\ Strip[e[k].id] \in wider
        BY <2>4, <2>5, <3>1, NewItems
      <3>5. ASSUME complete, NEW id \in wider
            PROVE  \E k \in 1..size : e[k].kind = "call" /\ Strip[e[k].id] = id
        <4>1. PICK i \in 1..n : id = Strip[calls[i]]
          BY <2>5
        <4>2. PICK k \in 1..size : kept[k] = i
          BY <2>complete, <3>5
        <4>. QED  BY <2>4, <3>1, <4>1, <4>2, NewItems
      <3>. QED  BY <3>3, <3>4, <3>5
    <2>10. /\ items' \in Seq(Items) /\ Len(items') <= MaxItems /\ lossless' \in BOOLEAN
           /\ Fits(Base', sent, wider, lossless')
      <3>1. Open = {}
        BY <1>6, <2>2
      <3>. QED  BY <1>1, <2>extended, <2>9, <3>1, ExtendKeeps
    <2>11. pending' \in Seq(CallIds) /\ Len(pending') = n /\ \A k \in 1..n : pending'[k] = Strip[calls[k]]
      <3>1. pending' = [i \in 1..n |-> Strip[calls[i]]]
        BY <2>1, <2>4
      <3>. QED  BY <2>4, <3>1
    <2>12. Open' = wider
      <3>1. Open' = {observations'[m] : m \in (sent' + 1)..Len(observations')}
                    \cup {pending'[k] : k \in 1..Len(pending')}
        BY DEF Open
      <3>2. sent' = Len(observations')
        BY <1>1, <2>2 DEF RequestInv
      <3>3. (sent' + 1)..Len(observations') = {}
        BY <1>2, <2>2, <3>2
      <3>4. {pending'[k] : k \in 1..Len(pending')} = wider
        BY <2>5, <2>11
      <3>. QED  BY <3>1, <3>3, <3>4
    <2>13. TypeOK'
      BY <1>2, <2>2, <2>10, <2>11 DEF TypeOK
    <2>14. CountInv' /\ RequestInv'
      BY <1>2, <1>4, <1>5, <2>2, <2>4, <2>11 DEF CountInv, RequestInv
    <2>15. Fits(Base', sent', Open', lossless')
      BY <2>2, <2>10, <2>12, Zenon
    <2>. QED  BY <2>13, <2>14, <2>15 DEF ContextInv
  <1>12. CASE ExecuteCall
    <2>1. /\ pc = "execute" /\ pending # <<>> /\ pc' \in {"execute", "end"}
          /\ observations' = Append(observations, Head(pending)) /\ pending' = Tail(pending)
          /\ UNCHANGED <<step, attempt, items, sent, request, lossless>>
      BY <1>12 DEF ExecuteCall, Refused
    <2>2. /\ Len(pending) >= 1 /\ Head(pending) = pending[1] /\ Head(pending) \in CallIds
          /\ pending' \in Seq(CallIds) /\ Len(pending') = Len(pending) - 1
          /\ \A k \in 1..(Len(pending) - 1) : pending'[k] = pending[k + 1]
      BY <1>2, <2>1, HeadTailProperties, EmptySeq
    <2>3. /\ observations' \in Seq(CallIds) /\ Len(observations') = Len(observations) + 1
          /\ \A m \in 1..Len(observations) : observations'[m] = observations[m]
          /\ observations'[Len(observations) + 1] = pending[1]
      BY <1>2, <2>1, <2>2, AppendProperties
    <2>4. Open' = Open
      <3>1. Open' = {observations'[m] : m \in (sent' + 1)..Len(observations')}
                    \cup {pending'[k] : k \in 1..Len(pending')}
        BY DEF Open
      <3>2. ASSUME NEW id \in Open PROVE id \in Open'
        <4>1. CASE \E m \in (sent + 1)..Len(observations) : id = observations[m]
          <5>1. PICK m \in (sent + 1)..Len(observations) : id = observations[m]
            BY <4>1
          <5>2. m \in 1..Len(observations) /\ m \in (sent' + 1)..Len(observations')
            BY <1>2, <2>1, <2>3
          <5>. QED  BY <2>3, <3>1, <5>1, <5>2
        <4>2. CASE \E k \in 1..Len(pending) : id = pending[k]
          <5>1. PICK k \in 1..Len(pending) : id = pending[k]
            BY <4>2
          <5>2. CASE k = 1
            <6>1. Len(observations) + 1 \in (sent' + 1)..Len(observations')
              BY <1>2, <2>1, <2>3
            <6>. QED  BY <2>3, <3>1, <5>1, <5>2, <6>1
          <5>3. CASE k # 1
            <6>1. /\ k - 1 \in 1..(Len(pending) - 1) /\ (k - 1) + 1 = k
                  /\ k - 1 \in 1..Len(pending')
              BY <1>2, <2>2, <5>3
            <6>. QED  BY <2>2, <3>1, <5>1, <6>1
          <5>. QED  BY <5>2, <5>3
        <4>. QED  BY <3>2, <4>1, <4>2 DEF Open
      <3>3. ASSUME NEW id \in Open' PROVE id \in Open
        <4>1. CASE \E m \in (sent' + 1)..Len(observations') : id = observations'[m]
          <5>1. PICK m \in (sent' + 1)..Len(observations') : id = observations'[m]
            BY <4>1
          <5>2. CASE m = Len(observations) + 1
            <6>1. id = pending[1] /\ 1 \in 1..Len(pending)
              BY <1>2, <2>2, <2>3, <5>1, <5>2
            <6>. QED  BY <6>1 DEF Open
          <5>3. CASE m # Len(observations) + 1
            <6>1. m \in (sent + 1)..Len(observations) /\ m \in 1..Len(observations)
              BY <1>2, <2>1, <2>3, <5>3
            <6>. QED  BY <2>3, <5>1, <6>1 DEF Open
          <5>. QED  BY <5>2, <5>3
        <4>2. CASE \E k \in 1..Len(pending') : id = pending'[k]
          <5>1. PICK k \in 1..Len(pending') : id = pending'[k]
            BY <4>2
          <5>2. k \in 1..(Len(pending) - 1) /\ k + 1 \in 1..Len(pending)
            BY <1>2, <2>2
          <5>3. id = pending[k + 1]
            BY <2>2, <5>1, <5>2
          <5>. QED  BY <5>2, <5>3 DEF Open
        <4>. QED  BY <3>1, <3>3, <4>1, <4>2
      <3>. QED  BY <3>2, <3>3
    <2>5. Base' = Base
      BY <2>1 DEF Base
    <2>6. TypeOK'
      <3>1. sent' \in 0..Len(observations')
        BY <1>2, <2>1, <2>3
      <3>. QED  BY <1>2, <2>1, <2>2, <2>3, <3>1 DEF TypeOK
    <2>7. CountInv' /\ RequestInv'
      BY <1>2, <1>5, <2>1, <2>2, <2>3 DEF CountInv, RequestInv
    <2>8. Fits(Base', sent', Open', lossless')
      BY <1>1, <2>1, <2>4, <2>5, Zenon
    <2>. QED  BY <2>6, <2>7, <2>8 DEF ContextInv
  <1>13. CASE NextStep
    <2>1. /\ pc = "execute" /\ pending = <<>> /\ pc' \in {"build", "end"}
          /\ \/ pc' = "build" /\ step < MaxSteps /\ step' = step + 1 /\ attempt' = 1
             \/ pc' = "end" /\ step' = step /\ attempt' = attempt
          /\ UNCHANGED <<items, observations, sent, request, pending, lossless>>
      BY <1>13 DEF NextStep
    <2>2. TypeOK'
      <3>1. 1 \in 1..RetryAttempts
        BY ContextAssumption
      <3>. QED  BY <1>2, <2>1, <3>1 DEF TypeOK
    <2>3. CountInv' /\ RequestInv'
      <3>1. Len(pending) = 0
        BY <2>1
      <3>2. CASE pc' = "build"
        <4>1. step' = step + 1 /\ (step + 1) - 1 = step
          BY <1>2, <2>1, <3>2
        <4>. QED  BY <1>2, <1>4, <1>5, <2>1, <3>1, <3>2, <4>1 DEF CountInv, RequestInv
      <3>3. CASE pc' = "end"
        <4>1. step' = step
          BY <2>1, <3>3
        <4>. QED  BY <1>5, <2>1, <3>3, <4>1 DEF CountInv, RequestInv
      <3>. QED  BY <2>1, <3>2, <3>3
    <2>4. Base' = Base /\ Open' = Open
      BY <2>1 DEF Base, Open
    <2>5. Fits(Base', sent', Open', lossless')
      BY <1>1, <2>1, <2>4, Zenon
    <2>. QED  BY <2>2, <2>3, <2>5 DEF ContextInv
  <1>14. CASE UNCHANGED vars
    BY <1>14 DEF vars, ContextInv, TypeOK, CountInv, RequestInv, Base, Open
  <1>15. CASE Ended
    BY <1>14, <1>15 DEF Ended
  <1>. QED  BY <1>7, <1>9, <1>10, <1>11, <1>12, <1>13, <1>14, <1>15 DEF Next

\* The invariant holds in every request.
LEMMA ContextInvariant == Spec => []ContextInv
  BY ContextInvInit, ContextInvStep, PTL DEF Spec

-----------------------------------------------------------------------------
(***************************************************************************)
(* The theorems.                                                           *)
(***************************************************************************)
\* The state of the client has its types and no request is longer than the
\* limit.
THEOREM ContextTypeCorrect == Spec => []TypeOK
  BY ContextInvariant, PTL DEF ContextInv

\* An output that the context holds is there once, in the order of the
\* observations, and none between it and the newest is missing.
THEOREM EveryOutputIsSentOnce == Spec => []OutputsSentOnce
  <1>1. ContextInv => OutputsSentOnce
    <2> SUFFICES ASSUME ContextInv PROVE OutputsSentOnce
      OBVIOUS
    <2>1. Fits(Base, sent, Open, lossless) /\ items \in Seq(Items)
      BY DEF ContextInv, TypeOK
    <2>2. CASE items = <<>>
      <3>1. Outputs = {}
        BY <2>2 DEF Outputs
      <3>2. ASSUME lossless, NEW n \in 1..sent PROVE FALSE
        <4>1. PICK c : c = ConversationItems
          OBVIOUS
        <4>2. Carries(c, n)
          BY <2>1, <2>2, <3>2, <4>1 DEF Base, Fits, NothingLost
        <4>3. PICK i \in 1..Len(c) : c[i].kind = "output"
          BY <4>2 DEF Carries, Is
        <4>4. /\ Len(c) \in Nat /\ c[Len(c)] = Goal
              /\ \A k \in 1..(Len(c) - 1) : c[k].kind = "turn"
          BY <4>1, ConversationItemsAre, LenProperties
        <4>5. i = Len(c) \/ i \in 1..(Len(c) - 1)
          BY <4>4
        <4>. QED  BY <4>3, <4>4, <4>5 DEF Goal, Item
      <3>. QED  BY <3>1, <3>2 DEF OutputsSentOnce
    <2>3. CASE items # <<>>
      <3>1. /\ NewestOutputs(items, sent)
            /\ lossless => \A m \in 1..sent : Carries(items, m)
        BY <2>1, <2>3 DEF Base, Fits, NothingLost
      <3>2. \A i : i \in Outputs <=> i \in 1..Len(items) /\ Is(items, i, "output")
        BY <2>1 DEF Outputs, Is
      <3>3. \A m : Holds(m) <=> Carries(items, m)
        BY <3>2 DEF Holds, Carries
      <3>. QED  BY <3>1, <3>2, <3>3 DEF OutputsSentOnce, NewestOutputs
    <2>. QED  BY <2>2, <2>3
  <1>. QED  BY <1>1, ContextInvariant, PTL

\* What the request is, when it was sent.
LEMMA RequestFits ==
    ASSUME ContextInv, pc = "sent"
    PROVE  request \in Seq(Items) /\ Fits(request, sent, {}, lossless)
  <1>1. /\ request = Base /\ sent = Len(observations) /\ pending = <<>>
        /\ request \in Seq(Items) /\ Fits(Base, sent, Open, lossless)
        /\ Len(observations) \in Nat
    BY LenProperties DEF ContextInv, RequestInv, CountInv, TypeOK
  <1>2. Open = {}
    <2>1. (sent + 1)..Len(observations) = {} /\ 1..Len(pending) = {}
      BY <1>1
    <2>. QED  BY <2>1 DEF Open
  <1>. QED  BY <1>1, <1>2, Zenon

\* No request is sent with a function call that nothing behind it answers,
\* whatever was trimmed before.
THEOREM EveryCallIsAnswered == Spec => []CallsAnswered
  <1>1. ContextInv => CallsAnswered
    <2> SUFFICES ASSUME ContextInv, pc = "sent", NEW i \in DOMAIN request, request[i].kind = "call"
                 PROVE  \E j \in (i + 1)..Len(request) :
                          request[j].kind = "output" /\ request[j].id = Strip[request[i].id]
      BY DEF CallsAnswered
    <2>1. request \in Seq(Items) /\ AnsweredBut(request, {})
      BY RequestFits DEF Fits
    <2>2. i \in 1..Len(request) /\ Is(request, i, "call")
      BY <2>1 DEF Is
    <2>3. PICK j \in (i + 1)..Len(request) :
            Is(request, j, "output") /\ request[j].id = Strip[request[i].id]
      BY <2>1, <2>2 DEF AnsweredBut
    <2>. QED  BY <2>3 DEF Is
  <1>. QED  BY <1>1, ContextInvariant, PTL

\* While nothing was lost, no output is sent without the call it answers.
THEOREM EveryOutputAnswersACall == Spec => []OutputsPaired
  <1>1. ContextInv => OutputsPaired
    <2> SUFFICES ASSUME ContextInv, pc = "sent", lossless,
                        NEW j \in DOMAIN request, request[j].kind = "output"
                 PROVE  \E i \in 1..(j - 1) :
                          request[i].kind = "call" /\ Strip[request[i].id] = request[j].id
      BY DEF OutputsPaired
    <2>1. request \in Seq(Items) /\ NothingLost(request, sent, {})
      BY RequestFits DEF Fits
    <2>2. j \in 1..Len(request) /\ Is(request, j, "output") /\ Len(request) \in Nat
      BY <2>1, LenProperties DEF Is
    <2>3. PICK i \in 1..Len(request) :
            i < j /\ Is(request, i, "call") /\ Strip[request[i].id] = request[j].id
      BY <2>1, <2>2 DEF NothingLost, CalledBefore
    <2>4. i \in 1..(j - 1)
      BY <2>2, <2>3
    <2>. QED  BY <2>3, <2>4 DEF Is
  <1>. QED  BY <1>1, ContextInvariant, PTL

\* When the conversation fits into the anchors, the goal leads every request.
THEOREM TheGoalLeads == Spec => []GoalLeads
  <1>1. ContextInv => GoalLeads
    <2> SUFFICES ASSUME ContextInv, pc = "sent", AnchorsSuffice
                 PROVE  \E g \in 1..Len(ConversationItems) :
                          request[g] = Goal /\ \A i \in 1..(g - 1) : request[i].kind = "turn"
      BY DEF GoalLeads
    <2>1. Leads(request)
      BY RequestFits DEF Fits
    <2>2. PICK c : c = ConversationItems
      OBVIOUS
    <2>3. /\ Len(c) \in 1..MaxItems /\ c[Len(c)] = Goal
          /\ \A i \in 1..(Len(c) - 1) : c[i].kind = "turn"
          /\ \A i \in 1..Len(c) : request[i] = c[i]
      BY <2>1, <2>2, ConversationItemsAre DEF Leads
    <2>4. PICK g : g = Len(c)
      OBVIOUS
    <2>5. g \in 1..Len(c) /\ request[g] = Goal
      BY <2>3, <2>4
    <2>6. ASSUME NEW i \in 1..(g - 1) PROVE request[i].kind = "turn"
      <3>1. i \in 1..(Len(c) - 1) /\ i \in 1..Len(c)
        BY <2>3, <2>4
      <3>. QED  BY <2>3, <3>1
    <2>. QED  BY <2>2, <2>5, <2>6
  <1>. QED  BY <1>1, ContextInvariant, PTL
==============================================================================
