---------------------------- MODULE ToolGate_proofs ----------------------------
(***************************************************************************)
(* Proofs about ToolGate and what it is built from: ItemBounds,            *)
(* ToolArguments, ToolRegistry and PermissionPolicy.                       *)
(***************************************************************************)
EXTENDS ToolGate, SequenceTheorems, Counting

(***************************************************************************)
(* ItemBounds: what the loop over a collection has seen after n items.     *)
(***************************************************************************)
SeenItems == [taken : Nat, pending : BOOLEAN, after_pending : Nat]

Nothing == [taken |-> 0, pending |-> FALSE, after_pending |-> 0]

\* One turn of the loop.
More(last, index) ==
    CASE index < ItemLimit - 1 -> [last EXCEPT !.taken = @ + 1]
      [] index = ItemLimit - 1 -> [last EXCEPT !.pending = TRUE]
      [] OTHER -> [last EXCEPT !.after_pending = @ + 1]

\* What a turn of the loop adds, field by field.
LEMMA MoreIs ==
    ASSUME NEW last \in SeenItems, NEW index \in Nat
    PROVE  More(last, index) =
             [taken |-> last.taken + IF index < ItemLimit - 1 THEN 1 ELSE 0,
              pending |-> IF index = ItemLimit - 1 THEN TRUE ELSE last.pending,
              after_pending |-> last.after_pending + IF index > ItemLimit - 1 THEN 1 ELSE 0]
  <1>1. last = [taken |-> last.taken, pending |-> last.pending, after_pending |-> last.after_pending]
        /\ last.taken \in Nat /\ last.after_pending \in Nat /\ ItemLimit - 1 \in Nat
    BY ItemLimitAssumption DEF SeenItems
  <1>2. CASE index < ItemLimit - 1
    <2>1. index # ItemLimit - 1 /\ ~(index > ItemLimit - 1)
      BY <1>1, <1>2
    <2>2. More(last, index) = [last EXCEPT !.taken = @ + 1]
      BY <1>2, <2>1, Zenon DEF More
    <2>. QED  BY <1>1, <1>2, <2>1, <2>2
  <1>3. CASE index = ItemLimit - 1
    <2>1. ~(index < ItemLimit - 1) /\ ~(index > ItemLimit - 1)
      BY <1>1, <1>3
    <2>2. More(last, index) = [last EXCEPT !.pending = TRUE]
      BY <1>3, <2>1, Zenon DEF More
    <2>3. [last EXCEPT !.pending = TRUE] =
            [taken |-> last.taken, pending |-> TRUE, after_pending |-> last.after_pending]
      <3>1. PICK t : t = TRUE
        OBVIOUS
      <3>2. [last EXCEPT !.pending = t] =
              [taken |-> last.taken, pending |-> t, after_pending |-> last.after_pending]
        BY <1>1
      <3>. QED  BY <3>1, <3>2, Zenon
    <2>4. last.taken + 0 = last.taken /\ last.after_pending + 0 = last.after_pending
      BY <1>1
    <2>. QED  BY <1>3, <2>1, <2>2, <2>3, <2>4, Zenon
  <1>4. CASE index > ItemLimit - 1
    <2>1. ~(index < ItemLimit - 1) /\ index # ItemLimit - 1
      BY <1>1, <1>4
    <2>2. More(last, index) = [last EXCEPT !.after_pending = @ + 1]
      BY <2>1, Zenon DEF More
    <2>. QED  BY <1>1, <1>4, <2>1, <2>2
  <1>5. index < ItemLimit - 1 \/ index = ItemLimit - 1 \/ index > ItemLimit - 1
    BY <1>1
  <1>. QED  BY <1>2, <1>3, <1>4, <1>5, Zenon

Counted(n, after) ==
    after = [i \in 0..n |->
               IF i = 0 THEN Nothing
               ELSE LET index == i - 1
                        last == after[index]
                    IN  CASE index < ItemLimit - 1 -> [last EXCEPT !.taken = @ + 1]
                          [] index = ItemLimit - 1 -> [last EXCEPT !.pending = TRUE]
                          [] OTHER -> [last EXCEPT !.after_pending = @ + 1]]

\* What has been seen after i items.
After(i) ==
    [taken |-> IF i < ItemLimit THEN i ELSE ItemLimit - 1,
     pending |-> IF i >= ItemLimit THEN TRUE ELSE FALSE,
     after_pending |-> IF i < ItemLimit THEN 0 ELSE i - ItemLimit]

\* That is what each turn leads to from the one before.
LEMMA AfterMore ==
    ASSUME NEW i \in Nat
    PROVE  /\ After(i) \in SeenItems /\ After(i + 1) = More(After(i), i)
           /\ After(0) = Nothing
  <1>1. ItemLimit \in Nat /\ ItemLimit >= 1
    BY ItemLimitAssumption
  <1>2. After(i) \in SeenItems
    BY <1>1 DEF After, SeenItems
  <1>3. More(After(i), i) =
          [taken |-> After(i).taken + IF i < ItemLimit - 1 THEN 1 ELSE 0,
           pending |-> IF i = ItemLimit - 1 THEN TRUE ELSE After(i).pending,
           after_pending |-> After(i).after_pending + IF i > ItemLimit - 1 THEN 1 ELSE 0]
    BY <1>2, MoreIs
  <1>4. /\ After(i).taken + (IF i < ItemLimit - 1 THEN 1 ELSE 0) = After(i + 1).taken
        /\ (IF i = ItemLimit - 1 THEN TRUE ELSE After(i).pending) = After(i + 1).pending
        /\ After(i).after_pending + (IF i > ItemLimit - 1 THEN 1 ELSE 0) = After(i + 1).after_pending
    BY <1>1 DEF After
  <1>5. After(0) = Nothing
    <2>1. 0 < ItemLimit /\ ~(0 >= ItemLimit)
      BY <1>1
    <2>. QED  BY <2>1, Zenon DEF After, Nothing
  <1>6. After(i + 1) = [taken |-> After(i + 1).taken, pending |-> After(i + 1).pending,
                        after_pending |-> After(i + 1).after_pending]
    BY DEF After
  <1>. QED  BY <1>2, <1>3, <1>4, <1>5, <1>6

\* The function with that recursive definition.
LEMMA CountedIsAfter ==
    ASSUME NEW n \in Nat, NEW after, Counted(n, after)
    PROVE  after[n] = After(n)
  <1> DEFINE S == {i \in Nat : i <= n => after[i] = After(i)}
  <1>1. \A i \in 0..n : after[i] = IF i = 0 THEN Nothing ELSE More(after[i - 1], i - 1)
    BY Zenon DEF Counted, More
  <1>2. 0 \in S
    <2>1. 0 \in 0..n /\ After(0) = Nothing
      BY AfterMore
    <2>. QED  BY <1>1, <2>1
  <1>3. ASSUME NEW i \in Nat, i \in S PROVE i + 1 \in S
    <2> SUFFICES ASSUME i + 1 <= n PROVE after[i + 1] = After(i + 1)
      OBVIOUS
    <2>1. after[i] = After(i) /\ i + 1 \in 0..n /\ (i + 1) - 1 = i /\ i + 1 # 0
      BY <1>3
    <2>. QED  BY <1>1, <2>1, AfterMore
  <1> HIDE DEF S
  <1>4. n \in S
    BY <1>2, <1>3, NumberInduction
  <1>. QED  BY <1>4 DEF S

\* There is such a function.
LEMMA CountedExists == ASSUME NEW n \in Nat PROVE \E after : Counted(n, after)
  <1> DEFINE after == [i \in 0..n |-> After(i)]
  <1>1. ASSUME NEW i \in 0..n
        PROVE  After(i) = IF i = 0 THEN Nothing ELSE More(after[i - 1], i - 1)
    <2>1. CASE i = 0
      BY <2>1, AfterMore
    <2>2. CASE i # 0
      <3>1. i - 1 \in 0..n /\ i - 1 \in Nat /\ (i - 1) + 1 = i
        BY <2>2
      <3>2. After((i - 1) + 1) = More(After(i - 1), i - 1)
        BY <3>1, AfterMore
      <3>. QED  BY <2>2, <3>1, <3>2
    <2>. QED  BY <2>1, <2>2
  <1>2. after = [i \in 0..n |-> IF i = 0 THEN Nothing ELSE More(after[i - 1], i - 1)]
    BY <1>1
  <1> HIDE DEF after
  <1>3. Counted(n, after)
    BY <1>2, Zenon DEF Counted, More
  <1>. QED  BY <1>3

\* Seen in closed form.
LEMMA SeenIs == ASSUME NEW n \in Nat PROVE Seen(n) = After(n)
  <1> DEFINE after == CHOOSE f : Counted(n, f)
  <1>1. Counted(n, after)
    BY CountedExists
  <1>2. Seen(n) = after[n]
    BY Zenon DEF Seen, Counted, Nothing
  <1> HIDE DEF after
  <1>. QED  BY <1>1, <1>2, CountedIsAfter

\* A collection above the limit is cut to it, and its marker counts what is
\* missing and its own place.
Cut(n) == [length |-> ItemLimit, marker |-> [items |-> n, omitted |-> n - ItemLimit + 1]]

\* A pass of the loop cuts what is above the limit and leaves the rest alone.
LEMMA BoundedIs ==
    ASSUME NEW c, c.length \in Nat
    PROVE  Bounded(c) = IF c.length > ItemLimit THEN Cut(c.length) ELSE c
  <1>1. ItemLimit \in Nat /\ ItemLimit >= 1
    BY ItemLimitAssumption
  <1>2. PICK n \in Nat : n = c.length
    OBVIOUS
  <1>3. /\ Seen(n).taken = IF n < ItemLimit THEN n ELSE ItemLimit - 1
        /\ Seen(n).pending = IF n >= ItemLimit THEN TRUE ELSE FALSE
        /\ Seen(n).after_pending = IF n < ItemLimit THEN 0 ELSE n - ItemLimit
    <2>1. Seen(n) = After(n)
      BY SeenIs
    <2>2. /\ After(n).taken = IF n < ItemLimit THEN n ELSE ItemLimit - 1
          /\ After(n).after_pending = IF n < ItemLimit THEN 0 ELSE n - ItemLimit
      BY DEF After
    <2>3. After(n).pending = IF n >= ItemLimit THEN TRUE ELSE FALSE
      BY Zenon DEF After
    <2>. QED  BY <2>1, <2>2, <2>3, Zenon
  <1>4. CASE n > ItemLimit
    <2>1. /\ Seen(n).after_pending > 0 /\ Seen(n).taken + 1 = ItemLimit
          /\ Seen(n).pending /\ Seen(n).after_pending + 1 = n - ItemLimit + 1
      BY <1>1, <1>3, <1>4
    <2>2. Omitted(Seen(n)) = n - ItemLimit + 1
      BY <2>1 DEF Omitted
    <2>. QED  BY <1>2, <1>4, <2>1, <2>2 DEF Bounded, Cut
  <1>5. CASE ~(n > ItemLimit)
    <2>1. ~(Seen(n).after_pending > 0)
      BY <1>1, <1>3, <1>5
    <2>. QED  BY <1>2, <1>5, <2>1 DEF Bounded
  <1>. QED  BY <1>4, <1>5

Doubled(n, omitted) ==
    omitted = [i \in 0..n |-> CASE i <= ItemLimit -> 0
                                [] i = ItemLimit + 1 -> 2
                                [] OTHER -> omitted[i - 1] + 1]

\* The loop over text parts counts the same.
LEMMA TextPartsAre ==
    ASSUME NEW n \in Nat
    PROVE  TextParts(n) = IF n > ItemLimit THEN Cut(n) ELSE Collection(n)
  <1>1. ItemLimit \in Nat /\ ItemLimit >= 1
    BY ItemLimitAssumption
  <1> DEFINE left(i) == IF i <= ItemLimit THEN 0 ELSE i - ItemLimit + 1
             known == [i \in 0..n |-> left(i)]
  <1>2. ASSUME NEW f, NEW i \in Nat, i > ItemLimit + 1 => f[i - 1] = left(i - 1)
        PROVE  left(i) = CASE i <= ItemLimit -> 0
                           [] i = ItemLimit + 1 -> 2
                           [] OTHER -> f[i - 1] + 1
    <2>1. CASE i <= ItemLimit
      <3>1. left(i) = 0 /\ i # ItemLimit + 1
        BY <1>1, <2>1
      <3>. QED  BY <2>1, <3>1, Zenon
    <2>2. CASE i = ItemLimit + 1
      <3>1. left(i) = 2 /\ ~(i <= ItemLimit)
        BY <1>1, <2>2
      <3> HIDE DEF left
      <3>. QED  BY <2>2, <3>1, Zenon
    <2>3. CASE i > ItemLimit + 1
      <3>1. left(i) = f[i - 1] + 1 /\ ~(i <= ItemLimit) /\ i # ItemLimit + 1
        BY <1>1, <1>2, <2>3
      <3> HIDE DEF left
      <3>. QED  BY <3>1, Zenon
    <2>. QED  BY <1>1, <2>1, <2>2, <2>3
  <1>3. Doubled(n, known)
    <2>1. ASSUME NEW i \in 0..n, i > ItemLimit + 1 PROVE known[i - 1] = left(i - 1)
      BY <1>1, <2>1
    <2>2. ASSUME NEW i \in 0..n
          PROVE  left(i) = CASE i <= ItemLimit -> 0
                             [] i = ItemLimit + 1 -> 2
                             [] OTHER -> known[i - 1] + 1
      <3> HIDE DEF left, known
      <3>1. i \in Nat /\ (i > ItemLimit + 1 => known[i - 1] = left(i - 1))
        BY <2>1
      <3>. QED  BY <1>2, <3>1
    <2> HIDE DEF left
    <2>3. known = [i \in 0..n |-> left(i)]
      OBVIOUS
    <2> HIDE DEF known
    <2>. QED  BY <2>2, <2>3, Zenon DEF Doubled
  <1> DEFINE omitted == CHOOSE f : Doubled(n, f)
  <1>4. Doubled(n, omitted)
    <2> HIDE DEF known
    <2>. QED  BY <1>3
  <1>5. TextParts(n) = IF omitted[n] > 0
                       THEN [length |-> ItemLimit, marker |-> [items |-> n, omitted |-> omitted[n]]]
                       ELSE Collection(n)
    BY Zenon DEF TextParts, Doubled
  <1> HIDE DEF omitted, left, known
  <1>6. omitted[n] = left(n)
    <2> DEFINE S == {i \in Nat : i <= n => omitted[i] = left(i)}
    <2>1. ASSUME NEW i \in 0..n
          PROVE  omitted[i] = CASE i <= ItemLimit -> 0
                                [] i = ItemLimit + 1 -> 2
                                [] OTHER -> omitted[i - 1] + 1
      BY <1>4, Zenon DEF Doubled
    <2>2. 0 \in S
      <3>1. 0 \in 0..n /\ 0 \in Nat /\ ~(0 > ItemLimit + 1)
        BY <1>1
      <3>. QED  BY <1>2, <2>1, <3>1
    <2>3. ASSUME NEW i \in Nat, i \in S PROVE i + 1 \in S
      <3> SUFFICES ASSUME i + 1 <= n PROVE omitted[i + 1] = left(i + 1)
        OBVIOUS
      <3>1. omitted[i] = left(i) /\ i + 1 \in 0..n /\ (i + 1) - 1 = i
        BY <2>3
      <3>. QED  BY <1>2, <2>1, <3>1
    <2> HIDE DEF S
    <2>4. n \in S
      BY <2>2, <2>3, NumberInduction
    <2>. QED  BY <2>4 DEF S
  <1>7. CASE n > ItemLimit
    <2>1. left(n) = n - ItemLimit + 1 /\ left(n) > 0
      BY <1>1, <1>7 DEF left
    <2>. QED  BY <1>5, <1>6, <1>7, <2>1 DEF Cut
  <1>8. CASE ~(n > ItemLimit)
    <2>1. ~(left(n) > 0)
      BY <1>1, <1>8 DEF left
    <2>. QED  BY <1>5, <1>6, <1>8, <2>1
  <1>. QED  BY <1>7, <1>8

\* A collection that passes the loops any number of times, from one on.
LEMMA CopiesAre ==
    ASSUME NEW n \in Nat, NEW copy,
           copy \in {Bounded(Collection(n)), Bounded(Bounded(Collection(n))),
                     Bounded(Bounded(Bounded(Collection(n)))), TextParts(n)}
    PROVE  /\ copy.length <= ItemLimit
           /\ Original(copy) = n
           /\ copy.marker # Whole => copy.marker.items = n
  <1>1. ItemLimit \in Nat /\ ItemLimit >= 1
    BY ItemLimitAssumption
  <1>2. Collection(n).length = n /\ Collection(n).marker = Whole
    BY DEF Collection
  <1>3. Cut(n).length = ItemLimit /\ Cut(n).marker = [items |-> n, omitted |-> n - ItemLimit + 1]
    BY DEF Cut
  <1>4. copy = IF n > ItemLimit THEN Cut(n) ELSE Collection(n)
    <2> DEFINE b == IF n > ItemLimit THEN Cut(n) ELSE Collection(n)
    <2>1. Bounded(Collection(n)) = b
      BY <1>2, BoundedIs
    <2>2. b.length \in Nat /\ ~(b.length > ItemLimit)
      BY <1>1, <1>2, <1>3
    <2> HIDE DEF b
    <2>3. Bounded(b) = b
      BY <2>2, BoundedIs
    <2>4. TextParts(n) = b
      BY TextPartsAre DEF b
    <2>5. copy = b
      BY <2>1, <2>3, <2>4
    <2>. QED  BY <2>5 DEF b
  <1>5. CASE n > ItemLimit
    <2>1. Cut(n).marker # Whole
      <3>1. Cut(n).marker.items # Whole.items
        BY <1>1, <1>3, <1>5 DEF Whole
      <3>. QED  BY <3>1
    <2>2. Original(Cut(n)) = (ItemLimit - 1) + (n - ItemLimit + 1)
      BY <1>3, <2>1 DEF Original, Kept
    <2>. QED  BY <1>1, <1>3, <1>4, <1>5, <2>2
  <1>6. CASE ~(n > ItemLimit)
    <2>1. Original(Collection(n)) = (n - 0) + 0
      BY <1>2 DEF Original, Kept, Whole
    <2>. QED  BY <1>1, <1>2, <1>4, <1>6, <2>1
  <1>. QED  BY <1>5, <1>6

(***************************************************************************)
(* PermissionPolicy: what the policy decides of a longer command, and      *)
(* under another profile.                                                  *)
(***************************************************************************)
\* The parts of c, one after the other, are parts of d.
Contains(d, c) == \E k \in Nat : \A i \in DOMAIN c : i + k \in DOMAIN d /\ d[i + k] = c[i]

\* A token found in a command is found in a longer one.
LEMMA ContainsHas ==
    ASSUME NEW c, NEW d, Contains(d, c), NEW tokens, AnySegmentHas(c, tokens)
    PROVE  AnySegmentHas(d, tokens)
  <1>1. PICK k \in Nat : \A i \in DOMAIN c : i + k \in DOMAIN d /\ d[i + k] = c[i]
    BY DEF Contains
  <1>2. PICK i \in DOMAIN c : Has(c[i].segment, tokens)
    BY DEF AnySegmentHas
  <1>. QED  BY <1>1, <1>2 DEF AnySegmentHas

\* Every part of a command is one of a longer command.
LEMMA ContainsEvery ==
    ASSUME NEW c, NEW d, Contains(d, c), NEW i \in DOMAIN c
    PROVE  \E j \in DOMAIN d : d[j] = c[i]
  BY DEF Contains

\* A longer command reaches the network if the shorter one does.
LEMMA NetworkGrows ==
    ASSUME NEW c, NEW d, Contains(d, c)
    PROVE  /\ PythonNetwork(c) => PythonNetwork(d)
           /\ NetworkAccess(c) => NetworkAccess(d)
  <1>1. \A i \in DOMAIN c : \E j \in DOMAIN d : d[j] = c[i]
    BY ContainsEvery
  <1>2. PythonNetwork(c) => PythonNetwork(d)
    BY <1>1, ContainsHas, Zenon DEF PythonNetwork, Some
  <1>3. /\ Some(c, Fetches) => Some(d, Fetches)
        /\ Some(c, GitNetwork) => Some(d, GitNetwork)
        /\ Some(c, GhNetwork) => Some(d, GhNetwork)
    BY <1>1, Zenon DEF Some
  <1>. QED  BY <1>2, <1>3, ContainsHas, Zenon DEF NetworkAccess

\* What blocks a command, or asks for a confirmation, does so for a longer one.
LEMMA BlockGrows ==
    ASSUME NEW c, DOMAIN c \subseteq Nat, NEW d, Contains(d, c)
    PROVE  /\ MustBlock(c) => MustBlock(d)
           /\ ShouldConfirm(c) => ShouldConfirm(d)
  <1>1. \A i \in DOMAIN c : \E j \in DOMAIN d : d[j] = c[i]
    BY ContainsEvery
  <1>2. FetchThenExecute(c) => FetchThenExecute(d)
    <2> SUFFICES ASSUME NEW i \in DOMAIN c, NEW j \in DOMAIN c, i < j,
                        Fetches(c[i].segment), IsExecutor(c[j].segment)
                 PROVE  FetchThenExecute(d)
      BY DEF FetchThenExecute
    <2>1. PICK k \in Nat : \A n \in DOMAIN c : n + k \in DOMAIN d /\ d[n + k] = c[n]
      BY DEF Contains
    <2>2. i + k < j + k
      OBVIOUS
    <2>. QED  BY <2>1, <2>2 DEF FetchThenExecute
  <1>3. RemoteExecution(c) => RemoteExecution(d)
    <2>1. Some(c, ExecutesWhatItFetches) => Some(d, ExecutesWhatItFetches)
      BY <1>1, Zenon DEF Some
    <2>. QED  BY <1>2, <2>1, NetworkGrows, ContainsHas, Zenon DEF RemoteExecution
  <1>4. Some(c, IsEncoded) => Some(d, IsEncoded)
    BY <1>1, Zenon DEF Some
  <1>5. RecursiveDelete(c) => RecursiveDelete(d)
    BY <1>1, Zenon DEF RecursiveDelete
  <1>. QED  BY <1>3, <1>4, <1>5, NetworkGrows, ContainsHas, Zenon DEF MustBlock, ShouldConfirm

\* A command with one more part at its end or its start is longer.
LEMMA LongerContains ==
    ASSUME NEW S, NEW c \in Seq(S), NEW s \in S
    PROVE  Contains(Append(c, s), c) /\ Contains(<<s>> \o c, c)
  <1>1. Contains(Append(c, s), c)
    <2>1. \A i \in DOMAIN c : i + 0 = i /\ i \in DOMAIN Append(c, s) /\ Append(c, s)[i] = c[i]
      OBVIOUS
    <2>. QED  BY <2>1 DEF Contains
  <1>2. Contains(<<s>> \o c, c)
    <2>1. <<s>> \in Seq(S) /\ Len(<<s>>) = 1
      OBVIOUS
    <2>2. <<s>> \o c \in Seq(S) /\ Len(<<s>> \o c) = 1 + Len(c)
      BY <2>1
    <2>3. \A i \in DOMAIN c : i + 1 \in DOMAIN (<<s>> \o c) /\ (<<s>> \o c)[i + 1] = c[i]
      BY <2>1, <2>2
    <2>. QED  BY <2>3 DEF Contains
  <1>. QED  BY <1>1, <1>2

\* The three outcomes in order.
LEMMA StrictnessIs ==
    Strictness["allow"] = 0 /\ Strictness["confirm"] = 1 /\ Strictness["block"] = 2
  <1>1. "confirm" # "allow" /\ "block" # "allow" /\ "block" # "confirm"
    OBVIOUS
  <1>. QED  BY <1>1, Zenon DEF Strictness, Outcomes

\* The cases of DecideShell, each with its condition.
LEMMA ShellIs ==
    ASSUME NEW profile, NEW confirm, NEW c
    PROVE  /\ MustBlock(c) => DecideShell(profile, confirm, c) = "block"
           /\ ~MustBlock(c) /\ Confirms(profile, confirm) /\ ShouldConfirm(c) =>
                DecideShell(profile, confirm, c) = "confirm"
           /\ ~MustBlock(c) /\ ~(Confirms(profile, confirm) /\ ShouldConfirm(c)) =>
                DecideShell(profile, confirm, c) = "allow"
  BY Zenon DEF DecideShell

\* The cases of DecideChange, each with its condition.
LEMMA ChangeIs ==
    ASSUME NEW profile, NEW confirm
    PROVE  /\ profile = "read_only" => DecideChange(profile, confirm) = "block"
           /\ profile # "read_only" /\ Confirms(profile, confirm) =>
                DecideChange(profile, confirm) = "confirm"
           /\ profile # "read_only" /\ ~Confirms(profile, confirm) =>
                DecideChange(profile, confirm) = "allow"
  BY Zenon DEF DecideChange

\* The second branch of decide.
IsShell(tool, risk) == tool # "write_file" /\ risk # "write" /\ (tool = "shell" \/ risk = "shell")

\* Which branch of decide applies does not depend on the profile or the command.
LEMMA DecideIs ==
    ASSUME NEW tool, NEW risk
    PROVE  \/ \A p, a, c : Decide(p, a, tool, risk, c) = DecideChange(p, a)
           \/ \A p, a, c : Decide(p, a, tool, risk, c) =
                             IF p = "read_only" \/ c = InvalidCommand THEN "block"
                             ELSE DecideShell(p, a, c)
           \/ \A p, a, c : Decide(p, a, tool, risk, c) = "allow"
           \/ \A p, a, c : Decide(p, a, tool, risk, c) =
                             IF p = "read_only" THEN "block" ELSE "confirm"
  <1>0. /\ "write" # "read" /\ "write" # "interactive" /\ "server" # "read" 
        /\ "server" # "interactive" /\ "shell" # "read" /\ "shell" # "interactive"
        /\ "server" # "shell"
    OBVIOUS
  <1>1. CASE tool = "write_file" \/ risk = "write"
    BY <1>0, <1>1, Zenon DEF Decide
  <1>2. CASE IsShell(tool, risk)
    BY <1>0, <1>2, Zenon DEF Decide, IsShell
  <1>3. CASE ~(tool \in {"write_file", "shell"}) /\ risk \in {"read", "interactive"}
    <2>1. ~(tool = "write_file" \/ risk = "write") /\ ~IsShell(tool, risk) /\ risk # "server"
      BY <1>3 DEF IsShell
    <2>. QED  BY <1>3, <2>1, Zenon DEF Decide, IsShell
  <1>4. CASE ~(tool \in {"write_file", "shell"}) /\ risk = "server"
    <2>1. /\ ~(tool = "write_file" \/ risk = "write") /\ ~IsShell(tool, risk)
          /\ ~(risk \in {"read", "interactive"})
      BY <1>4 DEF IsShell
    <2>. QED  BY <1>4, <2>1, Zenon DEF Decide, IsShell
  <1>5. CASE /\ ~(tool = "write_file" \/ risk = "write") /\ ~IsShell(tool, risk)
             /\ ~(~(tool \in {"write_file", "shell"}) /\ risk \in {"read", "interactive"})
             /\ ~(~(tool \in {"write_file", "shell"}) /\ risk = "server")
    BY <1>5, Zenon DEF Decide, IsShell
  <1>. QED  BY <1>1, <1>2, <1>3, <1>4, <1>5, Zenon

\* How strict each branch of decide is: writing and managing servers, the shell,
\* what is always allowed, and what is not known.
LEMMA StrictnessOfDecide ==
    ASSUME NEW tool, NEW risk
    PROVE  \/ \A p, a, c : Strictness[Decide(p, a, tool, risk, c)] =
                IF p = "read_only" THEN 2 ELSE IF Confirms(p, a) THEN 1 ELSE 0
           \/ \A p, a, c : Strictness[Decide(p, a, tool, risk, c)] =
                IF p = "read_only" \/ c = InvalidCommand \/ MustBlock(c) THEN 2
                ELSE IF Confirms(p, a) /\ ShouldConfirm(c) THEN 1 ELSE 0
           \/ \A p, a, c : Strictness[Decide(p, a, tool, risk, c)] = 0
           \/ \A p, a, c : Strictness[Decide(p, a, tool, risk, c)] = IF p = "read_only" THEN 2 ELSE 1
  <1>1. ASSUME NEW p, NEW a
        PROVE  Strictness[DecideChange(p, a)] =
                 IF p = "read_only" THEN 2 ELSE IF Confirms(p, a) THEN 1 ELSE 0
    BY ChangeIs, StrictnessIs
  <1>2. ASSUME NEW p, NEW a, NEW c
        PROVE  Strictness[IF p = "read_only" \/ c = InvalidCommand THEN "block"
                          ELSE DecideShell(p, a, c)] =
                 IF p = "read_only" \/ c = InvalidCommand \/ MustBlock(c) THEN 2
                 ELSE IF Confirms(p, a) /\ ShouldConfirm(c) THEN 1 ELSE 0
    BY ShellIs, StrictnessIs
  <1>3. ASSUME NEW p
        PROVE  Strictness[IF p = "read_only" THEN "block" ELSE "confirm"] =
                 IF p = "read_only" THEN 2 ELSE 1
    BY StrictnessIs
  <1>4. CASE \A p, a, c : Decide(p, a, tool, risk, c) = DecideChange(p, a)
    BY <1>1, <1>4
  <1>5. CASE \A p, a, c : Decide(p, a, tool, risk, c) =
                            IF p = "read_only" \/ c = InvalidCommand THEN "block"
                            ELSE DecideShell(p, a, c)
    BY <1>2, <1>5
  <1>6. CASE \A p, a, c : Decide(p, a, tool, risk, c) = "allow"
    BY <1>6, StrictnessIs
  <1>7. CASE \A p, a, c : Decide(p, a, tool, risk, c) =
                            IF p = "read_only" THEN "block" ELSE "confirm"
    BY <1>3, <1>7
  <1>. QED  BY <1>4, <1>5, <1>6, <1>7, DecideIs, Zenon

\* read_only is stricter than standard, and standard than trusted.
LEMMA ProfilesOrdered ==
    ASSUME NEW tool, NEW risk, NEW a, NEW c
    PROVE  /\ Strictness[Decide("read_only", a, tool, risk, c)] >=
                Strictness[Decide("standard", a, tool, risk, c)]
           /\ Strictness[Decide("trusted", a, tool, risk, c)] <=
                Strictness[Decide("standard", a, tool, risk, c)]
  <1>1. ~Confirms("trusted", a)
    BY DEF Confirms
  <1>. QED  BY <1>1, StrictnessOfDecide

\* Whether a call is blocked does not depend on confirm_risky_actions.
LEMMA ConfirmNeverBlocks ==
    ASSUME NEW tool, NEW risk, NEW p, NEW a, NEW b, NEW c
    PROVE  Strictness[Decide(p, a, tool, risk, c)] = 2 => Strictness[Decide(p, b, tool, risk, c)] = 2
  BY StrictnessOfDecide

\* A longer command is not decided more leniently.
LEMMA LongerStricter ==
    ASSUME NEW tool, NEW risk, NEW p, NEW a, NEW c, NEW d,
           c # InvalidCommand, DOMAIN c \subseteq Nat, Contains(d, c)
    PROVE  Strictness[Decide(p, a, tool, risk, d)] >= Strictness[Decide(p, a, tool, risk, c)]
  <1>1. (MustBlock(c) => MustBlock(d)) /\ (ShouldConfirm(c) => ShouldConfirm(d))
    BY BlockGrows
  <1>. QED  BY <1>1, StrictnessOfDecide

(***************************************************************************)
(* ToolArguments: the functions defined by recursion over values exist,    *)
(* because values are nested at most MaxNesting deep.                      *)
(***************************************************************************)
WithinDefined(f) ==
    f = [n \in 0..MaxNesting |->
           {value \in Values : ValuesIn(value) \subseteq IF n = 0 THEN {} ELSE f[n - 1]}]

\* Within is the function its definition asks for.
LEMMA WithinIs == WithinDefined(Within)
  <1> DEFINE V == SUBSET Values
             start == {value \in Values : ValuesIn(value) \subseteq {}}
             step == [w \in V \X (1..MaxNesting) |->
                        {value \in Values : ValuesIn(value) \subseteq w[1]}]
  <1>1. MaxNesting \in Nat
    BY ArgumentsAssumption
  <1>2. start \in V /\ step \in [V \X (1..MaxNesting) -> V]
    OBVIOUS
  <1>3. PICK f : Stepwise(f, V, start, MaxNesting, step)
    <2> HIDE DEF V, start, step
    <2>. QED  BY <1>1, <1>2, StepByStep
  <1>4. /\ f \in [0..MaxNesting -> V] /\ f[0] = start
        /\ \A n \in 1..MaxNesting : f[n] = step[<<f[n - 1], n>>]
    BY <1>3 DEF Stepwise
  <1>5. ASSUME NEW n \in 1..MaxNesting
        PROVE  f[n] = {value \in Values : ValuesIn(value) \subseteq f[n - 1]}
    <2>1. n - 1 \in 0..MaxNesting
      BY <1>1
    <2>2. f[n - 1] \in V
      <3> HIDE DEF V, start, step
      <3>. QED  BY <1>4, <2>1
    <2>3. <<f[n - 1], n>> \in V \X (1..MaxNesting)
      BY <2>2
    <2>4. f[n] = step[<<f[n - 1], n>>]
      <3> HIDE DEF V, start, step
      <3>. QED  BY <1>4
    <2>. QED  BY <2>3, <2>4
  <1>6. ASSUME NEW n \in 0..MaxNesting
        PROVE  f[n] = {value \in Values : ValuesIn(value) \subseteq IF n = 0 THEN {} ELSE f[n - 1]}
    <2>1. CASE n = 0
      BY <1>4, <2>1
    <2>2. CASE n # 0
      BY <1>5, <2>2
    <2>. QED  BY <2>1, <2>2
  <1>7. WithinDefined(f)
    BY <1>4, <1>6 DEF WithinDefined
  <1>8. Within = CHOOSE g : WithinDefined(g)
    BY Zenon DEF Within, WithinDefined
  <1>. QED  BY <1>7, <1>8, Zenon

\* What Accepts says of a value, when f says it of the values in it.
Judges(f, value, node) ==
    /\ TypeAccepts(value, node)
    /\ EnumAccepts(value, node)
    /\ value.kind = "array" /\ node.items # <<>> =>
         \A i \in DOMAIN value.items : f[value.items[i]][node.items[1]]
    /\ value.kind = "object" =>
         /\ RequiredGiven(value, node)
         /\ NoneUnexpected(value, node)
         /\ \A name \in DOMAIN value.fields \intersect Properties(node) :
              f[value.fields[name]][node.props[1][name]]

Judgement(f) == [value \in Values |-> [node \in Nodes |-> Judges(f, value, node)]]

\* Only what is said of the values in a value counts.
LEMMA JudgesAlike ==
    ASSUME NEW f, NEW g, NEW value, \A v \in ValuesIn(value) : f[v] = g[v], NEW node
    PROVE  Judges(f, value, node) = Judges(g, value, node)
  <1>1. \A i \in DOMAIN value.items : f[value.items[i]] = g[value.items[i]]
    BY Zenon DEF ValuesIn
  <1>2. \A name \in DOMAIN value.fields : f[value.fields[name]] = g[value.fields[name]]
    BY Zenon DEF ValuesIn
  <1>. QED  BY <1>1, <1>2, Zenon DEF Judges

\* Accepts is the function its definition asks for.
LEMMA AcceptsIs == Accepts = Judgement(Accepts)
  <1> DEFINE V == [Values -> [Nodes -> BOOLEAN]]
             N == MaxNesting + 2
             start == [value \in Values |-> [node \in Nodes |-> TRUE]]
             step == [w \in V \X (1..N) |-> Judgement(w[1])]
  <1>1. N \in Nat /\ MaxNesting \in Nat
    BY ArgumentsAssumption
  <1>2. \A f : Judgement(f) \in V
    BY Zenon DEF Judgement, Judges
  <1>3. start \in V /\ step \in [V \X (1..N) -> V]
    <2>1. start \in V
      BY Zenon
    <2>. QED  BY <1>2, <2>1
  <1>4. PICK F : Stepwise(F, V, start, N, step)
    <2> HIDE DEF V, start, step, N
    <2>. QED  BY <1>1, <1>3, StepByStep
  <1>5. F \in [0..N -> V] /\ \A n \in 1..N : F[n] = step[<<F[n - 1], n>>]
    <2> HIDE DEF V, start, step
    <2>. QED  BY <1>4 DEF Stepwise
  <1>6. ASSUME NEW n \in 1..N PROVE F[n] = Judgement(F[n - 1])
    <2>1. n - 1 \in 0..N
      BY <1>1
    <2>2. <<F[n - 1], n>> \in V \X (1..N)
      <3> HIDE DEF V, start, step, N
      <3>. QED  BY <1>5, <2>1
    <2> HIDE DEF V
    <2>. QED  BY <1>5, <2>2
  <1> HIDE DEF V, start, step
  \* The steps after the nesting of a value do not change what is said of it.
  <1> DEFINE Settled(k) == \A value \in Within[k] : \A n \in (k + 1)..(MaxNesting + 1) :
                              F[n][value] = F[n + 1][value]
             S == {k \in Nat : k <= MaxNesting => Settled(k)}
  <1>7. ASSUME NEW k \in 0..MaxNesting, k # 0 => Settled(k - 1) PROVE Settled(k)
    <2> SUFFICES ASSUME NEW value \in Within[k], NEW n \in (k + 1)..(MaxNesting + 1)
                 PROVE  F[n][value] = F[n + 1][value]
      OBVIOUS
    <2>1. value \in Values /\ ValuesIn(value) \subseteq IF k = 0 THEN {} ELSE Within[k - 1]
      BY WithinIs, Zenon DEF WithinDefined
    <2>2. \A v \in ValuesIn(value) : F[n - 1][v] = F[n][v]
      <3>1. CASE k = 0
        BY <2>1, <3>1
      <3>2. CASE k # 0
        <4>1. Settled(k - 1) /\ n - 1 \in ((k - 1) + 1)..(MaxNesting + 1) /\ (n - 1) + 1 = n
          BY <1>1, <1>7, <3>2
        <4>2. ValuesIn(value) \subseteq Within[k - 1]
          BY <2>1, <3>2
        <4> HIDE DEF N
        <4>. QED  BY <4>1, <4>2
      <3>. QED  BY <3>1, <3>2
    <2>3. \A node \in Nodes : Judges(F[n - 1], value, node) = Judges(F[n], value, node)
      BY <2>2, JudgesAlike
    <2>4. n \in 1..N /\ n + 1 \in 1..N /\ (n + 1) - 1 = n
      BY <1>1
    <2>5. F[n] = Judgement(F[n - 1]) /\ F[n + 1] = Judgement(F[n])
      BY <1>6, <2>4
    <2>6. /\ F[n][value] = [node \in Nodes |-> Judges(F[n - 1], value, node)]
          /\ F[n + 1][value] = [node \in Nodes |-> Judges(F[n], value, node)]
      BY <2>1, <2>5, Zenon DEF Judgement
    <2>. QED  BY <2>3, <2>6, Zenon
  <1> HIDE DEF Settled
  <1>8. MaxNesting \in S
    <2>1. 0 \in S
      <3>1. 0 \in 0..MaxNesting
        BY <1>1
      <3>. QED  BY <1>7, <3>1
    <2>2. ASSUME NEW k \in Nat, k \in S PROVE k + 1 \in S
      <3> SUFFICES ASSUME k + 1 <= MaxNesting PROVE Settled(k + 1)
        OBVIOUS
      <3>1. k + 1 \in 0..MaxNesting /\ (k + 1) - 1 = k /\ Settled(k)
        BY <1>1, <2>2
      <3>. QED  BY <1>7, <3>1
    <2> HIDE DEF S
    <2>. QED  BY <1>1, <2>1, <2>2, NumberInduction
  <1> DEFINE f == F[MaxNesting + 1]
  <1>9. f = Judgement(f)
    <2>1. MaxNesting + 1 \in 1..N /\ MaxNesting + 2 \in 1..N
          /\ (MaxNesting + 2) - 1 = MaxNesting + 1 /\ (MaxNesting + 1) + 1 = MaxNesting + 2
      BY <1>1
    <2>2. F[MaxNesting + 2] = Judgement(f) /\ f = Judgement(F[(MaxNesting + 1) - 1])
      BY <1>6, <2>1
    <2>3. \A value \in Values : f[value] = F[MaxNesting + 2][value]
      <3>1. Settled(MaxNesting) /\ MaxNesting + 1 \in (MaxNesting + 1)..(MaxNesting + 1)
        BY <1>1, <1>8
      <3>2. Values \subseteq Within[MaxNesting]
        BY ArgumentsAssumption
      <3>. QED  BY <2>1, <3>1, <3>2 DEF Settled
    <2> HIDE DEF f
    <2>4. f = [value \in Values |-> f[value]]
      BY <2>2, Zenon DEF Judgement
    <2>5. Judgement(f) = [value \in Values |-> Judgement(f)[value]]
      BY Zenon DEF Judgement
    <2>. QED  BY <2>2, <2>3, <2>4, <2>5, Zenon
  <1> HIDE DEF f
  <1>10. Accepts = CHOOSE g : g = Judgement(g)
    BY Zenon DEF Accepts, Judgement, Judges
  <1>. QED  BY <1>9, <1>10, Zenon

LevelsDefined(value, schema, level) ==
    level = [n \in 0..MaxNesting |->
               IF n = 0 THEN {<<value, schema>>} ELSE Below(level[n - 1])]

\* What an accepted value and its node look like, for what is below them.
Pair(m) == m = <<m[1], m[2]>> /\ m[1] \in Values /\ m[2] \in Nodes
Passed(m) == Pair(m) /\ Accepts[m[1]][m[2]] = TRUE

\* An accepted value passes each part of the check.
LEMMA AcceptedIs ==
    ASSUME NEW value \in Values, NEW node \in Nodes, Accepts[value][node] = TRUE
    PROVE  Judges(Accepts, value, node)
  <1>1. Accepts[value] = [n \in Nodes |-> Judges(Accepts, value, n)]
    BY AcceptsIs, Zenon DEF Judgement
  <1>2. Accepts[value][node] = Judges(Accepts, value, node)
    BY <1>1, Zenon
  <1>. QED  BY <1>2, Zenon

\* What passes each part of the check is accepted.
LEMMA JudgedAccepted ==
    ASSUME NEW value \in Values, NEW node \in Nodes, Judges(Accepts, value, node)
    PROVE  Accepts[value][node] = TRUE
  <1>1. Accepts[value] = [n \in Nodes |-> Judges(Accepts, value, n)]
    BY AcceptsIs, Zenon DEF Judgement
  <1>2. Accepts[value][node] = Judges(Accepts, value, node)
    BY <1>1, Zenon
  <1>3. Judges(Accepts, value, node) = TRUE
    <2>1. Judges(Accepts, value, node) \in BOOLEAN
      BY Zenon DEF Judges
    <2>. QED  BY <2>1, Zenon
  <1>. QED  BY <1>2, <1>3, Zenon

\* The check answers with a truth value.
LEMMA AcceptsBoolean ==
    ASSUME NEW value \in Values, NEW node \in Nodes, Accepts[value][node]
    PROVE  Accepts[value][node] = TRUE
  <1>1. Accepts[value] = [n \in Nodes |-> Judges(Accepts, value, n)]
    BY AcceptsIs, Zenon DEF Judgement
  <1>2. Accepts[value][node] = Judges(Accepts, value, node)
    BY <1>1, Zenon
  <1>3. Judges(Accepts, value, node) \in BOOLEAN
    BY Zenon DEF Judges
  <1>. QED  BY <1>2, <1>3, Zenon

\* The values in a value, the nodes in a node.
LEMMA Inside ==
    ASSUME NEW value \in Values, NEW node \in Nodes
    PROVE  /\ \A i \in DOMAIN value.items : value.items[i] \in Values
           /\ \A name \in DOMAIN value.fields : value.fields[name] \in Values
           /\ node.items # <<>> => node.items[1] \in Nodes
           /\ \A name \in Properties(node) : node.props[1][name] \in Nodes
           /\ value.kind # "array" => DOMAIN value.items = {}
           /\ value.kind # "object" => DOMAIN value.fields = {}
  <1>1. ValuesIn(value) \subseteq Values /\ NodesIn(node) \subseteq Nodes
    BY ArgumentsAssumption
  <1>2. /\ \A i \in DOMAIN value.items : value.items[i] \in Values
        /\ \A name \in DOMAIN value.fields : value.fields[name] \in Values
    BY <1>1, Zenon DEF ValuesIn
  <1>3. \A name \in Properties(node) : node.props[1][name] \in Nodes
    BY <1>1, Zenon DEF NodesIn, Properties
  <1>. QED  BY <1>2, <1>3, ArgumentsAssumption

\* What meets below a value and its node is an item or a field.
LEMMA BelowIs ==
    ASSUME NEW meetings, NEW b \in Below(meetings)
    PROVE  \/ \E m \in meetings :
                /\ m[2].items # <<>>
                /\ \E i \in DOMAIN m[1].items : b = <<m[1].items[i], m[2].items[1]>>
           \/ \E m \in meetings :
                \E name \in DOMAIN m[1].fields \intersect Properties(m[2]) :
                   b = <<m[1].fields[name], m[2].props[1][name]>>
  <1>1. PICK m \in meetings : b \in ItemsBelow(m[1], m[2]) \/ b \in FieldsBelow(m[1], m[2])
    BY DEF Below
  <1>2. b \in ItemsBelow(m[1], m[2]) =>
          m[2].items # <<>> /\ \E i \in DOMAIN m[1].items : b = <<m[1].items[i], m[2].items[1]>>
    BY DEF ItemsBelow
  <1>3. b \in FieldsBelow(m[1], m[2]) =>
          \E name \in DOMAIN m[1].fields \intersect Properties(m[2]) :
             b = <<m[1].fields[name], m[2].props[1][name]>>
    BY DEF FieldsBelow
  <1>. QED  BY <1>1, <1>2, <1>3, Zenon

\* What meets below an accepted value was accepted, and an accepted value
\* breaks nothing.
LEMMA BelowPassed ==
    ASSUME NEW meetings, \A m \in meetings : Passed(m)
    PROVE  \A m \in Below(meetings) : Passed(m)
  <1> SUFFICES ASSUME NEW b \in Below(meetings) PROVE Passed(b)
    OBVIOUS
  <1>2. ASSUME NEW m \in meetings, m[2].items # <<>>, NEW i \in DOMAIN m[1].items,
               b = <<m[1].items[i], m[2].items[1]>>
        PROVE  Passed(b)
    <2>1. m[1] \in Values /\ m[2] \in Nodes /\ Judges(Accepts, m[1], m[2])
      BY AcceptedIs, Zenon DEF Passed, Pair
    <2>2. m[2].items # <<>> /\ i \in DOMAIN m[1].items
      BY <1>2, Zenon
    <2>3. m[1].kind = "array" /\ m[1].items[i] \in Values /\ m[2].items[1] \in Nodes
      BY <2>1, <2>2, Inside
    <2>4. Accepts[m[1].items[i]][m[2].items[1]]
      BY <2>1, <2>2, <2>3, Zenon DEF Judges
    <2>5. Accepts[m[1].items[i]][m[2].items[1]] = TRUE
      BY <2>3, <2>4, AcceptsBoolean
    <2>6. b[1] = m[1].items[i] /\ b[2] = m[2].items[1] /\ b = <<b[1], b[2]>>
      BY <1>2
    <2>. QED  BY <2>3, <2>5, <2>6, Zenon DEF Passed, Pair
  <1>3. ASSUME NEW m \in meetings, NEW name \in DOMAIN m[1].fields \intersect Properties(m[2]),
               b = <<m[1].fields[name], m[2].props[1][name]>>
        PROVE  Passed(b)
    <2>1. m[1] \in Values /\ m[2] \in Nodes /\ Judges(Accepts, m[1], m[2])
      BY AcceptedIs, Zenon DEF Passed, Pair
    <2>2. m[1].kind = "object" /\ m[1].fields[name] \in Values /\ m[2].props[1][name] \in Nodes
      BY <2>1, Inside
    <2>3. Accepts[m[1].fields[name]][m[2].props[1][name]]
      BY <2>1, <2>2, Zenon DEF Judges
    <2>4. Accepts[m[1].fields[name]][m[2].props[1][name]] = TRUE
      BY <2>2, <2>3, AcceptsBoolean
    <2>5. b[1] = m[1].fields[name] /\ b[2] = m[2].props[1][name] /\ b = <<b[1], b[2]>>
      BY <1>3
    <2>. QED  BY <2>2, <2>4, <2>5, Zenon DEF Passed, Pair
  <1>. QED  BY <1>2, <1>3, BelowIs, Zenon

\* An accepted value breaks no part of the node it meets.
LEMMA PassedBreaksNothing ==
    ASSUME NEW m, Passed(m)
    PROVE  ~Breaks(m[1], m[2])
  <1>1. Judges(Accepts, m[1], m[2])
    BY AcceptedIs, Zenon DEF Passed, Pair
  <1>2. /\ TypeAccepts(m[1], m[2]) /\ EnumAccepts(m[1], m[2])
        /\ m[1].kind = "object" => RequiredGiven(m[1], m[2]) /\ NoneUnexpected(m[1], m[2])
    BY <1>1, Zenon DEF Judges
  <1>3. /\ ~(m[2].types \notin {<<>>, <<{}>>}
             /\ ~\E type \in m[2].types[1] : MatchesType(m[1], type))
        /\ ~(m[2].enum # <<>> /\ ~\E allowed \in m[2].enum[1] : PyEqual[m[1]][allowed])
    BY <1>2, Zenon DEF TypeAccepts, EnumAccepts, InEnum
  <1>4. ~(m[1].kind = "object" /\ m[2].required # <<>>
          /\ m[2].required[1] \ DOMAIN m[1].fields # {})
    BY <1>2 DEF RequiredGiven
  <1>5. ~(m[1].kind = "object" /\ m[2].extra = <<FALSE>>
          /\ DOMAIN m[1].fields \ Properties(m[2]) # {})
    <2> SUFFICES ASSUME m[1].kind = "object", m[2].extra = <<FALSE>>
                 PROVE  DOMAIN m[1].fields \ Properties(m[2]) = {}
      BY Zenon
    <2>1. DOMAIN m[1].fields \subseteq Properties(m[2])
      BY <1>2, Zenon DEF NoneUnexpected
    <2>. QED  BY <2>1
  <1>. QED  BY <1>3, <1>4, <1>5, Zenon DEF Breaks

\* The meetings below arguments, level by level.  s stands for the schema
\* without its enum, which need not be a node itself.
LEMMA MeetingsByLevel ==
    ASSUME NEW value \in Values, NEW schema \in Nodes, NEW s,
           s.props = schema.props, s.items = schema.items
    PROVE  \E level :
             /\ Meetings(value, s) = UNION {level[n] : n \in 0..MaxNesting}
             /\ \A n \in 0..MaxNesting :
                  level[n] = IF n = 0 THEN {<<value, s>>} ELSE Below(level[n - 1])
  <1> DEFINE top == <<value, s>>
             level == CHOOSE f : LevelsDefined(value, s, f)
  <1>1. MaxNesting \in Nat
    BY ArgumentsAssumption
  <1>2. Properties(s) = Properties(schema)
    BY DEF Properties
  <1>6. \E f : LevelsDefined(value, s, f)
    <2> DEFINE D == (Values \X Nodes) \union {top}
               V == SUBSET D
               start == {top}
               step == [w \in V \X (1..MaxNesting) |-> Below(w[1])]
    <2>1. ASSUME NEW W \in V PROVE Below(W) \in V
      <3> SUFFICES ASSUME NEW b \in Below(W) PROVE b \in Values \X Nodes
        BY Zenon
      <3>1. ASSUME NEW m \in W
            PROVE  m = top \/ (m[1] \in Values /\ m[2] \in Nodes)
        OBVIOUS
      <3>2. top[1] = value /\ top[2] = s
        OBVIOUS
      <3>3. ASSUME NEW m \in W, m[2].items # <<>>, NEW i \in DOMAIN m[1].items,
                   b = <<m[1].items[i], m[2].items[1]>>
            PROVE  b \in Values \X Nodes
        <4>1. m[1] \in Values /\ (m = top => m[2].items = schema.items)
          BY <3>1, <3>2
        <4>2. m[1].items[i] \in Values /\ m[2].items[1] \in Nodes
          <5> HIDE DEF top
          <5>. QED  BY <3>1, <3>3, <4>1, Inside
        <4>. QED  BY <3>3, <4>2
      <3>4. ASSUME NEW m \in W, NEW name \in DOMAIN m[1].fields \intersect Properties(m[2]),
                   b = <<m[1].fields[name], m[2].props[1][name]>>
            PROVE  b \in Values \X Nodes
        <4>1. CASE m = top
          <5>1. m[1] = value /\ m[2] = s
            BY <3>2, <4>1
          <5>2. name \in DOMAIN value.fields \intersect Properties(schema)
                /\ b = <<value.fields[name], schema.props[1][name]>>
            BY <1>2, <3>4, <5>1
          <5>3. value.fields[name] \in Values /\ schema.props[1][name] \in Nodes
            BY <5>2, Inside
          <5>. QED  BY <5>2, <5>3
        <4>2. CASE m # top
          <5>1. m[1].fields[name] \in Values /\ m[2].props[1][name] \in Nodes
            BY <3>1, <4>2, Inside
          <5>. QED  BY <3>4, <5>1
        <4>. QED  BY <4>1, <4>2
      <3>. QED  BY <3>3, <3>4, BelowIs, Zenon
    <2>2. start \in V /\ step \in [V \X (1..MaxNesting) -> V]
      <3>1. start \in V
        OBVIOUS
      <3> HIDE DEF V, start
      <3>. QED  BY <2>1, <3>1
    <2>3. PICK f : Stepwise(f, V, start, MaxNesting, step)
      <3> HIDE DEF V, start, step
      <3>. QED  BY <1>1, <2>2, StepByStep
    <2>4. /\ f \in [0..MaxNesting -> V] /\ f[0] = start
          /\ \A n \in 1..MaxNesting : f[n] = step[<<f[n - 1], n>>]
      <3> HIDE DEF V, start, step
      <3>. QED  BY <2>3 DEF Stepwise
    <2>5. ASSUME NEW n \in 0..MaxNesting
          PROVE  f[n] = IF n = 0 THEN {top} ELSE Below(f[n - 1])
      <3>1. CASE n = 0
        BY <2>4, <3>1
      <3>2. CASE n # 0
        <4>1. n \in 1..MaxNesting /\ n - 1 \in 0..MaxNesting
          BY <1>1, <3>2
        <4> HIDE DEF V, start
        <4>2. <<f[n - 1], n>> \in V \X (1..MaxNesting)
          <5> HIDE DEF step
          <5>. QED  BY <2>4, <4>1
        <4>3. step[<<f[n - 1], n>>] = Below(f[n - 1])
          BY <4>2
        <4> HIDE DEF step
        <4>. QED  BY <2>4, <3>2, <4>1, <4>3
      <3>. QED  BY <3>1, <3>2
    <2>6. f = [n \in 0..MaxNesting |-> f[n]]
      <3> HIDE DEF V, start, step
      <3>. QED  BY <2>4
    <2> HIDE DEF V, start, step
    <2>. QED  BY <2>5, <2>6, Zenon DEF LevelsDefined
  <1>7. LevelsDefined(value, s, level)
    BY <1>6, Zenon
  <1>8. Meetings(value, s) = UNION {level[n] : n \in 0..MaxNesting}
    BY Zenon DEF Meetings, LevelsDefined
  <1> HIDE DEF level
  <1>9. \A n \in 0..MaxNesting : level[n] = IF n = 0 THEN {top} ELSE Below(level[n - 1])
    BY <1>7, Zenon DEF LevelsDefined
  <1>. QED  BY <1>8, <1>9, Zenon

\* Arguments that the check accepts conform to the schema, but for its own enum.
LEMMA CheckIsSound ==
    ASSUME NEW value \in Values, NEW schema \in Nodes, schema.types = <<{"object"}>>,
           ArgumentsAccepted(value, schema)
    PROVE  Conforms(value, [schema EXCEPT !.enum = <<>>])
  <1> DEFINE s == [schema EXCEPT !.enum = <<>>]
             top == <<value, s>>
  <1>1. MaxNesting \in Nat
    BY ArgumentsAssumption
  <1>2. /\ s.types = <<{"object"}>> /\ s.enum = <<>> /\ s.props = schema.props
        /\ s.required = schema.required /\ s.extra = schema.extra /\ s.items = schema.items
        /\ Properties(s) = Properties(schema)
    <2>1. schema = [types |-> schema.types, enum |-> schema.enum, props |-> schema.props,
                    required |-> schema.required, extra |-> schema.extra, items |-> schema.items]
      BY ArgumentsAssumption
    <2>2. /\ s.types = schema.types /\ s.enum = <<>> /\ s.props = schema.props
          /\ s.required = schema.required /\ s.extra = schema.extra /\ s.items = schema.items
      BY <2>1
    <2> HIDE DEF s
    <2>. QED  BY <2>2 DEF Properties
  <1> HIDE DEF s
  <1>3. value.kind = "object" /\ DOMAIN value.items = {}
    BY Inside, "object" # "array" DEF ArgumentsAccepted
  <1>4. ~Breaks(value, s)
    <2>1. MatchesType(value, "object")
      BY <1>3 DEF MatchesType
    <2>2. RequiredGiven(value, schema) /\ NoneUnexpected(value, schema)
      BY DEF ArgumentsAccepted
    <2>3. ~(s.required # <<>> /\ s.required[1] \ DOMAIN value.fields # {})
      BY <1>2, <2>2 DEF RequiredGiven
    <2>4. ~(s.extra = <<FALSE>> /\ DOMAIN value.fields \ Properties(s) # {})
      <3> SUFFICES ASSUME s.extra = <<FALSE>>
                   PROVE  DOMAIN value.fields \ Properties(schema) = {}
        BY <1>2, Zenon
      <3>1. DOMAIN value.fields \subseteq Properties(schema)
        BY <1>2, <2>2, Zenon DEF NoneUnexpected
      <3>. QED  BY <3>1
    <2>5. \E type \in s.types[1] : MatchesType(value, type)
      BY <1>2, <2>1
    <2>. QED  BY <1>2, <2>3, <2>4, <2>5, Zenon DEF Breaks
  <1>5. \A b \in Below({top}) : Passed(b)
    <2> SUFFICES ASSUME NEW b \in Below({top}) PROVE Passed(b)
      OBVIOUS
    <2>1. top[1] = value /\ top[2] = s
      OBVIOUS
    <2>2. PICK name \in DOMAIN value.fields \intersect Properties(schema) :
             b = <<value.fields[name], schema.props[1][name]>>
      <3> HIDE DEF top
      <3>. QED  BY <1>2, <1>3, <2>1, BelowIs
    <2>3. value.fields[name] \in Values /\ schema.props[1][name] \in Nodes
      BY Inside
    <2>4. Accepts[value.fields[name]][schema.props[1][name]]
      BY Zenon DEF ArgumentsAccepted
    <2>5. Accepts[value.fields[name]][schema.props[1][name]] = TRUE
      BY <2>3, <2>4, AcceptsBoolean
    <2>6. b[1] = value.fields[name] /\ b[2] = schema.props[1][name] /\ b = <<b[1], b[2]>>
      BY <2>2
    <2>. QED  BY <2>3, <2>5, <2>6, Zenon DEF Passed, Pair
  <1>9. PICK level :
          /\ Meetings(value, s) = UNION {level[n] : n \in 0..MaxNesting}
          /\ \A n \in 0..MaxNesting : level[n] = IF n = 0 THEN {top} ELSE Below(level[n - 1])
    BY <1>2, MeetingsByLevel, Zenon
  <1>10. ASSUME NEW n \in Nat, n + 1 <= MaxNesting PROVE \A m \in level[n + 1] : Passed(m)
    <2> DEFINE S == {k \in Nat : k + 1 <= MaxNesting => \A m \in level[k + 1] : Passed(m)}
    <2>1. 0 \in S
      <3> SUFFICES ASSUME 1 <= MaxNesting PROVE \A m \in level[0 + 1] : Passed(m)
        BY <1>1
      <3>1. level[0] = {top}
        BY <1>1, <1>9
      <3>2. 0 + 1 \in 0..MaxNesting /\ 0 + 1 # 0 /\ (0 + 1) - 1 = 0
        BY <1>1
      <3>3. level[0 + 1] = Below({top})
        BY <1>9, <3>1, <3>2
      <3>. QED  BY <1>5, <3>3
    <2>2. ASSUME NEW k \in Nat, k \in S PROVE k + 1 \in S
      <3> SUFFICES ASSUME (k + 1) + 1 <= MaxNesting
                   PROVE  \A m \in level[(k + 1) + 1] : Passed(m)
        BY <1>1
      <3>1. (k + 1) + 1 \in 0..MaxNesting /\ ((k + 1) + 1) - 1 = k + 1 /\ (k + 1) + 1 # 0
            /\ k + 1 <= MaxNesting
        BY <1>1
      <3>2. level[(k + 1) + 1] = Below(level[k + 1])
        BY <1>9, <3>1
      <3>3. \A m \in level[k + 1] : Passed(m)
        BY <2>2, <3>1
      <3>. QED  BY <3>2, <3>3, BelowPassed
    <2> HIDE DEF S
    <2>3. n \in S
      BY <2>1, <2>2, NumberInduction
    <2>. QED  BY <1>10, <2>3 DEF S
  <1>11. ASSUME NEW m \in Meetings(value, s) PROVE ~Breaks(m[1], m[2])
    <2>1. PICK n \in 0..MaxNesting : m \in level[n]
      BY <1>9
    <2>2. CASE n = 0
      <3>1. m = top
        BY <1>9, <2>1, <2>2
      <3>2. m[1] = value /\ m[2] = s
        BY <3>1
      <3>. QED  BY <1>4, <3>2
    <2>3. CASE n # 0
      <3>1. n - 1 \in Nat /\ (n - 1) + 1 = n /\ (n - 1) + 1 <= MaxNesting
        BY <1>1, <2>3
      <3>2. Passed(m)
        BY <1>10, <2>1, <3>1
      <3>. QED  BY <3>2, PassedBreaksNothing
    <2>. QED  BY <2>2, <2>3
  <1>. QED  BY <1>11, Zenon DEF Conforms, s

\* What meets directly below a value and its node.
LEMMA MetBelow ==
    ASSUME NEW meetings, NEW m \in meetings
    PROVE  /\ m[2].items # <<>> =>
                \A i \in DOMAIN m[1].items : <<m[1].items[i], m[2].items[1]>> \in Below(meetings)
           /\ \A name \in DOMAIN m[1].fields \intersect Properties(m[2]) :
                <<m[1].fields[name], m[2].props[1][name]>> \in Below(meetings)
  <1>1. m[2].items # <<>> =>
          \A i \in DOMAIN m[1].items : <<m[1].items[i], m[2].items[1]>> \in ItemsBelow(m[1], m[2])
    BY DEF ItemsBelow
  <1>2. \A name \in DOMAIN m[1].fields \intersect Properties(m[2]) :
          <<m[1].fields[name], m[2].props[1][name]>> \in FieldsBelow(m[1], m[2])
    BY DEF FieldsBelow
  <1>3. ItemsBelow(m[1], m[2]) \union FieldsBelow(m[1], m[2]) \subseteq Below(meetings)
    BY DEF Below
  <1>. QED  BY <1>1, <1>2, <1>3

\* A value that breaks nothing of its node passes the parts of the check that
\* do not look into it.
LEMMA NothingBroken ==
    ASSUME NEW value, NEW node, ~Breaks(value, node)
    PROVE  /\ TypeAccepts(value, node) /\ EnumAccepts(value, node)
           /\ value.kind = "object" => RequiredGiven(value, node) /\ NoneUnexpected(value, node)
  <1>1. /\ ~(node.types \notin {<<>>, <<{}>>}
             /\ ~\E type \in node.types[1] : MatchesType(value, type))
        /\ ~(node.enum # <<>> /\ ~\E allowed \in node.enum[1] : PyEqual[value][allowed])
        /\ ~(value.kind = "object" /\ node.required # <<>>
             /\ node.required[1] \ DOMAIN value.fields # {})
        /\ ~(value.kind = "object" /\ node.extra = <<FALSE>>
             /\ DOMAIN value.fields \ Properties(node) # {})
    BY Zenon DEF Breaks
  <1>2. TypeAccepts(value, node) /\ EnumAccepts(value, node)
    BY <1>1, Zenon DEF TypeAccepts, EnumAccepts, InEnum
  <1>3. ASSUME value.kind = "object" PROVE RequiredGiven(value, node) /\ NoneUnexpected(value, node)
    <2>1. node.required # <<>> => node.required[1] \ DOMAIN value.fields = {}
      BY <1>1, <1>3, Zenon
    <2>2. node.extra = <<FALSE>> => DOMAIN value.fields \ Properties(node) = {}
      BY <1>1, <1>3, Zenon
    <2>3. \A A, B : A \ B = {} => A \subseteq B
      OBVIOUS
    <2>. QED  BY <2>1, <2>2, <2>3, Zenon DEF RequiredGiven, NoneUnexpected
  <1>. QED  BY <1>2, <1>3

\* Arguments that conform to the schema, but for its own enum, are accepted.
LEMMA CheckIsComplete ==
    ASSUME NEW value \in Values, NEW schema \in Nodes, schema.types = <<{"object"}>>,
           Conforms(value, [schema EXCEPT !.enum = <<>>])
    PROVE  ArgumentsAccepted(value, schema)
  <1> DEFINE s == [schema EXCEPT !.enum = <<>>]
             top == <<value, s>>
  <1>1. MaxNesting \in Nat
    BY ArgumentsAssumption
  <1>2. /\ s.types = <<{"object"}>> /\ s.props = schema.props
        /\ s.required = schema.required /\ s.extra = schema.extra /\ s.items = schema.items
    <2>1. schema = [types |-> schema.types, enum |-> schema.enum, props |-> schema.props,
                    required |-> schema.required, extra |-> schema.extra, items |-> schema.items]
      BY ArgumentsAssumption
    <2>. QED  BY <2>1
  <1>3. Conforms(value, s)
    OBVIOUS
  <1> HIDE DEF s
  <1>4. Properties(s) = Properties(schema)
    BY <1>2 DEF Properties
  <1>5. PICK level :
          /\ Meetings(value, s) = UNION {level[n] : n \in 0..MaxNesting}
          /\ \A n \in 0..MaxNesting : level[n] = IF n = 0 THEN {top} ELSE Below(level[n - 1])
    BY <1>2, MeetingsByLevel, Zenon
  <1>6. \A n \in 0..MaxNesting : \A m \in level[n] : ~Breaks(m[1], m[2])
    BY <1>3, <1>5 DEF Conforms
  \* The levels are as many as a value needs that is nested k deep.
  <1> DEFINE Enough(k) == \A n \in 1..MaxNesting : \A m \in level[n] :
                             n + k <= MaxNesting /\ Pair(m) /\ m[1] \in Within[k] => Passed(m)
             S == {k \in Nat : k <= MaxNesting => Enough(k)}
  <1>7. ASSUME NEW k \in 0..MaxNesting, k # 0 => Enough(k - 1) PROVE Enough(k)
    <2> SUFFICES ASSUME NEW n \in 1..MaxNesting, NEW m \in level[n],
                        n + k <= MaxNesting, Pair(m), m[1] \in Within[k]
                 PROVE  Passed(m)
      OBVIOUS
    <2>1. m[1] \in Values /\ m[2] \in Nodes /\ ~Breaks(m[1], m[2])
      BY <1>1, <1>6 DEF Pair
    <2>2. ValuesIn(m[1]) \subseteq IF k = 0 THEN {} ELSE Within[k - 1]
      BY WithinIs, Zenon DEF WithinDefined
    <2>3. ASSUME NEW v \in ValuesIn(m[1]), NEW node \in Nodes, <<v, node>> \in Below(level[n])
          PROVE  Accepts[v][node]
      <3>1. k # 0 /\ v \in Within[k - 1]
        BY <2>2
      <3>2. n + 1 \in 1..MaxNesting /\ n + 1 \in 0..MaxNesting /\ n + 1 # 0 /\ (n + 1) - 1 = n
            /\ (n + 1) + (k - 1) <= MaxNesting
        BY <1>1, <3>1
      <3>3. <<v, node>> \in level[n + 1]
        BY <1>5, <2>3, <3>2
      <3>4. v \in Values
        BY <2>1, ArgumentsAssumption
      <3>5. Pair(<<v, node>>) /\ <<v, node>>[1] = v /\ <<v, node>>[2] = node
        BY <3>4 DEF Pair
      <3>6. Passed(<<v, node>>)
        BY <1>7, <3>1, <3>2, <3>3, <3>5
      <3>. QED  BY <3>5, <3>6 DEF Passed
    <2>4. /\ \A i \in DOMAIN m[1].items : m[1].items[i] \in ValuesIn(m[1])
          /\ \A name \in DOMAIN m[1].fields : m[1].fields[name] \in ValuesIn(m[1])
      BY DEF ValuesIn
    <2>5. m[2].items # <<>> =>
            \A i \in DOMAIN m[1].items : Accepts[m[1].items[i]][m[2].items[1]]
      BY <2>1, <2>3, <2>4, MetBelow, Inside
    <2>6. \A name \in DOMAIN m[1].fields \intersect Properties(m[2]) :
            Accepts[m[1].fields[name]][m[2].props[1][name]]
      <3> SUFFICES ASSUME NEW name \in DOMAIN m[1].fields \intersect Properties(m[2])
                   PROVE  Accepts[m[1].fields[name]][m[2].props[1][name]]
        OBVIOUS
      <3>1. <<m[1].fields[name], m[2].props[1][name]>> \in Below(level[n])
        BY MetBelow
      <3>2. m[1].fields[name] \in ValuesIn(m[1]) /\ m[2].props[1][name] \in Nodes
        BY <2>1, <2>4, Inside
      <3>. QED  BY <2>3, <3>1, <3>2
    <2>7. Judges(Accepts, m[1], m[2])
      BY <2>1, <2>5, <2>6, NothingBroken, Zenon DEF Judges
    <2>8. Accepts[m[1]][m[2]] = TRUE
      BY <2>1, <2>7, JudgedAccepted
    <2>. QED  BY <2>8 DEF Passed
  <1> HIDE DEF Enough
  <1>8. ASSUME NEW k \in 0..MaxNesting PROVE Enough(k)
    <2>1. 0 \in S
      <3>1. 0 \in 0..MaxNesting
        BY <1>1
      <3>. QED  BY <1>7, <3>1
    <2>2. ASSUME NEW j \in Nat, j \in S PROVE j + 1 \in S
      <3> SUFFICES ASSUME j + 1 <= MaxNesting PROVE Enough(j + 1)
        OBVIOUS
      <3>1. j + 1 \in 0..MaxNesting /\ (j + 1) - 1 = j /\ Enough(j)
        BY <1>1, <2>2
      <3>. QED  BY <1>7, <3>1
    <2>3. k \in Nat /\ k <= MaxNesting
      BY <1>1
    <2> HIDE DEF S
    <2>4. k \in S
      BY <2>1, <2>2, <2>3, NumberInduction
    <2>. QED  BY <2>3, <2>4 DEF S
  <1>9. ~Breaks(value, s) /\ level[0] = {top} /\ top[1] = value /\ top[2] = s
    <2>1. 0 \in 0..MaxNesting /\ top[1] = value /\ top[2] = s
      BY <1>1
    <2>2. level[0] = {top}
      BY <1>5, <2>1
    <2>. QED  BY <1>6, <2>1, <2>2
  <1>10. value.kind = "object"
    <2>1. TypeAccepts(value, s)
      BY <1>9, NothingBroken
    <2>2. s.types \notin {<<>>, <<{}>>} /\ s.types[1] = {"object"}
      <3>1. "object" \in {"object"} /\ {"object"} # {}
        OBVIOUS
      <3>. QED  BY <1>2, <3>1
    <2>3. MatchesType(value, "object")
      BY <2>1, <2>2 DEF TypeAccepts
    <2>. QED  BY <2>3 DEF MatchesType
  <1>11. RequiredGiven(value, schema) /\ NoneUnexpected(value, schema)
    <2>1. RequiredGiven(value, s) /\ NoneUnexpected(value, s)
      BY <1>9, <1>10, NothingBroken
    <2>. QED  BY <1>2, <1>4, <2>1 DEF RequiredGiven, NoneUnexpected
  <1>12. ASSUME NEW name \in DOMAIN value.fields \intersect Properties(schema)
         PROVE  Accepts[value.fields[name]][schema.props[1][name]]
    <2> DEFINE m == <<value.fields[name], schema.props[1][name]>>
    <2>1. m \in Below({top})
      <3>1. <<top[1].fields[name], top[2].props[1][name]>> \in Below({top})
        BY <1>4, <1>9, MetBelow
      <3>. QED  BY <1>2, <1>9, <3>1
    <2>2. value.fields[name] \in ValuesIn(value) /\ value \in Within[MaxNesting]
      BY ArgumentsAssumption DEF ValuesIn
    <2>3. ValuesIn(value) \subseteq IF MaxNesting = 0 THEN {} ELSE Within[MaxNesting - 1]
      <3>1. \A n \in 0..MaxNesting : \A v \in Within[n] :
              ValuesIn(v) \subseteq IF n = 0 THEN {} ELSE Within[n - 1]
        BY WithinIs, Zenon DEF WithinDefined
      <3>2. MaxNesting \in 0..MaxNesting
        BY <1>1
      <3>. QED  BY <2>2, <3>1, <3>2
    <2>4. MaxNesting # 0 /\ value.fields[name] \in Within[MaxNesting - 1]
      BY <2>2, <2>3
    <2>5. /\ 1 \in 1..MaxNesting /\ 1 \in 0..MaxNesting /\ 1 # 0 /\ 1 - 1 = 0
          /\ MaxNesting - 1 \in 0..MaxNesting /\ 1 + (MaxNesting - 1) <= MaxNesting
      BY <1>1, <2>4
    <2>6. m \in level[1]
      BY <1>5, <1>9, <2>1, <2>5
    <2>7. Pair(m) /\ m[1] = value.fields[name] /\ m[2] = schema.props[1][name]
      BY Inside DEF Pair
    <2> HIDE DEF m
    <2>8. Passed(m)
      BY <1>8, <2>4, <2>5, <2>6, <2>7 DEF Enough
    <2>. QED  BY <2>7, <2>8 DEF Passed
  <1>. QED  BY <1>10, <1>11, <1>12, Zenon DEF ArgumentsAccepted

\* Arguments are accepted if and only if no value in them breaks the part of
\* the schema it meets, but for an enum of the arguments as a whole.
THEOREM CheckIsExact ==
    ASSUME NEW value \in Values, NEW schema \in Nodes, schema.types = <<{"object"}>>
    PROVE  ArgumentsAccepted(value, schema)
             <=> Conforms(value, [schema EXCEPT !.enum = <<>>])
  BY CheckIsSound, CheckIsComplete

(***************************************************************************)
(* The inductive invariant.                                                *)
(***************************************************************************)
\* No code of a tool is older than the build.
Fresh(entry, started) ==
    entry.home # Program =>
        /\ entry.code.version >= started[entry.home]
        /\ \A other \in DOMAIN entry.code.uses :
             SamePackage(entry.home, other) => entry.code.uses[other] >= started[other]

\* Files only get newer than they were when the build started.
FilesInv ==
    /\ DOMAIN disk = Files
    /\ \A m \in Files :
         /\ DOMAIN disk[m] = {"version", "imports", "defines"}
         /\ disk[m].defines = NoTools \/ disk[m].defines \in Seq(Tool)
         /\ disk[m].version \in Nat /\ since[m] \in Nat
         /\ since[m] <= disk[m].version

LoadedInv ==
    /\ loaded \in Seq({loaded[i] : i \in DOMAIN loaded})
    /\ \A i \in DOMAIN loaded : loaded[i].tool \in Tool /\ Fresh(loaded[i], since)

\* An entry is a tool and the snapshot of its schema, which was found valid;
\* what the tool has as its schema may be anything.
Shaped(entry) ==
    /\ entry = [tool |-> entry.tool, schema |-> entry.schema, home |-> entry.home, code |-> entry.code]
    /\ entry.tool = [name |-> entry.tool.name, risk |-> entry.tool.risk, schema |-> entry.tool.schema]

EntriesInv ==
    \A i \in DOMAIN registry :
        /\ Shaped(registry[i])
        /\ registry[i].schema \in Nodes /\ registry[i].schema.types = <<{"object"}>>
        /\ Fresh(registry[i], since)

NamesInv ==
    \A i, j \in DOMAIN registry : registry[i].tool.name = registry[j].tool.name => i = j

\* What the model was shown are the snapshots in the registry.
ShownInv ==
    shown # <<>> =>
        /\ DOMAIN shown = Names(registry)
        /\ \A i \in DOMAIN registry : shown[registry[i].tool.name] = registry[i].schema

\* A decided call keeps what it was decided from.
DecidedInv ==
    call.stage = "decided" =>
        /\ call.command \in Commands
        /\ call.decision = Decide(Profile, ConfirmRisky, call.tool, call.risk, call.command)

GateInv ==
    /\ FilesInv /\ LoadedInv /\ EntriesInv /\ NamesInv /\ ShownInv
    /\ AcceptedConforms /\ DecidedInv /\ OmissionsCounted

(***************************************************************************)
(* ToolRegistry: what importing a module executes.                         *)
(***************************************************************************)
\* The package at the top of a module.
LEMMA FirstName ==
    ASSUME NEW S, NEW s \in Seq(S), s # <<>>
    PROVE  SubSeq(s, 1, 1) = <<s[1]>>
  <1>1. Len(s) \in Nat /\ Len(s) >= 1 /\ s[1] \in S
    OBVIOUS
  <1>2. /\ SubSeq(s, 1, 1) \in Seq(S) /\ Len(SubSeq(s, 1, 1)) = 1
        /\ SubSeq(s, 1, 1)[1] = s[1]
    <2>1. \A i \in 1..1 : s[i] \in S
      BY <1>1
    <2>. QED  BY <2>1, SubSeqProperties
  <1> DEFINE t == SubSeq(s, 1, 1)
  <1> HIDE DEF t
  <1>3. t \in Seq(S) /\ Len(t) = 1 /\ t[1] = s[1]
    BY <1>2 DEF t
  <1>4. t = <<s[1]>>
    BY <1>3
  <1>. QED  BY <1>4 DEF t

\* A module and those of its package are not taken from sys.modules.
LEMMA OwnPackageEvicted ==
    ASSUME NEW module \in Seq(STRING), NEW other \in Seq(STRING), other # <<>>,
           module = other \/ SamePackage(module, other), module # <<>>
    PROVE  other \notin Cached(module)
  <1>0. Len(module) \in Nat /\ Len(module) >= 1 /\ Len(other) \in Nat /\ Len(other) >= 1
    OBVIOUS
  <1>1. \E p \in Prefixes(module) : IsPackageOf(p, other)
    <2>1. CASE module = other
      <3>1. SubSeq(other, 1, Len(other)) = other
        OBVIOUS
      <3>2. IsPackageOf(module, other) /\ module \in Prefixes(module)
        BY <1>0, <2>1, <3>1 DEF IsPackageOf, Prefixes
      <3>. QED  BY <3>2
    <2>2. CASE module # other
      <3> DEFINE p == SubSeq(module, 1, 1)
      <3>1. module[1] = other[1] /\ module[1] # Program[1]
        BY <2>2 DEF SamePackage
      <3>2. p = <<module[1]>> /\ SubSeq(other, 1, 1) = <<other[1]>>
        BY FirstName
      <3>3. Len(p) = 1 /\ p[1] = module[1]
        BY <3>2
      <3> HIDE DEF p
      <3>4. IsPackageOf(p, other)
        BY <1>0, <3>1, <3>2, <3>3 DEF IsPackageOf
      <3>5. p \in Prefixes(module)
        <4>1. CASE Len(module) = 1
          <5>1. p = module
            BY <4>1 DEF p
          <5>. QED  BY <5>1 DEF Prefixes
        <4>2. CASE Len(module) # 1
          <5>1. 1 \in 1..(Len(module) - 1)
            <6>1. \A n \in Nat : n >= 1 /\ n # 1 => 1 \in 1..(n - 1)
              OBVIOUS
            <6>. QED  BY <1>0, <4>2, <6>1, Zenon
          <5>2. p \in Parents(module)
            BY <5>1 DEF Parents, p
          <5>3. ~IsPackageOf(Program, p)
            <6>1. Len(Program) = 1 /\ SubSeq(p, 1, 1) = p
              <7>1. p \in Seq({module[1]}) /\ Len(p) = 1
                BY <3>2
              <7>2. SubSeq(p, 1, 1) = p
                BY <7>1, SubSeqFull
              <7>. QED  BY <7>2 DEF Program
            <6>2. p # Program
              BY <3>1, <3>3
            <6>. QED  BY <6>1, <6>2 DEF IsPackageOf
          <5>. QED  BY <5>2, <5>3 DEF Prefixes
        <4>. QED  BY <4>1, <4>2
      <3>. QED  BY <3>4, <3>5
    <2>. QED  BY <2>1, <2>2
  <1>. QED  BY <1>1 DEF Cached, Evicts

FoundDefined(module, found) ==
    found = [n \in 0..Cardinality(Files) |->
               IF n = 0 THEN {module}
               ELSE found[n - 1] \union UNION {Needs(m) : m \in found[n - 1] \ Cached(module)}]

\* The module itself is executed.
LEMMA ModuleExecuted ==
    ASSUME NEW module \in Seq(STRING), module # <<>>
    PROVE  module \in Executed(module)
  <1> DEFINE N == Cardinality(Files)
             found == CHOOSE f : FoundDefined(module, f)
  <1>1. N \in Nat
    BY RegistryAssumption, FS_CardinalityType
  <1>2. \E f : FoundDefined(module, f)
    <2> DEFINE V == SUBSET (Files \union {module})
               start == {module}
               step == [w \in V \X (1..N) |->
                          w[1] \union UNION {Needs(m) : m \in w[1] \ Cached(module)}]
    <2>1. start \in V /\ step \in [V \X (1..N) -> V]
      <3>1. \A m : Needs(m) \subseteq Files
        BY DEF Needs
      <3>2. ASSUME NEW W \in V PROVE W \union UNION {Needs(m) : m \in W \ Cached(module)} \in V
        BY <3>1
      <3>3. start \in V
        OBVIOUS
      <3> HIDE DEF V, start, N
      <3>. QED  BY <3>2, <3>3
    <2>2. PICK f : Stepwise(f, V, start, N, step)
      <3> HIDE DEF V, start, step, N
      <3>. QED  BY <1>1, <2>1, StepByStep
    <2>3. /\ f \in [0..N -> V] /\ f[0] = start
          /\ \A n \in 1..N : f[n] = step[<<f[n - 1], n>>]
      <3> HIDE DEF V, start, step, N
      <3>. QED  BY <2>2 DEF Stepwise
    <2>4. ASSUME NEW n \in 0..N
          PROVE  f[n] = IF n = 0 THEN {module}
                        ELSE f[n - 1] \union UNION {Needs(m) : m \in f[n - 1] \ Cached(module)}
      <3>1. CASE n = 0
        BY <2>3, <3>1
      <3>2. CASE n # 0
        <4> HIDE DEF N
        <4>1. n \in 1..N /\ n - 1 \in 0..N
          BY <1>1, <3>2
        <4> HIDE DEF V, start
        <4>2. <<f[n - 1], n>> \in V \X (1..N)
          <5> HIDE DEF step
          <5>. QED  BY <2>3, <4>1
        <4>3. step[<<f[n - 1], n>>] =
                f[n - 1] \union UNION {Needs(m) : m \in f[n - 1] \ Cached(module)}
          BY <4>2
        <4> HIDE DEF step
        <4>4. f[n] = step[<<f[n - 1], n>>]
          BY <2>3, <4>1
        <4>. QED  BY <3>2, <4>3, <4>4, Zenon
      <3>. QED  BY <3>1, <3>2
    <2>5. f = [n \in 0..N |-> f[n]]
      <3> HIDE DEF V, start, step, N
      <3>. QED  BY <2>3
    <2> HIDE DEF V, start, step
    <2>6. f = [n \in 0..N |->
                IF n = 0 THEN {module}
                ELSE f[n - 1] \union UNION {Needs(m) : m \in f[n - 1] \ Cached(module)}]
      <3> HIDE DEF N
      <3>. QED  BY <2>4, <2>5, Zenon
    <2>. QED  BY <2>6, Zenon DEF FoundDefined
  <1>3. FoundDefined(module, found)
    BY <1>2, Zenon
  <1>4. Executed(module) = found[N] \ Cached(module)
    BY Zenon DEF Executed, FoundDefined
  <1> HIDE DEF found, N
  <1>5. \A n \in 0..N : found[n] =
           IF n = 0 THEN {module}
           ELSE found[n - 1] \union UNION {Needs(m) : m \in found[n - 1] \ Cached(module)}
    BY <1>3, Zenon DEF FoundDefined, N
  <1>6. module \in found[N]
    <2> DEFINE S == {n \in Nat : n <= N => module \in found[n]}
    <2>1. 0 \in S
      <3>1. 0 \in 0..N
        BY <1>1
      <3>2. found[0] = {module}
        BY <1>5, <3>1, Zenon
      <3>. QED  BY <3>2
    <2>2. ASSUME NEW n \in Nat, n \in S PROVE n + 1 \in S
      <3> SUFFICES ASSUME n + 1 <= N PROVE module \in found[n + 1]
        OBVIOUS
      <3>1. n + 1 \in 0..N /\ (n + 1) - 1 = n /\ n + 1 # 0 /\ module \in found[n]
        BY <1>1, <2>2
      <3>. QED  BY <1>5, <3>1
    <2> HIDE DEF S
    <2>3. N \in S
      BY <1>1, <2>1, <2>2, NumberInduction
    <2>. QED  BY <2>3 DEF S
  <1>7. module \notin Cached(module)
    BY OwnPackageEvicted
  <1>. QED  BY <1>4, <1>6, <1>7

\* What a module is imported as was read from disk now, and so was what it uses
\* of its own package.
LEMMA ImportedFresh ==
    ASSUME FilesInv, NEW module \in Files
    PROVE  LET code == Imported(module)[module] IN
           /\ code.version = disk[module].version
           /\ DOMAIN code.uses = Imports[module]
           /\ \A other \in Imports[module] :
                SamePackage(module, other) => code.uses[other] = disk[other].version
  <1>1. module \in Seq(STRING) /\ module # <<>>
    BY RegistryAssumption
  <1>2. module \in Executed(module) /\ module \notin Cached(module)
    BY <1>1, ModuleExecuted, OwnPackageEvicted
  <1> DEFINE uses == [other \in Imports[module] |-> Version(module, other)]
             code == Imported(module)[module]
  <1>3. code = [version |-> disk[module].version, uses |-> uses]
    BY <1>2, Zenon DEF Imported
  <1>4. code.version = disk[module].version /\ code.uses = uses
    <2> HIDE DEF code, uses
    <2>. QED  BY <1>3
  <1>5. ASSUME NEW other \in Imports[module], SamePackage(module, other)
        PROVE  uses[other] = disk[other].version
    <2>1. other \in Seq(STRING) /\ other # <<>>
      BY RegistryAssumption
    <2>2. other \notin Cached(module)
      BY <1>1, <1>5, <2>1, OwnPackageEvicted
    <2>. QED  BY <2>2, Zenon DEF Version
  <1>6. DOMAIN uses = Imports[module]
    OBVIOUS
  <1> HIDE DEF code, uses
  <1>7. DOMAIN code.uses = Imports[module]
    BY <1>4, <1>6
  <1>8. \A other \in Imports[module] :
          SamePackage(module, other) => code.uses[other] = disk[other].version
    BY <1>4, <1>5
  <1>. QED  BY <1>4, <1>7, <1>8 DEF code

(***************************************************************************)
(* What changes entries leave of them.                                     *)
(***************************************************************************)
SameEntry(new, old) ==
    /\ Shaped(new) /\ new.tool.name = old.tool.name
    /\ new.schema = old.schema /\ new.home = old.home /\ new.code = old.code

\* A tool that gets another schema, by itself or from the snapshot.
LEMMA SchemaChange ==
    ASSUME NEW entry, Shaped(entry), NEW schema
    PROVE  SameEntry([entry EXCEPT !.tool.schema = schema], entry)
  <1> DEFINE new == [entry EXCEPT !.tool.schema = schema]
             tool == [name |-> entry.tool.name, risk |-> entry.tool.risk, schema |-> schema]
  <1>1. /\ entry = [tool |-> entry.tool, schema |-> entry.schema,
                    home |-> entry.home, code |-> entry.code]
        /\ entry.tool = [name |-> entry.tool.name, risk |-> entry.tool.risk,
                         schema |-> entry.tool.schema]
    BY DEF Shaped
  <1>2. [entry.tool EXCEPT !.schema = schema] = tool
    BY <1>1
  <1>3. new = [entry EXCEPT !.tool = [entry.tool EXCEPT !.schema = schema]]
    BY Zenon
  <1>4. new = [tool |-> tool, schema |-> entry.schema, home |-> entry.home, code |-> entry.code]
    <2> HIDE DEF tool, new
    <2>. QED  BY <1>1, <1>2, <1>3
  <1>5. /\ new.tool = tool /\ new.schema = entry.schema
        /\ new.home = entry.home /\ new.code = entry.code
    <2> HIDE DEF tool, new
    <2>. QED  BY <1>4
  <1>6. tool.name = entry.tool.name /\ tool = [name |-> tool.name, risk |-> tool.risk,
                                               schema |-> tool.schema]
    OBVIOUS
  <1> HIDE DEF tool
  <1>7. Shaped(new)
    <2> HIDE DEF new
    <2>. QED  BY <1>4, <1>5, <1>6 DEF Shaped
  <1> HIDE DEF new
  <1>8. SameEntry(new, entry)
    BY <1>5, <1>6, <1>7 DEF SameEntry
  <1>. QED  BY <1>8 DEF new

\* An entry that is left alone.
LEMMA SameAsBefore == ASSUME NEW entry, Shaped(entry) PROVE SameEntry(entry, entry)
  BY DEF SameEntry

\* Entries that are the same but for the schemas of their tools.
LEMMA EntriesKeep ==
    ASSUME EntriesInv, NamesInv, ShownInv,
           DOMAIN registry' = DOMAIN registry,
           \A i \in DOMAIN registry : SameEntry(registry'[i], registry[i]),
           since' = since, shown' = shown \/ shown' = [name \in Names(registry) |-> Find(name).schema]
    PROVE  EntriesInv' /\ NamesInv' /\ ShownInv'
  <1>1. EntriesInv'
    <2> SUFFICES ASSUME NEW i \in DOMAIN registry
                 PROVE  /\ Shaped(registry'[i])
                        /\ registry'[i].schema \in Nodes
                        /\ registry'[i].schema.types = <<{"object"}>>
                        /\ Fresh(registry'[i], since')
      BY Zenon DEF EntriesInv
    <2>1. /\ Shaped(registry'[i]) /\ registry'[i].schema = registry[i].schema
          /\ registry'[i].home = registry[i].home /\ registry'[i].code = registry[i].code
      BY Zenon DEF SameEntry
    <2>2. /\ registry[i].schema \in Nodes /\ registry[i].schema.types = <<{"object"}>>
          /\ Fresh(registry[i], since)
      BY DEF EntriesInv
    <2>3. Fresh(registry'[i], since')
      BY <2>1, <2>2 DEF Fresh
    <2>. QED  BY <2>1, <2>2, <2>3
  <1>2. \A i \in DOMAIN registry : registry'[i].tool.name = registry[i].tool.name
    BY Zenon DEF SameEntry
  <1>3. NamesInv'
    BY <1>2, Zenon DEF NamesInv
  <1>4. Names(registry)' = Names(registry)
    <2>1. Names(registry)' = {registry'[i].tool.name : i \in DOMAIN registry}
      BY Zenon DEF Names
    <2>. QED  BY <1>2, <2>1, Zenon DEF Names
  <1>5. \A i \in DOMAIN registry : registry'[i].schema = registry[i].schema
    BY Zenon DEF SameEntry
  <1>6. ASSUME shown' = shown PROVE ShownInv'
    <2>1. ASSUME shown # <<>>, NEW i \in DOMAIN registry
          PROVE  shown[registry'[i].tool.name] = registry'[i].schema
      <3>1. shown[registry[i].tool.name] = registry[i].schema
        BY <2>1 DEF ShownInv
      <3>. QED  BY <1>2, <1>5, <3>1
    <2>2. shown # <<>> => DOMAIN shown = Names(registry)'
      BY <1>4 DEF ShownInv
    <2>. QED  BY <1>6, <2>1, <2>2 DEF ShownInv
  <1>7. ASSUME shown' = [name \in Names(registry) |-> Find(name).schema] PROVE ShownInv'
    <2>1. ASSUME NEW i \in DOMAIN registry
          PROVE  shown'[registry[i].tool.name] = registry[i].schema
      <3>1. Entry(registry[i].tool.name) \in DOMAIN registry
            /\ registry[Entry(registry[i].tool.name)].tool.name = registry[i].tool.name
        BY Zenon DEF Entry
      <3>2. Entry(registry[i].tool.name) = i
        BY <3>1 DEF NamesInv
      <3>3. registry[i].tool.name \in Names(registry)
        BY DEF Names
      <3>. QED  BY <1>7, <3>2, <3>3, Zenon DEF Find
    <2>2. DOMAIN shown' = Names(registry)'
      BY <1>4, <1>7
    <2>3. \A i \in DOMAIN registry' : shown'[registry'[i].tool.name] = registry'[i].schema
      BY <1>2, <1>5, <2>1
    <2>. QED  BY <2>2, <2>3 DEF ShownInv
  <1>. QED  BY <1>1, <1>3, <1>6, <1>7

\* What the model was shown of a tool is what the check of its arguments uses.
LEMMA FoundIs ==
    ASSUME EntriesInv, NamesInv, ShownInv, NEW name \in Names(registry)
    PROVE  /\ Entry(name) \in DOMAIN registry /\ Find(name).tool.name = name
           /\ Find(name).schema \in Nodes /\ Find(name).schema.types = <<{"object"}>>
           /\ Restored(Find(name)).tool.schema = Find(name).schema
           /\ shown # <<>> => shown[name] = Find(name).schema
  <1>1. PICK i \in DOMAIN registry : registry[i].tool.name = name
    BY DEF Names
  <1>2. Entry(name) \in DOMAIN registry /\ registry[Entry(name)].tool.name = name
    BY <1>1, Zenon DEF Entry
  <1> DEFINE e == Find(name)
  <1>3. e = registry[Entry(name)]
    BY DEF Find
  <1> HIDE DEF e
  <1>4. Shaped(e) /\ e.schema \in Nodes /\ e.schema.types = <<{"object"}>> /\ e.tool.name = name
    BY <1>2, <1>3 DEF EntriesInv
  <1>5. Restored(e).tool.schema = e.schema
    <2>1. "tool" \in DOMAIN e /\ "schema" \in DOMAIN e.tool
      BY <1>4 DEF Shaped
    <2>. QED  BY <2>1, Zenon DEF Restored
  <1>6. shown # <<>> => shown[name] = e.schema
    BY <1>2, <1>3, <1>4 DEF ShownInv
  <1>. QED  BY <1>2, <1>4, <1>5, <1>6 DEF e

\* A step that leaves the call alone, and shows nothing new while it lasts.
LEMMA CallKeeps ==
    ASSUME AcceptedConforms, DecidedInv, OmissionsCounted, call' = call,
           shown' = shown \/ call = NoCall
    PROVE  AcceptedConforms' /\ DecidedInv' /\ OmissionsCounted'
  <1>1. CASE shown' = shown
    BY <1>1 DEF AcceptedConforms, DecidedInv, OmissionsCounted
  <1>2. CASE call = NoCall
    <2>1. call'.stage = "none"
      BY <1>2 DEF NoCall
    <2>. QED  BY <2>1 DEF AcceptedConforms, DecidedInv, OmissionsCounted
  <1>. QED  BY <1>1, <1>2

\* A step that leaves the registry alone, or forgets what was shown.
LEMMA RegistryKeeps ==
    ASSUME EntriesInv, NamesInv, ShownInv, UNCHANGED <<registry, since>>,
           shown' = shown \/ shown' = <<>>
    PROVE  EntriesInv' /\ NamesInv' /\ ShownInv'
  <1>1. EntriesInv' /\ NamesInv'
    BY DEF EntriesInv, NamesInv, Fresh
  <1>2. ShownInv'
    BY DEF ShownInv, Names
  <1>. QED  BY <1>1, <1>2

\* A step that leaves the loaded tools alone.
LEMMA LoadedKeeps ==
    ASSUME LoadedInv, UNCHANGED <<loaded, since>>
    PROVE  LoadedInv'
  BY DEF LoadedInv, Fresh

\* A step that leaves the files alone.
LEMMA FilesKeep ==
    ASSUME FilesInv, UNCHANGED <<disk, since>>
    PROVE  FilesInv'
  BY DEF FilesInv

\* At first nothing is loaded.
LEMMA GateInit_Inv == GateInit => GateInv
  <1> SUFFICES ASSUME GateInit PROVE GateInv
    OBVIOUS
  <1>0. RegistryInit /\ shown = <<>> /\ call.stage = "none"
    BY DEF GateInit, NoCall
  <1>1. loaded = <<>> /\ registry = <<>> /\ since = [m \in Files |-> 0]
    BY <1>0 DEF RegistryInit
  <1>2. FilesInv
    <2>1. PICK defines :
            /\ \A m \in Files : defines[m] \in Offers[m]
            /\ disk = [m \in Files |-> [version |-> 0, imports |-> TRUE, defines |-> defines[m]]]
      BY <1>0 DEF RegistryInit
    <2> SUFFICES ASSUME NEW m \in Files
                 PROVE  /\ DOMAIN disk[m] = {"version", "imports", "defines"}
                        /\ disk[m].defines = NoTools \/ disk[m].defines \in Seq(Tool)
                        /\ disk[m].version \in Nat /\ since[m] \in Nat
                        /\ since[m] <= disk[m].version
      BY <2>1 DEF FilesInv
    <2>2. disk[m] = [version |-> 0, imports |-> TRUE, defines |-> defines[m]]
      BY <2>1, Zenon
    <2>3. /\ DOMAIN disk[m] = {"version", "imports", "defines"}
          /\ disk[m].version = 0 /\ disk[m].defines = defines[m]
      <3>1. PICK t : t = TRUE
        OBVIOUS
      <3>2. disk[m] = [version |-> 0, imports |-> t, defines |-> defines[m]]
        BY <2>2, <3>1, Zenon
      <3>. QED  BY <3>2
    <2>4. since[m] = 0 /\ defines[m] \in Offers[m]
      BY <1>1, <2>1
    <2>5. defines[m] = NoTools \/ defines[m] \in Seq(Tool)
      BY <2>4, RegistryAssumption
    <2>. QED  BY <2>3, <2>4, <2>5
  <1>3. LoadedInv /\ EntriesInv /\ NamesInv /\ ShownInv
    BY <1>0, <1>1 DEF LoadedInv, EntriesInv, NamesInv, ShownInv
  <1>4. AcceptedConforms /\ DecidedInv /\ OmissionsCounted
    BY <1>0 DEF AcceptedConforms, DecidedInv, OmissionsCounted
  <1>. QED  BY <1>2, <1>3, <1>4 DEF GateInv

\* A file gets a new version.
LEMMA FileStep_Inv == ASSUME GateInv, FileStep PROVE GateInv'
  <1>1. PICK m \in Editable : EditFile(m)
    BY DEF FileStep
  <1>2. /\ FilesInv /\ LoadedInv /\ EntriesInv /\ NamesInv /\ ShownInv
        /\ AcceptedConforms /\ DecidedInv /\ OmissionsCounted
    BY DEF GateInv
  <1>3. UNCHANGED <<since, loaded, registry, shown, call>>
    BY <1>1 DEF FileStep, EditFile
  <1>4. FilesInv'
    <2>1. m \in Files /\ DOMAIN disk = Files /\ DOMAIN disk[m] = {"version", "imports", "defines"}
      BY <1>2, RegistryAssumption DEF FilesInv
    <2>2. /\ DOMAIN disk' = Files
          /\ \A x \in Files \ {m} : disk'[x] = disk[x]
          /\ DOMAIN disk'[m] = {"version", "imports", "defines"}
          /\ disk'[m].version = disk[m].version + 1
          /\ disk'[m].defines = disk[m].defines \/ disk'[m].defines \in Offers[m]
      <3>1. CASE disk' = [disk EXCEPT ![m].version = @ + 1, ![m].imports = ~@]
        <4>1. PICK b : b = ~disk[m].imports
          OBVIOUS
        <4>2. disk' = [disk EXCEPT ![m].version = @ + 1, ![m].imports = b]
          BY <2>1, <3>1, <4>1, Zenon
        <4>. QED  BY <2>1, <4>2
      <3>2. CASE \E defines \in Offers[m] :
                   disk' = [disk EXCEPT ![m] = [version |-> @.version + 1, imports |-> TRUE,
                                                defines |-> defines]]
        <4>1. PICK defines \in Offers[m] :
                 disk' = [disk EXCEPT ![m] = [version |-> @.version + 1, imports |-> TRUE,
                                              defines |-> defines]]
          BY <3>2
        <4>2. PICK t : t = TRUE
          OBVIOUS
        <4>3. disk' = [disk EXCEPT ![m] = [version |-> @.version + 1, imports |-> t,
                                           defines |-> defines]]
          BY <4>1, <4>2, Zenon
        <4>. QED  BY <2>1, <4>3
      <3>. QED  BY <1>1, <3>1, <3>2 DEF EditFile
    <2> SUFFICES ASSUME NEW x \in Files
                 PROVE  /\ DOMAIN disk'[x] = {"version", "imports", "defines"}
                        /\ disk'[x].defines = NoTools \/ disk'[x].defines \in Seq(Tool)
                        /\ disk'[x].version \in Nat /\ since[x] \in Nat
                        /\ since[x] <= disk'[x].version
      BY <1>3, <2>2 DEF FilesInv
    <2>3. /\ DOMAIN disk[x] = {"version", "imports", "defines"}
          /\ disk[x].defines = NoTools \/ disk[x].defines \in Seq(Tool)
          /\ disk[x].version \in Nat /\ since[x] \in Nat /\ since[x] <= disk[x].version
      BY <1>2 DEF FilesInv
    <2>4. CASE x # m
      BY <2>2, <2>3, <2>4
    <2>5. CASE x = m
      BY <2>2, <2>3, <2>5, RegistryAssumption
    <2>. QED  BY <2>4, <2>5
  <1>5. LoadedInv'
    BY <1>2, <1>3, LoadedKeeps
  <1>6. EntriesInv' /\ NamesInv' /\ ShownInv'
    BY <1>2, <1>3, RegistryKeeps
  <1>7. AcceptedConforms' /\ DecidedInv' /\ OmissionsCounted'
    BY <1>2, <1>3, CallKeeps
  <1>. QED  BY <1>4, <1>5, <1>6, <1>7 DEF GateInv

\* A sequence is one over its own elements.
LEMMA OwnRange ==
    ASSUME NEW S, NEW s \in Seq(S)
    PROVE  s \in Seq({s[i] : i \in DOMAIN s})
  <1> DEFINE R == {s[i] : i \in DOMAIN s}
  <1>1. \A i \in DOMAIN s : s[i] \in R
    OBVIOUS
  <1> HIDE DEF R
  <1>2. Len(s) \in Nat /\ DOMAIN s = 1..Len(s) /\ s = [i \in 1..Len(s) |-> s[i]]
    OBVIOUS
  <1>3. s \in [1..Len(s) -> R]
    BY <1>1, <1>2
  <1>4. s \in Seq(R)
    BY <1>2, <1>3
  <1>. QED  BY <1>4 DEF R

\* An element of two sequences in a row is an element of one of them.
LEMMA Joined ==
    ASSUME NEW S, NEW T, NEW s \in Seq(S), NEW t \in Seq(T)
    PROVE  \A k \in DOMAIN (s \o t) : \/ \E i \in DOMAIN s : (s \o t)[k] = s[i]
                                      \/ \E j \in DOMAIN t : (s \o t)[k] = t[j]
  <1>1. s \in Seq(S \union T) /\ t \in Seq(S \union T)
    OBVIOUS
  <1>2. /\ s \o t \in Seq(S \union T) /\ Len(s \o t) = Len(s) + Len(t)
        /\ \A k \in 1..(Len(s) + Len(t)) :
             (s \o t)[k] = IF k <= Len(s) THEN s[k] ELSE t[k - Len(s)]
    BY <1>1, ConcatProperties
  <1>3. Len(s) \in Nat /\ Len(t) \in Nat /\ DOMAIN s = 1..Len(s) /\ DOMAIN t = 1..Len(t)
        /\ DOMAIN (s \o t) = 1..(Len(s) + Len(t))
    BY <1>1, <1>2
  <1>4. ASSUME NEW k \in DOMAIN (s \o t)
        PROVE  \/ \E i \in DOMAIN s : (s \o t)[k] = s[i]
               \/ \E j \in DOMAIN t : (s \o t)[k] = t[j]
    <2>1. CASE k <= Len(s)
      <3>1. k \in DOMAIN s /\ (s \o t)[k] = s[k]
        BY <1>2, <1>3, <2>1
      <3>. QED  BY <3>1
    <2>2. CASE ~(k <= Len(s))
      <3>1. k - Len(s) \in DOMAIN t /\ (s \o t)[k] = t[k - Len(s)]
        BY <1>2, <1>3, <2>2
      <3>. QED  BY <3>1
    <2>. QED  BY <2>1, <2>2
  <1>. QED  BY <1>4

\* The tools of a module that was just imported.
LEMMA ToolsAre ==
    ASSUME FilesInv, NEW m \in Files, disk[m].defines # NoTools
    PROVE  /\ Tools(m) \in Seq({Tools(m)[i] : i \in DOMAIN Tools(m)})
           /\ \A i \in DOMAIN Tools(m) : Tools(m)[i].tool \in Tool /\ Fresh(Tools(m)[i], since)
  <1> DEFINE d == disk[m].defines
             code == Imported(m)[m]
             entry(i) == [tool |-> d[i], home |-> m, code |-> code]
  <1>1. d \in Seq(Tool) /\ disk[m].version \in Nat /\ since[m] <= disk[m].version
    BY DEF FilesInv
  <1>2. Tools(m) = [i \in DOMAIN d |-> entry(i)]
    BY Zenon DEF Tools
  <1>3. /\ code.version = disk[m].version /\ DOMAIN code.uses = Imports[m]
        /\ \A other \in Imports[m] : SamePackage(m, other) => code.uses[other] = disk[other].version
    BY ImportedFresh
  <1>4. \A other \in Imports[m] : disk[other].version \in Nat /\ since[other] \in Nat
                                  /\ since[other] <= disk[other].version
    BY RegistryAssumption DEF FilesInv
  <1> HIDE DEF d, code
  <1>5. ASSUME NEW i \in DOMAIN d
        PROVE  Tools(m)[i].tool \in Tool /\ Fresh(Tools(m)[i], since)
    <2>1. Tools(m)[i] = entry(i)
      BY <1>2
    <2>2. entry(i).tool = d[i] /\ entry(i).home = m /\ entry(i).code = code
      OBVIOUS
    <2> HIDE DEF entry
    <2>3. d[i] \in Tool
      BY <1>1
    <2>4. code.version >= since[m]
      BY <1>1, <1>3 DEF FilesInv
    <2>5. \A other \in Imports[m] : SamePackage(m, other) => code.uses[other] >= since[other]
      BY <1>3, <1>4
    <2>6. Fresh(entry(i), since)
      BY <1>3, <2>2, <2>4, <2>5 DEF Fresh
    <2>. QED  BY <2>1, <2>2, <2>3, <2>6
  <1>6. DOMAIN Tools(m) = DOMAIN d
    BY <1>2
  <1>7. Tools(m) \in Seq({Tools(m)[i] : i \in DOMAIN Tools(m)})
    <2> DEFINE R == {Tools(m)[i] : i \in DOMAIN Tools(m)}
    <2>1. Tools(m) \in [1..Len(d) -> R] /\ Len(d) \in Nat
      BY <1>1, <1>2
    <2> HIDE DEF R
    <2>2. Tools(m) \in Seq(R)
      BY <2>1
    <2>. QED  BY <2>2 DEF R
  <1>. QED  BY <1>5, <1>6, <1>7

\* What is registered was found valid, and no name twice.
LEMMA RegisteredAre ==
    ASSUME NEW entries, CanRegister(entries),
           \A i \in DOMAIN entries : entries[i].tool \in Tool /\ Fresh(entries[i], since),
           registry' = Registered(entries), since' = since
    PROVE  EntriesInv' /\ NamesInv'
  <1> DEFINE e(i) == entries[i]
             new(i) == [tool |-> e(i).tool, schema |-> e(i).tool.schema,
                        home |-> e(i).home, code |-> e(i).code]
  <1>1. registry' = [i \in DOMAIN entries |-> new(i)]
    BY Zenon DEF Registered
  <1>2. ASSUME NEW i \in DOMAIN entries
        PROVE  /\ registry'[i] = new(i)
               /\ new(i).tool = e(i).tool /\ new(i).schema = e(i).tool.schema
               /\ new(i).home = e(i).home /\ new(i).code = e(i).code
    BY <1>1
  <1>3. ASSUME NEW i \in DOMAIN entries
        PROVE  /\ Shaped(new(i)) /\ new(i).schema \in Nodes
               /\ new(i).schema.types = <<{"object"}>> /\ Fresh(new(i), since)
    <2>1. e(i).tool \in Tool /\ Fresh(e(i), since)
      OBVIOUS
    <2>2. SchemaValid(e(i).tool.schema)
      BY DEF CanRegister
    <2>3. e(i).tool.schema.types = <<{"object"}>>
      BY <2>2 DEF SchemaValid
    <2> HIDE DEF e
    <2>4. /\ e(i).tool.schema \in Nodes
          /\ e(i).tool = [name |-> e(i).tool.name, risk |-> e(i).tool.risk,
                          schema |-> e(i).tool.schema]
      BY <2>1 DEF Tool
    <2>5. new(i) = [tool |-> new(i).tool, schema |-> new(i).schema,
                    home |-> new(i).home, code |-> new(i).code]
      OBVIOUS
    <2>6. Fresh(new(i), since)
      <3>1. new(i).home = e(i).home /\ new(i).code = e(i).code
        BY <1>2 DEF e
      <3> HIDE DEF new
      <3>. QED  BY <2>1, <3>1 DEF Fresh
    <2>7. new(i).tool = e(i).tool /\ new(i).schema = e(i).tool.schema
      BY <1>2 DEF e
    <2> HIDE DEF new
    <2>. QED  BY <2>3, <2>4, <2>5, <2>6, <2>7 DEF Shaped
  <1>4. DOMAIN registry' = DOMAIN entries
    BY <1>1
  <1>5. \A i, j \in DOMAIN entries : e(i).tool.name = e(j).tool.name => i = j
    BY DEF CanRegister
  <1> HIDE DEF new, e
  <1>6. EntriesInv'
    BY <1>2, <1>3, <1>4 DEF EntriesInv
  <1>7. NamesInv'
    BY <1>2, <1>4, <1>5 DEF NamesInv
  <1>. QED  BY <1>6, <1>7

\* A build starts with the files as they are, and empty.
LEMMA StartBuild_Inv ==
    ASSUME GateInv, NEW c \in Configurations, StartBuild(c),
           call = NoCall, shown' = <<>>, UNCHANGED call
    PROVE  GateInv'
  <1>1. /\ FilesInv /\ AcceptedConforms /\ DecidedInv /\ OmissionsCounted
    BY DEF GateInv
  <1>2. /\ since' = [m \in Files |-> disk[m].version] /\ disk' = disk
        /\ loaded' = <<>> /\ registry' = <<>>
    BY DEF StartBuild
  <1>3. FilesInv'
    BY <1>1, <1>2 DEF FilesInv
  <1>4. LoadedInv' /\ EntriesInv' /\ NamesInv' /\ ShownInv'
    BY <1>2 DEF LoadedInv, EntriesInv, NamesInv, ShownInv
  <1>5. AcceptedConforms' /\ DecidedInv' /\ OmissionsCounted'
    BY <1>1, CallKeeps
  <1>. QED  BY <1>3, <1>4, <1>5 DEF GateInv

\* The tools of one more module, or the build fails.
LEMMA LoadModule_Inv ==
    ASSUME GateInv, LoadModule, call = NoCall, shown' = <<>>, UNCHANGED call
    PROVE  GateInv'
  <1>1. /\ FilesInv /\ LoadedInv /\ EntriesInv /\ NamesInv /\ ShownInv
        /\ AcceptedConforms /\ DecidedInv /\ OmissionsCounted
    BY DEF GateInv
  <1>2. UNCHANGED <<disk, since, registry>>
    BY DEF LoadModule
  <1>3. FilesInv' /\ EntriesInv' /\ NamesInv' /\ ShownInv'
    BY <1>1, <1>2, FilesKeep, RegistryKeeps
  <1>4. AcceptedConforms' /\ DecidedInv' /\ OmissionsCounted'
    BY <1>1, CallKeeps
  <1> DEFINE m == Head(todo)
  <1>5. LoadedInv'
    <2>1. CASE loaded' = loaded
      BY <1>1, <1>2, <2>1, LoadedKeeps
    <2>2. CASE loaded' = loaded \o Tools(m) /\ CanImport(m) /\ disk[m].defines # NoTools
      <3>1. m \in Files
        BY <2>2 DEF CanImport
      <3> HIDE DEF m
      <3>2. /\ Tools(m) \in Seq({Tools(m)[i] : i \in DOMAIN Tools(m)})
            /\ \A i \in DOMAIN Tools(m) : Tools(m)[i].tool \in Tool /\ Fresh(Tools(m)[i], since)
        BY <1>1, <2>2, <3>1, ToolsAre
      <3>3. /\ loaded \in Seq({loaded[i] : i \in DOMAIN loaded})
            /\ \A i \in DOMAIN loaded : loaded[i].tool \in Tool /\ Fresh(loaded[i], since)
        BY <1>1 DEF LoadedInv
      <3> DEFINE all == loaded \o Tools(m)
      <3>4. /\ all \in Seq({all[k] : k \in DOMAIN all})
            /\ \A k \in DOMAIN all : \/ \E i \in DOMAIN loaded : all[k] = loaded[i]
                                     \/ \E j \in DOMAIN Tools(m) : all[k] = Tools(m)[j]
        <4> DEFINE new == Tools(m)
                   S == {loaded[i] : i \in DOMAIN loaded}
                   T == {new[i] : i \in DOMAIN new}
        <4>1. loaded \in Seq(S) /\ new \in Seq(T)
          BY <3>2, <3>3
        <4> HIDE DEF new, S, T
        <4>2. \A k \in DOMAIN (loaded \o new) :
                 \/ \E i \in DOMAIN loaded : (loaded \o new)[k] = loaded[i]
                 \/ \E j \in DOMAIN new : (loaded \o new)[k] = new[j]
          BY <4>1, Joined
        <4>3. loaded \o new \in Seq(S \union T)
          BY <4>1
        <4>4. loaded \o new \in Seq({(loaded \o new)[k] : k \in DOMAIN (loaded \o new)})
          BY <4>3, OwnRange, Zenon
        <4>. QED  BY <4>2, <4>4 DEF new
      <3> HIDE DEF all
      <3>5. \A k \in DOMAIN all : all[k].tool \in Tool /\ Fresh(all[k], since)
        BY <3>2, <3>3, <3>4, Zenon
      <3>6. loaded' = all /\ since' = since
        BY <1>2, <2>2 DEF all
      <3>. QED  BY <3>4, <3>5, <3>6 DEF LoadedInv
    <2>. QED  BY <2>1, <2>2 DEF LoadModule
  <1>. QED  BY <1>3, <1>4, <1>5 DEF GateInv

\* The registry is filled, or the build fails.
LEMMA FinishBuild_Inv ==
    ASSUME GateInv, FinishBuild, call = NoCall, shown' = <<>>, UNCHANGED call
    PROVE  GateInv'
  <1>1. /\ FilesInv /\ LoadedInv /\ EntriesInv /\ NamesInv /\ ShownInv
        /\ AcceptedConforms /\ DecidedInv /\ OmissionsCounted
    BY DEF GateInv
  <1>2. UNCHANGED <<disk, since, loaded>>
    BY DEF FinishBuild
  <1>3. FilesInv' /\ LoadedInv'
    BY <1>1, <1>2, FilesKeep, LoadedKeeps
  <1>4. AcceptedConforms' /\ DecidedInv' /\ OmissionsCounted'
    BY <1>1, CallKeeps
  <1> DEFINE entries == BuiltInEntries \o loaded
             chosen == IF config.enabled = NoSelection THEN entries
                       ELSE Selected(entries, config.enabled)
  <1>5. EntriesInv' /\ NamesInv' /\ ShownInv'
    <2>1. CASE registry' = registry
      BY <1>1, <1>2, <2>1, RegistryKeeps
    <2>2. CASE CanBuild(entries, config.enabled) /\ registry' = Registered(chosen)
      <3>1. /\ BuiltInEntries \in Seq({BuiltInEntries[i] : i \in DOMAIN BuiltInEntries})
            /\ \A i \in DOMAIN BuiltInEntries :
                 BuiltInEntries[i].tool \in Tool /\ Fresh(BuiltInEntries[i], since)
        <4> DEFINE code == [version |-> 0, uses |-> <<>>]
                   e(i) == [tool |-> BuiltIn[i], home |-> Program, code |-> code]
        <4>1. BuiltIn \in Seq(Tool)
          BY RegistryAssumption
        <4>2. BuiltInEntries = [i \in DOMAIN BuiltIn |-> e(i)]
          BY Zenon DEF BuiltInEntries
        <4>3. ASSUME NEW i \in DOMAIN BuiltIn
              PROVE  BuiltInEntries[i].tool \in Tool /\ BuiltInEntries[i].home = Program
          <5>1. BuiltInEntries[i] = e(i) /\ BuiltIn[i] \in Tool
            BY <4>1, <4>2
          <5>2. e(i).tool = BuiltIn[i] /\ e(i).home = Program
            OBVIOUS
          <5> HIDE DEF e
          <5>. QED  BY <5>1, <5>2
        <4>4. DOMAIN BuiltInEntries = DOMAIN BuiltIn
          BY <4>2
        <4>5. BuiltInEntries \in Seq({BuiltInEntries[i] : i \in DOMAIN BuiltInEntries})
          <5> DEFINE R == {BuiltInEntries[i] : i \in DOMAIN BuiltInEntries}
          <5>1. Len(BuiltIn) \in Nat /\ DOMAIN BuiltIn = 1..Len(BuiltIn)
            BY <4>1
          <5>2. BuiltInEntries \in [1..Len(BuiltIn) -> R]
            BY <4>2, <5>1
          <5> HIDE DEF R
          <5>3. BuiltInEntries \in Seq(R)
            BY <5>1, <5>2
          <5>. QED  BY <5>3 DEF R
        <4>. QED  BY <4>3, <4>4, <4>5 DEF Fresh
      <3>2. /\ loaded \in Seq({loaded[i] : i \in DOMAIN loaded})
            /\ \A i \in DOMAIN loaded : loaded[i].tool \in Tool /\ Fresh(loaded[i], since)
        BY <1>1 DEF LoadedInv
      <3>3. \A k \in DOMAIN entries : \/ \E i \in DOMAIN BuiltInEntries : entries[k] = BuiltInEntries[i]
                                      \/ \E j \in DOMAIN loaded : entries[k] = loaded[j]
        <4> DEFINE built == BuiltInEntries
                   S == {built[i] : i \in DOMAIN built}
                   T == {loaded[i] : i \in DOMAIN loaded}
        <4>1. built \in Seq(S) /\ loaded \in Seq(T)
          BY <3>1, <3>2
        <4> HIDE DEF built, S, T
        <4>2. \A k \in DOMAIN (built \o loaded) :
                 \/ \E i \in DOMAIN built : (built \o loaded)[k] = built[i]
                 \/ \E j \in DOMAIN loaded : (built \o loaded)[k] = loaded[j]
          BY <4>1, Joined
        <4>. QED  BY <4>2 DEF built
      <3> HIDE DEF entries
      <3>4. \A k \in DOMAIN entries : entries[k].tool \in Tool /\ Fresh(entries[k], since)
        BY <3>1, <3>2, <3>3, Zenon
      <3>5. /\ CanRegister(chosen)
            /\ \A i \in DOMAIN chosen : chosen[i].tool \in Tool /\ Fresh(chosen[i], since)
        <4>1. CASE config.enabled = NoSelection
          <5>1. chosen = entries
            BY <4>1
          <5>2. CanRegister(entries)
            BY <2>2 DEF CanBuild
          <5> HIDE DEF chosen
          <5>. QED  BY <3>4, <5>1, <5>2
        <4>2. CASE config.enabled # NoSelection
          <5> DEFINE names == config.enabled
          <5>1. chosen = Selected(entries, names)
            BY <4>2
          <5>2. CanRegister(chosen) /\ \A i \in DOMAIN names : names[i] \in Names(entries)
            BY <2>2, <4>2, <5>1 DEF CanBuild
          <5> HIDE DEF chosen, names
          <5>3. ASSUME NEW i \in DOMAIN chosen PROVE \E k \in DOMAIN entries : chosen[i] = entries[k]
            <6>1. i \in DOMAIN names
              BY <5>1 DEF Selected
            <6>2. chosen[i] = entries[CHOOSE k \in DOMAIN entries : entries[k].tool.name = names[i]]
              BY <5>1, <6>1, Zenon DEF Selected
            <6>3. \E k \in DOMAIN entries : entries[k].tool.name = names[i]
              BY <5>2, <6>1 DEF Names
            <6>. QED  BY <6>2, <6>3, Zenon
          <5>. QED  BY <3>4, <5>2, <5>3, Zenon
        <4>. QED  BY <4>1, <4>2
      <3> HIDE DEF chosen
      <3>6. EntriesInv' /\ NamesInv'
        BY <1>2, <2>2, <3>5, RegisteredAre
      <3>7. ShownInv'
        BY DEF ShownInv
      <3>. QED  BY <3>6, <3>7
    <2>. QED  BY <2>1, <2>2 DEF FinishBuild
  <1>. QED  BY <1>3, <1>4, <1>5 DEF GateInv

\* Every step of a build keeps the invariant.
LEMMA BuildStep_Inv == ASSUME GateInv, BuildStep PROVE GateInv'
  BY StartBuild_Inv, LoadModule_Inv, FinishBuild_Inv DEF BuildStep

\* Calls that are neither accepted, decided nor finished promise nothing yet.
LEMMA OtherCall ==
    ASSUME call'.stage \notin {"accepted", "decided", "finished"}
    PROVE  AcceptedConforms' /\ DecidedInv' /\ OmissionsCounted'
  BY DEF AcceptedConforms, DecidedInv, OmissionsCounted

\* The model sees the snapshots, and the tools get them back.
LEMMA ShowTools_Inv == ASSUME GateInv, ShowTools PROVE GateInv'
  <1>1. /\ FilesInv /\ LoadedInv /\ EntriesInv /\ NamesInv /\ ShownInv
        /\ AcceptedConforms /\ DecidedInv /\ OmissionsCounted
    BY DEF GateInv
  <1>2. /\ call = NoCall /\ UNCHANGED <<disk, since, loaded, call>>
        /\ shown' = [name \in Names(registry) |-> Find(name).schema]
        /\ registry' = [i \in DOMAIN registry |-> Restored(registry[i])]
    BY DEF ShowTools
  <1>3. ASSUME NEW i \in DOMAIN registry PROVE SameEntry(registry'[i], registry[i])
    <2>1. Shaped(registry[i])
      BY <1>1 DEF EntriesInv
    <2>2. SameEntry(Restored(registry[i]), registry[i])
      BY <2>1, SchemaChange, Zenon DEF Restored
    <2>. QED  BY <1>2, <2>2
  <1>4. EntriesInv' /\ NamesInv' /\ ShownInv'
    <2>1. DOMAIN registry' = DOMAIN registry
      BY <1>2
    <2>. QED  BY <1>1, <1>2, <1>3, <2>1, EntriesKeep, Zenon
  <1>5. AcceptedConforms' /\ DecidedInv' /\ OmissionsCounted'
    BY <1>1, <1>2, CallKeeps
  <1>. QED  BY <1>1, <1>2, <1>4, <1>5, FilesKeep, LoadedKeeps DEF GateInv

\* Steps that leave the registry alone.
LEMMA RegistryUnchanged ==
    ASSUME GateInv, UNCHANGED <<registryVars, shown>>
    PROVE  FilesInv' /\ LoadedInv' /\ EntriesInv' /\ NamesInv' /\ ShownInv'
  <1>1. FilesInv /\ LoadedInv /\ EntriesInv /\ NamesInv /\ ShownInv
    BY DEF GateInv
  <1>2. UNCHANGED <<disk, since, loaded, registry, shown>>
    BY DEF registryVars
  <1>. QED  BY <1>1, <1>2, FilesKeep, LoadedKeeps, RegistryKeeps

\* Arguments are checked with the schema that the model was shown.
LEMMA CheckArguments_Inv ==
    ASSUME GateInv, NEW name \in Names(registry), NEW arguments \in Arguments,
           CheckArguments(name, arguments)
    PROVE  GateInv'
  <1>1. FilesInv /\ LoadedInv /\ EntriesInv /\ NamesInv /\ ShownInv
    BY DEF GateInv
  <1> DEFINE schema == Find(name).schema
             e == registry[Entry(name)]
  <1>2. /\ Entry(name) \in DOMAIN registry /\ schema \in Nodes /\ schema.types = <<{"object"}>>
        /\ Restored(Find(name)).tool.schema = schema /\ (shown # <<>> => shown[name] = schema)
    BY <1>1, FoundIs
  <1>3. /\ shown # <<>> /\ UNCHANGED <<disk, since, loaded, shown>>
        /\ call' = IF ArgumentsAccepted(arguments, Restored(Find(name)).tool.schema)
                   THEN [stage |-> "accepted", tool |-> name, arguments |-> arguments]
                   ELSE [stage |-> "invalid"]
        /\ registry' = [registry EXCEPT ![Entry(name)] = Restored(@)]
    BY DEF CheckArguments
  <1> HIDE DEF schema
  <1>4. ASSUME NEW i \in DOMAIN registry PROVE SameEntry(registry'[i], registry[i])
    <2>1. Shaped(registry[i])
      BY <1>1 DEF EntriesInv
    <2>2. SameEntry(Restored(registry[i]), registry[i]) /\ SameEntry(registry[i], registry[i])
      BY <2>1, SchemaChange, SameAsBefore, Zenon DEF Restored
    <2>3. registry'[i] = IF i = Entry(name) THEN Restored(registry[i]) ELSE registry[i]
      BY <1>2, <1>3, Zenon
    <2>. QED  BY <2>2, <2>3
  <1>5. EntriesInv' /\ NamesInv' /\ ShownInv'
    <2>1. DOMAIN registry' = DOMAIN registry
      BY <1>3
    <2>. QED  BY <1>1, <1>3, <1>4, <2>1, EntriesKeep, Zenon
  <1>6. AcceptedConforms' /\ DecidedInv' /\ OmissionsCounted'
    <2>1. CASE ArgumentsAccepted(arguments, schema)
      <3>1. call' = [stage |-> "accepted", tool |-> name, arguments |-> arguments]
        BY <1>2, <1>3, <2>1
      <3>2. call'.stage = "accepted" /\ call'.tool = name /\ call'.arguments = arguments
        BY <3>1
      <3>3. shown'[name] = schema
        BY <1>2, <1>3
      <3>4. Conforms(arguments, [schema EXCEPT !.enum = <<>>])
        BY <1>2, <2>1, CheckIsSound, GateAssumption
      <3>5. AcceptedConforms'
        BY <3>2, <3>3, <3>4 DEF AcceptedConforms
      <3>. QED  BY <3>2, <3>5 DEF DecidedInv, OmissionsCounted
    <2>2. CASE ~ArgumentsAccepted(arguments, schema)
      <3>1. call' = [stage |-> "invalid"]
        BY <1>2, <1>3, <2>2
      <3>. QED  BY <3>1, OtherCall
    <2>. QED  BY <2>1, <2>2
  <1>7. FilesInv' /\ LoadedInv'
    BY <1>1, <1>3, FilesKeep, LoadedKeeps
  <1>. QED  BY <1>5, <1>6, <1>7 DEF GateInv

\* The policy decides.
LEMMA DecideCall_Inv ==
    ASSUME GateInv, NEW command \in Commands, DecideCall(command)
    PROVE  GateInv'
  <1> DEFINE tool == Find(call.tool).tool
             decision == Decide(Profile, ConfirmRisky, tool.name, tool.risk, command)
  <1>1. call' = [stage |-> "decided", tool |-> tool.name, risk |-> tool.risk,
                 command |-> command, decision |-> decision]
        /\ UNCHANGED <<registryVars, shown>>
    BY Zenon DEF DecideCall
  <1>2. /\ call'.stage = "decided" /\ call'.tool = tool.name /\ call'.risk = tool.risk
        /\ call'.command = command /\ call'.decision = decision
    <2> HIDE DEF decision, tool
    <2>. QED  BY <1>1
  <1>3. DecidedInv'
    <2>1. Commands' = Commands
      BY DEF Commands
    <2>. QED  BY <1>2, <2>1, Zenon DEF DecidedInv
  <1>4. AcceptedConforms' /\ OmissionsCounted'
    <2> HIDE DEF decision, tool
    <2>. QED  BY <1>2 DEF AcceptedConforms, OmissionsCounted
  <1>. QED  BY <1>1, <1>3, <1>4, RegistryUnchanged DEF GateInv

\* What is stored of the items of a result, or of a message, counts them.
LEMMA Finished_Inv ==
    ASSUME NEW n \in Nat, NEW copies,
           copies \subseteq {Sent(n), Logged(n), TextParts(n), InContext(n)},
           call' = [stage |-> "finished", items |-> n, copies |-> copies]
    PROVE  AcceptedConforms' /\ DecidedInv' /\ OmissionsCounted'
  <1>1. call'.stage = "finished" /\ call'.items = n /\ call'.copies = copies
    OBVIOUS
  <1>2. ASSUME NEW copy \in copies
        PROVE  /\ copy.length <= ItemLimit /\ Original(copy) = n
               /\ copy.marker # Whole => copy.marker.items = n
    <2>1. copy \in {Bounded(Collection(n)), Bounded(Bounded(Collection(n))),
                    Bounded(Bounded(Bounded(Collection(n)))), TextParts(n)}
      BY DEF Sent, Logged, Stored, InContext
    <2>. QED  BY <2>1, CopiesAre
  <1>. QED  BY <1>1, <1>2 DEF AcceptedConforms, DecidedInv, OmissionsCounted

\* A tool runs and may set its schema; the snapshot of it stays.
LEMMA RunTool_Inv ==
    ASSUME GateInv, NEW n \in 0..MaxItems, RunTool(n)
    PROVE  GateInv'
  <1>1. FilesInv /\ LoadedInv /\ EntriesInv /\ NamesInv /\ ShownInv
    BY DEF GateInv
  <1>2. PICK schema : registry' = [registry EXCEPT ![Entry(call.tool)].tool.schema = schema]
    BY DEF RunTool
  <1>3. /\ call' = [stage |-> "finished", items |-> n, copies |-> {Sent(n), Logged(n)}]
        /\ UNCHANGED <<disk, since, loaded, shown>>
    BY DEF RunTool
  <1>4. ASSUME NEW i \in DOMAIN registry PROVE SameEntry(registry'[i], registry[i])
    <2>1. Shaped(registry[i])
      BY <1>1 DEF EntriesInv
    <2>2. SameEntry([registry[i] EXCEPT !.tool.schema = schema], registry[i])
          /\ SameEntry(registry[i], registry[i])
      BY <2>1, SchemaChange, SameAsBefore, Zenon
    <2>3. registry'[i] = IF i = Entry(call.tool) THEN [registry[i] EXCEPT !.tool.schema = schema]
                         ELSE registry[i]
      BY <1>2, Zenon
    <2>. QED  BY <2>2, <2>3, Zenon
  <1>5. EntriesInv' /\ NamesInv' /\ ShownInv'
    <2>1. DOMAIN registry' = DOMAIN registry
      BY <1>2
    <2>. QED  BY <1>1, <1>3, <1>4, <2>1, EntriesKeep, Zenon
  <1>6. n \in Nat
    BY GateAssumption
  <1>7. AcceptedConforms' /\ DecidedInv' /\ OmissionsCounted'
    BY <1>3, <1>6, Finished_Inv
  <1>. QED  BY <1>1, <1>3, <1>5, <1>7, FilesKeep, LoadedKeeps DEF GateInv

\* A message of the model ends the run.
LEMMA AnswerRun_Inv ==
    ASSUME GateInv, NEW n \in 0..MaxItems, AnswerRun(n)
    PROVE  GateInv'
  <1>1. /\ call' = [stage |-> "finished", items |-> n, copies |-> {TextParts(n), InContext(n)}]
        /\ UNCHANGED <<registryVars, shown>>
    BY DEF AnswerRun
  <1>2. n \in Nat
    BY GateAssumption
  <1>3. AcceptedConforms' /\ DecidedInv' /\ OmissionsCounted'
    BY <1>1, <1>2, Finished_Inv
  <1>. QED  BY <1>1, <1>3, RegistryUnchanged DEF GateInv

\* CallUnknown, FollowDecision and NextCall.
LEMMA OtherStep_Inv ==
    ASSUME GateInv, CallUnknown \/ NextCall \/ \E confirmed \in BOOLEAN : FollowDecision(confirmed)
    PROVE  GateInv'
  <1>1. UNCHANGED <<registryVars, shown>>
    BY DEF CallUnknown, NextCall, FollowDecision
  <1>2. call'.stage \notin {"accepted", "decided", "finished"}
    <2>1. CASE CallUnknown \/ NextCall
      BY <2>1 DEF CallUnknown, NextCall, NoCall
    <2>2. CASE \E confirmed \in BOOLEAN : FollowDecision(confirmed)
      <3>1. call' = [stage |-> "started", tool |-> call.tool] \/ call' = [stage |-> "refused"]
        BY <2>2 DEF FollowDecision
      <3>. QED  BY <3>1
    <2>. QED  BY <2>1, <2>2
  <1>. QED  BY <1>1, <1>2, OtherCall, RegistryUnchanged DEF GateInv

\* Every step keeps the invariant.
LEMMA GateNext_Inv == ASSUME GateInv, [GateNext]_gateVars PROVE GateInv'
  <1>1. CASE BuildStep
    BY <1>1, BuildStep_Inv
  <1>2. CASE FileStep
    BY <1>2, FileStep_Inv
  <1>3. CASE ShowTools
    BY <1>3, ShowTools_Inv
  <1>4. CASE CallUnknown \/ NextCall \/ \E confirmed \in BOOLEAN : FollowDecision(confirmed)
    BY <1>4, OtherStep_Inv
  <1>5. CASE \E name \in Names(registry), arguments \in Arguments : CheckArguments(name, arguments)
    BY <1>5, CheckArguments_Inv
  <1>6. CASE \E command \in Commands : DecideCall(command)
    BY <1>6, DecideCall_Inv
  <1>7. CASE \E n \in 0..MaxItems : RunTool(n) \/ AnswerRun(n)
    BY <1>7, RunTool_Inv, AnswerRun_Inv
  <1>8. CASE UNCHANGED gateVars
    <2>1. UNCHANGED <<registryVars, shown>> /\ call' = call /\ shown' = shown
      BY <1>8 DEF gateVars
    <2>2. AcceptedConforms' /\ DecidedInv' /\ OmissionsCounted'
      BY <2>1, CallKeeps DEF GateInv
    <2>. QED  BY <2>1, <2>2, RegistryUnchanged DEF GateInv
  <1>. QED  BY <1>1, <1>2, <1>3, <1>4, <1>5, <1>6, <1>7, <1>8 DEF GateNext

(***************************************************************************)
(* Theorems.                                                               *)
(***************************************************************************)
\* The invariant holds in every state.
THEOREM GateInvariant == GateSpec => []GateInv
  <1>1. GateInit => GateInv
    BY GateInit_Inv
  <1>2. GateInv /\ [GateNext]_gateVars => GateInv'
    BY GateNext_Inv
  <1>. QED  BY <1>1, <1>2, PTL DEF GateSpec

\* However the files of tool modules change, a registry runs no code older than
\* its build, neither of a tool nor of what it imports from its own package.
THEOREM RegistryIsFresh == GateSpec => []RunsWhatIsOnDisk
  <1>1. GateInv => RunsWhatIsOnDisk
    BY DEF GateInv, EntriesInv, Fresh, RunsWhatIsOnDisk
  <1>. QED  BY <1>1, GateInvariant, PTL

\* Whatever tools do to their schemas, arguments that get past the check conform
\* in every value nested in them to the schema the model was shown.
THEOREM AcceptedArgumentsConform == GateSpec => []AcceptedConforms
  <1>1. GateInv => AcceptedConforms
    BY DEF GateInv
  <1>. QED  BY <1>1, GateInvariant, PTL

\* Whatever the parts of a command: profiles are ordered by strictness,
\* confirming is no blocking, and no command that stands free of its neighbours
\* is decided more leniently among them.
THEOREM DecisionsAreOrdered == GateSpec => []PolicyOrdered
  <1>1. GateInv => PolicyOrdered
    <2> SUFFICES ASSUME GateInv, call.stage = "decided" PROVE PolicyOrdered
      BY DEF PolicyOrdered
    <2>1. /\ call.command \in Commands
          /\ call.decision = Decide(Profile, ConfirmRisky, call.tool, call.risk, call.command)
      BY DEF GateInv, DecidedInv
    <2>2. \A confirm \in BOOLEAN :
             /\ Strict("read_only", confirm, call.command) >= Strict("standard", confirm, call.command)
             /\ Strict("trusted", confirm, call.command) <= Strict("standard", confirm, call.command)
      BY ProfilesOrdered DEF Strict
    <2>3. (Strict(Profile, TRUE, call.command) = 2) = (Strict(Profile, FALSE, call.command) = 2)
      <3>1. PICK t : t = TRUE
        OBVIOUS
      <3>2. PICK f : f = FALSE
        OBVIOUS
      <3>3. (Strict(Profile, t, call.command) = 2) = (Strict(Profile, f, call.command) = 2)
        BY ConfirmNeverBlocks DEF Strict
      <3>. QED  BY <3>1, <3>2, <3>3, Zenon
    <2>4. ASSUME call.command # InvalidCommand, NEW part \in {p \in Parts : p.glued = {}}
          PROVE  /\ Strict(Profile, ConfirmRisky, Append(call.command, part)) >=
                      Strictness[call.decision]
                 /\ Strict(Profile, ConfirmRisky, <<part>> \o call.command) >=
                      Strictness[call.decision]
      <3>1. PICK n \in 1..2 : call.command \in [1..n -> Parts]
        BY <2>1, <2>4 DEF Commands
      <3>2. call.command \in Seq(Parts)
        BY <3>1
      <3>3. DOMAIN call.command \subseteq Nat
        BY <3>1
      <3>4. Contains(Append(call.command, part), call.command)
            /\ Contains(<<part>> \o call.command, call.command)
        BY <2>4, <3>2, LongerContains
      <3>. QED  BY <2>1, <2>4, <3>3, <3>4, LongerStricter DEF Strict
    <2>. QED  BY <2>2, <2>3, <2>4, Zenon DEF PolicyOrdered
  <1>. QED  BY <1>1, GateInvariant, PTL

\* Whatever the limit and the number of items: what was cut says so truthfully.
THEOREM CutsAreCounted == GateSpec => []OmissionsCounted
  <1>1. GateInv => OmissionsCounted
    BY DEF GateInv
  <1>. QED  BY <1>1, GateInvariant, PTL
==============================================================================
