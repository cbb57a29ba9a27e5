------------------------------ MODULE WireProofs ------------------------------
(***************************************************************************)
(* Proofs about Wire, for any feeds, agents and bounds. What a pass takes  *)
(* from the feeds is computed by recursion on sequences; that such a       *)
(* function exists, and what it makes, is shown from the least number for  *)
(* which it would fail (Least, Recursion). The rest is what each place of  *)
(* the process knows of what was sent (Accounted) and is still to be sent  *)
(* (Pending): whoever is sent the item in hand does not have it, unless    *)
(* the wire was made to forget.                                            *)
(***************************************************************************)
EXTENDS Wire, SequenceTheorems, FiniteSetTheorems, WellFoundedInduction, TLAPS

-----------------------------------------------------------------------------
(* What a pass takes.                                                      *)

\* A set of numbers that is not empty has a least one.
LEMMA Least ==
  ASSUME NEW T, T \subseteq Nat, T # {}
  PROVE  \E n \in T : \A m \in T : n <= m
<1>1. PICK n \in T : \A m \in T : <<m, n>> \notin OpToRel(<, Nat)
  BY NatLessThanWellFounded, WFMin
<1>2. ASSUME NEW m \in T PROVE n <= m
  <2>1. m \in Nat /\ n \in Nat BY <1>1
  <2>2. m < n => <<m, n>> \in OpToRel(<, Nat) BY <2>1 DEF OpToRel
  <2>3. <<m, n>> \notin OpToRel(<, Nat) BY <1>1
  <2>4. ~ m < n BY <2>2, <2>3
  <2> QED BY ONLY <2>1, <2>4
<1> QED BY <1>1, <1>2

\* g is defined by recursion on the numbers from a to n.
Recurs(g, a, n, x0, F) == \A k \in a..n : g[k] = IF k = a THEN x0 ELSE F[k][g[k - 1]]

\* There always is such a function.
LEMMA Recursion ==
  ASSUME NEW a \in Nat, NEW N \in Nat, a <= N, NEW X, NEW x0 \in X, NEW F \in [Nat -> [X -> X]]
  PROVE  \E g \in [a..N -> X] : Recurs(g, a, N, x0, F)
<1> DEFINE Solves(g, n) == Recurs(g, a, n, x0, F)
           T == {n \in a..N : ~ \E g \in [a..n -> X] : Solves(g, n)}
<1> USE DEF Recurs
<1>1. ASSUME T # {} PROVE FALSE
  <2>1. T \subseteq Nat OBVIOUS
  <2>2. PICK n \in T : \A m \in T : n <= m
    <3> HIDE DEF T
    <3> QED BY <1>1, <2>1, Least
  <2>3. n \in a..N /\ n \in Nat /\ ~ \E g \in [a..n -> X] : Solves(g, n) BY <2>2
  <2>4. CASE n = a
    <3>1. [k \in a..a |-> x0] \in [a..n -> X] BY <2>4
    <3>2. Solves([k \in a..a |-> x0], n) BY <2>4
    <3> QED BY <2>3, <3>1, <3>2, Zenon
  <2>5. CASE n # a
    <3>1. n - 1 \in a..N /\ ~ n <= n - 1 BY <2>3, <2>5
    <3>2. n - 1 \notin T BY <2>2, <3>1
    <3>3. PICK g \in [a..(n - 1) -> X] : Solves(g, n - 1) BY <3>1, <3>2
    <3> DEFINE h == [k \in a..n |-> IF k = n THEN F[n][g[n - 1]] ELSE g[k]]
    <3>4. n - 1 \in a..(n - 1) /\ g[n - 1] \in X BY <2>3, <2>5
    <3>5. h \in [a..n -> X] BY <2>3, <3>4
    <3>6. ASSUME NEW k \in a..n PROVE h[k] = IF k = a THEN x0 ELSE F[k][h[k - 1]]
      <4>1. CASE k = n BY <2>3, <2>5, <3>4, <4>1
      <4>2. CASE k # n
        <5>1. k \in a..(n - 1) /\ h[k] = g[k] BY <2>3, <4>2
        <5>2. k # a => k - 1 \in a..n /\ k - 1 # n BY <5>1, <2>3
        <5>3. k # a => h[k - 1] = g[k - 1] BY <5>2
        <5> HIDE DEF h
        <5> QED BY <3>3, <5>1, <5>3
      <4> QED BY <4>1, <4>2
    <3>7. Solves(h, n) BY <3>6
    <3> HIDE DEF h, Solves
    <3> QED BY <2>3, <3>5, <3>7
  <2> QED BY <2>4, <2>5
<1>2. N \in a..N /\ N \notin T BY <1>1
<1> QED BY <1>2

\* What is unseen of the first k items is what was of those before the last, and
\* the last if it is not in the file.
UnseenOfFirst(fresh, items) ==
  \A k \in 0..Len(items) : fresh[k] = IF k = 0 THEN << >>
                                      ELSE IF items[k] \in file.ids THEN fresh[k - 1]
                                      ELSE Append(fresh[k - 1], items[k])

\* So it is computed.
LEMMA UnseenComputed ==
  ASSUME NEW items \in Seq(Items)
  PROVE  \E fresh : Unseen(items) = fresh[Len(items)] /\ UnseenOfFirst(fresh, items)
<1> DEFINE S == Seq(Items)
           N == Len(items)
           Solves(g) == g = [n \in 0..N |->
                               IF n = 0 THEN << >>
                               ELSE IF items[n] \in file.ids THEN g[n - 1]
                               ELSE Append(g[n - 1], items[n])]
           fresh == CHOOSE g : Solves(g)
           F == [n \in Nat |-> [s \in S |-> IF n \in 1..N /\ items[n] \notin file.ids
                                            THEN Append(s, items[n]) ELSE s]]
<1>1. Unseen(items) = fresh[N] BY DEF Unseen
<1>2. N \in Nat /\ \A n \in 1..N : items[n] \in Items BY LenProperties, ElementOfSeq
<1>3. F \in [Nat -> [S -> S]]
  <2>1. ASSUME NEW n \in Nat, NEW s \in S
        PROVE  (IF n \in 1..N /\ items[n] \notin file.ids THEN Append(s, items[n]) ELSE s) \in S
    <3>1. n \in 1..N => Append(s, items[n]) \in S BY <1>2, AppendProperties
    <3> QED BY <3>1
  <2> HIDE DEF S
  <2> QED BY <2>1
<1>4. << >> \in S BY EmptySeq
<1>5. PICK g \in [0..N -> S] : Recurs(g, 0, N, << >>, F)
  <2> HIDE DEF F, S, N
  <2>1. 0 \in Nat /\ 0 <= N BY <1>2
  <2> QED BY <1>2, <1>3, <1>4, <2>1, Recursion, Zenon
<1>6. Solves(g)
  <2> USE DEF Recurs
  <2>1. ASSUME NEW k \in 1..N
        PROVE  g[k] = IF items[k] \in file.ids THEN g[k - 1] ELSE Append(g[k - 1], items[k])
    <3>1. k \in 0..N /\ k - 1 \in 0..N /\ k # 0 /\ k \in Nat BY <1>2
    <3>2. g[k - 1] \in S BY <3>1
    <3>3. g[k] = F[k][g[k - 1]] BY <1>5, <3>1
    <3> HIDE DEF S
    <3> QED BY <3>1, <3>2, <3>3
  <2>2. g[0] = << >>
    <3> HIDE DEF F, S
    <3>1. 0 \in 0..N BY <1>2
    <3> QED BY <1>5, <3>1
  <2>3. ASSUME NEW k \in 0..N
        PROVE  g[k] = IF k = 0 THEN << >> ELSE IF items[k] \in file.ids THEN g[k - 1]
                      ELSE Append(g[k - 1], items[k])
    <3>1. k # 0 => k \in 1..N BY <1>2
    <3> QED BY <2>1, <2>2, <3>1
  <2> HIDE DEF S, F
  <2> QED BY <2>3
<1>7. Solves(fresh)
  <2> HIDE DEF Solves
  <2> QED BY <1>6
<1>8. UnseenOfFirst(fresh, items)
  <2> HIDE DEF fresh
  <2> QED BY <1>7 DEF UnseenOfFirst
<1> HIDE DEF fresh
<1> QED BY <1>1, <1>8

\* What is unseen of some items is of these, and not in the file; and all that
\* is not in the file is there.
LEMMA UnseenItems ==
  ASSUME NEW items \in Seq(Items)
  PROVE  /\ Unseen(items) \in Seq(Items \ file.ids)
         /\ Range(Unseen(items)) = Range(items) \ file.ids
<1> DEFINE S == Seq(Items \ file.ids)
           N == Len(items)
           New(k) == {items[n] : n \in 1..k} \ file.ids
<1>1. PICK fresh : Unseen(items) = fresh[N] /\ UnseenOfFirst(fresh, items) BY UnseenComputed
<1>2. N \in Nat /\ DOMAIN items = 1..N /\ \A n \in 1..N : items[n] \in Items
  BY LenProperties, ElementOfSeq
<1> DEFINE Right(k) == fresh[k] \in S /\ Range(fresh[k]) = New(k)
           T == {k \in 0..N : ~Right(k)}
<1>3. ASSUME ~Right(N) PROVE FALSE
  <2>1. T \subseteq Nat /\ T # {}
    <3>1. N \in 0..N BY <1>2
    <3> HIDE DEF Right
    <3> QED BY <1>2, <1>3, <3>1
  <2>2. PICK k \in T : \A m \in T : k <= m
    <3> HIDE DEF T
    <3> QED BY <2>1, Least
  <2>3. k \in 0..N /\ k \in Nat /\ ~Right(k) BY <1>2, <2>2
  <2>4. CASE k = 0
    <3>1. fresh[k] = << >> BY <1>1, <1>2, <2>3, <2>4 DEF UnseenOfFirst
    <3>2. << >> \in S /\ DOMAIN << >> = {} BY EmptySeq
    <3>3. New(k) = {} BY <2>4
    <3>4. Range(fresh[k]) = {} BY <3>1, <3>2 DEF Range
    <3> QED BY <2>3, <3>1, <3>2, <3>3, <3>4
  <2>5. CASE k # 0
    <3>1. k \in 1..N /\ k - 1 \in 0..N /\ ~ k <= k - 1 BY <1>2, <2>3, <2>5
    <3>2. Right(k - 1)
      <4> HIDE DEF Right
      <4> QED BY <2>2, <3>1
    <3>3. {items[n] : n \in 1..k} = {items[n] : n \in 1..(k - 1)} \cup {items[k]}
      <4>1. 1..k = 1..(k - 1) \cup {k} BY <2>3, <3>1
      <4> QED BY <4>1
    <3>4. CASE items[k] \in file.ids
      <4>1. fresh[k] = fresh[k - 1] BY <1>1, <2>5, <3>1, <3>4 DEF UnseenOfFirst
      <4>2. New(k) = New(k - 1) BY <3>3, <3>4
      <4> QED BY <2>3, <3>2, <4>1, <4>2
    <3>5. CASE items[k] \notin file.ids
      <4> DEFINE s == fresh[k - 1]
                 e == items[k]
      <4>1. fresh[k] = Append(s, e) BY <1>1, <2>5, <3>1, <3>5 DEF UnseenOfFirst
      <4>2. s \in S /\ e \in Items \ file.ids /\ Range(s) = New(k - 1) BY <1>2, <3>1, <3>2, <3>5
      <4>3. New(k) = New(k - 1) \cup {e} BY <3>3, <3>5
      <4> HIDE DEF s, e, New
      <4>4. /\ Append(s, e) \in S /\ Len(Append(s, e)) = Len(s) + 1 /\ Len(s) \in Nat
            /\ \A i \in 1..Len(s) : Append(s, e)[i] = s[i]
            /\ Append(s, e)[Len(s) + 1] = e
            /\ DOMAIN s = 1..Len(s) /\ DOMAIN Append(s, e) = 1..(Len(s) + 1)
        BY <4>2, AppendProperties, LenProperties
      <4>5. Range(Append(s, e)) = Range(s) \cup {e}
        <5>1. 1..(Len(s) + 1) = 1..Len(s) \cup {Len(s) + 1} BY <4>4
        <5> QED BY <4>4, <5>1 DEF Range
      <4> QED BY <2>3, <4>1, <4>2, <4>3, <4>4, <4>5
    <3> QED BY <3>4, <3>5
  <2> QED BY <2>4, <2>5
<1>4. Range(items) = {items[n] : n \in 1..N} BY <1>2 DEF Range
<1>5. Right(N) BY <1>3
<1> QED BY <1>1, <1>4, <1>5

\* Two sequences one after the other have what each of them has.
LEMMA Joined ==
  ASSUME NEW S, NEW s \in Seq(S), NEW t \in Seq(S)
  PROVE  s \o t \in Seq(S) /\ Range(s \o t) = Range(s) \cup Range(t)
<1>1. /\ s \o t \in Seq(S) /\ Len(s \o t) = Len(s) + Len(t)
      /\ \A i \in 1..(Len(s) + Len(t)) : (s \o t)[i] = IF i <= Len(s) THEN s[i] ELSE t[i - Len(s)]
  BY ConcatProperties
<1>2. /\ Len(s) \in Nat /\ Len(t) \in Nat /\ DOMAIN s = 1..Len(s) /\ DOMAIN t = 1..Len(t)
      /\ DOMAIN (s \o t) = 1..(Len(s) + Len(t))
  BY <1>1, LenProperties
<1>3. ASSUME NEW i \in 1..Len(s) PROVE i \in 1..(Len(s) + Len(t)) /\ (s \o t)[i] = s[i]
  BY <1>1, <1>2
<1>4. ASSUME NEW i \in 1..Len(t)
      PROVE  Len(s) + i \in 1..(Len(s) + Len(t)) /\ (s \o t)[Len(s) + i] = t[i]
  <2>1. Len(s) + i \in 1..(Len(s) + Len(t)) /\ ~(Len(s) + i <= Len(s)) /\ (Len(s) + i) - Len(s) = i
    BY <1>2
  <2> QED BY <1>1, <2>1
<1>5. ASSUME NEW i \in 1..(Len(s) + Len(t)) PROVE (s \o t)[i] \in Range(s) \cup Range(t)
  <2>1. CASE i <= Len(s)
    <3>1. i \in 1..Len(s) /\ (s \o t)[i] = s[i] BY <1>1, <1>2, <2>1
    <3> QED BY <1>2, <3>1 DEF Range
  <2>2. CASE ~(i <= Len(s))
    <3>1. i - Len(s) \in 1..Len(t) /\ (s \o t)[i] = t[i - Len(s)] BY <1>1, <1>2, <2>2
    <3> QED BY <1>2, <3>1 DEF Range
  <2> QED BY <2>1, <2>2
<1>6. Range(s \o t) \subseteq Range(s) \cup Range(t) BY <1>2, <1>5 DEF Range
<1>7. Range(s) \subseteq Range(s \o t) BY <1>2, <1>3 DEF Range
<1>8. Range(t) \subseteq Range(s \o t) BY <1>2, <1>4 DEF Range
<1> QED BY <1>1, <1>6, <1>7, <1>8

\* Sequences one after another are a sequence of what is in them.
LEMMA Flattened ==
  ASSUME NEW S, NEW seqs \in Seq(Seq(S))
  PROVE  /\ FlattenSeq(seqs) \in Seq(S)
         /\ Range(FlattenSeq(seqs)) = UNION {Range(seqs[i]) : i \in 1..Len(seqs)}
<1> DEFINE X == Seq(S)
           N == Len(seqs)
           Solves(g) == g = [i \in 1..N |-> IF i = 1 THEN seqs[i] ELSE g[i - 1] \o seqs[i]]
           flatten == CHOOSE g : Solves(g)
           F == [i \in Nat |-> [s \in X |-> IF i \in 1..N THEN s \o seqs[i] ELSE s]]
<1>1. N \in Nat /\ \A i \in 1..N : seqs[i] \in X BY LenProperties, ElementOfSeq
<1>2. CASE N = 0
  <2>1. FlattenSeq(seqs) = seqs /\ seqs = << >> BY <1>2, EmptySeq DEF FlattenSeq
  <2>2. << >> \in Seq(S) /\ Range(<< >>) = {}
    <3>1. << >> \in Seq(S) /\ DOMAIN << >> = {} BY EmptySeq
    <3> QED BY <3>1 DEF Range
  <2>3. 1..N = {} BY <1>2
  <2> QED BY <2>1, <2>2, <2>3
<1>3. CASE N # 0
  <2>1. FlattenSeq(seqs) = flatten[N] BY <1>3 DEF FlattenSeq
  <2>2. 1 \in 1..N /\ 1 \in Nat /\ 1 <= N /\ seqs[1] \in X BY <1>1, <1>3
  <2>3. F \in [Nat -> [X -> X]]
    <3>1. ASSUME NEW i \in Nat, NEW s \in X
          PROVE  (IF i \in 1..N THEN s \o seqs[i] ELSE s) \in X
      <4>1. i \in 1..N => s \o seqs[i] \in X BY <1>1, ConcatProperties
      <4> QED BY <4>1
    <3> HIDE DEF X
    <3> QED BY <3>1
  <2>4. PICK g \in [1..N -> X] : Recurs(g, 1, N, seqs[1], F)
    <3> HIDE DEF F, X, N
    <3> QED BY <1>1, <2>2, <2>3, Recursion, Zenon
  <2>5. Solves(g)
    <3>1. ASSUME NEW i \in 1..N PROVE g[i] = IF i = 1 THEN seqs[i] ELSE g[i - 1] \o seqs[i]
      <4>1. i \in Nat /\ (i # 1 => i - 1 \in 1..N) BY <1>1
      <4>2. i # 1 => g[i - 1] \in X BY <4>1
      <4>3. i # 1 => g[i] = F[i][g[i - 1]] BY <2>4, <4>1 DEF Recurs
      <4>4. g[1] = seqs[1] BY <2>2, <2>4 DEF Recurs
      <4> HIDE DEF X
      <4> QED BY <4>1, <4>2, <4>3, <4>4
    <3> HIDE DEF X, F
    <3> QED BY <3>1
  <2>6. Solves(flatten)
    <3> HIDE DEF Solves
    <3> QED BY <2>5
  <2>7. \A i \in 1..N : flatten[i] = IF i = 1 THEN seqs[i] ELSE flatten[i - 1] \o seqs[i]
    <3> HIDE DEF flatten
    <3> QED BY <2>6
  <2> DEFINE All(i) == UNION {Range(seqs[k]) : k \in 1..i}
             Right(i) == flatten[i] \in X /\ Range(flatten[i]) = All(i)
  <2>8. ASSUME ~Right(N) PROVE FALSE
    <3> HIDE DEF flatten
    <3> DEFINE T == {i \in 1..N : ~Right(i)}
    <3>1. T \subseteq Nat /\ T # {}
      <4>1. N \in 1..N BY <1>1, <1>3
      <4> HIDE DEF Right
      <4> QED BY <1>1, <2>8, <4>1
    <3>2. PICK i \in T : \A m \in T : i <= m
      <4> HIDE DEF T
      <4> QED BY <3>1, Least
    <3>3. i \in 1..N /\ ~Right(i) BY <3>2
    <3>4. CASE i = 1
      <4>1. flatten[i] = seqs[i] /\ seqs[i] \in X BY <1>1, <2>7, <3>3, <3>4
      <4>2. All(i) = Range(seqs[i])
        <5>1. 1..i = {i} BY <3>4
        <5> QED BY <5>1
      <4> QED BY <3>3, <4>1, <4>2
    <3>5. CASE i # 1
      <4>1. i - 1 \in 1..N /\ ~ i <= i - 1 BY <1>1, <3>3, <3>5
      <4>2. Right(i - 1)
        <5> HIDE DEF Right
        <5> QED BY <3>2, <4>1
      <4>3. flatten[i] = flatten[i - 1] \o seqs[i] /\ seqs[i] \in X BY <1>1, <2>7, <3>3, <3>5
      <4>4. All(i) = All(i - 1) \cup Range(seqs[i])
        <5>1. 1..i = 1..(i - 1) \cup {i} BY <1>1, <3>3
        <5> QED BY <5>1
      <4> HIDE DEF All
      <4>5. flatten[i] \in X /\ Range(flatten[i]) = All(i) BY <4>2, <4>3, <4>4, Joined
      <4> QED BY <3>3, <4>5
    <3> QED BY <3>4, <3>5
  <2> QED BY <2>1, <2>8
<1> QED BY <1>2, <1>3

\* What is fetched is what the outlets list that can be fetched.
LEMMA FetchedItems ==
  ASSUME NEW failing, feed \in [Range(Outlets) -> Seq(Items)]
  PROVE  /\ Fetched(failing) \in Seq(Items)
         /\ Range(Fetched(failing)) = UNION {Range(feed[o]) : o \in Range(Outlets) \ failing}
<1> DEFINE N == Len(Outlets)
           listed(n) == IF Outlets[n] \in failing THEN << >> ELSE feed[Outlets[n]]
           lists == [n \in DOMAIN Outlets |-> listed(n)]
<1>1. N \in Nat /\ DOMAIN Outlets = 1..N BY WireAssumption, LenProperties
<1>2. \A n \in 1..N : Outlets[n] \in Range(Outlets) BY <1>1 DEF Range
<1>3. \A n \in 1..N : listed(n) \in Seq(Items) BY <1>2, EmptySeq
<1>4. lists \in Seq(Seq(Items))
  <2> HIDE DEF listed
  <2>1. lists = [n \in 1..N |-> listed(n)] BY <1>1
  <2> HIDE DEF lists, N
  <2> QED BY <1>1, <1>3, <2>1, IsASeq
<1>5. Fetched(failing) = FlattenSeq(lists) BY DEF Fetched
<1>6. UNION {Range(lists[n]) : n \in 1..N} = UNION {Range(feed[o]) : o \in Range(Outlets) \ failing}
  <2>1. Range(<< >>) = {}
    <3>1. DOMAIN << >> = {} BY EmptySeq
    <3> QED BY <3>1 DEF Range
  <2>2. \A n \in 1..N : lists[n] = listed(n) BY <1>1
  <2>3. ASSUME NEW n \in 1..N, NEW i \in Range(lists[n])
        PROVE  \E o \in Range(Outlets) \ failing : i \in Range(feed[o])
    BY <1>2, <2>1, <2>2, <2>3
  <2>4. ASSUME NEW o \in Range(Outlets) \ failing, NEW i \in Range(feed[o])
        PROVE  \E n \in 1..N : i \in Range(lists[n])
    <3>1. PICK n \in 1..N : Outlets[n] = o BY <1>1 DEF Range
    <3> QED BY <2>2, <3>1
  <2> HIDE DEF lists, N
  <2>5. UNION {Range(lists[n]) : n \in 1..N} \subseteq UNION {Range(feed[o]) : o \in Range(Outlets) \ failing}
    BY <2>3
  <2>6. UNION {Range(feed[o]) : o \in Range(Outlets) \ failing} \subseteq UNION {Range(lists[n]) : n \in 1..N}
    BY <2>4
  <2> QED BY <2>5, <2>6
<1>7. Len(lists) = N BY <1>1, <1>4, LenProperties
<1> HIDE DEF lists
<1> QED BY <1>4, <1>5, <1>6, <1>7, Flattened

-----------------------------------------------------------------------------
(* What is where.                                                          *)

Places == {"down", "pass", "readers", "send", "open", "write", "sleep"}

\* What every variable holds, and when something is in hand.
Ground ==
  /\ feed \in [Range(Outlets) -> Seq(Items)] /\ printed \in [Range(Outlets) -> SUBSET Items]
  /\ \A o \in Range(Outlets) : Len(feed[o]) <= Window
  /\ present \subseteq Readers /\ audience \subseteq present
  /\ file \in {Unread, Broken} \cup {Saved(ids) : ids \in SUBSET Items}
  /\ Cardinality(file.ids) <= Cap
  /\ at \in Places /\ seen \subseteq Items /\ batch \in Seq(Items)
  /\ issued \in 0..day /\ day \in 0..LastDay /\ faults \in 0..MaxFaults
  /\ got \in [Items -> [Readers -> 0..2]]
  /\ offered \subseteq Items /\ cut \subseteq Items /\ unsaved \subseteq Items /\ doubled \subseteq Items
  /\ at \in {"readers", "send"} => batch # << >>
  /\ at # "send" => audience = {}

\* Why an item may come again.
Excused == cut \cup unsaved \cup doubled

\* Whoever got an item, the wire knows: in the file between passes, else in the
\* set that goes to the file, or as the item in hand.
Known(i, r) ==
  \/ i \in Excused
  \/ at \in {"down", "pass", "sleep"} /\ i \in file.ids
  \/ at \in {"readers", "send", "open", "write"} /\ i \in seen
  \/ at = "send" /\ i = Head(batch) /\ r \notin audience

Accounted == \A i \in Items, r \in Readers : got[i][r] > 0 => Known(i, r)

\* What is still to be sent was not seen, and is there once.
Pending ==
  at \in {"readers", "send"} =>
    \A n \in DOMAIN batch : \/ batch[n] \in doubled
                            \/ /\ batch[n] \notin seen
                               /\ \A m \in DOMAIN batch \ {n} : batch[m] # batch[n]


-----------------------------------------------------------------------------
(* What each action leaves.                                                *)

\* The first of a sequence are a sequence, of no more than was asked for.
LEMMA FirstItems ==
  ASSUME NEW S, NEW s \in Seq(S), NEW n \in Nat
  PROVE  FirstOf(n, s) \in Seq(S) /\ Len(FirstOf(n, s)) <= n
<1>1. Len(s) \in Nat /\ \A i \in 1..Len(s) : s[i] \in S BY LenProperties, ElementOfSeq
<1> DEFINE m == IF Len(s) < n THEN Len(s) ELSE n
<1>2. m \in Nat /\ m <= n /\ \A i \in 1..m : s[i] \in S BY <1>1
<1> HIDE DEF m
<1>3. SubSeq(s, 1, m) \in Seq(S) /\ Len(SubSeq(s, 1, m)) = IF 1 <= m THEN m - 1 + 1 ELSE 0
  BY <1>2, SubSeqProperties
<1> QED BY <1>2, <1>3 DEF FirstOf, m

\* What an item that is done leaves.
LEMMA DoneGround ==
  ASSUME Ground, batch # << >>, ItemDone(Head(batch))
  PROVE  /\ seen' \subseteq Items /\ offered' \subseteq Items /\ batch' \in Seq(Items)
         /\ at' \in {"open", "readers"} /\ (at' = "readers" => batch' # << >>)
<1>1. Head(batch) \in Items /\ Tail(batch) \in Seq(Items) /\ Len(Tail(batch)) = Len(batch) - 1
  BY HeadTailProperties DEF Ground
<1>2. Len(batch) \in Nat /\ Len(batch) # 0 BY EmptySeq DEF Ground
<1>3. at' = "readers" => batch' # << >>
  <2>1. at' = "readers" => Len(batch') # 0 BY <1>1, <1>2 DEF ItemDone
  <2> QED BY <2>1, EmptySeq
<1> QED BY <1>1, <1>3 DEF ItemDone, Ground

\* An agent more has the item in hand.
LEMMA GotMore ==
  ASSUME Ground, at = "send", NEW r \in Readers, got' = [got EXCEPT ![Head(batch)][r] = More(@)]
  PROVE  /\ Head(batch) \in Items /\ got' \in [Items -> [Readers -> 0..2]]
         /\ got'[Head(batch)][r] = More(got[Head(batch)][r])
         /\ \A i \in Items, s \in Readers : i # Head(batch) \/ s # r => got'[i][s] = got[i][s]
<1>1. Head(batch) \in Items BY HeadTailProperties DEF Ground
<1>2. got \in [Items -> [Readers -> 0..2]] BY DEF Ground
<1>3. More(got[Head(batch)][r]) \in 0..2 BY <1>1, <1>2 DEF More
<1> HIDE DEF More
<1> QED BY <1>1, <1>2, <1>3

\* A pass leaves items that are not in the file, and marks what is there twice.
LEMMA Taken ==
  ASSUME NEW items, NEW S \in SUBSET Items, items \in Seq(S), Take(items)
  PROVE  /\ batch' \in Seq(S) /\ at' \in {"open", "readers"} /\ (at' = "readers" => batch' # << >>)
         /\ doubled \subseteq doubled' /\ doubled' \subseteq doubled \cup S
         /\ \A n, m \in DOMAIN batch' : n # m /\ batch'[n] = batch'[m] => batch'[n] \in doubled'
<1>1. batch' \in Seq(S) BY FirstItems, WireAssumption DEF Take
<1>2. Len(batch') \in Nat /\ DOMAIN batch' = 1..Len(batch') /\ \A n \in DOMAIN batch' : batch'[n] \in S
  BY <1>1, LenProperties, ElementOfSeq
<1>3. ASSUME NEW n \in DOMAIN batch', NEW m \in DOMAIN batch', n < m, batch'[n] = batch'[m]
      PROVE  batch'[m] \in doubled'
  <2>1. n \in 1..(m - 1) BY <1>2, <1>3
  <2> QED BY <1>3, <2>1 DEF Take
<1>4. ASSUME NEW n \in DOMAIN batch', NEW m \in DOMAIN batch', n # m, batch'[n] = batch'[m]
      PROVE  batch'[n] \in doubled'
  <2>1. n \in Nat /\ m \in Nat /\ (n < m \/ m < n) BY <1>2, <1>4
  <2> QED BY <1>3, <1>4, <2>1
<1>5. doubled \subseteq doubled' /\ doubled' \subseteq doubled \cup S BY <1>2 DEF Take
<1>6. at' \in {"open", "readers"} /\ (at' = "readers" => batch' # << >>) BY DEF Take
<1> QED BY <1>1, <1>4, <1>5, <1>6

\* What a pass begins with.
LEMMA PassTakes ==
  ASSUME Ground, NEW failing, PassWithout(failing)
  PROVE  /\ at = "pass" /\ seen' = file.ids /\ audience = {}
         /\ file.ids \subseteq Items
         /\ batch' \in Seq(Items \ file.ids)
         /\ at' \in {"open", "readers"} /\ (at' = "readers" => batch' # << >>)
         /\ doubled \subseteq doubled' /\ doubled' \subseteq Items
         /\ \A n, m \in DOMAIN batch' : n # m /\ batch'[n] = batch'[m] => batch'[n] \in doubled'
<1>1. Fetched(failing) \in Seq(Items) BY FetchedItems DEF Ground
<1>2. Unseen(Fetched(failing)) \in Seq(Items \ file.ids) BY <1>1, UnseenItems
<1>3. Take(Unseen(Fetched(failing))) /\ at = "pass" /\ seen' = file.ids BY DEF PassWithout
<1>4. Items \ file.ids \in SUBSET Items OBVIOUS
<1>5. /\ batch' \in Seq(Items \ file.ids)
      /\ at' \in {"open", "readers"} /\ (at' = "readers" => batch' # << >>)
      /\ doubled \subseteq doubled' /\ doubled' \subseteq doubled \cup (Items \ file.ids)
      /\ \A n, m \in DOMAIN batch' : n # m /\ batch'[n] = batch'[m] => batch'[n] \in doubled'
  BY <1>2, <1>3, <1>4, Taken, Zenon
<1>6. file.ids \subseteq Items BY DEF Ground, Unread, Broken, Saved
<1>7. doubled \subseteq Items /\ audience = {} BY <1>3 DEF Ground
<1> QED BY <1>3, <1>5, <1>6, <1>7

\* A batch that is not full has everything it was taken from.
LEMMA TakesAll ==
  ASSUME NEW items, items \in Seq(Items), Take(items)
  PROVE  Range(batch') \subseteq Range(items)
         /\ (Range(items) \subseteq Range(batch') \/ Len(batch') = MaxItems)
<1> DEFINE m == IF Len(items) < MaxItems THEN Len(items) ELSE MaxItems
<1>1. /\ Len(items) \in Nat /\ DOMAIN items = 1..Len(items) /\ MaxItems \in Nat
      /\ \A i \in 1..Len(items) : items[i] \in Items
  BY WireAssumption, LenProperties, ElementOfSeq
<1>2. m \in Nat /\ m <= Len(items) /\ (m = Len(items) \/ m = MaxItems) BY <1>1
<1>3. batch' = SubSeq(items, 1, m) BY DEF Take, FirstOf
<1> HIDE DEF m
<1>4. ASSUME NEW i \in 1..m PROVE i \in 1..Len(items)
  <2>1. m \in Nat /\ Len(items) \in Nat /\ m <= Len(items) /\ i \in 1..m BY <1>1, <1>2
  <2> QED BY ONLY <2>1
<1>5. /\ batch' \in Seq(Items) /\ Len(batch') = m
      /\ \A i \in 1..m : batch'[i] = items[i]
  <2>1. \A i \in 1..m : items[i] \in Items BY <1>1, <1>4
  <2>2. /\ batch' \in Seq(Items) /\ Len(batch') = IF 1 <= m THEN m - 1 + 1 ELSE 0
        /\ \A i \in 1..(m - 1 + 1) : batch'[i] = items[1 + i - 1]
    BY <1>2, <1>3, <2>1, SubSeqProperties
  <2>3. (IF 1 <= m THEN m - 1 + 1 ELSE 0) = m /\ m - 1 + 1 = m BY <1>2
  <2>4. \A i \in 1..m : 1 + i - 1 = i BY <1>2
  <2> QED BY <2>2, <2>3, <2>4
<1>6. DOMAIN batch' = 1..m BY <1>5, LenProperties
<1>7. Range(batch') \subseteq Range(items) BY <1>1, <1>5, <1>6, <1>4 DEF Range
<1>8. m = Len(items) => Range(items) \subseteq Range(batch')
  BY <1>1, <1>5, <1>6 DEF Range
<1> QED BY <1>2, <1>5, <1>7, <1>8

\* What a save leaves in the file.
LEMMA Written ==
  ASSUME Ground, WriteSeen
  PROVE  /\ \E kept \in SUBSET seen : file' = Saved(kept) /\ cut' = cut \cup (seen \ kept)
         /\ Cardinality(file'.ids) <= Cap
<1>1. PICK kept \in SUBSET seen :
        /\ Cardinality(kept) = IF Cardinality(seen) < Cap THEN Cardinality(seen) ELSE Cap
        /\ file' = Saved(kept) /\ cut' = cut \cup (seen \ kept)
  BY DEF WriteSeen
<1>2. Cardinality(seen) \in Nat
  BY FS_Subset, FS_CardinalityType, WireAssumption DEF Ground
<1>3. Cardinality(kept) <= Cap BY <1>1, <1>2, WireAssumption
<1> QED BY <1>1, <1>3 DEF Saved

\* Everything stays in its place.
LEMMA GroundStep ==
  ASSUME Ground, [Next]_vars
  PROVE  Ground'
<1> USE DEF Places
<1>1. CASE \E o \in Range(Outlets), i \in Items : Publish(o, i)
  <2>1. PICK o \in Range(Outlets), i \in Items : Publish(o, i) BY <1>1
  <2>2. feed[o] \in Seq(Items) /\ <<i>> \in Seq(Items) /\ Window \in Nat
    BY WireAssumption DEF Ground
  <2>3. <<i>> \o feed[o] \in Seq(Items) BY <2>2, ConcatProperties
  <2> DEFINE listed == FirstOf(Window, <<i>> \o feed[o])
  <2>4. listed \in Seq(Items) /\ Len(listed) <= Window BY <2>2, <2>3, FirstItems
  <2>5. /\ feed' = [feed EXCEPT ![o] = listed] /\ printed' = [printed EXCEPT ![o] = @ \cup {i}]
        /\ UNCHANGED <<present, wireVars, day, faults, history>>
    BY <2>1 DEF Publish
  <2> HIDE DEF listed
  <2>6. /\ feed' \in [Range(Outlets) -> Seq(Items)] /\ printed' \in [Range(Outlets) -> SUBSET Items]
        /\ \A p \in Range(Outlets) : Len(feed'[p]) <= Window
    BY <2>4, <2>5 DEF Ground
  <2> QED BY <2>5, <2>6 DEF Ground, wireVars, history
<1>2. CASE \E r \in Readers : Join(r)
  BY <1>2 DEF Ground, Join, wireVars, history
<1>3. CASE DayPasses
  <2>1. day' = day + 1 /\ day < LastDay /\ day \in 0..LastDay /\ issued' = issued /\ issued \in 0..day
    BY <1>3 DEF DayPasses, Ground, wireVars
  <2>2. issued' \in 0..day' /\ day' \in 0..LastDay BY <2>1, WireAssumption
  <2> QED BY <1>3, <2>2 DEF Ground, DayPasses, wireVars, history
<1>4. ASSUME NEW failing, PassWithout(failing), faults' \in 0..MaxFaults PROVE Ground'
  <2>1. /\ seen' \subseteq Items /\ batch' \in Seq(Items) /\ at' \in Places
        /\ at' \in {"readers", "send"} => batch' # << >>
        /\ doubled' \subseteq Items /\ audience = {}
    <3>1. /\ seen' = file.ids /\ file.ids \subseteq Items /\ batch' \in Seq(Items \ file.ids)
          /\ at' \in {"open", "readers"} /\ (at' = "readers" => batch' # << >>)
          /\ doubled' \subseteq Items /\ audience = {}
      BY <1>4, PassTakes
    <3>2. batch' \in Seq(Items) BY <3>1, SeqMonotonic
    <3> QED BY <3>1, <3>2
  <2>2. UNCHANGED <<feed, printed, present, file, audience, issued, day, got, offered, cut, unsaved>>
    BY <1>4 DEF PassWithout
  <2> QED BY <1>4, <2>1, <2>2 DEF Ground
<1>5. faults < MaxFaults => faults + 1 \in 0..MaxFaults BY WireAssumption DEF Ground
<1>6. CASE Pass BY <1>4, <1>6 DEF Pass, Ground
<1>7. CASE FeedFails BY <1>4, <1>5, <1>7 DEF FeedFails, Fault
<1>8. CASE CannotLoad BY <1>8 DEF Ground, CannotLoad, history
<1>9. CASE LookUp
  <2>1. batch # << >> /\ audience' = present BY <1>9 DEF Ground, LookUp
  <2>2. UNCHANGED <<feed, printed, present, file, issued, day, faults, got, cut, unsaved, doubled>>
    BY <1>9 DEF LookUp
  <2>3. CASE present = {}
    <3>1. ItemDone(Head(batch)) BY <1>9, <2>3 DEF LookUp
    <3> QED BY <2>1, <2>2, <2>3, <3>1, DoneGround DEF Ground
  <2>4. CASE present # {}
    <3>1. at' = "send" /\ UNCHANGED <<seen, batch, offered>> BY <1>9, <2>4 DEF LookUp
    <3> QED BY <2>1, <2>2, <3>1 DEF Ground
  <2> QED BY <2>3, <2>4
<1>10. CASE LookUpRefused BY <1>10 DEF Ground, LookUpRefused
<1>11. CASE Renew
  <2>1. issued' \in 0..day /\ day' = day BY <1>11 DEF Renew, Ground
  <2> QED BY <1>11, <2>1 DEF Ground, Renew, history
<1>12. CASE OpenSeen
  <2>1. Broken.ids = {} BY DEF Broken
  <2>2. Cardinality(Broken.ids) <= Cap BY <2>1, FS_EmptySet, WireAssumption
  <2> QED BY <1>12, <2>2 DEF Ground, OpenSeen, history
<1>13. CASE WriteSeen
  <2>1. file' \in {Saved(ids) : ids \in SUBSET Items} /\ cut' \subseteq Items /\ Cardinality(file'.ids) <= Cap
    BY <1>13, Written DEF Ground
  <2> QED BY <1>13, <2>1 DEF Ground, WriteSeen
<1>14. CASE Sleep BY <1>14 DEF Ground, Sleep, history
<1>15. CASE Start BY <1>15 DEF Ground, Start, history
<1>16. ASSUME NEW r \in audience, audience' = audience \ {r}, at = "send",
              IF audience' = {} THEN ItemDone(Head(batch)) ELSE UNCHANGED <<seen, batch, offered, at>>,
              faults' \in 0..MaxFaults, got' \in [Items -> [Readers -> 0..2]],
              UNCHANGED <<feed, printed, present, file, issued, day, cut, unsaved, doubled>>
       PROVE  Ground'
  <2>1. batch # << >> BY <1>16 DEF Ground
  <2>2. CASE audience' = {}
    <3>1. ItemDone(Head(batch)) BY <1>16, <2>2
    <3> QED BY <1>16, <2>1, <2>2, <3>1, DoneGround DEF Ground
  <2>3. CASE audience' # {}
    BY <1>16, <2>3 DEF Ground
  <2> QED BY <2>2, <2>3
<1>17. CASE \E r \in Readers : Send(r)
  <2>1. PICK r \in Readers : Send(r) BY <1>17
  <2>2. got' \in [Items -> [Readers -> 0..2]] BY <2>1, GotMore DEF Send
  <2>3. faults' \in 0..MaxFaults BY <2>1 DEF Send, Ground
  <2> QED BY <1>16, <2>1, <2>2, <2>3 DEF Send
<1>18. CASE \E r \in Readers : TurnedDown(r)
  <2>1. PICK r \in Readers : TurnedDown(r) BY <1>18
  <2>2. faults' \in 0..MaxFaults /\ got' \in [Items -> [Readers -> 0..2]]
    BY <1>5, <2>1 DEF TurnedDown, Fault, Ground
  <2> QED BY <1>16, <2>1, <2>2 DEF TurnedDown
<1>19. CASE Dies
  <2>1. faults' \in 0..MaxFaults /\ at' = "down" /\ audience' = {} BY <1>5, <1>19 DEF Dies, Fault
  <2>2. got' \in [Items -> [Readers -> 0..2]]
    <3>1. CASE got' = got BY <3>1 DEF Ground
    <3>2. ASSUME NEW r \in audience, at = "send", got' = [got EXCEPT ![Head(batch)][r] = More(@)]
          PROVE  got' \in [Items -> [Readers -> 0..2]]
      BY <3>2, GotMore DEF Ground
    <3> QED BY <1>19, <3>1, <3>2 DEF Dies
  <2>3. unsaved' \subseteq Items
    <3>1. at = "send" => Head(batch) \in Items BY HeadTailProperties DEF Ground
    <3> QED BY <1>19, <3>1 DEF Dies, Ground
  <2> QED BY <1>19, <2>1, <2>2, <2>3 DEF Dies, Ground
<1>20. CASE UNCHANGED vars BY <1>20 DEF Ground, vars, wireVars, history
<1> QED
  BY <1>1, <1>2, <1>3, <1>6, <1>7, <1>8, <1>9, <1>10, <1>11, <1>12, <1>13, <1>14, <1>15, <1>17, <1>18,
     <1>19, <1>20 DEF Next, World, Steps

-----------------------------------------------------------------------------
(* No item twice.                                                          *)

\* An item that is done is seen, so what is left was not, but for doubles.
LEMMA DonePending ==
  ASSUME Ground, Pending, at \in {"readers", "send"}, doubled' = doubled, ItemDone(Head(batch))
  PROVE  Pending'
<1>1. batch # << >> /\ batch \in Seq(Items) BY DEF Ground
<1>2. /\ Len(batch) \in Nat /\ DOMAIN batch = 1..Len(batch) /\ 1 \in DOMAIN batch
      /\ Head(batch) = batch[1]
  BY <1>1, LenProperties, EmptySeq
<1>3. /\ batch' = Tail(batch) /\ DOMAIN batch' = 1..(Len(batch) - 1)
      /\ \A n \in DOMAIN batch' : batch'[n] = batch[n + 1] /\ n + 1 \in DOMAIN batch /\ n + 1 # 1
  <2>1. Tail(batch) \in Seq(Items) /\ Len(Tail(batch)) = Len(batch) - 1
        /\ \A n \in 1..Len(Tail(batch)) : Tail(batch)[n] = batch[n + 1]
    BY <1>1, HeadTailProperties
  <2>2. DOMAIN Tail(batch) = 1..Len(Tail(batch)) BY <2>1, LenProperties
  <2> QED BY <1>2, <2>1, <2>2 DEF ItemDone
<1>4. seen' = seen \cup {batch[1]} BY <1>2 DEF ItemDone
<1>5. ASSUME NEW n \in DOMAIN batch', batch'[n] \notin doubled
      PROVE  batch'[n] \notin seen' /\ \A m \in DOMAIN batch' \ {n} : batch'[m] # batch'[n]
  <2>1. n + 1 \in DOMAIN batch /\ batch'[n] = batch[n + 1] /\ n + 1 # 1 BY <1>3
  <2>2. batch[n + 1] \notin seen /\ \A m \in DOMAIN batch \ {n + 1} : batch[m] # batch[n + 1]
    BY <1>5, <2>1 DEF Pending
  <2>3. batch[1] # batch[n + 1] BY <1>2, <2>1, <2>2
  <2>4. ASSUME NEW m \in DOMAIN batch' \ {n} PROVE batch'[m] # batch'[n]
    <3>1. batch'[m] = batch[m + 1] /\ m + 1 \in DOMAIN batch BY <1>3
    <3>2. m + 1 # n + 1 BY <1>2, <1>3
    <3> QED BY <2>1, <2>2, <3>1, <3>2
  <2> QED BY <1>4, <2>1, <2>2, <2>3, <2>4
<1> QED BY <1>5 DEF Pending

\* The item in hand, if it was seen, is one of two.
LEMMA InHand ==
  ASSUME Ground, Pending, at = "send", Head(batch) \in seen
  PROVE  Head(batch) \in doubled
<1>1. batch # << >> /\ batch \in Seq(Items) BY DEF Ground
<1>2. 1 \in DOMAIN batch /\ Head(batch) = batch[1] BY <1>1, LenProperties, EmptySeq
<1> QED BY <1>2 DEF Pending

\* Whoever is sent the item in hand did not have it, or it is excused.
LEMMA SentFresh ==
  ASSUME Ground, Accounted, Pending, at = "send", NEW r \in audience, got[Head(batch)][r] > 0
  PROVE  Head(batch) \in Excused
<1>1. Head(batch) \in Items /\ r \in Readers BY HeadTailProperties DEF Ground
<1>2. Known(Head(batch), r) BY <1>1 DEF Accounted
<1> QED BY <1>2, InHand DEF Known, Excused

\* A post leaves nobody with an item twice without an excuse.
LEMMA PostedOnce ==
  ASSUME Ground, Accounted, Pending, SentOnce, at = "send", NEW r \in audience,
         got' = [got EXCEPT ![Head(batch)][r] = More(@)], Excused \subseteq Excused'
  PROVE  SentOnce'
<1>1. r \in Readers BY DEF Ground
<1>2. SUFFICES ASSUME NEW i \in Items, NEW s \in Readers, got'[i][s] > 1 PROVE i \in Excused'
  BY DEF SentOnce, Excused
<1>3. CASE i = Head(batch) /\ s = r
  <2>1. got'[i][s] = More(got[i][s]) /\ got[i][s] \in 0..2 BY <1>1, <1>3, GotMore DEF Ground
  <2>2. got[i][s] > 0 BY <1>2, <2>1 DEF More
  <2> QED BY <1>3, <2>2, SentFresh
<1>4. CASE i # Head(batch) \/ s # r
  <2>1. got'[i][s] = got[i][s] BY <1>1, <1>4, GotMore
  <2> QED BY <1>2, <2>1 DEF SentOnce, Excused
<1> QED BY <1>3, <1>4

\* The item in hand is sent, or turned down, and is done when it was the last.
LEMMA AccountedOne ==
  ASSUME Ground, Accounted, Pending, at = "send", NEW r \in audience, audience' = audience \ {r},
         got' = [got EXCEPT ![Head(batch)][r] = More(@)] \/ got' = got,
         IF audience' = {} THEN ItemDone(Head(batch)) ELSE UNCHANGED <<seen, batch, offered, at>>,
         UNCHANGED <<cut, unsaved, doubled>>
  PROVE  Accounted' /\ Pending'
<1>1. r \in Readers /\ Excused' = Excused BY DEF Ground, Excused
<1>2. ASSUME NEW i \in Items, NEW s \in Readers, got'[i][s] > 0
      PROVE  i \in Excused \/ i \in seen \/ (i = Head(batch) /\ s \notin audience')
  <2>1. CASE i = Head(batch) /\ s = r BY <2>1
  <2>2. CASE i # Head(batch) \/ s # r
    <3>1. got'[i][s] = got[i][s] BY <1>1, <2>2, GotMore
    <3>2. Known(i, s) BY <1>2, <3>1 DEF Accounted
    <3> QED BY <3>2 DEF Known
  <2> QED BY <2>1, <2>2
<1>3. CASE audience' = {}
  <2>1. ItemDone(Head(batch)) BY <1>3
  <2>2. seen' = seen \cup {Head(batch)} /\ at' \in {"open", "readers"} BY <2>1 DEF ItemDone
  <2>3. Accounted' BY <1>1, <1>2, <2>2 DEF Accounted, Known
  <2> QED BY <2>1, <2>3, DonePending
<1>4. CASE audience' # {}
  <2>1. UNCHANGED <<seen, batch, at, doubled>> BY <1>4
  <2>2. Accounted' BY <1>1, <1>2, <2>1 DEF Accounted, Known
  <2> QED BY <2>1, <2>2 DEF Pending
<1> QED BY <1>3, <1>4

\* What was sent stays accounted for.
LEMMA SentStep ==
  ASSUME Ground, Accounted, Pending, SentOnce, [Next]_vars
  PROVE  Accounted' /\ Pending' /\ SentOnce'
<1>1. ASSUME got' = got, Excused \subseteq Excused' PROVE SentOnce'
  BY <1>1 DEF SentOnce, Excused
<1>2. ASSUME UNCHANGED <<file, at, seen, batch, audience, history>> PROVE Accounted' /\ Pending' /\ SentOnce'
  BY <1>2 DEF Accounted, Known, Excused, Pending, SentOnce, history
<1>3. CASE World BY <1>2, <1>3 DEF World, Publish, Join, DayPasses, wireVars
<1>4. CASE Renew BY <1>2, <1>4 DEF Renew
<1>5. ASSUME NEW failing, PassWithout(failing) PROVE Accounted' /\ Pending' /\ SentOnce'
  <2>1. UNCHANGED <<file, got, cut, unsaved>> BY <1>5 DEF PassWithout
  <2>2. /\ at = "pass" /\ seen' = file.ids /\ at' \in {"open", "readers"}
        /\ batch' \in Seq(Items \ file.ids) /\ doubled \subseteq doubled'
        /\ \A n, m \in DOMAIN batch' : n # m /\ batch'[n] = batch'[m] => batch'[n] \in doubled'
    BY <1>5, PassTakes
  <2>3. Excused \subseteq Excused' BY <2>1, <2>2 DEF Excused
  <2>4. \A n \in DOMAIN batch' : batch'[n] \notin file.ids BY <2>2, LenProperties, ElementOfSeq
  <2>5. Accounted' BY <2>1, <2>2, <2>3 DEF Accounted, Known
  <2>6. Pending' BY <2>2, <2>4 DEF Pending
  <2> QED BY <1>1, <2>1, <2>3, <2>5, <2>6
<1>6. CASE Pass \/ FeedFails BY <1>5, <1>6 DEF Pass, FeedFails
<1>7. CASE CannotLoad \/ Sleep \/ Start
  <2>1. /\ at \in {"down", "pass", "sleep"} /\ at' \in {"down", "pass", "sleep"}
        /\ UNCHANGED <<file, history>>
    BY <1>7 DEF CannotLoad, Sleep, Start
  <2> QED BY <2>1 DEF Accounted, Known, Excused, Pending, SentOnce, history
<1>8. CASE LookUp
  <2>1. at = "readers" /\ UNCHANGED <<file, got, cut, unsaved, doubled>> BY <1>8 DEF LookUp
  <2>2. Excused' = Excused BY <2>1 DEF Excused
  <2>3. CASE present = {}
    <3>1. ItemDone(Head(batch)) BY <1>8, <2>3 DEF LookUp
    <3>2. seen \subseteq seen' /\ at' \in {"open", "readers"} BY <3>1 DEF ItemDone
    <3>3. Accounted' BY <2>1, <2>2, <3>2 DEF Accounted, Known
    <3> QED BY <1>1, <2>1, <2>2, <3>1, <3>3, DonePending
  <2>4. CASE present # {}
    <3>1. at' = "send" /\ UNCHANGED <<seen, batch>> BY <1>8, <2>4 DEF LookUp
    <3>2. Accounted' BY <2>1, <2>2, <3>1 DEF Accounted, Known
    <3> QED BY <1>1, <2>1, <2>2, <3>1, <3>2 DEF Pending
  <2> QED BY <2>3, <2>4
<1>9. CASE LookUpRefused
  <2>1. /\ at = "readers" /\ at' = "down" /\ unsaved' = unsaved \cup (seen \ file.ids)
        /\ UNCHANGED <<file, got, cut, doubled>>
    BY <1>9 DEF LookUpRefused
  <2> QED BY <2>1 DEF Accounted, Known, Excused, Pending, SentOnce
<1>10. CASE OpenSeen
  <2>1. at = "open" /\ at' = "write" /\ UNCHANGED <<seen, history>> BY <1>10 DEF OpenSeen
  <2> QED BY <2>1 DEF Accounted, Known, Excused, Pending, SentOnce, history
<1>11. CASE WriteSeen
  <2>1. at = "write" /\ at' = "sleep" /\ UNCHANGED <<seen, got, unsaved, doubled>> BY <1>11 DEF WriteSeen
  <2>2. PICK kept \in SUBSET seen : file' = Saved(kept) /\ cut' = cut \cup (seen \ kept)
    BY <1>11, Written
  <2>3. file'.ids = kept BY <2>2 DEF Saved
  <2> QED BY <2>1, <2>2, <2>3 DEF Accounted, Known, Excused, Pending, SentOnce
<1>12. CASE \E r \in Readers : Send(r)
  <2>1. PICK r \in Readers : Send(r) BY <1>12
  <2>2. /\ at = "send" /\ r \in audience /\ audience' = audience \ {r}
        /\ got' = [got EXCEPT ![Head(batch)][r] = More(@)]
        /\ IF audience' = {} THEN ItemDone(Head(batch)) ELSE UNCHANGED <<seen, batch, offered, at>>
        /\ UNCHANGED <<cut, unsaved, doubled>>
    BY <2>1 DEF Send
  <2>3. Excused' = Excused BY <2>2 DEF Excused
  <2>4. Accounted' /\ Pending' BY <2>2, AccountedOne
  <2> QED BY <2>2, <2>3, <2>4, PostedOnce
<1>13. CASE \E r \in Readers : TurnedDown(r)
  <2>1. PICK r \in Readers : TurnedDown(r) BY <1>13
  <2>2. /\ at = "send" /\ r \in audience /\ audience' = audience \ {r} /\ got' = got
        /\ IF audience' = {} THEN ItemDone(Head(batch)) ELSE UNCHANGED <<seen, batch, offered, at>>
        /\ UNCHANGED <<cut, unsaved, doubled>>
    BY <2>1 DEF TurnedDown
  <2>3. Excused' = Excused BY <2>2 DEF Excused
  <2>4. Accounted' /\ Pending' BY <2>2, AccountedOne
  <2> QED BY <1>1, <2>2, <2>3, <2>4
<1>14. CASE Dies
  <2>1. /\ at' = "down" /\ UNCHANGED <<file, cut, doubled>> /\ unsaved \subseteq unsaved'
        /\ at \in {"readers", "send", "open", "write"} => seen \ file.ids \subseteq unsaved'
        /\ at = "send" /\ Head(batch) \notin file.ids => Head(batch) \in unsaved'
    BY <1>14 DEF Dies
  <2>2. Excused \subseteq Excused' BY <2>1 DEF Excused
  <2>3. ASSUME NEW i \in Items, NEW s \in Readers, Known(i, s) PROVE Known(i, s)'
    BY <2>1, <2>2, <2>3 DEF Known, Excused
  <2>4. CASE got' = got
    <3>1. Accounted' BY <2>3, <2>4 DEF Accounted
    <3> QED BY <1>1, <2>1, <2>2, <2>4, <3>1 DEF Pending
  <2>5. ASSUME NEW r \in audience, at = "send", got' = [got EXCEPT ![Head(batch)][r] = More(@)]
        PROVE  Accounted' /\ SentOnce'
    <3>1. r \in Readers BY DEF Ground
    <3>2. ASSUME NEW i \in Items, NEW s \in Readers, got'[i][s] > 0 PROVE Known(i, s)'
      <4>1. CASE i = Head(batch) /\ s = r BY <2>1, <2>5, <4>1 DEF Known, Excused
      <4>2. CASE i # Head(batch) \/ s # r
        <5>1. got'[i][s] = got[i][s] BY <2>5, <3>1, <4>2, GotMore
        <5> QED BY <2>3, <3>2, <5>1 DEF Accounted
      <4> QED BY <4>1, <4>2
    <3> QED BY <2>2, <2>5, <3>2, PostedOnce DEF Accounted
  <2> QED BY <1>14, <2>1, <2>4, <2>5 DEF Dies, Pending
<1>15. CASE UNCHANGED vars BY <1>2, <1>15 DEF vars, wireVars
<1> QED
  BY <1>3, <1>4, <1>6, <1>7, <1>8, <1>9, <1>10, <1>11, <1>12, <1>13, <1>14, <1>15 DEF Next, Steps

-----------------------------------------------------------------------------
(* The theorems.                                                           *)

\* The inductive invariant.
IInv == Ground /\ Accounted /\ Pending /\ SentOnce

\* Everything is in its place and what was sent is accounted for, always.
THEOREM Invariance == Spec => []IInv
<1>1. Init => IInv
  <2> SUFFICES ASSUME Init PROVE IInv OBVIOUS
  <2>1. file = Unread /\ Unread.ids = {} BY DEF Init, Unread
  <2>2. Cardinality(file.ids) <= Cap BY <2>1, FS_EmptySet, WireAssumption
  <2>3. /\ feed \in [Range(Outlets) -> Seq(Items)] /\ printed \in [Range(Outlets) -> SUBSET Items]
        /\ \A o \in Range(Outlets) : Len(feed[o]) <= Window
    BY EmptySeq, WireAssumption DEF Init
  <2>4. got \in [Items -> [Readers -> 0..2]] /\ \A i \in Items, r \in Readers : got[i][r] = 0
    BY DEF Init
  <2>5. batch \in Seq(Items) BY EmptySeq DEF Init
  <2>6. day \in 0..LastDay /\ issued \in 0..day /\ faults \in 0..MaxFaults
    BY WireAssumption DEF Init
  <2>7. Ground BY <2>2, <2>3, <2>4, <2>5, <2>6 DEF Init, Ground, Places
  <2>8. Accounted /\ SentOnce BY <2>4 DEF Accounted, SentOnce
  <2>9. Pending BY DEF Init, Pending
  <2> QED BY <2>7, <2>8, <2>9 DEF IInv
<1>2. IInv /\ [Next]_vars => IInv' BY GroundStep, SentStep DEF IInv
<1> QED BY <1>1, <1>2, PTL DEF Spec

\* Every variable has its type; no feed is longer than the window, the file never
\* has more than Cap ids.
THEOREM TypeCorrect == Spec => []TypeOK
<1>1. IInv => TypeOK
  <2> SUFFICES ASSUME Ground PROVE TypeOK BY DEF IInv
  <2>1. ASSUME NEW s \in Seq(Items) PROVE Range(s) \subseteq Items
    BY LenProperties, ElementOfSeq DEF Range
  <2>2. Range(batch) \subseteq Items /\ \A o \in Range(Outlets) : Range(feed[o]) \subseteq Items
    BY <2>1 DEF Ground
  <2>3. UNION {offered, cut, unsaved, doubled} \subseteq Items BY DEF Ground
  <2>4. \A o \in Range(Outlets) : printed[o] \subseteq Items BY DEF Ground
  <2> QED BY <2>2, <2>3, <2>4 DEF Ground, TypeOK, Places
<1> QED BY <1>1, Invariance, PTL

\* No agent is sent an item twice without a reason: its id was cut from the file,
\* or lost with the process, or was in one batch twice.
THEOREM NobodyTwice == Spec => []SentOnce
<1>1. IInv => SentOnce BY DEF IInv
<1> QED BY <1>1, Invariance, PTL

\* Whoever was found for the item in hand is sent it, unless something fails.
THEOREM AllServed == Spec => EveryoneServed
<1> DEFINE Served == \A r \in audience \ audience' :
                        \/ got'[Head(batch)][r] = More(got[Head(batch)][r])
                        \/ faults' > faults
<1>1. ASSUME Ground, [Next]_vars PROVE Served \/ UNCHANGED vars
  <2>1. ASSUME audience = {} \/ audience' = audience PROVE Served BY <2>1
  <2>2. CASE at # "send" BY <1>1, <2>1, <2>2 DEF Ground
  <2>3. CASE at = "send"
    <3>1. CASE World \/ Renew
      BY <2>1, <3>1 DEF World, Publish, Join, DayPasses, wireVars, Renew
    <3>2. CASE \E r \in Readers : Send(r)
      <4>1. PICK r \in Readers : Send(r) BY <3>2
      <4>2. audience' = audience \ {r} BY <4>1 DEF Send
      <4>3. got'[Head(batch)][r] = More(got[Head(batch)][r]) BY <1>1, <2>3, <4>1, GotMore DEF Send
      <4> QED BY <4>2, <4>3
    <3>3. CASE Dies \/ \E r \in Readers : TurnedDown(r)
      <4>1. faults' = faults + 1 BY <3>3 DEF Dies, TurnedDown, Fault
      <4>2. faults' > faults BY <1>1, <4>1 DEF Ground
      <4> QED BY <4>2
    <3>4. ~ (Pass \/ FeedFails \/ CannotLoad \/ LookUp \/ LookUpRefused \/ OpenSeen \/ WriteSeen
             \/ Sleep \/ Start)
      BY <2>3 DEF Pass, FeedFails, PassWithout, CannotLoad, LookUp, LookUpRefused, OpenSeen,
         WriteSeen, Sleep, Start
    <3> QED BY <1>1, <3>1, <3>2, <3>3, <3>4 DEF Next, Steps
  <2> QED BY <2>2, <2>3
<1>2. IInv /\ [Next]_vars => [Served]_vars BY <1>1 DEF IInv
<1>3. Spec => [][Served]_vars BY <1>2, Invariance, PTL DEF Spec
<1> QED BY <1>3 DEF EveryoneServed

-----------------------------------------------------------------------------
(* Nothing dropped.                                                        *)

\* What is on the way to the file was offered, as what is in the file.
Offered == file.ids \subseteq offered /\ seen \subseteq offered

\* A pass starts from the file.
LEMMA PassOffered ==
  ASSUME Offered, NEW failing, PassWithout(failing)
  PROVE  Offered'
BY DEF Offered, PassWithout

\* An item that is done is seen and offered.
LEMMA DoneOffered ==
  ASSUME Offered, file' = file,
         ItemDone(Head(batch)) \/ UNCHANGED <<seen, offered>>
  PROVE  Offered'
BY DEF Offered, ItemDone

\* The file gets no more than what was seen.
LEMMA WrittenOffered ==
  ASSUME Offered, WriteSeen
  PROVE  Offered'
<1>1. PICK kept \in SUBSET seen : file' = Saved(kept) BY DEF WriteSeen
<1>2. UNCHANGED <<seen, offered>> BY DEF WriteSeen
<1> QED BY <1>1, <1>2 DEF Offered, Saved

\* What the file calls seen was sent to all who were there: items that are left
\* over are put off.
THEOREM NothingDropped == Spec => []SeenWasOffered
<1>1. Init => Offered BY DEF Init, Offered, Unread
<1>2. ASSUME Offered, [Next]_vars PROVE Offered'
  <2>1. ASSUME UNCHANGED <<file, seen, offered>> PROVE Offered' BY <1>2, <2>1 DEF Offered
  <2>2. CASE World BY <2>1, <2>2 DEF World, Publish, Join, DayPasses, wireVars, history
  <2>3. CASE Pass \/ FeedFails BY <1>2, <2>3, PassOffered DEF Pass, FeedFails
  <2>4. CASE CannotLoad \/ LookUpRefused \/ Renew \/ Sleep \/ Start \/ Dies
    BY <2>1, <2>4 DEF CannotLoad, LookUpRefused, Renew, Sleep, Start, Dies, history
  <2>5. CASE LookUp BY <1>2, <2>5, DoneOffered DEF LookUp
  <2>6. ASSUME NEW r \in Readers, Send(r) \/ TurnedDown(r) PROVE Offered'
    BY <1>2, <2>6, DoneOffered DEF Send, TurnedDown
  <2>7. CASE OpenSeen BY <1>2, <2>7 DEF OpenSeen, Offered, Broken, history
  <2>8. CASE WriteSeen BY <1>2, <2>8, WrittenOffered
  <2>9. CASE UNCHANGED vars BY <2>1, <2>9 DEF vars, wireVars, history
  <2> QED BY <1>2, <2>2, <2>3, <2>4, <2>5, <2>6, <2>7, <2>8, <2>9 DEF Next, Steps
<1>3. Offered => SeenWasOffered BY DEF Offered, SeenWasOffered
<1> QED BY <1>1, <1>2, <1>3, PTL DEF Spec

\* A pass that gets all feeds puts off nothing new but for want of room: its batch
\* has items that are listed and not seen, and all of them unless it is full.
NewIsTaken ==
  [][at = "pass" /\ at' \in {"open", "readers"} =>
       /\ Range(batch') \subseteq Listed \ file.ids
       /\ \/ Listed \ file.ids \subseteq Range(batch')
          \/ Len(batch') = MaxItems
          \/ faults' > faults]_vars

\* For any outlets and any file: an item that a pass leaves out although its feed
\* was fetched and it is not in the file stands behind MaxItems others like it.
THEOREM NothingPutOff == Spec => NewIsTaken
<1> DEFINE Taking == /\ Range(batch') \subseteq Listed \ file.ids
                     /\ \/ Listed \ file.ids \subseteq Range(batch')
                        \/ Len(batch') = MaxItems
                        \/ faults' > faults
<1>1. ASSUME Ground, [Next]_vars, at = "pass", at' \in {"open", "readers"} PROVE Taking
  <2>1. Pass \/ FeedFails
    BY <1>1 DEF Next, World, Steps, Publish, Join, DayPasses, CannotLoad, LookUp, LookUpRefused, Renew,
                OpenSeen, WriteSeen, Sleep, Start, Send, Dies, TurnedDown, vars, wireVars
  <2>2. ASSUME NEW failing, PassWithout(failing)
        PROVE  /\ Range(batch') \subseteq Listed \ file.ids
               /\ failing = {} => Listed \ file.ids \subseteq Range(batch') \/ Len(batch') = MaxItems
    <3> DEFINE items == Fetched(failing)
               fresh == Unseen(items)
    <3>1. /\ items \in Seq(Items)
          /\ Range(items) = UNION {Range(feed[o]) : o \in Range(Outlets) \ failing}
      BY <1>1, FetchedItems DEF Ground
    <3>2. Range(items) \subseteq Listed /\ (failing = {} => Range(items) = Listed)
      BY <3>1 DEF Listed
    <3> HIDE DEF items
    <3>3. fresh \in Seq(Items \ file.ids) /\ Range(fresh) = Range(items) \ file.ids
      BY <3>1, UnseenItems
    <3>4. fresh \in Seq(Items) BY <3>3, SeqMonotonic
    <3>5. Take(fresh) BY <2>2 DEF PassWithout, items
    <3> HIDE DEF fresh
    <3>6. /\ Range(batch') \subseteq Range(fresh)
          /\ Range(fresh) \subseteq Range(batch') \/ Len(batch') = MaxItems
      BY <3>4, <3>5, TakesAll
    <3> QED BY <3>2, <3>3, <3>6
  <2>3. CASE Pass BY <2>2, <2>3 DEF Pass
  <2>4. CASE FeedFails
    <3>1. faults' > faults BY <1>1, <2>4, WireAssumption DEF FeedFails, Fault, Ground
    <3> QED BY <2>2, <2>4, <3>1 DEF FeedFails
  <2> QED BY <2>1, <2>3, <2>4
<1>2. IInv /\ [Next]_vars => [at = "pass" /\ at' \in {"open", "readers"} => Taking]_vars
  BY <1>1 DEF IInv
<1> QED BY <1>2, Invariance, PTL DEF Spec, NewIsTaken

=============================================================================
