------------------------------ MODULE LiteProofs ------------------------------
(***************************************************************************)
(* Proofs about Lite, for any entities, peers and bounds. What is bounded  *)
(* are counts of messages, so the invariant counts those still to come:    *)
(* a reply that is being thought of or posted, the opening of a life, and  *)
(* the messages that wait in a box (Numbers). A step is one that lets      *)
(* things go, that begins, takes up or counts a reply, or that speaks, and *)
(* there is one lemma for each of these.                                   *)
(***************************************************************************)
EXTENDS Lite, FiniteSetTheorems, SequenceTheorems, TLAPS

-----------------------------------------------------------------------------
(* Messages in a box.                                                      *)

\* The messages of a peer that ask for an answer.
Of(s, p) == {i \in 1..Len(s) : s[i].from = p /\ ~s[i].broadcast}
Count(s, p) == Cardinality(Of(s, p))

\* There are so many of them.
LEMMA CountType ==
  ASSUME NEW s \in Seq(Messages), NEW p
  PROVE  IsFiniteSet(Of(s, p)) /\ Count(s, p) \in Nat /\ Of(s, p) \in SUBSET (1..Len(s))
<1>1. Len(s) \in Nat BY LenProperties
<1>2. IsFiniteSet(1..Len(s)) BY <1>1, FS_Interval
<1>3. Of(s, p) \in SUBSET (1..Len(s)) BY DEF Of
<1>4. IsFiniteSet(Of(s, p)) BY <1>2, <1>3, FS_Subset
<1> QED BY <1>3, <1>4, FS_CardinalityType DEF Count

\* None in an empty box.
LEMMA CountNone == ASSUME NEW p PROVE Count(<< >>, p) = 0
<1>1. Of(<< >>, p) = {} BY DEF Of
<1> QED BY <1>1, FS_EmptySet DEF Count

\* A message more is one more of its sender, if it asks for an answer.
LEMMA CountAppend ==
  ASSUME NEW s \in Seq(Messages), NEW m \in Messages, NEW p
  PROVE  Count(Append(s, m), p)
           = Count(s, p) + (IF m.from = p /\ ~m.broadcast THEN 1 ELSE 0)
<1> DEFINE t == Append(s, m)
<1>1. /\ Len(s) \in Nat /\ Len(t) = Len(s) + 1 /\ t[Len(s) + 1] = m
      /\ \A i \in 1..Len(s) : t[i] = s[i]
  BY LenProperties, AppendProperties
<1>2. 1..(Len(s) + 1) = 1..Len(s) \cup {Len(s) + 1} BY <1>1
<1>3. IsFiniteSet(Of(s, p)) /\ Count(s, p) \in Nat /\ Len(s) + 1 \notin Of(s, p)
  <2>1. Len(s) + 1 \notin 1..Len(s) BY <1>1
  <2> QED BY <2>1, CountType
<1> HIDE DEF t
<1>4. CASE m.from = p /\ ~m.broadcast
  <2>1. Of(t, p) = Of(s, p) \cup {Len(s) + 1} BY <1>1, <1>2, <1>4 DEF Of
  <2>2. Cardinality(Of(t, p)) = Cardinality(Of(s, p)) + 1 BY <1>3, <2>1, FS_AddElement
  <2> QED BY <1>4, <2>2 DEF Count, t
<1>5. CASE ~(m.from = p /\ ~m.broadcast)
  <2>1. Of(t, p) = Of(s, p) BY <1>1, <1>2, <1>5 DEF Of
  <2> QED BY <1>3, <1>5, <2>1 DEF Count, t
<1> QED BY <1>4, <1>5

\* Those that are left when the first k are gone were there before.
LEMMA CountLeft ==
  ASSUME NEW s \in Seq(Messages), NEW t \in Seq(Messages), NEW k \in 0..Len(s), NEW p,
         Len(t) = Len(s) - k, \A i \in 1..Len(t) : t[i] = s[i + k]
  PROVE  /\ Count(t, p) <= Count(s, p)
         /\ k = 1 /\ 1 \in Of(s, p) => Count(t, p) + 1 <= Count(s, p)
<1> DEFINE T == Of(s, p) \ (1..k)
           f == [i \in Of(t, p) |-> i + k]
<1>1. Len(s) \in Nat /\ Len(t) \in Nat /\ k \in Nat BY LenProperties
<1>2. /\ IsFiniteSet(Of(s, p)) /\ Count(s, p) \in Nat
      /\ IsFiniteSet(Of(t, p)) /\ Count(t, p) \in Nat
      /\ Of(t, p) \in SUBSET (1..Len(t))
  BY CountType
<1>3. T \in SUBSET Of(s, p) OBVIOUS
<1>4. IsFiniteSet(T) /\ Cardinality(T) <= Cardinality(Of(s, p)) BY <1>2, <1>3, FS_Subset
<1>5. Cardinality(T) \in Nat BY <1>4, FS_CardinalityType
<1>6. f \in Injection(Of(t, p), T)
  <2>1. ASSUME NEW i \in Of(t, p) PROVE i + k \in T
    <3>1. i \in 1..Len(t) /\ t[i].from = p /\ ~t[i].broadcast BY DEF Of
    <3>2. i + k \in 1..Len(s) /\ i + k \notin 1..k BY <1>1, <3>1
    <3>3. t[i] = s[i + k] BY <3>1
    <3> QED BY <3>1, <3>2, <3>3 DEF Of
  <2>2. f \in [Of(t, p) -> T] BY <2>1
  <2>3. \A a, b \in Of(t, p) : a + k = b + k => a = b BY <1>1, <1>2
  <2> QED BY <2>2, <2>3 DEF Injection, IsInjective
<1>7. Cardinality(Of(t, p)) <= Cardinality(T) BY <1>4, <1>6, FS_Injection
<1>8. ASSUME k = 1, 1 \in Of(s, p) PROVE Cardinality(T) + 1 <= Cardinality(Of(s, p))
  <2>1. T = Of(s, p) \ {1} BY <1>8
  <2>2. Cardinality(Of(s, p) \ {1}) = Cardinality(Of(s, p)) - 1 BY <1>2, <1>8, FS_RemoveElement
  <2>3. Cardinality(Of(s, p)) \in Nat BY <1>2 DEF Count
  <2> HIDE DEF T
  <2> QED BY <2>1, <2>2, <2>3
<1> QED BY <1>2, <1>4, <1>5, <1>7, <1>8 DEF Count

\* So with the first message, which asks for an answer or not.
LEMMA CountTail ==
  ASSUME NEW s \in Seq(Messages), s # << >>, NEW p
  PROVE  /\ Head(s) \in Messages /\ Tail(s) \in Seq(Messages)
         /\ Count(Tail(s), p) <= Count(s, p)
         /\ Head(s).from = p /\ ~Head(s).broadcast => Count(Tail(s), p) + 1 <= Count(s, p)
<1>1. /\ Len(s) \in Nat \ {0} /\ Head(s) = s[1] /\ Head(s) \in Messages
      /\ Tail(s) \in Seq(Messages) /\ Len(Tail(s)) = Len(s) - 1
      /\ \A i \in 1..Len(Tail(s)) : Tail(s)[i] = s[i + 1]
  BY EmptySeq, HeadTailProperties
<1>2. 1 \in 0..Len(s) /\ 1 \in 1..Len(s) BY <1>1
<1>3. Head(s).from = p /\ ~Head(s).broadcast => 1 \in Of(s, p) BY <1>1, <1>2 DEF Of
<1> HIDE DEF Messages
<1> QED BY <1>1, <1>2, <1>3, CountLeft

\* And with the first k.
LEMMA CountSuffix ==
  ASSUME NEW s \in Seq(Messages), NEW k \in 0..Len(s), NEW p
  PROVE  /\ SubSeq(s, k + 1, Len(s)) \in Seq(Messages)
         /\ Count(SubSeq(s, k + 1, Len(s)), p) <= Count(s, p)
<1> DEFINE t == SubSeq(s, k + 1, Len(s))
<1>1. Len(s) \in Nat /\ \A i \in 1..Len(s) : s[i] \in Messages BY LenProperties, ElementOfSeq
<1>2. /\ t \in Seq(Messages)
      /\ Len(t) = IF k + 1 <= Len(s) THEN Len(s) - (k + 1) + 1 ELSE 0
      /\ \A i \in 1..(Len(s) - (k + 1) + 1) : t[i] = s[k + 1 + i - 1]
  <2>1. \A i \in (k + 1)..Len(s) : s[i] \in Messages BY <1>1
  <2>2. k + 1 \in Int /\ Len(s) \in Int BY <1>1
  <2> QED BY <2>1, <2>2, SubSeqProperties
<1> HIDE DEF t
<1>3. Len(t) = Len(s) - k /\ \A i \in 1..Len(t) : t[i] = s[i + k] BY <1>1, <1>2
<1>4. Count(t, p) <= Count(s, p) BY <1>2, <1>3, CountLeft
<1> QED BY <1>2, <1>4 DEF t

-----------------------------------------------------------------------------
(* The state.                                                              *)

NoPeer == <<Nobody, 0>>
Places == {"off", "connect", "refresh", "listen", "think", "post", "renew", "sleep", "stalled"}
Openings == {"off", "look", "post", "renew", "over"}

Ground ==
  /\ life \in [Entities -> 0..MaxLives] /\ at \in [Entities -> Places]
  /\ hand \in [Entities -> Peers \cup {NoPeer}]
  /\ turns \in [Dids -> [Peers -> 0..MaxTurns]]
  /\ issued \in [Entities -> 0..day] /\ greeter \in [Entities -> Openings]
  /\ found \in [Entities -> Dids \cup {NoPeer}] /\ box \in [Dids -> Seq(Messages)]
  /\ news \in 0..MaxNews /\ day \in 0..LastDay /\ faults \in 0..MaxFaults
  /\ said \in [Peers -> [Peers -> 0..Many]]

\* A thread that is anywhere belongs to a life, answers a peer that is not
\* itself, and thinks only if it has a turn left; it greets whom it was told to.
Thread(e) ==
  /\ at[e] # "off" \/ greeter[e] \in {"look", "post", "renew"} => life[e] >= 1
  /\ at[e] \in {"think", "post", "renew"} => hand[e] \in Peers \ {Did(e)}
  /\ at[e] = "think" => turns[Did(e)][hand[e]] < MaxTurns
  /\ greeter[e] = "look" => Greets[e] # Nobody
  /\ greeter[e] \in {"post", "renew"} => found[e] \in Dids /\ found[e][1] = Greets[e]
Threads == \A e \in Entities : Thread(e)

\* What d still has to say to p: a reply it posts, one it thinks of or posts,
\* and the opening of this life.
Replying(d, p) ==
  IF d = Did(d[1]) /\ at[d[1]] \in {"post", "renew"} /\ hand[d[1]] = p THEN 1 ELSE 0
Answering(d, p) ==
  IF d = Did(d[1]) /\ at[d[1]] \in {"think", "post", "renew"} /\ hand[d[1]] = p THEN 1 ELSE 0
ToOpen(d, p) ==
  IF d = Did(d[1]) /\ greeter[d[1]] \in {"look", "post", "renew"} THEN Opening(d, p) ELSE 0

\* A DID that is not there yet has no part in anything.
Fresh ==
  \A d \in Dids : d[2] > life[d[1]] =>
    /\ box[d] = << >>
    /\ \A p \in Peers : turns[d][p] = 0 /\ said[d][p] = 0

\* What was said and is being posted was counted as a turn, or is the opening.
Counted ==
  \A d \in Dids, p \in Peers :
    said[d][p] + Replying(d, p) + ToOpen(d, p) <= turns[d][p] + Opening(d, p)

\* What was said, is on its way or could still be said, as the message is in the
\* box, answers a message each.
Answers ==
  \A d \in Dids, p \in Peers : p # d =>
    \/ said[p][d] = Many
    \/ said[d][p] + Answering(d, p) + ToOpen(d, p) + Count(box[d], p)
         <= said[p][d] + Opening(d, p)

Numbers == Fresh /\ Counted /\ Answers

\* DIDs are peers and no outsider's, and the DID of an entity that lives is one.
LEMMA DidsTyped ==
  /\ Dids \subseteq Peers
  /\ \A d \in Dids : d[1] \in Entities /\ d[2] \in 1..MaxLives /\ d = <<d[1], d[2]>>
  /\ \A o \in Outsiders : <<o, 0>> \in Peers /\ <<o, 0>> \notin Dids
  /\ \A e \in Entities, l \in 1..MaxLives : <<e, l>> \in Dids
  /\ MaxLives \in Nat /\ MaxTurns \in Nat /\ Many \in Nat /\ Many = MaxTurns + 2
<1>1. MaxLives \in Nat /\ MaxTurns \in Nat BY LiteAssumption
<1>2. 0 \notin 1..MaxLives BY <1>1
<1> QED BY <1>1, <1>2 DEF Dids, Peers, Many

\* The numbers are numbers.
LEMMA NumbersTyped ==
  ASSUME Ground, NEW d \in Dids, NEW p \in Peers
  PROVE  /\ Opening(d, p) \in {0, 1} /\ Replying(d, p) \in {0, 1} /\ Answering(d, p) \in {0, 1}
         /\ ToOpen(d, p) \in {0, 1} /\ ToOpen(d, p) <= Opening(d, p)
         /\ Replying(d, p) <= Answering(d, p)
         /\ said[d][p] \in Nat /\ said[p][d] \in Nat /\ turns[d][p] \in Nat
         /\ turns[d][p] <= MaxTurns
         /\ said[d][p] <= Many /\ said[p][d] <= Many
         /\ Count(box[d], p) \in Nat /\ box[d] \in Seq(Messages)
<1>1. d \in Peers /\ MaxTurns \in Nat /\ Many \in Nat BY DidsTyped
<1>2. box[d] \in Seq(Messages) BY DEF Ground
<1>3. Count(box[d], p) \in Nat BY <1>2, CountType
<1>4. /\ said[d][p] \in Nat /\ said[p][d] \in Nat /\ said[d][p] <= Many /\ said[p][d] <= Many
  BY <1>1 DEF Ground
<1>5. turns[d][p] \in Nat /\ turns[d][p] <= MaxTurns BY <1>1 DEF Ground
<1> QED BY <1>2, <1>3, <1>4, <1>5 DEF Opening, Replying, Answering, ToOpen

\* A step in which nothing is said: a reply that is to be posted was counted, and
\* one that is taken up was in the box.
LEMMA Balances ==
  ASSUME Ground, Ground', Numbers, UNCHANGED <<life, said>>,
         \A d \in Dids, p \in Peers :
           /\ Replying(d, p)' + turns[d][p] <= Replying(d, p) + turns'[d][p]
           /\ Answering(d, p)' + Count(box'[d], p) <= Answering(d, p) + Count(box[d], p)
           /\ ToOpen(d, p)' <= ToOpen(d, p),
         \A d \in Dids : d[2] > life[d[1]] /\ box[d] = << >> => box'[d] = << >> /\ turns'[d] = turns[d]
  PROVE  Numbers'
<1>1. Fresh' BY DEF Numbers, Fresh
<1>2. ASSUME NEW d \in Dids, NEW p \in Peers
      PROVE  /\ Opening(d, p) \in Nat /\ said[d][p] \in Nat /\ said[p][d] \in Nat
             /\ turns[d][p] \in Nat /\ turns'[d][p] \in Nat
             /\ Replying(d, p) \in Nat /\ Answering(d, p) \in Nat /\ ToOpen(d, p) \in Nat
             /\ Replying(d, p)' \in Nat /\ Answering(d, p)' \in Nat /\ ToOpen(d, p)' \in Nat
             /\ Count(box[d], p) \in Nat /\ Count(box'[d], p) \in Nat
  <2>1. box'[d] \in Seq(Messages) BY DEF Ground
  <2>2. Count(box'[d], p) \in Nat BY <2>1, CountType
  <2>3. Replying(d, p)' \in Nat /\ Answering(d, p)' \in Nat /\ ToOpen(d, p)' \in Nat
    BY DEF Replying, Answering, ToOpen, Opening
  <2>4. turns'[d][p] \in Nat
    <3>1. turns'[d][p] \in 0..MaxTurns BY DEF Ground
    <3> QED BY <3>1, DidsTyped
  <2>5. /\ Opening(d, p) \in Nat /\ said[d][p] \in Nat /\ said[p][d] \in Nat /\ turns[d][p] \in Nat
        /\ Replying(d, p) \in Nat /\ Answering(d, p) \in Nat /\ ToOpen(d, p) \in Nat
        /\ Count(box[d], p) \in Nat
    BY NumbersTyped
  <2> QED BY ONLY <2>2, <2>3, <2>4, <2>5
<1>3. Counted'
  <2> SUFFICES ASSUME NEW d \in Dids, NEW p \in Peers
      PROVE  said'[d][p] + Replying(d, p)' + ToOpen(d, p)' <= turns'[d][p] + Opening(d, p)
    BY DEF Counted, Opening
  <2>1. said[d][p] + Replying(d, p) + ToOpen(d, p) <= turns[d][p] + Opening(d, p)
    BY DEF Numbers, Counted
  <2>2. /\ said'[d][p] = said[d][p]
        /\ Replying(d, p)' + turns[d][p] <= Replying(d, p) + turns'[d][p]
        /\ ToOpen(d, p)' <= ToOpen(d, p)
    OBVIOUS
  <2>3. /\ Opening(d, p) \in Nat /\ said[d][p] \in Nat /\ turns[d][p] \in Nat /\ turns'[d][p] \in Nat
        /\ Replying(d, p) \in Nat /\ ToOpen(d, p) \in Nat
        /\ Replying(d, p)' \in Nat /\ ToOpen(d, p)' \in Nat
    BY <1>2
  <2> QED BY ONLY <2>1, <2>2, <2>3
<1>4. Answers'
  <2> SUFFICES ASSUME NEW d \in Dids, NEW p \in Peers, p # d
      PROVE  \/ said'[p][d] = Many
             \/ said'[d][p] + Answering(d, p)' + ToOpen(d, p)' + Count(box'[d], p)
                  <= said'[p][d] + Opening(d, p)
    BY DEF Answers, Opening, Many, Count, Of
  <2>1. \/ said[p][d] = Many
        \/ said[d][p] + Answering(d, p) + ToOpen(d, p) + Count(box[d], p)
             <= said[p][d] + Opening(d, p)
    BY DEF Numbers, Answers
  <2>2. /\ said'[d][p] = said[d][p] /\ said'[p][d] = said[p][d]
        /\ Answering(d, p)' + Count(box'[d], p) <= Answering(d, p) + Count(box[d], p)
        /\ ToOpen(d, p)' <= ToOpen(d, p)
    OBVIOUS
  <2>3. /\ Opening(d, p) \in Nat /\ said[d][p] \in Nat /\ said[p][d] \in Nat
        /\ Answering(d, p) \in Nat /\ ToOpen(d, p) \in Nat
        /\ Answering(d, p)' \in Nat /\ ToOpen(d, p)' \in Nat
        /\ Count(box[d], p) \in Nat /\ Count(box'[d], p) \in Nat
    BY <1>2
  <2> QED BY ONLY <2>1, <2>2, <2>3
<1> QED BY <1>1, <1>3, <1>4 DEF Numbers

\* A step that only lets things go: what is still to be said or answered does
\* not grow.
LEMMA LetsGo ==
  ASSUME Ground, Ground', Numbers, UNCHANGED <<life, turns, said>>,
         \A d \in Dids, p \in Peers :
           /\ Replying(d, p)' <= Replying(d, p) /\ Answering(d, p)' <= Answering(d, p)
           /\ ToOpen(d, p)' <= ToOpen(d, p)
           /\ Count(box'[d], p) <= Count(box[d], p),
         \A d \in Dids : box[d] = << >> /\ d[2] > life[d[1]] => box'[d] = << >>
  PROVE  Numbers'
<1>1. ASSUME NEW d \in Dids, NEW p \in Peers
      PROVE  /\ Replying(d, p)' + turns[d][p] <= Replying(d, p) + turns'[d][p]
             /\ Answering(d, p)' + Count(box'[d], p) <= Answering(d, p) + Count(box[d], p)
             /\ ToOpen(d, p)' <= ToOpen(d, p)
  <2>1. Count(box'[d], p) \in Nat /\ Count(box[d], p) \in Nat /\ turns[d][p] \in Nat
    <3>1. box'[d] \in Seq(Messages) BY DEF Ground
    <3> QED BY <3>1, CountType, NumbersTyped
  <2>2. /\ Replying(d, p)' \in Nat /\ Answering(d, p)' \in Nat
        /\ Replying(d, p) \in Nat /\ Answering(d, p) \in Nat
    BY DEF Replying, Answering
  <2>3. /\ Replying(d, p)' <= Replying(d, p) /\ Answering(d, p)' <= Answering(d, p)
        /\ ToOpen(d, p)' <= ToOpen(d, p) /\ turns'[d][p] = turns[d][p]
        /\ Count(box'[d], p) <= Count(box[d], p)
    OBVIOUS
  <2> QED BY ONLY <2>1, <2>2, <2>3
<1> QED BY <1>1, Balances

\* A message that is accepted is one more, in one box.
LEMMA Accepted ==
  ASSUME Ground, NEW from \in Peers, NEW to \in Peers, Accept(from, to)
  PROVE  /\ said' \in [Peers -> [Peers -> 0..Many]] /\ box' \in [Dids -> Seq(Messages)]
         /\ \A x, y \in Peers : ~(x = from /\ y = to) => said'[x][y] = said[x][y]
         /\ said'[from][to] <= said[from][to] + 1 /\ said[from][to] <= said'[from][to]
         /\ said'[from][to] = Many \/ said'[from][to] = said[from][to] + 1
         /\ \A d \in Dids : d # to => box'[d] = box[d]
         /\ \A d \in Dids, p \in Peers :
              Count(box'[d], p) = Count(box[d], p) + (IF d = to /\ p = from THEN 1 ELSE 0)
<1> DEFINE n == IF said[from][to] = Many THEN Many ELSE said[from][to] + 1
           m == [from |-> from, broadcast |-> FALSE]
<1>1. Many \in Nat /\ said \in [Peers -> [Peers -> 0..Many]] BY DidsTyped DEF Ground
<1>2. said' = [said EXCEPT ![from] = [said[from] EXCEPT ![to] = n]] BY DEF Accept
<1>3. /\ n \in 0..Many /\ n <= said[from][to] + 1 /\ said[from][to] <= n
      /\ n = Many \/ n = said[from][to] + 1
  <2>1. said[from][to] \in 0..Many /\ Many \in Nat BY <1>1
  <2>2. CASE said[from][to] = Many BY ONLY <2>1, <2>2
  <2>3. CASE said[from][to] # Many BY ONLY <2>1, <2>3
  <2> QED BY <2>2, <2>3
<1> HIDE DEF n
<1>4. /\ said' \in [Peers -> [Peers -> 0..Many]] /\ said'[from][to] = n
      /\ \A x, y \in Peers : ~(x = from /\ y = to) => said'[x][y] = said[x][y]
  BY <1>1, <1>2, <1>3
<1>5. m \in Messages BY DEF Messages
<1>6. box' = IF to \in Dids THEN [box EXCEPT ![to] = Append(box[to], m)] ELSE box
  BY DEF Accept
<1> HIDE DEF m
<1>7. \A d \in Dids : box[d] \in Seq(Messages) BY DEF Ground
<1>8. /\ box' \in [Dids -> Seq(Messages)]
      /\ \A d \in Dids : d # to => box'[d] = box[d]
      /\ to \in Dids => box'[to] = Append(box[to], m)
  <2>1. to \in Dids => Append(box[to], m) \in Seq(Messages) BY <1>5, <1>7, AppendProperties
  <2> HIDE DEF Messages
  <2> QED BY <1>6, <2>1 DEF Ground
<1>9. ASSUME NEW d \in Dids, NEW p \in Peers
      PROVE  Count(box'[d], p) = Count(box[d], p) + (IF d = to /\ p = from THEN 1 ELSE 0)
  <2>1. box[d] \in Seq(Messages) /\ Count(box[d], p) \in Nat BY <1>7, CountType
  <2>2. CASE d = to
    <3>1. Count(Append(box[d], m), p)
            = Count(box[d], p) + (IF m.from = p /\ ~m.broadcast THEN 1 ELSE 0)
      BY ONLY <1>5, <2>1, CountAppend
    <3>3. box'[d] = Append(box[d], m) BY <1>8, <2>2
    <3>2. m.from = from /\ ~m.broadcast BY DEF m
    <3> QED BY <2>2, <3>1, <3>2, <3>3
  <2>3. CASE d # to BY <1>8, <2>1, <2>3
  <2> QED BY <2>2, <2>3
<1> QED BY <1>3, <1>4, <1>8, <1>9

\* A step that speaks: what is said was still to be said, or comes from outside.
LEMMA Speaks ==
  ASSUME Ground, Ground', Numbers, UNCHANGED <<life, turns>>,
         NEW from \in Peers, NEW to \in Peers, Known(to), Accept(from, to),
         \A d \in Dids, p \in Peers :
           /\ Replying(d, p)' <= Replying(d, p) /\ Answering(d, p)' <= Answering(d, p)
           /\ ToOpen(d, p)' <= ToOpen(d, p),
         from \in Dids =>
           /\ from = Did(from[1])
           /\ Replying(from, to)' + ToOpen(from, to)' + 1 <= Replying(from, to) + ToOpen(from, to)
           /\ Answering(from, to)' + ToOpen(from, to)' + 1 <= Answering(from, to) + ToOpen(from, to)
  PROVE  Numbers'
<1>0. Dids \subseteq Peers BY DidsTyped
<1>1. ASSUME NEW d \in Dids, NEW p \in Peers
      PROVE  /\ Opening(d, p) \in Nat /\ said[d][p] \in Nat /\ said[p][d] \in Nat /\ turns[d][p] \in Nat
             /\ Replying(d, p) \in Nat /\ Answering(d, p) \in Nat /\ ToOpen(d, p) \in Nat
             /\ Replying(d, p)' \in Nat /\ Answering(d, p)' \in Nat /\ ToOpen(d, p)' \in Nat
             /\ Count(box[d], p) \in Nat /\ said'[d][p] \in Nat /\ said'[p][d] \in Nat
             /\ d \in Peers
  <2>1. Replying(d, p)' \in Nat /\ Answering(d, p)' \in Nat /\ ToOpen(d, p)' \in Nat
    BY DEF Replying, Answering, ToOpen, Opening
  <2>2. said'[d][p] \in Nat /\ said'[p][d] \in Nat BY <1>0, DidsTyped DEF Ground
  <2>3. /\ Opening(d, p) \in Nat /\ said[d][p] \in Nat /\ said[p][d] \in Nat /\ turns[d][p] \in Nat
        /\ Replying(d, p) \in Nat /\ Answering(d, p) \in Nat /\ ToOpen(d, p) \in Nat
        /\ Count(box[d], p) \in Nat
    BY NumbersTyped
  <2> QED BY ONLY <1>0, <2>1, <2>2, <2>3
<1>2. /\ \A x, y \in Peers : ~(x = from /\ y = to) => said'[x][y] = said[x][y]
      /\ said'[from][to] <= said[from][to] + 1 /\ said[from][to] <= said'[from][to]
      /\ said'[from][to] = Many \/ said'[from][to] = said[from][to] + 1
      /\ \A d \in Dids : d # to => box'[d] = box[d]
      /\ \A d \in Dids, p \in Peers :
              Count(box'[d], p) = Count(box[d], p) + (IF d = to /\ p = from THEN 1 ELSE 0)
  BY Accepted
<1>3. Fresh'
  <2> SUFFICES ASSUME NEW d \in Dids, d[2] > life[d[1]]
      PROVE  box'[d] = << >> /\ \A p \in Peers : turns[d][p] = 0 /\ said'[d][p] = 0
    BY DEF Fresh
  <2>1. d[2] \in Nat \ {0} /\ life[d[1]] \in Nat
    <3>1. d[1] \in Entities /\ d[2] \in 1..MaxLives /\ MaxLives \in Nat BY DidsTyped
    <3>2. life[d[1]] \in 0..MaxLives BY <3>1 DEF Ground
    <3> QED BY ONLY <3>1, <3>2
  <2>2. ASSUME d = Did(d[1]) PROVE FALSE
    <3>1. d[2] = life[d[1]] BY <2>2 DEF Did
    <3> QED BY <2>1, <3>1
  <2>3. d # from BY <2>2
  <2>4. d # to BY <2>1, <2>2 DEF Known
  <2> QED BY <1>0, <1>2, <2>3, <2>4 DEF Numbers, Fresh
<1>4. Counted'
  <2> SUFFICES ASSUME NEW d \in Dids, NEW p \in Peers
      PROVE  said'[d][p] + Replying(d, p)' + ToOpen(d, p)' <= turns[d][p] + Opening(d, p)
    BY DEF Counted, Opening
  <2>1. said[d][p] + Replying(d, p) + ToOpen(d, p) <= turns[d][p] + Opening(d, p)
    BY DEF Numbers, Counted
  <2>2. /\ Opening(d, p) \in Nat /\ said[d][p] \in Nat /\ turns[d][p] \in Nat
        /\ Replying(d, p) \in Nat /\ ToOpen(d, p) \in Nat /\ said'[d][p] \in Nat
        /\ Replying(d, p)' \in Nat /\ ToOpen(d, p)' \in Nat
    BY <1>1
  <2>3. CASE d = from /\ p = to
    <3>1. /\ Replying(d, p)' + ToOpen(d, p)' + 1 <= Replying(d, p) + ToOpen(d, p)
          /\ said'[d][p] <= said[d][p] + 1
      BY <1>2, <2>3
    <3> QED BY ONLY <2>1, <2>2, <3>1
  <2>4. CASE ~(d = from /\ p = to)
    <3>1. /\ said'[d][p] = said[d][p]
          /\ Replying(d, p)' <= Replying(d, p) /\ ToOpen(d, p)' <= ToOpen(d, p)
      BY <1>1, <1>2, <2>4
    <3> QED BY ONLY <2>1, <2>2, <3>1
  <2> QED BY <2>3, <2>4
<1>5. Answers'
  <2> SUFFICES ASSUME NEW d \in Dids, NEW p \in Peers, p # d
      PROVE  \/ said'[p][d] = Many
             \/ said'[d][p] + Answering(d, p)' + ToOpen(d, p)' + Count(box'[d], p)
                  <= said'[p][d] + Opening(d, p)
    BY DEF Answers, Opening, Many, Count, Of
  <2>1. \/ said[p][d] = Many
        \/ said[d][p] + Answering(d, p) + ToOpen(d, p) + Count(box[d], p)
             <= said[p][d] + Opening(d, p)
    BY DEF Numbers, Answers
  <2>2. /\ Opening(d, p) \in Nat /\ said[d][p] \in Nat /\ said[p][d] \in Nat
        /\ said'[d][p] \in Nat /\ said'[p][d] \in Nat
        /\ Answering(d, p) \in Nat /\ ToOpen(d, p) \in Nat
        /\ Answering(d, p)' \in Nat /\ ToOpen(d, p)' \in Nat
        /\ Count(box[d], p) \in Nat /\ d \in Peers
    BY <1>1
  <2>3. CASE d = from /\ p = to
    <3>1. /\ Answering(d, p)' + ToOpen(d, p)' + 1 <= Answering(d, p) + ToOpen(d, p)
          /\ said'[d][p] <= said[d][p] + 1
      BY <1>2, <2>3
    <3>2. Count(box'[d], p) = Count(box[d], p) + (IF d = to /\ p = from THEN 1 ELSE 0)
      BY <1>2
    <3>3. said'[p][d] = said[p][d] BY <1>2, <2>2, <2>3
    <3>4. Count(box'[d], p) = Count(box[d], p) BY <2>2, <2>3, <3>2
    <3> QED BY ONLY <2>1, <2>2, <3>1, <3>3, <3>4
  <2>4. CASE d = to /\ p = from
    <3>1. /\ Answering(d, p)' <= Answering(d, p) /\ ToOpen(d, p)' <= ToOpen(d, p)
      OBVIOUS
    <3>2. Count(box'[d], p) = Count(box[d], p) + (IF d = to /\ p = from THEN 1 ELSE 0)
      BY <1>2
    <3>3. said'[d][p] = said[d][p] BY <1>2, <2>2, <2>4
    <3>4. Count(box'[d], p) = Count(box[d], p) + 1 BY <2>4, <3>2
    <3>5. said'[p][d] = Many \/ said'[p][d] = said[p][d] + 1 BY <1>2, <2>4
    <3>6. said[p][d] = Many => said'[p][d] = Many
      <4>1. said'[p][d] <= Many /\ said[p][d] <= said'[p][d] /\ Many \in Nat
        BY <1>2, <2>2, <2>4, DidsTyped DEF Ground
      <4> QED BY <2>2, <4>1
    <3> QED BY ONLY <2>1, <2>2, <3>1, <3>3, <3>4, <3>5, <3>6
  <2>5. CASE ~(d = from /\ p = to) /\ ~(d = to /\ p = from)
    <3>1. /\ Answering(d, p)' <= Answering(d, p) /\ ToOpen(d, p)' <= ToOpen(d, p)
      OBVIOUS
    <3>2. Count(box'[d], p) = Count(box[d], p) + (IF d = to /\ p = from THEN 1 ELSE 0)
      BY <1>2
    <3>3. said'[d][p] = said[d][p] /\ said'[p][d] = said[p][d] BY <1>2, <2>2, <2>5
    <3>4. Count(box'[d], p) = Count(box[d], p) BY <2>2, <2>5, <3>2
    <3> QED BY ONLY <2>1, <2>2, <3>1, <3>3, <3>4
  <2> QED BY <2>3, <2>4, <2>5
<1> QED BY <1>3, <1>4, <1>5 DEF Numbers

-----------------------------------------------------------------------------
(* Types.                                                                  *)

\* The DID of an entity that lives is a peer.
LEMMA LivingDid ==
  ASSUME Ground, NEW e \in Entities, life[e] >= 1
  PROVE  Did(e) \in Dids /\ Did(e) \in Peers /\ Did(e)[1] = e /\ Known(Did(e))
<1>1. life[e] \in 0..MaxLives /\ MaxLives \in Nat BY DidsTyped DEF Ground
<1>2. life[e] \in 1..MaxLives BY <1>1
<1> QED BY <1>2, DidsTyped DEF Did, Known

\* What is said leaves the boxes and the counts well typed.
LEMMA TurnTyped ==
  ASSUME Ground, NEW from \in Peers, NEW to \in Peers, Turn(from, to)
  PROVE  said' \in [Peers -> [Peers -> 0..Many]] /\ box' \in [Dids -> Seq(Messages)]
<1>1. CASE Known(to) BY <1>1, Accepted DEF Turn
<1>2. CASE ~Known(to) BY <1>2 DEF Turn, Ground
<1> QED BY <1>1, <1>2

\* The main thread keeps the types,
LEMMA MainGround ==
  ASSUME Ground, Threads, NEW e \in Entities, Main(e)
  PROVE  Ground'
<1> USE DEF Places, Openings
<1>0. at[e] # "off" => Did(e) \in Dids /\ Did(e) \in Peers BY LivingDid DEF Threads, Thread
<1>1. CASE Connect(e) BY <1>1 DEF Ground, Connect
<1>2. CASE Refresh(e)
  <2>1. day \in 0..day BY LiteAssumption DEF Ground
  <2> QED BY <1>2, <2>1 DEF Ground, Refresh
<1>3. CASE Handle(e)
  <2>1. /\ Did(e) \in Dids /\ box[Did(e)] \in Seq(Messages) /\ box[Did(e)] # << >>
        /\ box' = [box EXCEPT ![Did(e)] = Tail(box[Did(e)])]
    BY <1>0, <1>3 DEF Ground, Handle
  <2>2. Head(box[Did(e)]) \in Messages /\ Tail(box[Did(e)]) \in Seq(Messages)
    BY <2>1, HeadTailProperties
  <2>3. Head(box[Did(e)]).from \in Peers BY <2>2 DEF Messages
  <2>4. box' \in [Dids -> Seq(Messages)] BY <2>1, <2>2 DEF Ground
  <2>5. hand' \in [Entities -> Peers \cup {NoPeer}] /\ at' \in [Entities -> Places]
    BY <1>3, <2>3 DEF Ground, Handle
  <2> QED BY <1>3, <2>4, <2>5 DEF Ground, Handle
<1>4. CASE Think(e)
  <2>1. hand[e] \in Peers /\ Did(e) \in Dids /\ turns[Did(e)][hand[e]] < MaxTurns
    BY <1>0, <1>4 DEF Think, Threads, Thread
  <2>2. turns[Did(e)][hand[e]] + 1 \in 0..MaxTurns
    <3>1. turns[Did(e)][hand[e]] \in 0..MaxTurns BY <2>1 DEF Ground
    <3>2. MaxTurns \in Nat BY DidsTyped
    <3> QED BY ONLY <2>1, <3>1, <3>2
  <2>3. turns' = [turns EXCEPT ![Did(e)] = [turns[Did(e)] EXCEPT ![hand[e]] = turns[Did(e)][hand[e]] + 1]]
    BY <1>4 DEF Think
  <2>4. turns' \in [Dids -> [Peers -> 0..MaxTurns]] BY <2>1, <2>2, <2>3 DEF Ground
  <2> QED BY <1>4, <2>4 DEF Ground, Think
<1>5. CASE Post(e)
  <2>1. said' \in [Peers -> [Peers -> 0..Many]] /\ box' \in [Dids -> Seq(Messages)]
    BY <1>0, <1>5, TurnTyped DEF Post, Threads, Thread
  <2> QED BY <1>5, <2>1 DEF Ground, Post, NoPeer
<1>6. CASE PostRefused(e) BY <1>6 DEF Ground, PostRefused
<1>7. CASE PostAgain(e)
  <2>1. said' \in [Peers -> [Peers -> 0..Many]] /\ box' \in [Dids -> Seq(Messages)]
    BY <1>0, <1>7, TurnTyped DEF PostAgain, Threads, Thread
  <2>2. day \in 0..day BY LiteAssumption DEF Ground
  <2> QED BY <1>7, <2>1, <2>2 DEF Ground, PostAgain, NoPeer
<1>8. CASE Wake(e) BY <1>8 DEF Ground, Wake
<1> QED BY <1>1, <1>2, <1>3, <1>4, <1>5, <1>6, <1>7, <1>8 DEF Main

\* as does the greeting thread,
LEMMA GreetingGround ==
  ASSUME Ground, Threads, NEW e \in Entities, Greeting(e)
  PROVE  Ground'
<1> USE DEF Places, Openings
<1>0. greeter[e] \in {"post", "renew"} => Did(e) \in Peers /\ found[e] \in Peers
  BY LivingDid, DidsTyped DEF Threads, Thread
<1>1. CASE Look(e)
  <2>1. CASE Expired(e) BY <1>1, <2>1 DEF Ground, Look
  <2>2. CASE ~Expired(e)
    <3>1. Greets[e] \in Entities /\ life[Greets[e]] >= 1
      <4>1. life[Greets[e]] > 0 /\ Greets[e] # Nobody BY <1>1, <2>2 DEF Look, Threads, Thread
      <4>2. Greets[e] \in Entities BY <4>1, LiteAssumption
      <4>3. life[Greets[e]] \in 0..MaxLives BY <4>2 DEF Ground
      <4> QED BY ONLY <4>1, <4>2, <4>3
    <3>2. Did(Greets[e]) \in Dids BY <3>1, LivingDid
    <3> QED BY <1>1, <2>2, <3>2 DEF Ground, Look
  <2> QED BY <2>1, <2>2
<1>2. CASE GiveUp(e) BY <1>2 DEF Ground, GiveUp
<1>3. CASE Greet(e)
  <2>1. said' \in [Peers -> [Peers -> 0..Many]] /\ box' \in [Dids -> Seq(Messages)]
    <3>1. CASE Expired(e) BY <1>3, <3>1 DEF Greet, Ground
    <3>2. CASE ~Expired(e) BY <1>0, <1>3, <3>2, TurnTyped DEF Greet
    <3> QED BY <3>1, <3>2
  <2> QED BY <1>3, <2>1 DEF Ground, Greet
<1>4. CASE GreetAgain(e)
  <2>1. said' \in [Peers -> [Peers -> 0..Many]] /\ box' \in [Dids -> Seq(Messages)]
    BY <1>0, <1>4, TurnTyped DEF GreetAgain
  <2>2. day \in 0..day BY LiteAssumption DEF Ground
  <2> QED BY <1>4, <2>1, <2>2 DEF Ground, GreetAgain
<1> QED BY <1>1, <1>2, <1>3, <1>4 DEF Greeting

\* what fails,
LEMMA FailureGround ==
  ASSUME Ground, Threads, NEW e \in Entities, Failure(e)
  PROVE  Ground'
<1> USE DEF Places, Openings
<1>0. /\ at[e] # "off" => Did(e) \in Dids /\ Did(e) \in Peers
      /\ greeter[e] = "post" => Did(e) \in Peers /\ found[e] \in Peers
  BY LivingDid, DidsTyped DEF Threads, Thread
<1>1. Fault => faults' \in 0..MaxFaults BY LiteAssumption DEF Fault, Ground
<1>2. CASE ThinkError(e) BY <1>1, <1>2 DEF Ground, ThinkError, NoPeer
<1>3. CASE Stall(e) BY <1>1, <1>3 DEF Ground, Stall
<1>4. CASE Dies(e) BY <1>1, <1>4 DEF Ground, Dies, NoPeer
<1>5. CASE GreetSilence(e)
  <2>1. said' \in [Peers -> [Peers -> 0..Many]] /\ box' \in [Dids -> Seq(Messages)]
    <3>1. CASE UNCHANGED <<said, box>> BY <3>1 DEF Ground
    <3>2. CASE greeter[e] = "post" /\ Turn(Did(e), found[e]) BY <1>0, <3>2, TurnTyped
    <3> QED BY <1>5, <3>1, <3>2 DEF GreetSilence
  <2> QED BY <1>1, <1>5, <2>1 DEF Ground, GreetSilence
<1>6. CASE Silence(e)
  <2>1. said' \in [Peers -> [Peers -> 0..Many]] /\ box' \in [Dids -> Seq(Messages)]
    <3>1. CASE at[e] = "post" /\ Turn(Did(e), hand[e])
      BY <1>0, <3>1, TurnTyped DEF Threads, Thread
    <3>2. ASSUME UNCHANGED said, NEW k \in 0..Len(box[Did(e)]),
                 box' = [box EXCEPT ![Did(e)] = SubSeq(box[Did(e)], k + 1, Len(box[Did(e)]))]
          PROVE  box' \in [Dids -> Seq(Messages)]
      <4>1. Did(e) \in Dids /\ box[Did(e)] \in Seq(Messages) BY <1>0, <1>6 DEF Silence, Ground
      <4>2. SubSeq(box[Did(e)], k + 1, Len(box[Did(e)])) \in Seq(Messages)
        BY <4>1, CountSuffix
      <4> QED BY <3>2, <4>1, <4>2 DEF Ground
    <3>3. CASE /\ UNCHANGED said
               /\ \E k \in 0..(IF at[e] \in {"connect", "refresh"} THEN 0 ELSE Len(box[Did(e)])) :
                    box' = [box EXCEPT ![Did(e)] = SubSeq(box[Did(e)], k + 1, Len(box[Did(e)]))]
      <4>1. Len(box[Did(e)]) \in Nat
        <5>1. box[Did(e)] \in Seq(Messages) BY <1>0, <1>6 DEF Silence, Ground
        <5> QED BY <5>1, LenProperties
      <4>2. (IF at[e] \in {"connect", "refresh"} THEN 0 ELSE Len(box[Did(e)])) \in 0..Len(box[Did(e)])
        BY <4>1
      <4>3. PICK k \in 0..(IF at[e] \in {"connect", "refresh"} THEN 0 ELSE Len(box[Did(e)])) :
              box' = [box EXCEPT ![Did(e)] = SubSeq(box[Did(e)], k + 1, Len(box[Did(e)]))]
        BY <3>3
      <4>4. k \in 0..Len(box[Did(e)]) BY ONLY <4>1, <4>2, <4>3
      <4> QED BY <3>2, <3>3, <4>3, <4>4 DEF Ground
    <3> QED BY <1>6, <3>1, <3>3 DEF Silence
  <2> QED BY <1>1, <1>6, <2>1 DEF Ground, Silence, NoPeer
<1> QED BY <1>2, <1>3, <1>4, <1>5, <1>6 DEF Failure

\* and every step.
LEMMA GroundStep ==
  ASSUME Ground, Threads, [Next]_vars
  PROVE  Ground'
<1> USE DEF Places, Openings
<1>1. CASE DayPasses
  <2>1. day' \in 0..LastDay /\ \A x \in 0..day : x \in 0..day'
    BY <1>1, LiteAssumption DEF DayPasses, Ground
  <2>2. issued' \in [Entities -> 0..day'] BY <1>1, <2>1 DEF DayPasses, Ground
  <2> QED BY <1>1, <2>1, <2>2 DEF DayPasses, Ground, threadVars
<1>2. ASSUME NEW e \in Entities, Start(e) PROVE Ground'
  <2>1. life[e] + 1 \in 0..MaxLives /\ day \in 0..day BY <1>2, LiteAssumption DEF Start, Ground
  <2> QED BY <1>2, <2>1 DEF Ground, Start
<1>3. ASSUME NEW e \in Entities, NEW o \in Outsiders, Outside(o, e) PROVE Ground'
  <2>1. Did(e) \in Dids /\ Did(e) \in Peers /\ <<o, 0>> \in Peers
    <3>1. life[e] >= 1 BY <1>3, DidsTyped DEF Outside, Ground
    <3> QED BY <3>1, LivingDid, DidsTyped
  <2>2. news' \in 0..MaxNews BY <1>3, LiteAssumption DEF Outside, Ground
  <2>3. said' \in [Peers -> [Peers -> 0..Many]] /\ box' \in [Dids -> Seq(Messages)]
    <3>1. CASE Accept(<<o, 0>>, Did(e)) BY <2>1, <3>1, Accepted
    <3> DEFINE m == [from |-> <<o, 0>>, broadcast |-> TRUE]
    <3>2. m \in Messages BY <2>1 DEF Messages
    <3> HIDE DEF m
    <3>3. CASE /\ box' = [box EXCEPT ![Did(e)] = Append(box[Did(e)], m)]
               /\ UNCHANGED said
      <4>1. Append(box[Did(e)], m) \in Seq(Messages) BY <2>1, <3>2, AppendProperties DEF Ground
      <4> QED BY <2>1, <3>3, <4>1 DEF Ground
    <3> QED BY <1>3, <3>1, <3>3 DEF Outside, m
  <2> QED BY <1>3, <2>2, <2>3 DEF Outside, Ground, threadVars
<1>4. CASE UNCHANGED vars BY <1>4 DEF Ground, vars, threadVars
<1> QED BY <1>1, <1>2, <1>3, <1>4, MainGround, GreetingGround, FailureGround DEF Next

-----------------------------------------------------------------------------
(* The threads.                                                            *)

\* A step of the main thread of e, but for the counting of a turn, and one of
\* its greeting thread.
MainMoves(e) ==
  /\ UNCHANGED <<life, turns, greeter, found>>
  /\ \A f \in Entities \ {e} : at'[f] = at[f] /\ hand'[f] = hand[f]
GreeterMoves(e) ==
  /\ UNCHANGED <<life, turns, at, hand>>
  /\ \A f \in Entities \ {e} : greeter'[f] = greeter[f] /\ found'[f] = found[f]

\* What the actions of the main thread do to it.
LEMMA MainMoved ==
  ASSUME Ground, NEW e \in Entities
  PROVE  /\ Connect(e) => /\ MainMoves(e) /\ hand' = hand /\ at[e] = "connect"
                          /\ at'[e] \in {"refresh", "listen"}
         /\ Refresh(e) => MainMoves(e) /\ hand' = hand /\ at[e] = "refresh" /\ at'[e] = "connect"
         /\ PostRefused(e) => MainMoves(e) /\ hand' = hand /\ at[e] = "post" /\ at'[e] = "renew"
         /\ Wake(e) => MainMoves(e) /\ hand' = hand /\ at[e] = "sleep" /\ at'[e] = "connect"
         /\ Post(e) => MainMoves(e) /\ at[e] = "post" /\ at'[e] = "listen"
         /\ PostAgain(e) => MainMoves(e) /\ at[e] = "renew" /\ at'[e] = "listen"
         /\ ThinkError(e) => MainMoves(e) /\ at[e] = "think" /\ at'[e] = "listen"
         /\ Silence(e) => MainMoves(e) /\ at[e] # "off" /\ at'[e] = "sleep"
         /\ Stall(e) => MainMoves(e) /\ hand' = hand /\ at[e] = "listen" /\ at'[e] = "stalled"
<1>1. Connect(e) => /\ MainMoves(e) /\ hand' = hand /\ at[e] = "connect"
                    /\ at'[e] \in {"refresh", "listen"}
  BY DEF Connect, MainMoves, Ground
<1>2. Refresh(e) => MainMoves(e) /\ hand' = hand /\ at[e] = "refresh" /\ at'[e] = "connect"
  BY DEF Refresh, MainMoves, Ground
<1>3. PostRefused(e) => MainMoves(e) /\ hand' = hand /\ at[e] = "post" /\ at'[e] = "renew"
  BY DEF PostRefused, MainMoves, Ground
<1>4. Wake(e) => MainMoves(e) /\ hand' = hand /\ at[e] = "sleep" /\ at'[e] = "connect"
  BY DEF Wake, MainMoves, Ground
<1>5. Post(e) => MainMoves(e) /\ at[e] = "post" /\ at'[e] = "listen"
  BY DEF Post, MainMoves, Ground
<1>6. PostAgain(e) => MainMoves(e) /\ at[e] = "renew" /\ at'[e] = "listen"
  BY DEF PostAgain, MainMoves, Ground
<1>7. ThinkError(e) => MainMoves(e) /\ at[e] = "think" /\ at'[e] = "listen"
  BY DEF ThinkError, MainMoves, Ground
<1>8. Silence(e) => MainMoves(e) /\ at[e] # "off" /\ at'[e] = "sleep"
  BY DEF Silence, MainMoves, Ground
<1>9. Stall(e) => MainMoves(e) /\ hand' = hand /\ at[e] = "listen" /\ at'[e] = "stalled"
  BY DEF Stall, MainMoves, Ground
<1> QED BY <1>1, <1>2, <1>3, <1>4, <1>5, <1>6, <1>7, <1>8, <1>9

\* And those of the greeting thread.
LEMMA GreeterMoved ==
  ASSUME Ground, NEW e \in Entities,
         \/ Look(e) /\ Expired(e)
         \/ GiveUp(e) \/ Greet(e) \/ GreetAgain(e) \/ GreetSilence(e)
  PROVE  /\ GreeterMoves(e) /\ found' = found
         /\ greeter[e] \in {"look", "post", "renew"}
         /\ \/ greeter'[e] = "over"
            \/ greeter[e] = "post" /\ greeter'[e] = "renew" /\ UNCHANGED <<said, box>>
<1>1. CASE Look(e) /\ Expired(e) BY <1>1 DEF Look, GreeterMoves, Ground
<1>2. CASE GiveUp(e) BY <1>2 DEF GiveUp, GreeterMoves, Ground
<1>3. CASE Greet(e) BY <1>3 DEF Greet, GreeterMoves, Ground
<1>4. CASE GreetAgain(e) BY <1>4 DEF GreetAgain, GreeterMoves, Ground
<1>5. CASE GreetSilence(e) BY <1>5 DEF GreetSilence, GreeterMoves, Ground
<1> QED BY <1>1, <1>2, <1>3, <1>4, <1>5

\* A thread that nothing touches is as it was.
LEMMA ThreadKept ==
  ASSUME Ground, Threads, NEW e \in Entities,
         at'[e] = at[e], hand'[e] = hand[e], greeter'[e] = greeter[e], found'[e] = found[e],
         life'[e] = life[e], turns'[Did(e)] = turns[Did(e)]
  PROVE  Thread(e)'
<1>1. Did(e)' = Did(e) BY DEF Did
<1>2. Thread(e) BY DEF Threads
<1>3. turns'[Did(e)'][hand'[e]] = turns[Did(e)][hand[e]] BY <1>1
<1> QED BY <1>1, <1>2, <1>3 DEF Thread

\* A step of one entity touches no other's threads.
LEMMA OthersKept ==
  ASSUME Ground, Threads, NEW e \in Entities,
         \A f \in Entities \ {e} : /\ at'[f] = at[f] /\ hand'[f] = hand[f] /\ greeter'[f] = greeter[f]
                                   /\ found'[f] = found[f] /\ life'[f] = life[f],
         \A f \in Entities \ {e} : turns'[Did(f)] = turns[Did(f)],
         Thread(e)'
  PROVE  Threads'
<1>1. \A f \in Entities \ {e} : Thread(f)' BY ThreadKept
<1> QED BY <1>1 DEF Threads

\* The threads stay as they have to be.
LEMMA ThreadsStep ==
  ASSUME Ground, Ground', Threads, [Next]_vars
  PROVE  Threads'
<1>1. CASE UNCHANGED <<life, at, hand, turns, greeter, found>>
  BY <1>1, ThreadKept DEF Threads
<1>2. ASSUME NEW e \in Entities, Start(e) PROVE Threads'
  <2>1. /\ at'[e] = "connect" /\ life'[e] = life[e] + 1 /\ life[e] \in Nat
        /\ greeter'[e] = IF Greets[e] = Nobody THEN "over" ELSE "look"
        /\ \A f \in Entities \ {e} : at'[f] = at[f] /\ life'[f] = life[f] /\ greeter'[f] = greeter[f]
        /\ UNCHANGED <<hand, turns, found>>
    BY <1>2 DEF Start, Ground
  <2>2. Thread(e)' BY <2>1 DEF Thread
  <2> QED BY <2>1, <2>2, OthersKept
<1>3. ASSUME NEW e \in Entities, MainMoves(e), hand' = hand, at[e] # "off",
             \/ at'[e] \in {"connect", "refresh", "listen", "sleep", "stalled"}
             \/ at[e] = "post" /\ at'[e] = "renew"
      PROVE  Threads'
  <2>1. Thread(e)' BY <1>3 DEF Threads, Thread, Did, MainMoves
  <2> QED BY <1>3, <2>1, OthersKept DEF MainMoves
<1>4. ASSUME NEW e \in Entities, MainMoves(e), at[e] # "off", at'[e] \in {"listen", "sleep"}
      PROVE  Threads'
  <2>1. Thread(e)' BY <1>4 DEF Threads, Thread, Did, MainMoves
  <2> QED BY <1>4, <2>1, OthersKept DEF MainMoves
<1>5. ASSUME NEW e \in Entities, Handle(e) PROVE Threads'
  <2> DEFINE msg == Head(box[Did(e)])
  <2>1. CASE UNCHANGED <<hand, at>> BY <1>1, <1>5, <2>1 DEF Handle
  <2>2. CASE /\ msg.from # Did(e) /\ turns[Did(e)][msg.from] < MaxTurns
             /\ hand' = [hand EXCEPT ![e] = msg.from] /\ at' = [at EXCEPT ![e] = "think"]
    <3>1. /\ hand'[e] = msg.from /\ at'[e] = "think" /\ life' = life /\ turns' = turns
          /\ greeter' = greeter /\ found' = found
          /\ \A f \in Entities \ {e} : at'[f] = at[f] /\ hand'[f] = hand[f]
      BY <1>5, <2>2 DEF Handle, Ground
    <3>2. life[e] >= 1 BY <1>5 DEF Handle, Threads, Thread
    <3>3. msg \in Messages
      <4>1. Did(e) \in Dids BY <3>2, LivingDid
      <4>2. box[Did(e)] \in Seq(Messages) /\ box[Did(e)] # << >> BY <1>5, <4>1 DEF Ground, Handle
      <4> QED BY <4>2, HeadTailProperties
    <3>4. msg.from \in Peers BY <3>3 DEF Messages
    <3> HIDE DEF msg
    <3>5. Did(e)' = Did(e) BY <3>1 DEF Did
    <3>6. greeter[e] = "look" => Greets[e] # Nobody BY DEF Threads, Thread
    <3>7. greeter[e] \in {"post", "renew"} => found[e] \in Dids /\ found[e][1] = Greets[e]
      BY DEF Threads, Thread
    <3>8. Thread(e)' BY <2>2, <3>1, <3>2, <3>4, <3>5, <3>6, <3>7 DEF Thread
    <3> QED BY <3>1, <3>8, OthersKept
  <2>3. UNCHANGED <<hand, at>> \/
          /\ msg.from # Did(e) /\ ~(turns[Did(e)][msg.from] >= MaxTurns)
          /\ hand' = [hand EXCEPT ![e] = msg.from] /\ at' = [at EXCEPT ![e] = "think"]
    BY <1>5 DEF Handle
  <2>4. ASSUME msg.from # Did(e), ~(turns[Did(e)][msg.from] >= MaxTurns)
        PROVE  turns[Did(e)][msg.from] < MaxTurns
    <3>1. life[e] >= 1 BY <1>5 DEF Handle, Threads, Thread
    <3>2. Did(e) \in Dids BY <3>1, LivingDid
    <3>3. box[Did(e)] \in Seq(Messages) /\ box[Did(e)] # << >> BY <1>5, <3>2 DEF Ground, Handle
    <3>4. msg \in Messages BY <3>3, HeadTailProperties
    <3>5. msg.from \in Peers BY <3>4 DEF Messages
    <3>6. turns[Did(e)][msg.from] \in 0..MaxTurns BY <3>2, <3>5 DEF Ground
    <3> QED BY <2>4, <3>6, DidsTyped
  <2> QED BY <2>1, <2>2, <2>3, <2>4
<1>6. ASSUME NEW e \in Entities, Think(e) PROVE Threads'
  <2>1. /\ life' = life /\ hand' = hand /\ greeter' = greeter /\ found' = found
        /\ at[e] = "think" /\ at'[e] = "post" /\ \A f \in Entities \ {e} : at'[f] = at[f]
        /\ \A d \in Dids \ {Did(e)} : turns'[d] = turns[d]
    BY <1>6 DEF Think, Ground
  <2>2. Thread(e)' BY <2>1 DEF Threads, Thread, Did
  <2>3. \A f \in Entities \ {e} : turns'[Did(f)] = turns[Did(f)] BY <1>6 DEF Think, Did
  <2> QED BY <2>1, <2>2, <2>3, OthersKept
<1>7. ASSUME NEW e \in Entities, GreeterMoves(e), found' = found,
             greeter[e] \in {"look", "post", "renew"},
             greeter'[e] = "over" \/ (greeter[e] = "post" /\ greeter'[e] = "renew")
      PROVE  Threads'
  <2>1. Thread(e)' BY <1>7 DEF Threads, Thread, Did, GreeterMoves
  <2> QED BY <1>7, <2>1, OthersKept DEF GreeterMoves
<1>8. ASSUME NEW e \in Entities, Look(e), ~Expired(e) PROVE Threads'
  <2>1. /\ greeter[e] = "look" /\ greeter'[e] = "post" /\ found'[e] = Did(Greets[e])
        /\ UNCHANGED <<life, turns, at, hand>> /\ life[Greets[e]] > 0
        /\ \A f \in Entities \ {e} : greeter'[f] = greeter[f] /\ found'[f] = found[f]
    BY <1>8 DEF Look, Ground
  <2>2. Greets[e] \in Entities BY <2>1, LiteAssumption DEF Threads, Thread
  <2>3. life[Greets[e]] >= 1
    <3>1. life[Greets[e]] \in 0..MaxLives BY <2>2 DEF Ground
    <3> QED BY ONLY <2>1, <3>1
  <2>4. found'[e] \in Dids /\ found'[e][1] = Greets[e] BY <2>1, <2>2, <2>3, LivingDid
  <2>5. Thread(e)' BY <2>1, <2>4 DEF Threads, Thread, Did
  <2> QED BY <2>1, <2>5, OthersKept
<1>9. ASSUME NEW e \in Entities, Dies(e) PROVE Threads'
  <2>1. /\ at'[e] = "off" /\ greeter'[e] = "off" /\ UNCHANGED <<life, turns, found>>
        /\ \A f \in Entities \ {e} : /\ at'[f] = at[f] /\ hand'[f] = hand[f]
                                     /\ greeter'[f] = greeter[f]
    BY <1>9 DEF Dies, Ground
  <2>2. Thread(e)' BY <2>1 DEF Thread
  <2> QED BY <2>1, <2>2, OthersKept
<1>10. ASSUME NEW e \in Entities, Main(e) PROVE Threads'
  <2>1. CASE Connect(e) \/ Refresh(e) \/ PostRefused(e) \/ Wake(e)
    <3>1. /\ MainMoves(e) /\ hand' = hand /\ at[e] # "off"
          /\ \/ at'[e] \in {"connect", "refresh", "listen", "sleep", "stalled"}
             \/ at[e] = "post" /\ at'[e] = "renew"
      BY <2>1, MainMoved
    <3> QED BY <1>3, <3>1
  <2>2. CASE Post(e) \/ PostAgain(e)
    <3>1. MainMoves(e) /\ at[e] # "off" /\ at'[e] = "listen" BY <2>2, MainMoved
    <3> QED BY <1>4, <3>1
  <2> QED BY <1>5, <1>6, <1>10, <2>1, <2>2 DEF Main
<1>11. ASSUME NEW e \in Entities, Greeting(e) \/ GreetSilence(e) PROVE Threads'
  <2>1. CASE \/ Look(e) /\ Expired(e)
             \/ GiveUp(e) \/ Greet(e) \/ GreetAgain(e) \/ GreetSilence(e)
    BY <1>7, <2>1, GreeterMoved
  <2> QED BY <1>8, <1>11, <2>1 DEF Greeting
<1>12. ASSUME NEW e \in Entities, Failure(e) PROVE Threads'
  <2>1. CASE ThinkError(e) \/ Silence(e)
    <3>1. MainMoves(e) /\ at[e] # "off" /\ at'[e] \in {"listen", "sleep"} BY <2>1, MainMoved
    <3> QED BY <1>4, <3>1
  <2>2. CASE Stall(e)
    <3>1. MainMoves(e) /\ hand' = hand /\ at[e] # "off" /\ at'[e] = "stalled" BY <2>2, MainMoved
    <3> QED BY <1>3, <3>1
  <2> QED BY <1>9, <1>11, <1>12, <2>1, <2>2 DEF Failure
<1>13. ASSUME NEW e \in Entities, NEW o \in Outsiders, Outside(o, e) PROVE Threads'
  BY <1>1, <1>13 DEF Outside, threadVars
<1>14. CASE DayPasses \/ UNCHANGED vars BY <1>1, <1>14 DEF DayPasses, vars, threadVars
<1> QED BY <1>2, <1>10, <1>11, <1>12, <1>13, <1>14 DEF Next

-----------------------------------------------------------------------------
(* The numbers.                                                            *)

\* Nothing new is to be said by e, nor by anyone else.
NoMoreOf(e) ==
  /\ UNCHANGED life
  /\ \A f \in Entities \ {e} : at'[f] = at[f] /\ hand'[f] = hand[f] /\ greeter'[f] = greeter[f]
  /\ at'[e] \in {"think", "post", "renew"} =>
       at[e] \in {"think", "post", "renew"} /\ hand'[e] = hand[e]
  /\ at'[e] \in {"post", "renew"} => at[e] \in {"post", "renew"}
  /\ greeter'[e] \in {"look", "post", "renew"} => greeter[e] \in {"look", "post", "renew"}

\* Then what is still to be said does not grow.
LEMMA Pendings ==
  ASSUME Ground, NEW e \in Entities, NoMoreOf(e), NEW d \in Dids, NEW p \in Peers
  PROVE  /\ Replying(d, p)' <= Replying(d, p) /\ Answering(d, p)' <= Answering(d, p)
         /\ ToOpen(d, p)' <= ToOpen(d, p)
<1>1. Did(d[1])' = Did(d[1]) BY DEF NoMoreOf, Did
<1>2. d[1] \in Entities BY DidsTyped
<1>3. Opening(d, p) \in {0, 1} /\ Opening(d, p)' = Opening(d, p) BY DEF Opening
<1>4. CASE d[1] # e
  <2>1. at'[d[1]] = at[d[1]] /\ hand'[d[1]] = hand[d[1]] /\ greeter'[d[1]] = greeter[d[1]]
    BY <1>2, <1>4 DEF NoMoreOf
  <2> QED BY <1>1, <1>3, <2>1 DEF Replying, Answering, ToOpen
<1>5. CASE d[1] = e
  <2>1. Replying(d, p)' <= Replying(d, p) BY <1>1, <1>5 DEF NoMoreOf, Replying
  <2>2. Answering(d, p)' <= Answering(d, p) BY <1>1, <1>5 DEF NoMoreOf, Answering
  <2>3. ToOpen(d, p)' <= ToOpen(d, p) BY <1>1, <1>3, <1>5 DEF NoMoreOf, ToOpen
  <2> QED BY <2>1, <2>2, <2>3
<1> QED BY <1>4, <1>5

\* If nothing is said either, and the boxes are as they were but for what left
\* the front of the one of e, the numbers stand.
LEMMA Quietly ==
  ASSUME Ground, Ground', Numbers, NEW e \in Entities, NoMoreOf(e), UNCHANGED <<turns, said>>,
         \/ UNCHANGED box
         \/ /\ box[Did(e)] # << >> /\ Did(e) \in Dids
            /\ box' = [box EXCEPT ![Did(e)] = Tail(box[Did(e)])]
         \/ /\ Did(e) \in Dids
            /\ \E k \in 0..Len(box[Did(e)]) :
                 box' = [box EXCEPT ![Did(e)] = SubSeq(box[Did(e)], k + 1, Len(box[Did(e)]))]
  PROVE  Numbers'
<1>1. \A d \in Dids, p \in Peers :
        /\ Replying(d, p)' <= Replying(d, p) /\ Answering(d, p)' <= Answering(d, p)
        /\ ToOpen(d, p)' <= ToOpen(d, p)
  BY Pendings
<1>2. \A d \in Dids : box[d] \in Seq(Messages) BY DEF Ground
<1>3. \A d \in Dids, p \in Peers : Count(box[d], p) \in Nat BY <1>2, CountType
<1>4. ASSUME NEW d \in Dids
      PROVE  /\ \A p \in Peers : Count(box'[d], p) <= Count(box[d], p)
             /\ d[2] > life[d[1]] => box'[d] = box[d]
  <2>1. CASE d # Did(e) \/ UNCHANGED box
    <3>1. box'[d] = box[d] BY <2>1 DEF Ground
    <3> QED BY <1>3, <3>1
  <2>2. CASE d = Did(e) /\ ~UNCHANGED box
    <3>1. ~(d[2] > life[d[1]])
      <4>1. d[1] = e /\ d[2] = life[e] /\ life[e] \in 0..MaxLives BY <2>2 DEF Did, Ground
      <4> QED BY <4>1, DidsTyped
    <3>2. CASE /\ box[Did(e)] # << >>
               /\ box' = [box EXCEPT ![Did(e)] = Tail(box[Did(e)])]
      <4>1. box'[d] = Tail(box[d]) BY <2>2, <3>2 DEF Ground
      <4>2. \A p \in Peers : Count(Tail(box[d]), p) <= Count(box[d], p)
        BY <1>2, <2>2, <3>2, CountTail
      <4> QED BY <3>1, <4>1, <4>2
    <3>3. CASE \E k \in 0..Len(box[Did(e)]) :
                 box' = [box EXCEPT ![Did(e)] = SubSeq(box[Did(e)], k + 1, Len(box[Did(e)]))]
      <4>1. PICK k \in 0..Len(box[d]) : box'[d] = SubSeq(box[d], k + 1, Len(box[d]))
        BY <2>2, <3>3 DEF Ground
      <4>2. \A p \in Peers : Count(SubSeq(box[d], k + 1, Len(box[d])), p) <= Count(box[d], p)
        BY <1>2, CountSuffix
      <4> QED BY <3>1, <4>1, <4>2
    <3> QED BY <2>2, <3>2, <3>3
  <2> QED BY <2>1, <2>2
<1> QED BY <1>1, <1>4, LetsGo DEF NoMoreOf

\* If a reply is posted, it was to be posted.
LEMMA Replies ==
  ASSUME Ground, Ground', Threads, Numbers, NEW e \in Entities, MainMoves(e),
         at[e] \in {"post", "renew"}, at'[e] \in {"listen", "sleep"},
         Turn(Did(e), hand[e])
  PROVE  Numbers'
<1>1. life[e] >= 1 /\ hand[e] \in Peers BY DEF Threads, Thread
<1>2. Did(e) \in Dids /\ Did(e) \in Peers /\ Did(e)[1] = e BY <1>1, LivingDid
<1>3. NoMoreOf(e) BY DEF NoMoreOf, MainMoves
<1>4. CASE ~Known(hand[e]) BY <1>3, <1>4, Quietly DEF Turn, MainMoves
<1>5. CASE Known(hand[e])
  <2>1. PICK from \in Dids, to \in Peers : from = Did(e) /\ to = hand[e] BY <1>1, <1>2
  <2>2. from \in Peers /\ Known(to) /\ Accept(from, to) BY <1>2, <1>5, <2>1 DEF Turn
  <2>3. Replying(from, to) = 1 /\ Answering(from, to) = 1
    BY <1>2, <2>1 DEF Replying, Answering
  <2>4. Replying(from, to)' = 0 /\ Answering(from, to)' = 0
    BY <1>2, <2>1 DEF Replying, Answering
  <2>5. ToOpen(from, to)' <= ToOpen(from, to) /\ ToOpen(from, to) \in {0, 1} /\ ToOpen(from, to)' \in {0, 1}
    <3>1. ToOpen(from, to)' \in {0, 1} BY DEF ToOpen, Opening
    <3> QED BY <1>3, <3>1, Pendings, NumbersTyped
  <2>6. /\ Replying(from, to)' + ToOpen(from, to)' + 1 <= Replying(from, to) + ToOpen(from, to)
        /\ Answering(from, to)' + ToOpen(from, to)' + 1 <= Answering(from, to) + ToOpen(from, to)
    BY ONLY <2>3, <2>4, <2>5
  <2>7. from = Did(from[1]) BY <1>2, <2>1
  <2> QED BY <1>3, <2>2, <2>6, <2>7, Speaks, Pendings DEF MainMoves
<1> QED BY <1>4, <1>5

\* If the opening is posted, it was to be posted.
LEMMA Opens ==
  ASSUME Ground, Ground', Threads, Numbers, NEW e \in Entities, GreeterMoves(e),
         greeter[e] \in {"post", "renew"}, greeter'[e] = "over",
         Turn(Did(e), found[e])
  PROVE  Numbers'
<1>1. life[e] >= 1 /\ found[e] \in Dids /\ found[e][1] = Greets[e] BY DEF Threads, Thread
<1>2. Did(e) \in Dids /\ Did(e) \in Peers /\ Did(e)[1] = e /\ found[e] \in Peers
  BY <1>1, LivingDid, DidsTyped
<1>3. NoMoreOf(e) BY DEF NoMoreOf, GreeterMoves
<1>4. CASE ~Known(found[e]) BY <1>3, <1>4, Quietly DEF Turn, GreeterMoves
<1>5. CASE Known(found[e])
  <2>1. PICK from \in Dids, to \in Peers : from = Did(e) /\ to = found[e] BY <1>2
  <2>2. from \in Peers /\ Known(to) /\ Accept(from, to) BY <1>2, <1>5, <2>1 DEF Turn
  <2>3. ToOpen(from, to) = 1 /\ ToOpen(from, to)' = 0
    <3>1. from[1] = e /\ Opening(from, to) = 1 BY <1>1, <1>2, <2>1 DEF Opening
    <3> QED BY <2>1, <3>1 DEF ToOpen
  <2>4. Replying(from, to)' <= Replying(from, to) /\ Answering(from, to)' <= Answering(from, to)
    BY <1>3, Pendings
  <2>5. /\ Replying(from, to)' \in {0, 1} /\ Answering(from, to)' \in {0, 1}
        /\ Replying(from, to) \in {0, 1} /\ Answering(from, to) \in {0, 1}
    BY DEF Replying, Answering
  <2>6. /\ Replying(from, to)' + ToOpen(from, to)' + 1 <= Replying(from, to) + ToOpen(from, to)
        /\ Answering(from, to)' + ToOpen(from, to)' + 1 <= Answering(from, to) + ToOpen(from, to)
    BY ONLY <2>3, <2>4, <2>5
  <2>7. from = Did(from[1]) BY <1>2, <2>1
  <2> QED BY <1>3, <2>2, <2>6, <2>7, Speaks, Pendings DEF GreeterMoves
<1> QED BY <1>4, <1>5

\* If something comes from outside, it waits to be answered, or asks for nothing.
LEMMA Comes ==
  ASSUME Ground, Ground', Numbers, NEW e \in Entities, NEW o \in Outsiders, Outside(o, e)
  PROVE  Numbers'
<1>1. life[e] >= 1
  <2>1. life[e] > 0 /\ life[e] \in 0..MaxLives BY DEF Outside, Ground
  <2> QED BY ONLY <2>1
<1>2. Did(e) \in Dids /\ Did(e) \in Peers /\ Did(e)[1] = e /\ Known(Did(e)) BY <1>1, LivingDid
<1>3. NoMoreOf(e) BY DEF NoMoreOf, Outside, threadVars
<1>4. <<o, 0>> \in Peers /\ <<o, 0>> \notin Dids BY DidsTyped
<1>5. UNCHANGED <<life, turns>> BY DEF Outside, threadVars
<1>6. CASE Accept(<<o, 0>>, Did(e))
  <2>1. PICK from \in Peers, to \in Peers : from = <<o, 0>> /\ to = Did(e) BY <1>2, <1>4
  <2> QED BY <1>2, <1>3, <1>4, <1>5, <1>6, <2>1, Speaks, Pendings
<1> DEFINE m == [from |-> <<o, 0>>, broadcast |-> TRUE]
<1>7. CASE /\ box' = [box EXCEPT ![Did(e)] = Append(box[Did(e)], m)]
           /\ UNCHANGED said
  <2>1. m \in Messages /\ m.broadcast BY <1>4 DEF Messages
  <2> HIDE DEF m
  <2>2. \A d \in Dids : box[d] \in Seq(Messages) BY DEF Ground
  <2>3. ASSUME NEW d \in Dids
        PROVE  /\ \A p \in Peers : Count(box'[d], p) <= Count(box[d], p)
               /\ d[2] > life[d[1]] => box'[d] = box[d]
    <3>0. \A p \in Peers : Count(box[d], p) \in Nat BY <2>2, CountType
    <3>1. CASE d # Did(e)
      <4>1. box'[d] = box[d] BY <1>7, <3>1 DEF Ground
      <4> QED BY <3>0, <4>1
    <3>2. CASE d = Did(e)
      <4>1. ~(d[2] > life[d[1]])
        <5>1. d[1] = e /\ d[2] = life[e] /\ life[e] \in 0..MaxLives BY <3>2 DEF Did, Ground
        <5> QED BY <5>1, DidsTyped
      <4>2. box'[d] = Append(box[d], m) BY <1>7, <3>2 DEF Ground
      <4>3. ASSUME NEW p \in Peers PROVE Count(box'[d], p) <= Count(box[d], p)
        <5>1. Count(Append(box[d], m), p)
                = Count(box[d], p) + (IF m.from = p /\ ~m.broadcast THEN 1 ELSE 0)
          BY ONLY <2>1, <2>2, CountAppend
        <5> QED BY <2>1, <3>0, <4>2, <5>1
      <4> QED BY <4>1, <4>3
    <3> QED BY <3>1, <3>2
  <2>4. \A d \in Dids, p \in Peers :
          /\ Replying(d, p)' <= Replying(d, p) /\ Answering(d, p)' <= Answering(d, p)
          /\ ToOpen(d, p)' <= ToOpen(d, p)
    BY <1>3, Pendings
  <2> QED BY <1>5, <1>7, <2>3, <2>4, LetsGo
<1> QED BY <1>6, <1>7 DEF Outside

\* A message that is taken up leaves the box.
LEMMA TakesUp ==
  ASSUME Ground, Ground', Threads, Numbers, NEW e \in Entities, Handle(e)
  PROVE  Numbers'
<1> DEFINE s == box[Did(e)]
           q == Head(s).from
<1>1. life[e] >= 1 BY DEF Handle, Threads, Thread
<1>2. Did(e) \in Dids /\ Did(e)[1] = e BY <1>1, LivingDid
<1>3. /\ at[e] = "listen" /\ s # << >> /\ box' = [box EXCEPT ![Did(e)] = Tail(s)]
      /\ UNCHANGED <<life, turns, greeter, found, said>>
  BY DEF Handle
<1>4. \A d \in Dids : box[d] \in Seq(Messages) BY DEF Ground
<1>5. Head(s) \in Messages /\ q \in Peers
  <2>1. Head(s) \in Messages BY <1>2, <1>3, <1>4, HeadTailProperties
  <2> QED BY <2>1 DEF Messages
<1>6. CASE UNCHANGED <<hand, at>>
  <2>1. NoMoreOf(e) BY <1>3, <1>6 DEF NoMoreOf
  <2> QED BY <1>2, <1>3, <2>1, Quietly
<1>7. CASE /\ ~Head(s).broadcast
           /\ hand' = [hand EXCEPT ![e] = q] /\ at' = [at EXCEPT ![e] = "think"]
  <2>1. /\ at'[e] = "think" /\ hand'[e] = q
        /\ \A f \in Entities \ {e} : at'[f] = at[f] /\ hand'[f] = hand[f]
    BY <1>7 DEF Ground
  <2>2. \A d \in Dids : d # Did(e) => box'[d] = box[d] BY <1>3 DEF Ground
  <2>3. box'[Did(e)] = Tail(s) BY <1>2, <1>3 DEF Ground
  <2>4. ASSUME NEW d \in Dids, NEW p \in Peers
        PROVE  /\ Replying(d, p)' + turns[d][p] <= Replying(d, p) + turns'[d][p]
               /\ Answering(d, p)' + Count(box'[d], p) <= Answering(d, p) + Count(box[d], p)
               /\ ToOpen(d, p)' <= ToOpen(d, p)
    <3>1. turns[d][p] \in Nat /\ Count(box[d], p) \in Nat /\ ToOpen(d, p) \in {0, 1}
      BY NumbersTyped
    <3>2. Count(box'[d], p) \in Nat
      <4>1. box'[d] \in Seq(Messages) BY DEF Ground
      <4> QED BY <4>1, CountType
    <3>3. Did(d[1])' = Did(d[1]) /\ d[1] \in Entities BY <1>3, DidsTyped DEF Did
    <3>4. ToOpen(d, p)' = ToOpen(d, p) BY <1>3, <3>3 DEF ToOpen, Opening
    <3>5. CASE d # Did(e)
      <4>1. Replying(d, p)' = Replying(d, p) /\ Answering(d, p)' = Answering(d, p)
        <5>1. CASE d[1] = e BY <3>3, <3>5, <5>1 DEF Replying, Answering
        <5>2. CASE d[1] # e BY <2>1, <3>3, <5>2 DEF Replying, Answering
        <5> QED BY <5>1, <5>2
      <4>2. Replying(d, p) \in Nat /\ Answering(d, p) \in Nat BY DEF Replying, Answering
      <4>3. box'[d] = box[d] /\ turns'[d][p] = turns[d][p] BY <1>3, <2>2, <3>5
      <4> QED BY <3>1, <3>4, <4>1, <4>2, <4>3
    <3>6. CASE d = Did(e)
      <4>1. d[1] = e BY <1>2, <3>6
      <4>2. Replying(d, p)' = 0 /\ Replying(d, p) = 0 /\ Answering(d, p) = 0
        BY <1>3, <2>1, <4>1 DEF Replying, Answering
      <4>3. Answering(d, p)' = IF p = q THEN 1 ELSE 0
        BY <2>1, <3>3, <3>6, <4>1 DEF Answering
      <4>4. /\ Count(Tail(s), p) <= Count(s, p)
            /\ p = q => Count(Tail(s), p) + 1 <= Count(s, p)
        BY <1>2, <1>3, <1>4, <1>7, CountTail
      <4>5. box'[d] = Tail(s) /\ box[d] = s BY <2>3, <3>6
      <4>6. turns'[d][p] = turns[d][p] BY <1>3
      <4> HIDE DEF s, q
      <4> QED BY <3>1, <3>2, <3>4, <4>2, <4>3, <4>4, <4>5, <4>6
    <3> QED BY <3>5, <3>6
  <2>5. ASSUME NEW d \in Dids, box[d] = << >> PROVE box'[d] = << >>
    BY <1>3, <2>2, <2>5
  <2> QED BY <1>3, <2>4, <2>5, Balances
<1>8. \/ UNCHANGED <<hand, at>>
      \/ /\ ~Head(s).broadcast
         /\ hand' = [hand EXCEPT ![e] = q] /\ at' = [at EXCEPT ![e] = "think"]
  BY DEF Handle
<1> QED BY <1>6, <1>7, <1>8

\* A reply that is thought of is counted.
LEMMA Counts ==
  ASSUME Ground, Ground', Threads, Numbers, NEW e \in Entities, Think(e)
  PROVE  Numbers'
<1>1. /\ at[e] = "think" /\ at'[e] = "post" /\ hand[e] \in Peers /\ life[e] >= 1
      /\ UNCHANGED <<life, hand, greeter, box, said>>
      /\ \A f \in Entities \ {e} : at'[f] = at[f]
      /\ turns' = [turns EXCEPT ![Did(e)] = [turns[Did(e)] EXCEPT ![hand[e]] = turns[Did(e)][hand[e]] + 1]]
  BY DEF Think, Threads, Thread, Ground
<1>2. Did(e) \in Dids /\ Did(e)[1] = e BY <1>1, LivingDid
<1>3. ASSUME NEW d \in Dids, NEW p \in Peers
      PROVE  turns'[d][p] = turns[d][p] + (IF d = Did(e) /\ p = hand[e] THEN 1 ELSE 0)
  <2>1. turns[d][p] \in Nat BY NumbersTyped
  <2>2. turns[d] \in [Peers -> 0..MaxTurns] /\ turns \in [Dids -> [Peers -> 0..MaxTurns]]
    BY DEF Ground
  <2>3. CASE d # Did(e)
    <3>1. turns'[d] = turns[d] BY <1>1, <2>2, <2>3
    <3> QED BY <2>1, <2>3, <3>1
  <2>4. CASE d = Did(e)
    <3>1. turns'[d] = [turns[d] EXCEPT ![hand[e]] = turns[d][hand[e]] + 1] BY <1>1, <2>2, <2>4
    <3> QED BY <2>1, <2>2, <2>4, <3>1
  <2> QED BY <2>3, <2>4
<1>4. ASSUME NEW d \in Dids, NEW p \in Peers
      PROVE  /\ Replying(d, p)' + turns[d][p] <= Replying(d, p) + turns'[d][p]
             /\ Answering(d, p)' + Count(box'[d], p) <= Answering(d, p) + Count(box[d], p)
             /\ ToOpen(d, p)' <= ToOpen(d, p)
  <2>1. turns[d][p] \in Nat /\ Count(box[d], p) \in Nat /\ ToOpen(d, p) \in {0, 1}
        /\ Replying(d, p) \in {0, 1} /\ Answering(d, p) \in {0, 1}
    BY NumbersTyped
  <2>2. Did(d[1])' = Did(d[1]) /\ d[1] \in Entities BY <1>1, DidsTyped DEF Did
  <2>3. ToOpen(d, p)' = ToOpen(d, p) BY <1>1, <2>2 DEF ToOpen, Opening
  <2>4. Answering(d, p)' = Answering(d, p)
    <3>1. CASE d[1] = e BY <1>1, <2>2, <3>1 DEF Answering
    <3>2. CASE d[1] # e BY <1>1, <2>2, <3>2 DEF Answering
    <3> QED BY <3>1, <3>2
  <2>5. Replying(d, p)' <= Replying(d, p) + (IF d = Did(e) /\ p = hand[e] THEN 1 ELSE 0)
    <3>1. CASE d[1] = e BY <1>1, <2>2, <3>1 DEF Replying
    <3>2. CASE d[1] # e BY <1>1, <1>2, <2>2, <3>2 DEF Replying
    <3> QED BY <3>1, <3>2
  <2>6. turns'[d][p] = turns[d][p] + (IF d = Did(e) /\ p = hand[e] THEN 1 ELSE 0) BY <1>3
  <2>7. Replying(d, p)' \in {0, 1} BY DEF Replying
  <2>8. box'[d] = box[d] BY <1>1
  <2> QED BY <2>1, <2>3, <2>4, <2>5, <2>6, <2>7, <2>8
<1>5. ASSUME NEW d \in Dids, d[2] > life[d[1]] PROVE turns'[d] = turns[d]
  <2>1. d # Did(e)
    <3>1. life[e] \in 0..MaxLives BY DEF Ground
    <3>2. d = Did(e) => d[1] = e /\ d[2] = life[e] BY DEF Did
    <3> QED BY <1>5, <3>1, <3>2, DidsTyped
  <2> QED BY <1>1, <2>1 DEF Ground
<1> QED BY <1>1, <1>4, <1>5, Balances

\* A new life has said nothing, and has its opening to say.
LEMMA Begins ==
  ASSUME Ground, Ground', Threads, Numbers, NEW e \in Entities, Start(e)
  PROVE  Numbers'
<1>1. /\ at[e] = "off" /\ at'[e] = "connect" /\ life'[e] = life[e] + 1
      /\ \A f \in Entities \ {e} : /\ at'[f] = at[f] /\ life'[f] = life[f]
                                   /\ greeter'[f] = greeter[f]
      /\ UNCHANGED <<hand, turns, found, box, said>>
  BY DEF Start, Ground
<1>2. \A f \in Entities : life[f] \in Nat BY DidsTyped DEF Ground
<1>3. ASSUME NEW d \in Dids
      PROVE  /\ d[1] \in Entities /\ d[2] \in Nat /\ d = <<d[1], d[2]>>
             /\ d[2] > life'[d[1]] => d[2] > life[d[1]]
  <2>1. d[1] \in Entities /\ d[2] \in Nat /\ d = <<d[1], d[2]>> BY DidsTyped
  <2>2. CASE d[1] = e BY <1>1, <1>2, <2>1, <2>2
  <2>3. CASE d[1] # e BY <1>1, <2>1, <2>3
  <2> QED BY <2>1, <2>2, <2>3
<1>4. Fresh' BY <1>1, <1>3 DEF Numbers, Fresh
<1>5. ASSUME NEW d \in Dids, NEW p \in Peers
      PROVE  \/ /\ Replying(d, p)' <= Replying(d, p) /\ Answering(d, p)' <= Answering(d, p)
                /\ ToOpen(d, p)' <= ToOpen(d, p)
             \/ /\ Replying(d, p)' = 0 /\ Answering(d, p)' = 0 /\ said[d][p] = 0
                /\ ToOpen(d, p)' <= Opening(d, p) /\ Count(box[d], p) = 0
  <2>0. Opening(d, p) \in {0, 1} /\ Opening(d, p)' = Opening(d, p) BY DEF Opening
  <2>1. CASE d[1] # e
    <3>1. Did(d[1])' = Did(d[1]) BY <1>1, <1>3, <2>1 DEF Did
    <3> QED BY <1>1, <1>3, <2>0, <2>1, <3>1 DEF Replying, Answering, ToOpen
  <2>2. CASE d[1] = e
    <3>1. Replying(d, p)' = 0 /\ Answering(d, p)' = 0 BY <1>1, <2>2 DEF Replying, Answering
    <3>2. Replying(d, p) \in Nat /\ Answering(d, p) \in Nat /\ ToOpen(d, p) \in Nat
      BY NumbersTyped
    <3>3. CASE d # Did(e)'
      <4>1. ToOpen(d, p)' = 0 BY <2>2, <3>3 DEF ToOpen
      <4> QED BY <3>1, <3>2, <4>1
    <3>4. CASE d = Did(e)'
      <4>1. d[2] > life[d[1]] BY <1>1, <1>2, <2>2, <3>4 DEF Did
      <4>2. said[d][p] = 0 /\ box[d] = << >> BY <4>1 DEF Numbers, Fresh
      <4>3. ToOpen(d, p)' <= Opening(d, p) BY <2>0 DEF ToOpen
      <4> QED BY <3>1, <4>2, <4>3, CountNone
    <3> QED BY <3>3, <3>4
  <2> QED BY <2>1, <2>2
<1>6. ASSUME NEW d \in Dids, NEW p \in Peers
      PROVE  /\ said'[d][p] + Replying(d, p)' + ToOpen(d, p)' <= turns'[d][p] + Opening(d, p)
             /\ p # d => \/ said'[p][d] = Many
                         \/ said'[d][p] + Answering(d, p)' + ToOpen(d, p)' + Count(box'[d], p)
                              <= said'[p][d] + Opening(d, p)
  <2>1. /\ said[d][p] + Replying(d, p) + ToOpen(d, p) <= turns[d][p] + Opening(d, p)
        /\ p # d => \/ said[p][d] = Many
                    \/ said[d][p] + Answering(d, p) + ToOpen(d, p) + Count(box[d], p)
                         <= said[p][d] + Opening(d, p)
    BY DEF Numbers, Counted, Answers
  <2>2. said'[d][p] = said[d][p] /\ said'[p][d] = said[p][d] /\ turns'[d][p] = turns[d][p]
        /\ box'[d] = box[d]
    BY <1>1
  <2>3. /\ Opening(d, p) \in Nat /\ said[d][p] \in Nat /\ said[p][d] \in Nat
        /\ turns[d][p] \in Nat /\ Count(box[d], p) \in Nat
        /\ Replying(d, p) \in Nat /\ Answering(d, p) \in Nat /\ ToOpen(d, p) \in Nat
    BY NumbersTyped
  <2>4. Replying(d, p)' \in Nat /\ Answering(d, p)' \in Nat /\ ToOpen(d, p)' \in Nat
    BY DEF Replying, Answering, ToOpen, Opening
  <2>5. \/ /\ Replying(d, p)' <= Replying(d, p) /\ Answering(d, p)' <= Answering(d, p)
           /\ ToOpen(d, p)' <= ToOpen(d, p)
        \/ /\ Replying(d, p)' = 0 /\ Answering(d, p)' = 0 /\ said[d][p] = 0
           /\ ToOpen(d, p)' <= Opening(d, p) /\ Count(box[d], p) = 0
    BY <1>5
  <2>6. Count(box'[d], p) = Count(box[d], p) BY ONLY <2>2
  <2>7. ASSUME Replying(d, p)' <= Replying(d, p), Answering(d, p)' <= Answering(d, p),
               ToOpen(d, p)' <= ToOpen(d, p)
        PROVE  /\ said'[d][p] + Replying(d, p)' + ToOpen(d, p)' <= turns'[d][p] + Opening(d, p)
               /\ p # d => \/ said'[p][d] = Many
                           \/ said'[d][p] + Answering(d, p)' + ToOpen(d, p)' + Count(box'[d], p)
                                <= said'[p][d] + Opening(d, p)
    <3>1. said'[d][p] + Replying(d, p)' + ToOpen(d, p)' <= turns'[d][p] + Opening(d, p)
      BY ONLY <2>1, <2>2, <2>3, <2>4, <2>7
    <3>2. ASSUME p # d, said[p][d] # Many
          PROVE  said'[d][p] + Answering(d, p)' + ToOpen(d, p)' + Count(box'[d], p)
                   <= said'[p][d] + Opening(d, p)
      <4>1. said[d][p] + Answering(d, p) + ToOpen(d, p) + Count(box[d], p)
              <= said[p][d] + Opening(d, p)
        BY ONLY <2>1, <3>2
      <4> QED BY ONLY <4>1, <2>2, <2>3, <2>4, <2>6, <2>7
    <3> QED BY ONLY <3>1, <3>2, <2>2
  <2>8. ASSUME Replying(d, p)' = 0, Answering(d, p)' = 0, said[d][p] = 0,
               ToOpen(d, p)' <= Opening(d, p), Count(box[d], p) = 0
        PROVE  /\ said'[d][p] + Replying(d, p)' + ToOpen(d, p)' <= turns'[d][p] + Opening(d, p)
               /\ said'[d][p] + Answering(d, p)' + ToOpen(d, p)' + Count(box'[d], p)
                    <= said'[p][d] + Opening(d, p)
    BY ONLY <2>2, <2>3, <2>4, <2>6, <2>8
  <2> QED BY ONLY <2>5, <2>7, <2>8
<1>7. Counted' /\ Answers' BY <1>6 DEF Counted, Answers, Opening, Many, Count, Of
<1> QED BY <1>4, <1>7 DEF Numbers

\* The numbers stand after every step.
LEMMA NumbersStep ==
  ASSUME Ground, Ground', Threads, Numbers, [Next]_vars
  PROVE  Numbers'
<1>1. ASSUME NEW e \in Entities, MainMoves(e), at'[e] \notin {"think", "post", "renew"}
             \/ (at[e] = "post" /\ at'[e] = "renew" /\ hand' = hand),
             UNCHANGED <<box, said>>
      PROVE  Numbers'
  <2>1. NoMoreOf(e) BY <1>1 DEF NoMoreOf, MainMoves
  <2> QED BY <1>1, <2>1, Quietly DEF MainMoves
<1>2. ASSUME NEW e \in Entities, Main(e) PROVE Numbers'
  <2>1. CASE Connect(e) \/ Refresh(e) \/ PostRefused(e) \/ Wake(e)
    <3>1. UNCHANGED <<box, said>> BY <2>1 DEF Connect, Refresh, PostRefused, Wake
    <3> QED BY <1>1, <2>1, <3>1, MainMoved
  <2>2. CASE Post(e) BY <2>2, MainMoved, Replies DEF Post
  <2>3. CASE PostAgain(e) BY <2>3, MainMoved, Replies DEF PostAgain
  <2> QED BY <1>2, <2>1, <2>2, <2>3, TakesUp, Counts DEF Main
<1>3. ASSUME NEW e \in Entities, GreeterMoves(e), greeter[e] \in {"look", "post", "renew"},
             UNCHANGED <<box, said>>
      PROVE  Numbers'
  <2>1. NoMoreOf(e) BY <1>3 DEF NoMoreOf, GreeterMoves
  <2> QED BY <1>3, <2>1, Quietly DEF GreeterMoves
<1>4. ASSUME NEW e \in Entities, Greeting(e) PROVE Numbers'
  <2>1. CASE Look(e)
    <3>1. GreeterMoves(e) /\ greeter[e] = "look" /\ UNCHANGED <<box, said>>
      BY <2>1 DEF Look, GreeterMoves, Ground
    <3> QED BY <1>3, <3>1
  <2>2. CASE GiveUp(e)
    <3>1. UNCHANGED <<box, said>> BY <2>2 DEF GiveUp
    <3> QED BY <1>3, <2>2, <3>1, GreeterMoved
  <2>3. CASE Greet(e) /\ Expired(e)
    <3>1. UNCHANGED <<box, said>> BY <2>3 DEF Greet
    <3> QED BY <1>3, <2>3, <3>1, GreeterMoved
  <2>4. CASE Greet(e) /\ ~Expired(e)
    <3>1. greeter[e] = "post" /\ greeter'[e] = "over" /\ Turn(Did(e), found[e])
      BY <2>4 DEF Greet, Ground
    <3> QED BY <2>4, <3>1, GreeterMoved, Opens
  <2>5. CASE GreetAgain(e)
    <3>1. greeter[e] = "renew" /\ greeter'[e] = "over" /\ Turn(Did(e), found[e])
      BY <2>5 DEF GreetAgain, Ground
    <3> QED BY <2>5, <3>1, GreeterMoved, Opens
  <2> QED BY <1>4, <2>1, <2>2, <2>3, <2>4, <2>5 DEF Greeting
<1>5. ASSUME NEW e \in Entities, Failure(e) PROVE Numbers'
  <2>1. CASE ThinkError(e) \/ Stall(e)
    <3>1. UNCHANGED <<box, said>> BY <2>1 DEF ThinkError, Stall
    <3> QED BY <1>1, <2>1, <3>1, MainMoved
  <2>2. CASE Silence(e)
    <3>1. MainMoves(e) /\ at[e] # "off" /\ at'[e] = "sleep" BY <2>2, MainMoved
    <3>2. CASE at[e] = "post" /\ Turn(Did(e), hand[e]) BY <3>1, <3>2, Replies
    <3>3. CASE /\ UNCHANGED said
               /\ \E k \in 0..(IF at[e] \in {"connect", "refresh"} THEN 0 ELSE Len(box[Did(e)])) :
                    box' = [box EXCEPT ![Did(e)] = SubSeq(box[Did(e)], k + 1, Len(box[Did(e)]))]
      <4>1. Did(e) \in Dids BY <3>1, LivingDid DEF Threads, Thread
      <4>2. Len(box[Did(e)]) \in Nat
        <5>1. box[Did(e)] \in Seq(Messages) BY <4>1 DEF Ground
        <5> QED BY <5>1, LenProperties
      <4>3. PICK k \in 0..(IF at[e] \in {"connect", "refresh"} THEN 0 ELSE Len(box[Did(e)])) :
              box' = [box EXCEPT ![Did(e)] = SubSeq(box[Did(e)], k + 1, Len(box[Did(e)]))]
        BY <3>3
      <4>4. k \in 0..Len(box[Did(e)]) BY ONLY <4>2, <4>3
      <4>5. NoMoreOf(e) BY <3>1 DEF NoMoreOf, MainMoves
      <4> QED BY <3>1, <3>3, <4>1, <4>3, <4>4, <4>5, Quietly DEF MainMoves
    <3> QED BY <2>2, <3>2, <3>3 DEF Silence
  <2>3. CASE GreetSilence(e)
    <3>1. /\ GreeterMoves(e) /\ greeter[e] \in {"look", "post", "renew"} /\ greeter'[e] = "over"
      BY <2>3 DEF GreetSilence, GreeterMoves, Ground
    <3>2. \/ UNCHANGED <<said, box>>
          \/ greeter[e] = "post" /\ Turn(Did(e), found[e])
      BY <2>3 DEF GreetSilence
    <3> QED BY <1>3, <3>1, <3>2, Opens
  <2>4. CASE Dies(e)
    <3>1. NoMoreOf(e) /\ UNCHANGED <<box, said, turns>>
      BY <2>4 DEF Dies, NoMoreOf, Ground
    <3> QED BY <3>1, Quietly
  <2> QED BY <1>5, <2>1, <2>2, <2>3, <2>4 DEF Failure
<1>6. CASE UNCHANGED <<life, at, hand, turns, greeter, box, said>>
  <2>1. \A d \in Dids, p \in Peers : Count(box[d], p) \in Nat
    <3>1. \A d \in Dids : box[d] \in Seq(Messages) BY DEF Ground
    <3> QED BY <3>1, CountType
  <2> QED BY <1>6 DEF Numbers, Fresh, Counted, Answers, Replying, Answering, ToOpen, Opening, Did,
                      Many, Count, Of
<1>7. CASE DayPasses \/ UNCHANGED vars
  BY <1>6, <1>7 DEF DayPasses, vars, threadVars
<1> QED BY <1>2, <1>4, <1>5, <1>7, Begins, Comes DEF Next

-----------------------------------------------------------------------------
(* The theorems.                                                           *)

IInv == Ground /\ Threads /\ Numbers

\* The types, the threads and the numbers hold of every state of Lite.
THEOREM Invariance == Spec => []IInv
<1>1. Init => IInv
  <2> SUFFICES ASSUME Init PROVE IInv OBVIOUS
  <2>1. /\ \A e \in Entities : at[e] = "off" /\ greeter[e] = "off" /\ life[e] = 0
        /\ \A d \in Dids : box[d] = << >>
    BY DEF Init
  <2>2. Dids \subseteq Peers /\ \A d \in Dids : d[1] \in Entities BY DidsTyped
  <2>3. Ground
    <3>1. 0 \in 0..MaxLives /\ 0 \in 0..MaxTurns /\ 0 \in 0..Many /\ 0 \in 0..0
          /\ 0 \in 0..MaxNews /\ 0 \in 0..LastDay /\ 0 \in 0..MaxFaults
      BY LiteAssumption, DidsTyped
    <3>2. << >> \in Seq(Messages) BY EmptySeq
    <3> QED BY <3>1, <3>2 DEF Init, Ground, Places, Openings, NoPeer
  <2>4. Threads BY <2>1 DEF Threads, Thread
  <2>5. ASSUME NEW d \in Dids, NEW p \in Peers
        PROVE  /\ turns[d][p] = 0 /\ said[d][p] = 0 /\ said[p][d] = 0
               /\ Replying(d, p) = 0 /\ Answering(d, p) = 0 /\ ToOpen(d, p) = 0
               /\ Count(box[d], p) = 0 /\ Opening(d, p) \in {0, 1}
    <3>1. turns[d][p] = 0 /\ said[d][p] = 0 /\ said[p][d] = 0 BY <2>2 DEF Init
    <3>2. Replying(d, p) = 0 /\ Answering(d, p) = 0 /\ ToOpen(d, p) = 0
      BY <2>1, <2>2 DEF Replying, Answering, ToOpen
    <3>3. Count(box[d], p) = 0 BY <2>1, CountNone
    <3> QED BY <3>1, <3>2, <3>3 DEF Opening
  <2>6. Counted /\ Answers BY <2>5 DEF Counted, Answers
  <2>7. Fresh BY <2>1, <2>5 DEF Fresh
  <2> QED BY <2>3, <2>4, <2>6, <2>7 DEF IInv, Numbers
<1>2. IInv /\ [Next]_vars => IInv'
  <2> SUFFICES ASSUME IInv, [Next]_vars PROVE IInv' OBVIOUS
  <2>1. Ground' BY GroundStep DEF IInv
  <2>2. Threads' BY <2>1, ThreadsStep DEF IInv
  <2>3. Numbers' BY <2>1, NumbersStep DEF IInv
  <2> QED BY <2>1, <2>2, <2>3 DEF IInv
<1> QED BY <1>1, <1>2, PTL DEF Spec

\* The variables have their types.
THEOREM TypeCorrect == Spec => []TypeOK
<1>1. IInv => TypeOK BY DEF IInv, Ground, TypeOK, Places, Openings, NoPeer
<1> QED BY <1>1, Invariance, PTL

\* No peer is told more than MaxTurns replies and the opening, by however many
\* peers, failures and restarts.
THEOREM TurnsBounded == Spec => []TurnsAreBounded
<1>1. IInv => TurnsAreBounded
  <2> SUFFICES ASSUME IInv, NEW d \in Dids, NEW p \in Peers
      PROVE  said[d][p] <= MaxTurns + Opening(d, p)
    BY DEF TurnsAreBounded
  <2>1. said[d][p] + Replying(d, p) + ToOpen(d, p) <= turns[d][p] + Opening(d, p)
    BY DEF IInv, Numbers, Counted
  <2>2. /\ Opening(d, p) \in {0, 1} /\ Replying(d, p) \in {0, 1} /\ ToOpen(d, p) \in {0, 1}
        /\ said[d][p] \in Nat /\ turns[d][p] \in Nat /\ turns[d][p] <= MaxTurns /\ MaxTurns \in Nat
    BY NumbersTyped, DidsTyped DEF IInv
  <2> QED BY ONLY <2>1, <2>2
<1> QED BY <1>1, Invariance, PTL

\* Every reply answers a message of its own.
THEOREM NobodyGoesOn == Spec => []NoMonologue
<1>1. IInv => NoMonologue
  <2> SUFFICES ASSUME IInv, NEW d \in Dids, NEW p \in Peers
      PROVE  said[d][p] <= said[p][d] + Opening(d, p)
    BY DEF NoMonologue
  <2>1. said[d][p] + Replying(d, p) + ToOpen(d, p) <= turns[d][p] + Opening(d, p)
    BY DEF IInv, Numbers, Counted
  <2>2. /\ Opening(d, p) \in {0, 1} /\ Replying(d, p) \in {0, 1} /\ ToOpen(d, p) \in {0, 1}
        /\ Answering(d, p) \in {0, 1} /\ Count(box[d], p) \in Nat
        /\ said[d][p] \in Nat /\ said[p][d] \in Nat
        /\ turns[d][p] \in Nat /\ turns[d][p] <= MaxTurns /\ MaxTurns \in Nat /\ Many = MaxTurns + 2
    BY NumbersTyped, DidsTyped DEF IInv
  <2>3. CASE p = d BY ONLY <2>2, <2>3
  <2>4. CASE p # d
    <3>1. \/ said[p][d] = Many
          \/ said[d][p] + Answering(d, p) + ToOpen(d, p) + Count(box[d], p)
               <= said[p][d] + Opening(d, p)
      BY <2>4 DEF IInv, Numbers, Answers
    <3> QED BY ONLY <2>1, <2>2, <3>1
  <2> QED BY <2>3, <2>4
<1> QED BY <1>1, Invariance, PTL

-----------------------------------------------------------------------------
(* A dialogue that nothing disturbs.                                       *)

\* A message of p waits for an answer.
Waits(s, p) == \E i \in 1..Len(s) : s[i].from = p /\ ~s[i].broadcast

AtWork == {"think", "post", "renew"}
Works(d, p) == d = Did(d[1]) /\ at[d[1]] \in AtWork /\ hand[d[1]] = p

\* One of the two has a message of the other, or had all its turns.
Going(d, p) == \/ Waits(box[d], p) \/ Waits(box[p], d) \/ Works(d, p) \/ Works(p, d)
               \/ turns[d][p] = MaxTurns \/ turns[p][d] = MaxTurns
Lively == \A d, p \in Dids : d # p /\ said[d][p] > 0 => Going(d, p)

\* Nobody has died, or lost its stream.
Whole == \A e \in Entities : /\ life[e] \in {0, 1} /\ (at[e] = "off" <=> life[e] = 0)
                             /\ at[e] \notin {"sleep", "stalled"}

\* A message more, and all that waited still waits.
LEMMA WaitsAppend ==
  ASSUME NEW s \in Seq(Messages), NEW x \in Messages, NEW p
  PROVE  /\ Waits(s, p) => Waits(Append(s, x), p)
         /\ x.from = p /\ ~x.broadcast => Waits(Append(s, x), p)
<1>1. /\ Len(s) \in Nat /\ Len(Append(s, x)) = Len(s) + 1 /\ Append(s, x)[Len(s) + 1] = x
      /\ \A i \in 1..Len(s) : Append(s, x)[i] = s[i]
  BY LenProperties, AppendProperties
<1>2. 1..Len(s) \subseteq 1..(Len(s) + 1) /\ Len(s) + 1 \in 1..(Len(s) + 1) BY <1>1
<1> QED BY <1>1, <1>2 DEF Waits

\* The first message is taken, and what waited waits, unless that was it.
LEMMA WaitsTail ==
  ASSUME NEW s \in Seq(Messages), s # << >>, NEW p, Waits(s, p)
  PROVE  Waits(Tail(s), p) \/ (Head(s).from = p /\ ~Head(s).broadcast)
<1>1. /\ Len(s) \in Nat \ {0} /\ Head(s) = s[1] /\ Len(Tail(s)) = Len(s) - 1
      /\ \A i \in 1..Len(Tail(s)) : Tail(s)[i] = s[i + 1]
  BY EmptySeq, HeadTailProperties
<1>2. PICK i \in 1..Len(s) : s[i].from = p /\ ~s[i].broadcast BY DEF Waits
<1>3. CASE i = 1 BY <1>1, <1>2, <1>3
<1>4. CASE i # 1
  <2>1. i - 1 \in 1..Len(Tail(s)) /\ (i - 1) + 1 = i BY <1>1, <1>4
  <2>2. Tail(s)[i - 1] = s[i] BY <1>1, <2>1
  <2> QED BY <1>2, <2>1, <2>2 DEF Waits
<1> QED BY <1>3, <1>4

\* It takes two, who may be named in either order.
LEMMA Mutual ==
  ASSUME NEW d \in Dids, NEW p \in Dids
  PROVE  /\ Going(d, p) <=> Going(p, d)
         /\ Going(d, p)' <=> Going(p, d)'
BY DEF Going, Waits, Works, Did

\* A step after which whatever waited waits, and whoever was at work still is.
LEMMA GoesOn ==
  ASSUME Ground, Ground', Lively, UNCHANGED <<turns, said>>,
         \A d \in Dids, p \in Dids : Waits(box[d], p) => Waits(box'[d], p),
         \A e \in Entities : at[e] \in AtWork =>
            at'[e] \in AtWork /\ hand'[e] = hand[e] /\ life'[e] = life[e],
         \A e \in Entities : at[e] \in AtWork => life[e] \in Nat
  PROVE  Lively'
<1>1. ASSUME NEW d \in Dids, NEW p \in Dids, Works(d, p) PROVE Works(d, p)'
  <2>1. d[1] \in Entities BY DidsTyped
  <2> QED BY <1>1, <2>1 DEF Works, Did
<1>2. ASSUME NEW d \in Dids, NEW p \in Dids, Going(d, p) PROVE Going(d, p)'
  <2>1. Waits(box[d], p) => Waits(box'[d], p) OBVIOUS
  <2>2. Waits(box[p], d) => Waits(box'[p], d) OBVIOUS
  <2> QED BY <1>1, <1>2, <2>1, <2>2 DEF Going, Waits
<1> QED BY <1>2 DEF Lively

\* A step of e's thread in which a message comes to be said, or goes nowhere
\* because the peer is no more, or never was: not so in a dialogue.
LEMMA SaysOn ==
  ASSUME Ground, Lively, Fresh, Whole, NEW x \in Dids, NEW y \in Peers,
         Turn(x, y), UNCHANGED <<turns, life>>,
         y \in Dids => said[y][x] > 0 \/ said[x][y] = 0 \/ Known(y),
         \A d \in Dids, p \in Dids : Works(d, p) => Works(d, p)' \/ (d = x /\ p = y)
  PROVE  Lively'
<1> DEFINE msg == [from |-> x, broadcast |-> FALSE]
<1>1. x \in Peers /\ msg \in Messages /\ Dids \subseteq Peers BY DidsTyped DEF Messages
<1>2. CASE Known(y)
  <2>1. Accept(x, y) BY <1>2 DEF Turn
  <2>2. \A a, b \in Peers : ~(a = x /\ b = y) => said'[a][b] = said[a][b]
    BY <1>1, <2>1, Accepted
  <2>3. \A d \in Dids, p \in Dids : Waits(box[d], p) => Waits(box'[d], p)
    <3>1. \A d \in Dids : box[d] \in Seq(Messages) BY DEF Ground
    <3>2. box' = IF y \in Dids THEN [box EXCEPT ![y] = Append(box[y], msg)] ELSE box
      BY <2>1 DEF Accept
    <3> HIDE DEF msg
    <3> QED BY <1>1, <3>1, <3>2, WaitsAppend DEF Ground
  <2>4. y \in Dids => Waits(box'[y], x)
    <3> SUFFICES ASSUME y \in Dids PROVE Waits(box'[y], x) OBVIOUS
    <3>1. box[y] \in Seq(Messages) /\ box'[y] = Append(box[y], msg) BY <2>1 DEF Accept, Ground
    <3>2. msg.from = x /\ ~msg.broadcast OBVIOUS
    <3> HIDE DEF msg
    <3> QED BY <1>1, <3>1, <3>2, WaitsAppend
  <2>5. ASSUME NEW d \in Dids, NEW p \in Dids, d # p, said'[d][p] > 0 PROVE Going(d, p)'
    <3>1. CASE (d = x /\ p = y) \/ (d = y /\ p = x) BY <2>4, <3>1 DEF Going, Waits
    <3>2. CASE ~((d = x /\ p = y) \/ (d = y /\ p = x))
      <4>1. Going(d, p) BY <1>1, <2>2, <2>5, <3>2 DEF Lively
      <4>2. Works(d, p) => Works(d, p)' BY <3>2
      <4>3. Works(p, d) => Works(p, d)' BY <3>2
      <4>4. Waits(box[d], p) => Waits(box'[d], p) BY <2>3
      <4>5. Waits(box[p], d) => Waits(box'[p], d) BY <2>3
      <4> QED BY <4>1, <4>2, <4>3, <4>4, <4>5 DEF Going, Waits
    <3> QED BY <3>1, <3>2
  <2> QED BY <2>5 DEF Lively
<1>3. CASE ~Known(y)
  <2>1. UNCHANGED <<said, box>> BY <1>3 DEF Turn
  <2>2. y \in Dids => said[x][y] = 0 /\ said[y][x] = 0
    <3> SUFFICES ASSUME y \in Dids PROVE said[x][y] = 0 /\ said[y][x] = 0 OBVIOUS
    <3>1. /\ y[1] \in Entities /\ y[2] \in 1..MaxLives /\ y = <<y[1], y[2]>>
          /\ life[y[1]] \in {0, 1} /\ MaxLives \in Nat
      BY DidsTyped DEF Whole
    <3>2. y[2] > life[y[1]] BY <1>3, <3>1 DEF Known, Did
    <3>3. said[y][x] = 0 BY <1>1, <3>2 DEF Fresh
    <3> QED BY <1>3, <3>3
  <2>3. ASSUME NEW d \in Dids, NEW p \in Dids, d # p, said'[d][p] > 0 PROVE Going(d, p)'
    <3>1. Going(d, p) BY <2>1, <2>3 DEF Lively
    <3>2. ~((d = x /\ p = y) \/ (d = y /\ p = x)) BY <2>1, <2>2, <2>3
    <3>3. Works(d, p) => Works(d, p)' BY <3>2
    <3>4. Works(p, d) => Works(p, d)' BY <3>2
    <3> QED BY <2>1, <3>1, <3>3, <3>4 DEF Going, Waits
  <2> QED BY <2>3 DEF Lively
<1> QED BY <1>2, <1>3

\* A message that is taken up is answered, unless its sender had all its turns.
LEMMA HandlesOn ==
  ASSUME Ground, Threads, Lively, NEW e \in Entities, Handle(e)
  PROVE  Lively'
<1> DEFINE x == Did(e)
           msg == Head(box[x])
<1>1. /\ at[e] = "listen" /\ box[x] # << >> /\ box' = [box EXCEPT ![x] = Tail(box[x])]
      /\ \/ UNCHANGED <<hand, at>> /\ (msg.broadcast \/ msg.from = x \/ turns[x][msg.from] >= MaxTurns)
         \/ hand' = [hand EXCEPT ![e] = msg.from] /\ at' = [at EXCEPT ![e] = "think"]
      /\ UNCHANGED <<life, turns, said>>
  BY DEF Handle
<1>2. x \in Dids /\ x[1] = e /\ x = Did(x[1])
  <2>1. life[e] >= 1 BY <1>1 DEF Threads, Thread
  <2> QED BY <2>1, LivingDid
<1>3. x = Did(e)' BY <1>1 DEF Did
<1>4. ASSUME NEW a \in Dids, NEW b \in Dids, Works(a, b) PROVE Works(a, b)'
  <2>1. a[1] \in Entities BY DidsTyped
  <2>2. a[1] # e /\ Did(a[1])' = Did(a[1]) BY <1>1, <1>4 DEF Works, AtWork, Did
  <2>3. at'[a[1]] = at[a[1]] /\ hand'[a[1]] = hand[a[1]] BY <1>1, <2>1, <2>2 DEF Ground
  <2> QED BY <1>4, <2>2, <2>3 DEF Works
<1>5. ASSUME NEW a \in Dids, NEW b \in Dids, a # b, Waits(box[a], b)
      PROVE  Waits(box'[a], b) \/ Works(a, b)' \/ turns'[a][b] = MaxTurns
  <2>1. CASE a # x
    <3>1. box'[a] = box[a] BY <1>1, <2>1 DEF Ground
    <3> QED BY <1>5, <3>1 DEF Waits
  <2>2. CASE a = x
    <3>1. box[x] \in Seq(Messages) /\ box'[x] = Tail(box[x]) BY <1>1, <1>2 DEF Ground
    <3>2. Waits(Tail(box[x]), b) \/ (msg.from = b /\ ~msg.broadcast)
      BY <1>1, <1>5, <2>2, <3>1, WaitsTail
    <3>3. CASE Waits(Tail(box[x]), b) BY <2>2, <3>1, <3>3 DEF Waits
    <3>4. CASE msg.from = b /\ ~msg.broadcast /\ UNCHANGED <<hand, at>>
      <4>1. turns[x][b] >= MaxTurns BY <1>1, <1>5, <2>2, <3>4 DEF Ground
      <4>2. turns[x][b] \in 0..MaxTurns /\ MaxTurns \in Nat BY <1>2, DidsTyped DEF Ground
      <4>3. turns[x][b] = MaxTurns BY ONLY <4>1, <4>2
      <4> QED BY <1>1, <2>2, <4>3
    <3>5. CASE /\ msg.from = b
               /\ hand' = [hand EXCEPT ![e] = msg.from] /\ at' = [at EXCEPT ![e] = "think"]
      <4>1. hand'[e] = b /\ at'[e] = "think" BY <3>5 DEF Ground
      <4> QED BY <1>2, <1>3, <2>2, <4>1 DEF Works, AtWork
    <3> QED BY <1>1, <3>2, <3>3, <3>4, <3>5
  <2> QED BY <2>1, <2>2
<1>6. ASSUME NEW d \in Dids, NEW p \in Dids, d # p, said'[d][p] > 0 PROVE Going(d, p)'
  <2>1. Going(d, p) BY <1>1, <1>6 DEF Lively
  <2>2. Works(d, p) => Works(d, p)' BY <1>4
  <2>3. Works(p, d) => Works(p, d)' BY <1>4
  <2>4. Waits(box[d], p) => Waits(box'[d], p) \/ Works(d, p)' \/ turns'[d][p] = MaxTurns
    BY <1>5, <1>6
  <2>5. Waits(box[p], d) => Waits(box'[p], d) \/ Works(p, d)' \/ turns'[p][d] = MaxTurns
    BY <1>5, <1>6
  <2> QED BY <1>1, <2>1, <2>2, <2>3, <2>4, <2>5 DEF Going, Waits
<1> QED BY <1>6 DEF Lively

\* A turn is counted for who had one left, so nobody's last turn is undone.
LEMMA ThinksOn ==
  ASSUME Ground, Threads, Lively, NEW e \in Entities, Think(e)
  PROVE  Lively'
<1> DEFINE x == Did(e)
           y == hand[e]
<1>1. /\ at[e] = "think" /\ at' = [at EXCEPT ![e] = "post"]
      /\ turns' = [turns EXCEPT ![x] = [turns[x] EXCEPT ![y] = turns[x][y] + 1]]
      /\ UNCHANGED <<life, hand, box, said>>
  BY DEF Think
<1>2. x \in Dids /\ turns[x][y] < MaxTurns
  <2>1. life[e] >= 1 /\ turns[x][y] < MaxTurns BY <1>1 DEF Threads, Thread
  <2> QED BY <2>1, LivingDid
<1>3. ASSUME NEW a \in Dids, NEW b \in Dids, turns[a][b] = MaxTurns
      PROVE  turns'[a][b] = MaxTurns
  <2>1. turns[x][y] # MaxTurns
    <3>1. MaxTurns \in Nat BY DidsTyped
    <3>2. CASE turns[x][y] = MaxTurns BY ONLY <1>2, <3>1, <3>2
    <3> QED BY <3>2
  <2>2. b \in Peers BY DidsTyped
  <2> HIDE DEF x, y
  <2>3. ~(a = x /\ b = y) BY <1>3, <2>1
  <2> QED BY <1>1, <1>2, <1>3, <2>2, <2>3 DEF Ground
<1>4. ASSUME NEW a \in Dids, NEW b \in Dids, Works(a, b) PROVE Works(a, b)'
  <2>1. a[1] \in Entities BY DidsTyped
  <2>2. Did(a[1])' = Did(a[1]) BY <1>1 DEF Did
  <2>3. at'[a[1]] \in AtWork BY <1>1, <1>4, <2>1 DEF Works, AtWork, Ground
  <2> QED BY <1>1, <1>4, <2>2, <2>3 DEF Works
<1>5. ASSUME NEW d \in Dids, NEW p \in Dids, d # p, said'[d][p] > 0 PROVE Going(d, p)'
  <2>1. Going(d, p) BY <1>1, <1>5 DEF Lively
  <2>2. Works(d, p) => Works(d, p)' BY <1>4
  <2>3. Works(p, d) => Works(p, d)' BY <1>4
  <2>4. turns[d][p] = MaxTurns => turns'[d][p] = MaxTurns BY <1>3
  <2>5. turns[p][d] = MaxTurns => turns'[p][d] = MaxTurns BY <1>3
  <2> HIDE DEF x, y
  <2> QED BY <1>1, <2>1, <2>2, <2>3, <2>4, <2>5 DEF Going, Waits
<1> QED BY <1>5 DEF Lively

\* Who is answering a peer, or opens a dialogue with it after it said something,
\* has heard that peer.
LEMMA Hears ==
  ASSUME Ground, Numbers, NEW d \in Dids, NEW p \in Peers, p # d, said[d][p] > 0,
         \/ Answering(d, p) = 1
         \/ ToOpen(d, p) = 1
  PROVE  said[p][d] > 0
<1>1. \/ said[p][d] = Many
      \/ said[d][p] + Answering(d, p) + ToOpen(d, p) + Count(box[d], p)
           <= said[p][d] + Opening(d, p)
  BY DEF Numbers, Answers
<1>2. /\ Opening(d, p) \in {0, 1} /\ Answering(d, p) \in {0, 1} /\ ToOpen(d, p) \in {0, 1}
      /\ ToOpen(d, p) <= Opening(d, p) /\ Count(box[d], p) \in Nat
      /\ said[d][p] \in Nat /\ said[p][d] \in Nat /\ MaxTurns \in Nat /\ Many = MaxTurns + 2
  BY NumbersTyped, DidsTyped
<1>3. said[d][p] > 0 /\ (Answering(d, p) = 1 \/ ToOpen(d, p) = 1) OBVIOUS
<1> QED BY ONLY <1>1, <1>2, <1>3

\* A reply goes to one who is there, or whose dialogue is kept going by nobody.
LEMMA RepliesOn ==
  ASSUME Ground, Threads, Numbers, Lively, Whole, NEW e \in Entities, MainMoves(e),
         at[e] \in {"post", "renew"}, Turn(Did(e), hand[e])
  PROVE  Lively'
<1> DEFINE x == Did(e)
           y == hand[e]
<1>1. x \in Dids /\ x[1] = e /\ y \in Peers /\ y # x
  <2>1. life[e] >= 1 /\ y \in Peers \ {x} BY DEF Threads, Thread
  <2> QED BY <2>1, LivingDid
<1>2. Answering(x, y) = 1 BY <1>1 DEF Answering
<1>3. y \in Dids => said[y][x] > 0 \/ said[x][y] = 0
  <2> SUFFICES ASSUME y \in Dids, said[x][y] # 0 PROVE said[y][x] > 0 OBVIOUS
  <2>1. said[x][y] \in Nat BY <1>1, NumbersTyped
  <2>2. said[x][y] > 0 BY ONLY <2>1, said[x][y] # 0
  <2> HIDE DEF x, y
  <2> QED BY <1>1, <1>2, <2>2, Hears
<1>4. ASSUME NEW a \in Dids, NEW b \in Dids, Works(a, b)
      PROVE  Works(a, b)' \/ (a = x /\ b = y)
  <2>1. a[1] \in Entities BY DidsTyped
  <2>2. Did(a[1])' = Did(a[1]) BY DEF Did, MainMoves
  <2>3. CASE a[1] = e BY <1>4, <2>3 DEF Works
  <2>4. CASE a[1] # e BY <1>4, <2>1, <2>2, <2>4 DEF Works, MainMoves
  <2> QED BY <2>3, <2>4
<1>5. Fresh /\ UNCHANGED <<turns, life>> /\ Turn(x, y) BY DEF Numbers, MainMoves
<1> HIDE DEF x, y
<1> QED BY <1>1, <1>3, <1>4, <1>5, SaysOn

\* So does an opening.
LEMMA OpensOn ==
  ASSUME Ground, Threads, Numbers, Lively, Whole, NEW e \in Entities, GreeterMoves(e),
         greeter[e] \in {"post", "renew"}, Turn(Did(e), found[e])
  PROVE  Lively'
<1> DEFINE x == Did(e)
           y == found[e]
<1>1. x \in Dids /\ x[1] = e /\ y \in Dids /\ y[1] = Greets[e] /\ y \in Peers /\ Known(x)
  <2>1. life[e] >= 1 /\ y \in Dids /\ y[1] = Greets[e] BY DEF Threads, Thread
  <2> QED BY <2>1, LivingDid, DidsTyped
<1>2. ToOpen(x, y) = 1 BY <1>1 DEF ToOpen, Opening
<1>3. said[y][x] > 0 \/ said[x][y] = 0 \/ Known(y)
  <2> SUFFICES ASSUME y # x, said[x][y] # 0 PROVE said[y][x] > 0 BY <1>1
  <2>1. said[x][y] \in Nat BY <1>1, NumbersTyped
  <2>2. said[x][y] > 0 BY ONLY <2>1, said[x][y] # 0
  <2> HIDE DEF x, y
  <2> QED BY <1>1, <1>2, <2>2, Hears
<1>4. ASSUME NEW a \in Dids, NEW b \in Dids, Works(a, b) PROVE Works(a, b)'
  <2>1. a[1] \in Entities BY DidsTyped
  <2> QED BY <1>4, <2>1 DEF Works, GreeterMoves, Did
<1>5. Fresh /\ UNCHANGED <<turns, life>> /\ Turn(x, y) BY DEF Numbers, GreeterMoves
<1> HIDE DEF x, y
<1> QED BY <1>1, <1>3, <1>4, <1>5, SaysOn

\* What comes from outside is no part of a dialogue.
LEMMA ComesOn ==
  ASSUME Ground, Threads, Lively, NEW e \in Entities, NEW o \in Outsiders, Outside(o, e)
  PROVE  Lively'
<1> DEFINE x == Did(e)
<1>1. x \in Dids /\ x \in Peers /\ <<o, 0>> \in Peers /\ <<o, 0>> \notin Dids
  <2>1. life[e] > 0 /\ life[e] \in 0..MaxLives /\ MaxLives \in Nat
    BY DidsTyped DEF Outside, Ground
  <2>2. life[e] >= 1 BY ONLY <2>1
  <2> QED BY <2>2, LivingDid, DidsTyped
<1>2. UNCHANGED <<life, at, hand, turns>> BY DEF Outside, threadVars
<1>3. PICK m \in Messages : box' = [box EXCEPT ![x] = Append(box[x], m)]
  <2>1. [from |-> <<o, 0>>, broadcast |-> FALSE] \in Messages
        /\ [from |-> <<o, 0>>, broadcast |-> TRUE] \in Messages
    BY <1>1 DEF Messages
  <2> QED BY <1>1, <2>1 DEF Outside, Accept
<1>4. \A a \in Dids, b \in Dids : said'[a][b] = said[a][b]
  <2>1. CASE Accept(<<o, 0>>, x)
    <3> HIDE DEF x
    <3>1. PICK f \in Peers, t \in Peers : f = <<o, 0>> /\ t = x BY <1>1
    <3>2. \A a, b \in Peers : ~(a = f /\ b = t) => said'[a][b] = said[a][b]
      BY <2>1, <3>1, Accepted
    <3> QED BY <1>1, <3>1, <3>2, DidsTyped
  <2>2. CASE UNCHANGED said BY <2>2
  <2> QED BY <2>1, <2>2 DEF Outside
<1>5. ASSUME NEW a \in Dids, NEW b \in Dids, Waits(box[a], b) PROVE Waits(box'[a], b)
  <2>1. box[a] \in Seq(Messages) /\ (a = x => box'[a] = Append(box[a], m))
        /\ (a # x => box'[a] = box[a])
    BY <1>3 DEF Ground
  <2> HIDE DEF x
  <2>2. CASE a = x BY <1>5, <2>1, <2>2, WaitsAppend
  <2>3. CASE a # x BY <1>5, <2>1, <2>3 DEF Waits
  <2> QED BY <2>2, <2>3
<1>6. ASSUME NEW d \in Dids, NEW p \in Dids, d # p, said'[d][p] > 0 PROVE Going(d, p)'
  <2>1. Going(d, p) BY <1>4, <1>6 DEF Lively
  <2>2. (Works(d, p) => Works(d, p)') /\ (Works(p, d) => Works(p, d)')
    BY <1>2 DEF Works, Did
  <2>3. Waits(box[d], p) => Waits(box'[d], p) BY <1>5
  <2>4. Waits(box[p], d) => Waits(box'[p], d) BY <1>5
  <2> HIDE DEF x
  <2> QED BY <1>2, <2>1, <2>2, <2>3, <2>4 DEF Going, Waits
<1> QED BY <1>6 DEF Lively

\* A step that is no failure leaves every process alive, and lets every dialogue
\* go on.
LEMMA LivelyStep ==
  ASSUME Ground, Ground', Threads, Numbers, Lively, Whole, [Next]_vars, faults = 0, faults' = 0
  PROVE  Whole' /\ Lively'
<1> USE DEF AtWork
<1>1. \A e \in Entities : ~Failure(e)
  BY DEF Failure, ThinkError, Silence, Stall, GreetSilence, Dies, Fault
<1>2. ASSUME NEW e \in Entities, MainMoves(e), at[e] # "off", at'[e] \notin {"off", "sleep", "stalled"}
      PROVE  Whole'
  BY <1>2 DEF Whole, MainMoves
<1>3. ASSUME NEW e \in Entities, MainMoves(e), UNCHANGED <<box, said>>,
             at[e] \in AtWork => at'[e] \in AtWork /\ hand' = hand
      PROVE  Lively'
  <2>1. \A f \in Entities : at[f] \in AtWork => at'[f] \in AtWork /\ hand'[f] = hand[f]
                                             /\ life'[f] = life[f]
    BY <1>3 DEF MainMoves
  <2>2. \A f \in Entities : life[f] \in Nat BY DidsTyped DEF Ground
  <2>3. UNCHANGED turns BY <1>3 DEF MainMoves
  <2> QED BY <1>3, <2>1, <2>2, <2>3, GoesOn DEF Waits
<1>4. ASSUME NEW e \in Entities, Main(e) PROVE Whole' /\ Lively'
  <2>1. CASE Connect(e) \/ Refresh(e) \/ PostRefused(e) \/ Wake(e)
    <3>1. UNCHANGED <<box, said>> BY <2>1 DEF Connect, Refresh, PostRefused, Wake
    <3>2. /\ MainMoves(e) /\ hand' = hand /\ at[e] # "off"
          /\ at'[e] \notin {"off", "sleep", "stalled"}
          /\ at[e] \in AtWork => at'[e] \in AtWork
      BY <2>1, MainMoved
    <3> QED BY <1>2, <1>3, <3>1, <3>2
  <2>2. CASE Post(e) \/ PostAgain(e)
    <3>1. /\ MainMoves(e) /\ at[e] \in {"post", "renew"} /\ at'[e] = "listen"
          /\ Turn(Did(e), hand[e])
      BY <2>2, MainMoved DEF Post, PostAgain
    <3> QED BY <1>2, <3>1, RepliesOn
  <2>3. CASE Handle(e)
    <3>1. at[e] = "listen" /\ UNCHANGED life
          /\ (UNCHANGED at \/ at' = [at EXCEPT ![e] = "think"])
      BY <2>3 DEF Handle
    <3>2. Whole' BY <3>1 DEF Whole, Ground
    <3> QED BY <2>3, <3>2, HandlesOn
  <2>4. CASE Think(e)
    <3>1. at[e] = "think" /\ UNCHANGED life /\ at' = [at EXCEPT ![e] = "post"]
      BY <2>4 DEF Think
    <3>2. Whole' BY <3>1 DEF Whole, Ground
    <3> QED BY <2>4, <3>2, ThinksOn
  <2> QED BY <1>4, <2>1, <2>2, <2>3, <2>4 DEF Main
<1>5. ASSUME UNCHANGED <<life, at, hand, turns, box, said>> PROVE Whole' /\ Lively'
  BY <1>5 DEF Whole, Lively, Going, Works, Waits, Did
<1>6. ASSUME NEW e \in Entities, Greeting(e) PROVE Whole' /\ Lively'
  <2>1. GreeterMoves(e)
    BY <1>6, GreeterMoved DEF Greeting, Look, GreeterMoves, Ground
  <2>2. Whole' BY <2>1 DEF Whole, GreeterMoves
  <2>3. CASE UNCHANGED <<box, said>>
    BY <1>5, <2>1, <2>3 DEF GreeterMoves
  <2>4. CASE greeter[e] \in {"post", "renew"} /\ Turn(Did(e), found[e])
    BY <2>1, <2>2, <2>4, OpensOn
  <2> QED BY <1>6, <2>3, <2>4 DEF Greeting, Look, GiveUp, Greet, GreetAgain
<1>7. ASSUME NEW e \in Entities, Start(e) PROVE Whole' /\ Lively'
  <2>1. /\ at[e] = "off" /\ life' = [life EXCEPT ![e] = life[e] + 1]
        /\ at' = [at EXCEPT ![e] = "connect"] /\ UNCHANGED <<hand, turns, box, said>>
    BY <1>7 DEF Start
  <2>2. life[e] = 0 /\ life'[e] = 1 BY <2>1 DEF Whole, Ground
  <2>3. Whole' BY <2>1, <2>2 DEF Whole, Ground
  <2>4. \A f \in Entities : at[f] \in AtWork => at'[f] \in AtWork /\ hand'[f] = hand[f]
                                             /\ life'[f] = life[f]
    BY <2>1 DEF Ground
  <2>5. \A f \in Entities : life[f] \in Nat BY DidsTyped DEF Ground
  <2> QED BY <2>1, <2>3, <2>4, <2>5, GoesOn DEF Waits
<1>8. ASSUME NEW e \in Entities, NEW o \in Outsiders, Outside(o, e) PROVE Whole' /\ Lively'
  <2>1. UNCHANGED <<life, at>> BY <1>8 DEF Outside, threadVars
  <2> QED BY <1>8, <2>1, ComesOn DEF Whole
<1>9. CASE DayPasses \/ UNCHANGED vars
  BY <1>5, <1>9 DEF DayPasses, vars, threadVars
<1> QED BY <1>1, <1>4, <1>6, <1>7, <1>8, <1>9 DEF Next

\* A failure is never taken back.
LEMMA FaultsStay ==
  ASSUME Ground, [Next]_vars
  PROVE  faults' = 0 => faults = 0
<1>1. faults \in Nat BY LiteAssumption DEF Ground
<1>2. ASSUME NEW e \in Entities, Main(e) \/ Greeting(e) \/ Start(e) PROVE faults' = faults
  BY <1>2 DEF Main, Greeting, Start, Connect, Refresh, Handle, Think, Post, PostRefused, PostAgain,
     Wake, Look, GiveUp, Greet, GreetAgain
<1>3. ASSUME NEW e \in Entities, Failure(e) PROVE faults' = faults + 1
  BY <1>3 DEF Failure, ThinkError, Silence, Stall, GreetSilence, Dies, Fault
<1>4. ASSUME NEW e \in Entities, NEW o \in Outsiders, Outside(o, e) PROVE faults' = faults
  BY <1>4 DEF Outside
<1>5. CASE DayPasses \/ UNCHANGED vars BY <1>5 DEF DayPasses, vars
<1>6. CASE faults' = faults + 1 BY ONLY <1>1, <1>6
<1>7. CASE faults' = faults BY <1>7
<1> QED BY <1>2, <1>3, <1>4, <1>5, <1>6, <1>7, Zenon DEF Next

\* Where everyone listens and nothing waits, nothing is going.
LEMMA Ended ==
  ASSUME IInv, Whole, Lively, Quiet, NEW d \in Dids, NEW p \in Dids, d # p, said[d][p] > 0
  PROVE  turns[d][p] = MaxTurns \/ turns[p][d] = MaxTurns
<1>1. ASSUME NEW a \in Dids, NEW b \in Dids PROVE ~Waits(box[a], b) /\ ~Works(a, b)
  <2>1. a[1] \in Entities /\ a[2] \in 1..MaxLives /\ a = <<a[1], a[2]>> /\ MaxLives \in Nat
    BY DidsTyped
  <2>2. at[a[1]] \in {"off", "listen"} BY <2>1 DEF Quiet, Whole
  <2>3. box[a] = << >>
    <3>1. CASE a[2] > life[a[1]] BY <3>1 DEF IInv, Numbers, Fresh
    <3>2. CASE ~(a[2] > life[a[1]])
      <4>1. life[a[1]] \in {0, 1} BY <2>1 DEF Whole
      <4>2. life[a[1]] = 1 /\ a[2] = 1 BY ONLY <2>1, <3>2, <4>1
      <4>3. at[a[1]] = "listen" BY <2>1, <2>2, <4>2 DEF Whole
      <4> QED BY <2>1, <4>2, <4>3 DEF Quiet, Did
    <3> QED BY <3>1, <3>2
  <2>4. ~Waits(<< >>, b) BY DEF Waits
  <2> QED BY <2>2, <2>3, <2>4 DEF Works, AtWork
<1> QED BY <1>1 DEF Lively, Going

\* A dialogue that nothing disturbed ends because one of the two has had all its
\* turns, and for no other reason.
THEOREM DialoguesUsedUp == Spec => []EndsByTurns
<1>1. Init => (faults = 0 => Whole /\ Lively)
  <2>1. Dids \subseteq Peers BY DidsTyped
  <2>2. Init => Whole BY DEF Init, Whole
  <2>3. Init => Lively BY <2>1 DEF Init, Lively
  <2> QED BY <2>2, <2>3
<1>2. IInv /\ IInv' /\ (faults = 0 => Whole /\ Lively) /\ [Next]_vars
        => (faults = 0 => Whole /\ Lively)'
  BY LivelyStep, FaultsStay DEF IInv
<1>3. IInv /\ (faults = 0 => Whole /\ Lively) => EndsByTurns
  BY Ended DEF EndsByTurns
<1> QED BY <1>1, <1>2, <1>3, Invariance, PTL DEF Spec

=============================================================================
