---------------------------- MODULE RadioProofs -----------------------------
(***************************************************************************)
(* Proofs about Radio, for any messages, peers, receivers and bounds. The  *)
(* inductive invariant has parts that are proved one after the other:      *)
(* types, the bridge's control and the range of the numbers (Ground), the  *)
(* order of what is on its way (Order), what the inbox remembers (Memory), *)
(* the whitelist (Heard) and the directory (Naming). Most of it needs only *)
(* which of ten kinds a step is of (StepKinds).                            *)
(***************************************************************************)
EXTENDS Radio, SequenceTheorems, TLAPS

-----------------------------------------------------------------------------
(* Ascending sequences of numbers.                                         *)

Ascending(s) == \A i, j \in DOMAIN s : i < j => s[i] < s[j]
Within(s, n) == \A i \in DOMAIN s : s[i] \in 1..n
Above(s, n) == \A i \in DOMAIN s : n < s[i]
Before(s, t) == \A i \in DOMAIN s : \A j \in DOMAIN t : s[i] < t[j]

\* What an element at the back does: it belongs, and only it is new.
LEMMA BackOf ==
  ASSUME NEW s \in Seq(Nat), NEW n \in Nat
  PROVE  /\ Append(s, n) \in Seq(Nat)
         /\ DOMAIN Append(s, n) = 1..(Len(s) + 1)
         /\ \A i \in DOMAIN s : Append(s, n)[i] = s[i]
         /\ Append(s, n)[Len(s) + 1] = n
         /\ Elements(Append(s, n)) = Elements(s) \cup {n}
<1>1. /\ Append(s, n) \in Seq(Nat) /\ Len(Append(s, n)) = Len(s) + 1
      /\ \A i \in 1..Len(s) : Append(s, n)[i] = s[i]
      /\ Append(s, n)[Len(s) + 1] = n
  BY AppendProperties
<1>2. Len(s) \in Nat /\ DOMAIN s = 1..Len(s) /\ DOMAIN Append(s, n) = 1..(Len(s) + 1)
  BY <1>1, LenProperties
<1>3. 1..(Len(s) + 1) = 1..Len(s) \cup {Len(s) + 1}
  BY <1>2
<1> QED BY <1>1, <1>2, <1>3 DEF Elements

\* A number larger than all before it keeps a sequence ascending.
LEMMA BackAscends ==
  ASSUME NEW s \in Seq(Nat), NEW n \in Nat, Ascending(s), Within(s, n)
  PROVE  Ascending(Append(s, n + 1)) /\ Within(Append(s, n + 1), n + 1)
<1>1. Len(s) \in Nat /\ DOMAIN s = 1..Len(s) BY LenProperties
<1>2. /\ DOMAIN Append(s, n + 1) = 1..(Len(s) + 1)
      /\ \A i \in DOMAIN s : Append(s, n + 1)[i] = s[i]
      /\ Append(s, n + 1)[Len(s) + 1] = n + 1
  BY BackOf
<1>3. \A i \in DOMAIN s : s[i] \in 1..n BY DEF Within
<1>4. \A i \in 1..(Len(s) + 1) : i \in DOMAIN s \/ i = Len(s) + 1 BY <1>1
<1>5. Within(Append(s, n + 1), n + 1) BY <1>2, <1>3, <1>4 DEF Within
<1>6. ASSUME NEW i \in 1..(Len(s) + 1), NEW j \in 1..(Len(s) + 1), i < j
      PROVE  Append(s, n + 1)[i] < Append(s, n + 1)[j]
  <2>1. i \in DOMAIN s BY <1>1, <1>6
  <2>2. CASE j \in DOMAIN s BY <1>2, <1>6, <2>1, <2>2 DEF Ascending
  <2>3. CASE j = Len(s) + 1 BY <1>2, <1>3, <2>1, <2>3
  <2> QED BY <1>4, <2>2, <2>3
<1> QED BY <1>2, <1>5, <1>6 DEF Ascending

\* Taking the front of an ascending sequence leaves it and what is above it.
LEMMA FrontOf ==
  ASSUME NEW s \in Seq(Nat), s # << >>
  PROVE  /\ Tail(s) \in Seq(Nat) /\ Head(s) \in Nat
         /\ 1 \in DOMAIN s /\ Head(s) = s[1]
         /\ \A i \in DOMAIN Tail(s) : i + 1 \in DOMAIN s /\ Tail(s)[i] = s[i + 1] /\ i \in Nat \ {0}
         /\ Elements(s) = {Head(s)} \cup Elements(Tail(s))
<1>1. /\ Head(s) \in Nat /\ Tail(s) \in Seq(Nat)
      /\ Len(Tail(s)) = Len(s) - 1 /\ \A i \in 1..Len(Tail(s)) : Tail(s)[i] = s[i + 1]
  BY HeadTailProperties
<1>2. /\ Len(s) \in Nat \ {0} /\ DOMAIN s = 1..Len(s) /\ DOMAIN Tail(s) = 1..(Len(s) - 1)
  BY <1>1, LenProperties, EmptySeq
<1>3. Head(s) = s[1] BY <1>2
<1>4. \A k \in 1..Len(s) : k = 1 \/ (k - 1 \in 1..(Len(s) - 1) /\ (k - 1) + 1 = k) BY <1>2
<1>5. \A k \in DOMAIN s : s[k] = Head(s) \/ s[k] \in Elements(Tail(s))
  <2> SUFFICES ASSUME NEW k \in DOMAIN s, k # 1 PROVE s[k] \in Elements(Tail(s))
    BY <1>3
  <2>1. k - 1 \in DOMAIN Tail(s) /\ Tail(s)[k - 1] = s[k] BY <1>1, <1>2, <1>4
  <2> QED BY <2>1 DEF Elements
<1>6. \A i \in DOMAIN Tail(s) : i + 1 \in DOMAIN s /\ Tail(s)[i] = s[i + 1] /\ i \in Nat \ {0}
  BY <1>1, <1>2
<1>7. 1 \in DOMAIN s BY <1>2
<1> QED BY <1>1, <1>3, <1>5, <1>6, <1>7 DEF Elements

\* Of a sequence cut short the front is left as it was.
LEMMA CutShort ==
  ASSUME NEW s \in Seq(Nat), NEW k \in 0..Len(s)
  PROVE  /\ SubSeq(s, 1, k) \in Seq(Nat)
         /\ \A i \in DOMAIN SubSeq(s, 1, k) : i \in DOMAIN s /\ SubSeq(s, 1, k)[i] = s[i]
         /\ Elements(SubSeq(s, 1, k)) \subseteq Elements(s)
         /\ k = Len(s) => SubSeq(s, 1, k) = s
<1> DEFINE t == SubSeq(s, 1, k)
<1>1. Len(s) \in Nat /\ DOMAIN s = 1..Len(s) BY LenProperties
<1>2. /\ t \in Seq(Nat) /\ Len(t) = k
      /\ \A i \in 1..k : t[i] = s[i]
  BY <1>1, SubSeqProperties
<1>3. DOMAIN t = 1..k /\ DOMAIN t \subseteq DOMAIN s BY <1>1, <1>2, LenProperties
<1>4. k = Len(s) => t = s BY <1>1, <1>2, SeqEqual
<1> QED BY <1>2, <1>3, <1>4 DEF Elements

-----------------------------------------------------------------------------
(* Types, control and the range of the numbers.                            *)

\* The bridge has a stream while it reads it, and a message while it files it.
Control ==
  /\ cur = NoStream <=> pc \in {"resolve", "receive", "refresh", "sleep", "down"}
  /\ hand = 0 <=> pc \notin {"lookup", "whitelist", "write"}

\* Whatever is on its way or written arrived.
Numbered ==
  /\ Within(queue, Len(arrivals))
  /\ \A s \in Streams : Within(pipe[s], Len(arrivals))
  /\ hand \in 0..Len(arrivals)
  /\ \A i \in DOMAIN alerts : alerts[i].at \in 1..Len(arrivals)

Ground == TypeOK /\ Control /\ Numbered

\* The name a message is filed under is a name.
LEMMA NameIsName ==
  ASSUME Ground, hand # 0
  PROVE  /\ hand \in DOMAIN arrivals /\ arrivals[hand] \in Msgs
         /\ NameOf(hand) \in Names /\ NameOf(hand)[1] = SenderOf[arrivals[hand]]
<1>1. hand \in 1..Len(arrivals) /\ arrivals \in Seq(Msgs)
  BY DEF Ground, TypeOK, InboxTypeOK, Numbered
<1>2. hand \in DOMAIN arrivals /\ arrivals[hand] \in Msgs BY <1>1, LenProperties
<1>3. SenderOf[arrivals[hand]] \in Peers BY <1>2, RadioAssumption
<1> QED BY <1>2, <1>3 DEF NameOf, Names

\* The inbox takes a message: its number is the next, and goes to the back.
LEMMA DeliverGrounded ==
  ASSUME Ground, NEW m \in Msgs, Deliver(m), UNCHANGED <<hand, alerts>>
  PROVE  /\ InboxTypeOK' /\ Numbered'
<1> USE DEF Ground
<1>1. CASE m \in seen
  BY <1>1 DEF Deliver, inboxVars, TypeOK, InboxTypeOK, Numbered, Within
<1>2. CASE m \notin seen
  <2> DEFINE n == Len(arrivals)
  <2>1. n \in Nat /\ arrivals' \in Seq(Msgs) /\ Len(arrivals') = n + 1
    <3>1. arrivals \in Seq(Msgs) BY DEF TypeOK, InboxTypeOK
    <3>2. arrivals' = Append(arrivals, m) BY <1>2 DEF Deliver
    <3> QED BY <3>1, <3>2, LenProperties, AppendProperties
  <2>2. seen' \subseteq Msgs \cup Others /\ forgotten' \subseteq Msgs
    BY <1>2 DEF Deliver, MarkSeen, TypeOK, InboxTypeOK
  <2>3. Dispatch(n + 1) /\ subs' = subs /\ alive' = alive BY <1>2 DEF Deliver
  <2>4. \A q \in Seq(Nat) : Within(q, n) => /\ Within(q, n + 1) /\ Append(q, n + 1) \in Seq(Nat)
                                           /\ Within(Append(q, n + 1), n + 1)
    <3> SUFFICES ASSUME NEW q \in Seq(Nat), Within(q, n)
                 PROVE  /\ Within(q, n + 1) /\ Append(q, n + 1) \in Seq(Nat)
                        /\ Within(Append(q, n + 1), n + 1)
      OBVIOUS
    <3>1. /\ Append(q, n + 1) \in Seq(Nat) /\ DOMAIN Append(q, n + 1) = 1..(Len(q) + 1)
          /\ \A i \in DOMAIN q : Append(q, n + 1)[i] = q[i]
          /\ Append(q, n + 1)[Len(q) + 1] = n + 1
          /\ Len(q) \in Nat /\ DOMAIN q = 1..Len(q)
      BY <2>1, BackOf, LenProperties
    <3>2. \A i \in 1..(Len(q) + 1) : i \in DOMAIN q \/ i = Len(q) + 1 BY <3>1
    <3> QED BY <2>1, <3>1, <3>2 DEF Within
  <2>5. queue \in Seq(Nat) /\ Within(queue, n) /\ pipe \in [Streams -> Seq(Nat)]
        /\ \A s \in Streams : Within(pipe[s], n)
    BY DEF TypeOK, InboxTypeOK, Numbered
  <2> HIDE DEF n
  <2>6. queue' \in Seq(Nat) /\ Within(queue', n + 1)
    BY <2>3, <2>4, <2>5 DEF Dispatch
  <2>7. pipe' \in [Streams -> Seq(Nat)] /\ \A s \in Streams : Within(pipe'[s], n + 1)
    <3>1. CASE subs = {}
      BY <2>3, <2>4, <2>5, <3>1 DEF Dispatch
    <3>2. CASE subs # {}
      <4>1. pipe' = [s \in Streams |-> IF s \in Reached THEN Append(pipe[s], n + 1) ELSE pipe[s]]
        BY <2>3, <3>2 DEF Dispatch
      <4>2. \A s \in Streams : pipe[s] \in Seq(Nat) /\ Within(pipe[s], n) BY <2>5
      <4>3. ASSUME NEW s \in Streams
            PROVE pipe'[s] \in Seq(Nat) /\ Within(pipe'[s], n + 1)
        BY <4>1, <4>2, <2>4
      <4> QED BY <4>1, <4>3
    <3> QED BY <3>1, <3>2
  <2>8. Len(arrivals') = n + 1 BY <2>1 DEF n
  <2>9. hand' \in 0..(n + 1) /\ \A i \in DOMAIN alerts' : alerts'[i].at \in 1..(n + 1)
    BY <2>1 DEF Numbered, n
  <2>10. InboxTypeOK' BY <2>1, <2>2, <2>3, <2>6, <2>7 DEF InboxTypeOK, TypeOK
  <2>11. Numbered' BY <2>6, <2>7, <2>8, <2>9 DEF Numbered
  <2> QED BY <2>10, <2>11
<1> QED BY <1>1, <1>2

-----------------------------------------------------------------------------
(* What a step does to the messages on their way: ten kinds of steps.      *)

Taken == \E m \in Msgs : Deliver(m) /\ UNCHANGED <<cur, hand, alerts>>
TakenForOther == \E key \in Others : DeliverToOther(key) /\ UNCHANGED <<cur, hand, alerts>>
Opened == \E s \in Streams : /\ Subscribe(s) /\ cur = NoStream /\ cur' = s
                             /\ hand = 0 /\ UNCHANGED <<hand, alerts>>
Drawn == /\ cur \in Streams /\ hand = 0 /\ pipe[cur] # << >>
         /\ hand' = Head(pipe[cur]) /\ pipe' = [pipe EXCEPT ![cur] = Tail(@)]
         /\ UNCHANGED <<queue, subs, seen, alive, arrivals, forgotten, cur, alerts>>
Filed == /\ cur \in Streams /\ hand # 0
         /\ alerts' = Append(alerts, [at |-> hand, name |-> NameOf(hand)])
         /\ hand' = 0 /\ UNCHANGED <<inboxVars, cur>>
Dropped == /\ cur' = NoStream /\ hand' = 0 /\ UNCHANGED <<inboxVars, alerts>>
           /\ \/ faults' > faults
              \/ pc = "lookup" /\ Expired(tok)
              \/ hand = 0 /\ cur \in Streams /\ pipe[cur] = << >>
Forgot == /\ queue' = << >> /\ subs' = {} /\ seen' = {} /\ alive' \subseteq alive
          /\ forgotten' = forgotten \cup (seen \cap Msgs) /\ faults' > faults
          /\ UNCHANGED <<pipe, arrivals, cur, hand, alerts>>
Left == \E s \in Streams : \E k \in 0..Len(pipe[s]) :
          /\ End(s, k) /\ UNCHANGED <<cur, hand, alerts>>
          /\ s # cur \/ faults' > faults \/ k = Len(pipe[s])
Reported == \E s \in Streams : Down(s) /\ UNCHANGED <<cur, hand, alerts>>
Idle == UNCHANGED <<inboxVars, cur, hand, alerts>>

Step == Taken \/ TakenForOther \/ Opened \/ Drawn \/ Filed \/ Dropped \/ Forgot \/ Left
        \/ Reported \/ Idle

\* Every step of the bridge, the node and the failures is of one of these kinds.
LEMMA StepKinds ==
  ASSUME Ground, [Next]_vars
  PROVE  Step
<1> USE DEF inboxVars, nodeVars, bridgeVars
<1>0. /\ cur = NoStream <=> pc \in {"resolve", "receive", "refresh", "sleep", "down"}
      /\ hand = 0 <=> pc \notin {"lookup", "whitelist", "write"}
      /\ cur \in Streams \cup {NoStream} /\ faults \in Nat
      /\ pipe \in [Streams -> Seq(Nat)]
  BY RadioAssumption DEF Ground, Control, TypeOK, InboxTypeOK
<1>00. \A s \in Streams : 0 \in 0..Len(pipe[s]) /\ Len(pipe[s]) \in 0..Len(pipe[s])
  <2> TAKE s \in Streams
  <2>1. pipe[s] \in Seq(Nat) BY <1>0
  <2>2. Len(pipe[s]) \in Nat BY <2>1, LenProperties
  <2> QED BY <2>2
<1>1. CASE \E m \in Msgs : SendHere(m) \/ SendFromAfar(m) \/ MeshDeliver(m)
  <2> PICK m \in Msgs : SendHere(m) \/ SendFromAfar(m) \/ MeshDeliver(m) BY <1>1
  <2>1. CASE SendHere(m) BY <2>1 DEF SendHere, Step, Taken
  <2>2. CASE SendFromAfar(m) BY <2>2 DEF SendFromAfar, Step, Idle
  <2>3. CASE MeshDeliver(m)
    <3>1. CASE meshSub BY <2>3, <3>1 DEF MeshDeliver, Step, Taken
    <3>2. CASE ~meshSub BY <2>3, <3>2 DEF MeshDeliver, Step, Idle
    <3> QED BY <3>1, <3>2
  <2> QED BY <2>1, <2>2, <2>3
<1>2. CASE Reconcile \/ TopicGone \/ DayPasses \/ ToolRefreshes \/ \E p \in Peers : Announce(p)
  BY <1>2 DEF Reconcile, TopicGone, DayPasses, ToolRefreshes, Announce, Step, Idle
<1>3. CASE OthersMail BY <1>3 DEF OthersMail, Step, TakenForOther
<1>4. CASE \E s \in Streams : NoticeGone(s) \/ ReceiverReported(s)
  <2> PICK s \in Streams : NoticeGone(s) \/ ReceiverReported(s) BY <1>4
  <2>1. CASE NoticeGone(s)
    <3>1. UNCHANGED <<cur, hand, alerts>> BY <2>1 DEF NoticeGone
    <3>2. CASE s # cur /\ End(s, 0) BY <1>00, <3>1, <3>2 DEF Step, Left
    <3>3. CASE End(s, Len(pipe[s])) BY <1>00, <3>1, <3>3 DEF Step, Left
    <3> QED BY <2>1, <3>2, <3>3 DEF NoticeGone
  <2>2. CASE ReceiverReported(s) BY <2>2 DEF ReceiverReported, Step, Reported
  <2> QED BY <2>1, <2>2
<1>5. CASE Resolve \/ Refused \/ Refresh \/ Whitelist \/ Sleep
  BY <1>5 DEF Resolve, Refused, Refresh, Whitelist, Sleep, Step, Idle
<1>6. CASE Read
  <2>1. Drawn BY <1>0, <1>6 DEF Read, Drawn
  <2> QED BY <2>1 DEF Step
<1>7. CASE Lookup
  <2>1. CASE Expired(tok) BY <1>7, <2>1 DEF Lookup, Step, Dropped
  <2>2. CASE ~Expired(tok) BY <1>7, <2>2 DEF Lookup, Step, Idle
  <2> QED BY <2>1, <2>2
<1>8. CASE WriteAlert
  <2>1. Filed BY <1>0, <1>8 DEF WriteAlert, Filed
  <2> QED BY <2>1 DEF Step
<1>9. CASE EndOfStream
  <2>1. Dropped BY <1>0, <1>9 DEF EndOfStream, Dropped
  <2> QED BY <2>1 DEF Step
<1>10. CASE Restart BY <1>10 DEF Restart, Step, Idle
<1>11. CASE \E s \in Streams : Connect(s)
  <2>1. Opened BY <1>0, <1>11 DEF Connect, Opened
  <2> QED BY <2>1 DEF Step
<1>12. CASE Cut \/ RequestFails \/ BridgeDies
  <2>1. faults' > faults BY <1>0, <1>12 DEF Cut, RequestFails, BridgeDies, Fault
  <2>2. Dropped BY <1>0, <1>12, <2>1 DEF Cut, RequestFails, BridgeDies, Dropped
  <2> QED BY <2>2 DEF Step
<1>13. CASE Stall BY <1>13 DEF Stall, Step, Idle
<1>14. CASE ReceiverDies
  <2>1. /\ cur \in Streams /\ UNCHANGED <<cur, hand, alerts>> /\ faults' > faults
        /\ \E k \in 0..Len(pipe[cur]) : End(cur, k)
    BY <1>0, <1>14 DEF ReceiverDies, Fault
  <2> QED BY <2>1 DEF Step, Left
<1>15. CASE InboxDies \/ NodeRestarts
  <2>1. faults' > faults BY <1>0, <1>15 DEF InboxDies, NodeRestarts, Fault
  <2>2. Forgot
    BY <1>15, <2>1 DEF InboxDies, NodeRestarts, ServerCrash, NodeCrash, Forgot
  <2> QED BY <2>2 DEF Step
<1>16. CASE UNCHANGED vars BY <1>16 DEF vars, Step, Idle
<1> QED
  BY <1>1, <1>2, <1>3, <1>4, <1>5, <1>6, <1>7, <1>8, <1>9, <1>10, <1>11, <1>12, <1>13,
     <1>14, <1>15, <1>16 DEF Next, Node, Bridge, Failure

-----------------------------------------------------------------------------
(* Types, control and range are kept.                                      *)

\* What the inbox and the bridge hold keeps its type and its range.
LEMMA InboxGrounded ==
  ASSUME Ground, Step
  PROVE  InboxTypeOK' /\ Numbered' /\ alerts' \in Seq([at : Nat, name : Names])
<1> USE DEF Ground
<1>0. /\ queue \in Seq(Nat) /\ pipe \in [Streams -> Seq(Nat)] /\ arrivals \in Seq(Msgs)
      /\ alerts \in Seq([at : Nat, name : Names]) /\ Len(arrivals) \in Nat
      /\ << >> \in Seq(Nat)
  BY LenProperties, EmptySeq DEF TypeOK, InboxTypeOK
<1>1. CASE Taken
  <2>1. PICK m \in Msgs : Deliver(m) /\ UNCHANGED <<hand, alerts>> BY <1>1 DEF Taken
  <2> QED BY <2>1, <1>0, DeliverGrounded
<1>2. CASE TakenForOther
  <2>1. PICK key \in Others : DeliverToOther(key) /\ UNCHANGED <<hand, alerts>>
    BY <1>2 DEF TakenForOther
  <2>2. seen' \subseteq Msgs \cup Others /\ forgotten' \subseteq Msgs
    BY <2>1 DEF DeliverToOther, MarkSeen, TypeOK, InboxTypeOK
  <2> QED BY <2>1, <2>2, <1>0 DEF DeliverToOther, TypeOK, InboxTypeOK, Numbered
<1>3. CASE Opened
  <2>1. PICK s \in Streams : Subscribe(s) /\ UNCHANGED <<hand, alerts>> BY <1>3 DEF Opened
  <2>2. pipe' \in [Streams -> Seq(Nat)]
        /\ \A t \in Streams : pipe'[t] = pipe[t] \/ pipe'[t] = queue
    BY <2>1, <1>0 DEF Subscribe
  <2>3. \A t \in Streams : Within(pipe'[t], Len(arrivals))
    BY <2>2 DEF Numbered
  <2>4. Within(<< >>, Len(arrivals)) BY DEF Within
  <2> QED BY <2>1, <2>2, <2>3, <2>4, <1>0 DEF Subscribe, TypeOK, InboxTypeOK, Numbered
<1>4. CASE Drawn
  <2>1. pipe[cur] \in Seq(Nat) /\ pipe[cur] # << >> BY <1>0, <1>4 DEF Drawn
  <2>2. /\ Tail(pipe[cur]) \in Seq(Nat) /\ 1 \in DOMAIN pipe[cur]
        /\ Head(pipe[cur]) = pipe[cur][1]
        /\ \A i \in DOMAIN Tail(pipe[cur]) : i + 1 \in DOMAIN pipe[cur]
                                             /\ Tail(pipe[cur])[i] = pipe[cur][i + 1]
    BY <2>1, FrontOf
  <2>3. Within(pipe[cur], Len(arrivals)) BY <1>4 DEF Drawn, Numbered
  <2>4. Within(Tail(pipe[cur]), Len(arrivals)) BY <2>2, <2>3 DEF Within
  <2>5. Head(pipe[cur]) \in 1..Len(arrivals) BY <2>2, <2>3 DEF Within
  <2>6. \A t \in Streams : pipe'[t] = IF t = cur THEN Tail(pipe[cur]) ELSE pipe[t]
    BY <1>0, <1>4 DEF Drawn
  <2>7. pipe' \in [Streams -> Seq(Nat)] BY <1>0, <1>4, <2>2 DEF Drawn
  <2>8. \A t \in Streams : Within(pipe'[t], Len(arrivals))
    BY <2>4, <2>6 DEF Numbered
  <2> QED BY <1>0, <1>4, <2>5, <2>7, <2>8 DEF Drawn, TypeOK, InboxTypeOK, Numbered
<1>5. CASE Filed
  <2> DEFINE a == [at |-> hand, name |-> NameOf(hand)]
  <2>1. hand \in 1..Len(arrivals) BY <1>5, <1>0 DEF Filed, Numbered
  <2>2. NameOf(hand) \in Names BY <1>5, NameIsName DEF Filed
  <2>3. a \in [at : Nat, name : Names] /\ a.at = hand BY <2>1, <2>2, <1>0
  <2>4. alerts' = Append(alerts, a) BY <1>5 DEF Filed
  <2> HIDE DEF a
  <2>5. /\ alerts' \in Seq([at : Nat, name : Names])
        /\ Len(alerts') = Len(alerts) + 1 /\ Len(alerts) \in Nat
        /\ \A i \in 1..Len(alerts) : alerts'[i] = alerts[i]
        /\ alerts'[Len(alerts) + 1] = a
        /\ DOMAIN alerts = 1..Len(alerts) /\ DOMAIN alerts' = 1..(Len(alerts) + 1)
    BY <1>0, <2>3, <2>4, AppendProperties, LenProperties
  <2>6. \A i \in DOMAIN alerts' : i \in DOMAIN alerts \/ i = Len(alerts) + 1 BY <2>5
  <2>7. \A i \in DOMAIN alerts' : alerts'[i].at \in 1..Len(arrivals)
    BY <2>1, <2>3, <2>5, <2>6 DEF Numbered
  <2>8. inboxVars' = inboxVars /\ hand' = 0 BY <1>5 DEF Filed
  <2> QED BY <1>0, <2>5, <2>7, <2>8 DEF inboxVars, TypeOK, InboxTypeOK, Numbered
<1>6. CASE Dropped
  BY <1>0, <1>6 DEF Dropped, inboxVars, TypeOK, InboxTypeOK, Numbered
<1>7. CASE Forgot
  <2>1. Within(<< >>, Len(arrivals)) BY DEF Within
  <2> QED BY <1>0, <1>7, <2>1 DEF Forgot, TypeOK, InboxTypeOK, Numbered
<1>8. CASE Left
  <2>1. PICK s \in Streams : \E k \in 0..Len(pipe[s]) : End(s, k) /\ UNCHANGED <<hand, alerts>>
    BY <1>8 DEF Left
  <2>2. PICK k \in 0..Len(pipe[s]) : End(s, k) /\ UNCHANGED <<hand, alerts>> BY <2>1
  <2>3. pipe[s] \in Seq(Nat) BY <1>0
  <2>4. /\ SubSeq(pipe[s], 1, k) \in Seq(Nat)
        /\ \A i \in DOMAIN SubSeq(pipe[s], 1, k) :
              i \in DOMAIN pipe[s] /\ SubSeq(pipe[s], 1, k)[i] = pipe[s][i]
    BY <2>2, <2>3, CutShort
  <2>5. /\ pipe' = [pipe EXCEPT ![s] = SubSeq(pipe[s], 1, k)] /\ alive' \subseteq alive
        /\ UNCHANGED <<queue, subs, seen, arrivals, forgotten, hand, alerts>>
    BY <2>2 DEF End
  <2>6. pipe' \in [Streams -> Seq(Nat)] BY <1>0, <2>4, <2>5
  <2>7. Within(SubSeq(pipe[s], 1, k), Len(arrivals)) BY <2>4 DEF Numbered, Within
  <2>8. \A t \in Streams : Within(pipe'[t], Len(arrivals)) BY <1>0, <2>5, <2>7 DEF Numbered
  <2> QED BY <1>0, <2>5, <2>6, <2>8 DEF TypeOK, InboxTypeOK, Numbered
<1>9. CASE Reported BY <1>0, <1>9 DEF Reported, Down, TypeOK, InboxTypeOK, Numbered
<1>10. CASE Idle BY <1>0, <1>10 DEF Idle, inboxVars, TypeOK, InboxTypeOK, Numbered
<1> QED BY <1>1, <1>2, <1>3, <1>4, <1>5, <1>6, <1>7, <1>8, <1>9, <1>10 DEF Step

\* The rest of the types and the bridge's control, action by action.
NodeTypes ==
  /\ registered \in BOOLEAN /\ meshSub \in BOOLEAN /\ restarted \in BOOLEAN
  /\ known \subseteq Peers /\ met \subseteq Peers /\ copies \in [Msgs -> 0..MaxCopies] /\ sent \subseteq Msgs
  /\ day \in 0..LastDay /\ fileTok \in 0..day /\ faults \in 0..MaxFaults

BridgeTypes ==
  /\ tok \in 0..day /\ byDid \subseteq Peers
  /\ pc \in Places /\ cur \in Streams \cup {NoStream} /\ white \subseteq Names

\* The node's steps.
LEMMA NodeGrounded ==
  ASSUME Ground, Node
  PROVE  NodeTypes' /\ BridgeTypes' /\ Control'
<1> USE DEF Ground, inboxVars, nodeVars, bridgeVars
<1>0. /\ NodeTypes /\ BridgeTypes /\ Control /\ day \in Nat /\ LastDay \in Nat
      /\ tok \in Nat /\ tok <= day /\ fileTok \in Nat /\ fileTok <= day
  BY RadioAssumption DEF NodeTypes, BridgeTypes, TypeOK
<1>1. CASE \E m \in Msgs : SendHere(m) \/ SendFromAfar(m)
  <2>1. PICK m \in Msgs : SendHere(m) \/ SendFromAfar(m) BY <1>1
  <2>2. /\ UNCHANGED <<registered, known, met, meshSub, day, restarted, faults, fileTok, bridgeVars>>
        /\ sent' = sent \cup {m}
        /\ \E n \in 0..MaxCopies : copies' = [copies EXCEPT ![m] = n]
    BY <2>1 DEF SendHere, SendFromAfar
  <2>3. copies' \in [Msgs -> 0..MaxCopies] BY <1>0, <2>2 DEF NodeTypes
  <2> QED BY <1>0, <2>2, <2>3 DEF NodeTypes, BridgeTypes, Control
<1>2. CASE \E m \in Msgs : MeshDeliver(m)
  <2>1. PICK m \in Msgs : MeshDeliver(m) BY <1>2
  <2>2. copies[m] \in 0..MaxCopies /\ copies[m] > 0 /\ copies' = [copies EXCEPT ![m] = copies[m] - 1]
    BY <1>0, <2>1 DEF NodeTypes, MeshDeliver
  <2>3. copies[m] - 1 \in 0..MaxCopies BY <2>2, RadioAssumption
  <2>4. copies' \in [Msgs -> 0..MaxCopies] BY <1>0, <2>2, <2>3 DEF NodeTypes
  <2>5. UNCHANGED <<registered, known, met, meshSub, sent, day, restarted, faults, fileTok, bridgeVars>>
    BY <2>1 DEF MeshDeliver
  <2> QED BY <1>0, <2>4, <2>5 DEF NodeTypes, BridgeTypes, Control
<1>3. CASE Reconcile \/ TopicGone \/ \E p \in Peers : Announce(p)
  BY <1>0, <1>3 DEF Reconcile, TopicGone, Announce, Rivals, NodeTypes, BridgeTypes, Control
<1>4. CASE OthersMail \/ \E s \in Streams : NoticeGone(s) \/ ReceiverReported(s)
  BY <1>0, <1>4 DEF OthersMail, NoticeGone, ReceiverReported, NodeTypes, BridgeTypes, Control
<1>5. CASE DayPasses
  <2>1. /\ day' = day + 1 /\ day' <= LastDay
        /\ UNCHANGED <<registered, known, met, meshSub, copies, sent, restarted, faults, fileTok, bridgeVars>>
    BY <1>0, <1>5 DEF DayPasses
  <2>2. day' \in 0..LastDay /\ tok' \in 0..day' /\ fileTok' \in 0..day' BY <1>0, <2>1
  <2> QED BY <1>0, <2>1, <2>2 DEF NodeTypes, BridgeTypes, Control
<1>6. CASE ToolRefreshes
  BY <1>0, <1>6 DEF ToolRefreshes, NodeTypes, BridgeTypes, Control
<1> QED BY <1>1, <1>2, <1>3, <1>4, <1>5, <1>6 DEF Node

\* The bridge's steps.
LEMMA BridgeGrounded ==
  ASSUME Ground, Bridge
  PROVE  NodeTypes' /\ BridgeTypes' /\ Control'
<1> USE DEF Ground, inboxVars, nodeVars, bridgeVars
<1>0. /\ NodeTypes /\ BridgeTypes /\ Control /\ day \in Nat /\ NoStream \notin Streams
      /\ tok \in Nat /\ tok <= day /\ fileTok \in Nat /\ fileTok <= day
  BY RadioAssumption DEF NodeTypes, BridgeTypes, TypeOK
<1>1. CASE Resolve \/ Refused \/ Sleep \/ Restart
  <2>1. UNCHANGED <<registered, meshSub, restarted, known, met, copies, sent, day, fileTok, faults>>
    BY <1>1 DEF Resolve, Refused, Sleep, Restart
  <2>2. NodeTypes' BY <1>0, <2>1 DEF NodeTypes
  <2>3. BridgeTypes'
    BY <1>0, <1>1 DEF Resolve, Refused, Sleep, Restart, BridgeTypes, NodeTypes, Places
  <2>4. Control' BY <1>0, <1>1 DEF Resolve, Refused, Sleep, Restart, Control
  <2> QED BY <2>2, <2>3, <2>4
<1>2. CASE Refresh
  BY <1>0, <1>2 DEF Refresh, NodeTypes, BridgeTypes, Control, Places
<1>3. CASE Read
  <2>1. UNCHANGED <<registered, meshSub, restarted, known, met, copies, sent, day, fileTok, faults>>
    BY <1>3 DEF Read
  <2>2. NodeTypes' BY <1>0, <2>1 DEF NodeTypes
  <2>3. pc = "reading" /\ pc' \in {"whitelist", "lookup"} /\ UNCHANGED <<tok, byDid, cur, white>>
    BY <1>3 DEF Read
  <2>4. BridgeTypes' BY <1>0, <2>1, <2>3 DEF BridgeTypes, Places
  <2>5. hand' = Head(pipe[cur]) /\ cur \in Streams /\ pipe[cur] # << >>
    BY <1>0, <1>3 DEF Read, Control, BridgeTypes
  <2>6. pipe[cur] \in Seq(Nat) /\ Within(pipe[cur], Len(arrivals))
    BY <2>5 DEF TypeOK, InboxTypeOK, Numbered
  <2>7. 1 \in DOMAIN pipe[cur] /\ Head(pipe[cur]) = pipe[cur][1]
    BY <2>5, <2>6, FrontOf
  <2>8. Len(arrivals) \in Nat BY LenProperties DEF TypeOK, InboxTypeOK
  <2>9. hand' # 0 BY <2>5, <2>6, <2>7, <2>8 DEF Within
  <2>10. Control' BY <1>0, <2>3, <2>9 DEF Control
  <2> QED BY <2>2, <2>4, <2>10
<1>4. CASE Lookup
  <2>1. UNCHANGED <<registered, meshSub, restarted, known, met, copies, sent, day, fileTok, faults>>
    BY <1>4 DEF Lookup
  <2>2. NodeTypes' BY <1>0, <2>1 DEF NodeTypes
  <2>3. BridgeTypes' BY <1>0, <1>4 DEF Lookup, BridgeTypes, NodeTypes, Places
  <2>4. Control' BY <1>0, <1>4 DEF Lookup, Control
  <2> QED BY <2>2, <2>3, <2>4
<1>5. CASE Whitelist
  <2>1. NameOf(hand) \in Names BY <1>0, <1>5, NameIsName DEF Whitelist, Control
  <2> QED BY <1>0, <1>5, <2>1 DEF Whitelist, NodeTypes, BridgeTypes, Control, Places
<1>6. CASE WriteAlert
  BY <1>0, <1>6 DEF WriteAlert, NodeTypes, BridgeTypes, Control, Places
<1>7. CASE EndOfStream
  BY <1>0, <1>7 DEF EndOfStream, NodeTypes, BridgeTypes, Control, Places
<1>8. CASE \E s \in Streams : Connect(s)
  BY <1>0, <1>8 DEF Connect, NodeTypes, BridgeTypes, Control, Places
<1> QED BY <1>1, <1>2, <1>3, <1>4, <1>5, <1>6, <1>7, <1>8 DEF Bridge

\* The failures.
LEMMA FailureGrounded ==
  ASSUME Ground, Failure
  PROVE  NodeTypes' /\ BridgeTypes' /\ Control'
<1> USE DEF Ground, inboxVars, nodeVars, bridgeVars
<1>0. /\ NodeTypes /\ BridgeTypes /\ Control /\ NoStream \notin Streams
  BY RadioAssumption DEF NodeTypes, BridgeTypes, TypeOK
<1>1. faults' \in 0..MaxFaults
  <2>1. Fault BY DEF Failure, Cut, Stall, RequestFails, BridgeDies, ReceiverDies, InboxDies, NodeRestarts
  <2> QED BY <1>0, <2>1, RadioAssumption DEF Fault, NodeTypes
<1>2. UNCHANGED <<met, copies, sent, day, fileTok, tok, byDid, white>>
  BY DEF Failure, Cut, Stall, RequestFails, BridgeDies, ReceiverDies, InboxDies, NodeRestarts
<1>3. /\ known' \subseteq known /\ registered' \in BOOLEAN
      /\ meshSub' \in BOOLEAN /\ restarted' \in BOOLEAN
  BY <1>0 DEF NodeTypes, Failure, Cut, Stall, RequestFails, BridgeDies, ReceiverDies, InboxDies,
              NodeRestarts
<1>4. NodeTypes' BY <1>0, <1>1, <1>2, <1>3 DEF NodeTypes
<1>5. pc' \in Places /\ cur' \in Streams \cup {NoStream} /\ Control'
  <2>1. CASE Cut BY <1>0, <2>1 DEF Cut, BridgeTypes, Control, Places
  <2>2. CASE Stall BY <1>0, <2>2 DEF Stall, BridgeTypes, Control, Places
  <2>3. CASE RequestFails \/ BridgeDies
    BY <1>0, <2>3 DEF RequestFails, BridgeDies, BridgeTypes, Control, Places
  <2>4. CASE ReceiverDies \/ InboxDies \/ NodeRestarts
    BY <1>0, <2>4 DEF ReceiverDies, InboxDies, NodeRestarts, BridgeTypes, Control
  <2> QED BY <2>1, <2>2, <2>3, <2>4 DEF Failure
<1> QED BY <1>0, <1>2, <1>4, <1>5 DEF BridgeTypes

\* Together.
LEMMA GroundKept ==
  ASSUME Ground, [Next]_vars
  PROVE  Ground'
<1>1. Step BY StepKinds
<1>2. InboxTypeOK' /\ Numbered' /\ alerts' \in Seq([at : Nat, name : Names])
  BY <1>1, InboxGrounded
<1>3. NodeTypes' /\ BridgeTypes' /\ Control'
  <2>1. CASE Next BY <2>1, NodeGrounded, BridgeGrounded, FailureGrounded DEF Next
  <2>2. CASE UNCHANGED vars
    BY <2>2 DEF vars, inboxVars, nodeVars, bridgeVars, Ground, TypeOK, NodeTypes, BridgeTypes, Control
  <2> QED BY <2>1, <2>2
<1>4. hand' \in Nat
  <2>1. Len(arrivals') \in Nat BY <1>2, LenProperties DEF InboxTypeOK
  <2> QED BY <1>2, <2>1 DEF Numbered
<1> QED BY <1>2, <1>3, <1>4 DEF Ground, TypeOK, NodeTypes, BridgeTypes

\* And true at first.
LEMMA GroundAtFirst ==
  ASSUME Init
  PROVE  Ground
<1>1. << >> \in Seq(Nat) /\ << >> \in Seq(Msgs) /\ << >> \in Seq([at : Nat, name : Names])
      /\ Len(<< >>) = 0
  BY EmptySeq
<1>2. InboxTypeOK BY <1>1 DEF Init, InboxInit, InboxTypeOK
<1>3. TypeOK
  <2>1. /\ registered \in BOOLEAN /\ meshSub \in BOOLEAN /\ restarted \in BOOLEAN
        /\ known \subseteq Peers /\ met \subseteq Peers /\ byDid \subseteq Peers /\ sent \subseteq Msgs
        /\ white \subseteq Names /\ hand \in Nat
    BY DEF Init
  <2>2. copies \in [Msgs -> 0..MaxCopies] BY RadioAssumption DEF Init
  <2>3. day \in 0..LastDay /\ tok \in 0..day /\ fileTok \in 0..day /\ faults \in 0..MaxFaults
    BY RadioAssumption DEF Init
  <2>4. pc \in Places /\ cur \in Streams \cup {NoStream} BY DEF Init, Places
  <2>5. alerts \in Seq([at : Nat, name : Names]) BY <1>1 DEF Init
  <2> QED BY <1>2, <2>1, <2>2, <2>3, <2>4, <2>5 DEF TypeOK
<1>4. Numbered BY <1>1 DEF Init, InboxInit, Numbered, Within
<1>5. Control BY DEF Init, Control
<1> QED BY <1>3, <1>4, <1>5 DEF Ground

\* Every variable of the bridge and the node keeps its type.
THEOREM TypeCorrect == Spec => []TypeOK
<1>1. Init => Ground BY GroundAtFirst
<1>2. Ground /\ [Next]_vars => Ground' BY GroundKept
<1>3. Ground => TypeOK BY DEF Ground
<1> QED BY <1>1, <1>2, <1>3, PTL DEF Spec

-----------------------------------------------------------------------------
(* The order of the numbers on their way: what is written comes before the *)
(* message in hand, that before the stream, and the stream before the      *)
(* queue. While anyone is subscribed the queue is empty, so that a message *)
(* that is sent to receivers never overtakes one that waits.               *)

\* Everything on its way is behind number n.
Behind(n) == Above(queue, n) /\ (cur # NoStream => Above(pipe[cur], n))

Sorted ==
  /\ Ascending(queue) /\ \A s \in Streams : Ascending(pipe[s])
  /\ cur # NoStream => Before(pipe[cur], queue)
  /\ subs # {} => queue = << >>

Ranked ==
  /\ hand # 0 => Behind(hand)
  /\ \A i \in DOMAIN alerts : Behind(alerts[i].at) /\ (hand # 0 => alerts[i].at < hand)

Order == Sorted /\ Ranked /\ InOrder

\* What is above a number stays above it when the next message joins at the back.
LEMMA BackAbove ==
  ASSUME NEW s \in Seq(Nat), NEW n \in Nat, NEW k \in 0..n, Above(s, k)
  PROVE  Above(Append(s, n + 1), k)
<1>1. /\ DOMAIN Append(s, n + 1) = 1..(Len(s) + 1) /\ DOMAIN s = 1..Len(s) /\ Len(s) \in Nat
      /\ \A i \in DOMAIN s : Append(s, n + 1)[i] = s[i]
      /\ Append(s, n + 1)[Len(s) + 1] = n + 1
  BY BackOf, LenProperties
<1>2. \A i \in 1..(Len(s) + 1) : i \in DOMAIN s \/ i = Len(s) + 1 BY <1>1
<1> QED BY <1>1, <1>2 DEF Above

\* A sequence within n comes before one that the next message joins.
LEMMA BackBefore ==
  ASSUME NEW s \in Seq(Nat), NEW n \in Nat, NEW t \in Seq(Nat), Within(t, n), Before(t, s)
  PROVE  Before(t, Append(s, n + 1))
<1>1. /\ DOMAIN Append(s, n + 1) = 1..(Len(s) + 1) /\ DOMAIN s = 1..Len(s) /\ Len(s) \in Nat
      /\ \A i \in DOMAIN s : Append(s, n + 1)[i] = s[i]
      /\ Append(s, n + 1)[Len(s) + 1] = n + 1
  BY BackOf, LenProperties
<1>2. \A i \in 1..(Len(s) + 1) : i \in DOMAIN s \/ i = Len(s) + 1 BY <1>1
<1> QED BY <1>1, <1>2 DEF Before, Within

\* The front of an ascending sequence is before the rest.
LEMMA FrontAscends ==
  ASSUME NEW s \in Seq(Nat), s # << >>, Ascending(s)
  PROVE  Ascending(Tail(s)) /\ Above(Tail(s), Head(s))
<1>1. /\ 1 \in DOMAIN s /\ Head(s) = s[1]
      /\ \A i \in DOMAIN Tail(s) : i + 1 \in DOMAIN s /\ Tail(s)[i] = s[i + 1] /\ i \in Nat \ {0}
  BY FrontOf
<1>2. \A i \in DOMAIN Tail(s) : 1 < i + 1 BY <1>1
<1>3. \A i, j \in DOMAIN Tail(s) : i < j => i + 1 < j + 1 BY <1>1
<1>4. Above(Tail(s), Head(s)) BY <1>1, <1>2 DEF Above, Ascending
<1>5. Ascending(Tail(s)) BY <1>1, <1>3 DEF Ascending
<1> QED BY <1>4, <1>5

\* The numbers, as the steps below use them.
LEMMA Numbers ==
  ASSUME Ground
  PROVE  /\ Len(arrivals) \in Nat /\ queue \in Seq(Nat) /\ pipe \in [Streams -> Seq(Nat)]
         /\ Within(queue, Len(arrivals)) /\ \A s \in Streams : Within(pipe[s], Len(arrivals))
         /\ cur \in Streams \cup {NoStream} /\ NoStream \notin Streams /\ subs \subseteq Streams
         /\ hand \in 0..Len(arrivals)
         /\ \A i \in DOMAIN alerts : alerts[i].at \in 1..Len(arrivals)
         /\ hand # 0 => cur # NoStream
         /\ arrivals \in Seq(Msgs)
BY LenProperties, RadioAssumption DEF Ground, TypeOK, InboxTypeOK, Numbered, Control

\* A message is taken: it goes behind all others.
LEMMA TakenInOrder ==
  ASSUME Ground, Order, Taken
  PROVE  Order'
<1> DEFINE n == Len(arrivals)
<1>1. PICK m \in Msgs : Deliver(m) /\ UNCHANGED <<cur, hand, alerts>> BY DEF Taken
<1>2. CASE m \in seen
  BY <1>1, <1>2 DEF Deliver, inboxVars, Order, Sorted, Ranked, Behind, InOrder
<1>3. CASE m \notin seen
  <2>1. Dispatch(n + 1) /\ subs' = subs BY <1>1, <1>3 DEF Deliver
  <2>2. /\ n \in Nat /\ queue \in Seq(Nat) /\ pipe \in [Streams -> Seq(Nat)]
        /\ Within(queue, n) /\ \A s \in Streams : Within(pipe[s], n)
        /\ cur \in Streams \cup {NoStream} /\ NoStream \notin Streams
        /\ hand \in 0..n /\ \A i \in DOMAIN alerts : alerts[i].at \in 0..n
    BY Numbers
  <2> HIDE DEF n
  <2>3. \A k \in 0..n : Behind(k) => Behind(k)'
    <3> SUFFICES ASSUME NEW k \in 0..n, Behind(k) PROVE Behind(k)' OBVIOUS
    <3>1. Above(queue', k) BY <2>1, <2>2, BackAbove DEF Dispatch, Behind
    <3>2. cur # NoStream => Above(pipe'[cur], k)
      <4> SUFFICES ASSUME cur # NoStream PROVE Above(pipe'[cur], k) OBVIOUS
      <4>1. cur \in Streams /\ pipe[cur] \in Seq(Nat) /\ Above(pipe[cur], k) BY <2>2 DEF Behind
      <4>2. pipe'[cur] = pipe[cur] \/ pipe'[cur] = Append(pipe[cur], n + 1)
        BY <2>1, <4>1 DEF Dispatch
      <4> QED BY <2>2, <4>1, <4>2, BackAbove
    <3> QED BY <1>1, <3>1, <3>2 DEF Behind
  <2>4. Ranked' BY <1>1, <2>2, <2>3 DEF Order, Ranked
  <2>5. Ascending(queue') BY <2>1, <2>2, BackAscends DEF Dispatch, Order, Sorted
  <2>6. ASSUME NEW s \in Streams PROVE Ascending(pipe'[s])
    <3>1. pipe[s] \in Seq(Nat) /\ Ascending(pipe[s]) /\ Within(pipe[s], n) BY <2>2 DEF Order, Sorted
    <3>2. pipe'[s] = pipe[s] \/ pipe'[s] = Append(pipe[s], n + 1) BY <2>1 DEF Dispatch
    <3> QED BY <2>2, <3>1, <3>2, BackAscends
  <2>7. cur # NoStream => Before(pipe'[cur], queue')
    <3>1. CASE subs = {}
      <4>1. queue' = Append(queue, n + 1) /\ pipe' = pipe BY <2>1, <3>1 DEF Dispatch
      <4>2. cur # NoStream => pipe[cur] \in Seq(Nat) /\ Within(pipe[cur], n) /\ Before(pipe[cur], queue)
        BY <2>2 DEF Order, Sorted
      <4> QED BY <2>2, <4>1, <4>2, BackBefore
    <3>2. CASE subs # {}
      <4>1. queue' = << >> BY <2>1, <3>2 DEF Dispatch, Order, Sorted
      <4> QED BY <4>1 DEF Before
    <3> QED BY <3>1, <3>2
  <2>8. subs' # {} => queue' = << >> BY <2>1 DEF Dispatch, Order, Sorted
  <2>9. Sorted' BY <1>1, <2>5, <2>6, <2>7, <2>8 DEF Sorted
  <2>10. InOrder' BY <1>1 DEF Order, InOrder
  <2> QED BY <2>4, <2>9, <2>10 DEF Order
<1> QED BY <1>2, <1>3

\* The next message of the stream comes into the bridge's hand.
LEMMA DrawnInOrder ==
  ASSUME Ground, Order, Drawn
  PROVE  Order'
<1> DEFINE p == pipe[cur]
<1>1. /\ cur \in Streams /\ p \in Seq(Nat) /\ p # << >> /\ Ascending(p) /\ Before(p, queue)
      /\ hand = 0 /\ hand' = Head(p) /\ UNCHANGED <<queue, subs, cur, alerts>>
      /\ pipe' = [pipe EXCEPT ![cur] = Tail(p)] /\ pipe \in [Streams -> Seq(Nat)]
      /\ cur # NoStream
  BY Numbers DEF Drawn, Order, Sorted
<1> HIDE DEF p
<1>2. /\ Head(p) \in Nat /\ 1 \in DOMAIN p /\ Head(p) = p[1]
      /\ \A i \in DOMAIN Tail(p) : i + 1 \in DOMAIN p /\ Tail(p)[i] = p[i + 1]
  BY <1>1, FrontOf
<1>3. Ascending(Tail(p)) /\ Above(Tail(p), Head(p)) BY <1>1, FrontAscends
<1>4. /\ pipe'[cur] = Tail(p) /\ \A s \in Streams : s # cur => pipe'[s] = pipe[s] BY <1>1
<1>5. Before(Tail(p), queue) /\ Above(queue, Head(p)) BY <1>1, <1>2 DEF Before, Above
<1>6. \A k : Above(p, k) => Above(Tail(p), k) /\ k < Head(p) BY <1>2 DEF Above
<1>7. Sorted' BY <1>1, <1>3, <1>4, <1>5 DEF Order, Sorted
<1>8. Behind(hand)' BY <1>1, <1>3, <1>4, <1>5 DEF Behind
<1>9. ASSUME NEW i \in DOMAIN alerts
      PROVE  Behind(alerts[i].at)' /\ alerts[i].at < hand'
  <2>1. Above(queue, alerts[i].at) /\ Above(p, alerts[i].at)
    BY <1>1 DEF Order, Ranked, Behind, p
  <2> QED BY <1>1, <1>4, <1>6, <2>1 DEF Behind
<1>10. Ranked' BY <1>1, <1>8, <1>9 DEF Ranked
<1>11. InOrder' BY <1>1 DEF Order, InOrder
<1> QED BY <1>7, <1>10, <1>11 DEF Order

\* The message in hand becomes the last alert.
LEMMA FiledInOrder ==
  ASSUME Ground, Order, Filed
  PROVE  Order'
<1> DEFINE a == [at |-> hand, name |-> NameOf(hand)]
<1>1. alerts \in Seq([at : Nat, name : Names]) /\ NameOf(hand) \in Names /\ hand \in Nat /\ hand # 0
  BY NameIsName DEF Filed, Ground, TypeOK
<1>2. a \in [at : Nat, name : Names] /\ a.at = hand BY <1>1
<1>3. alerts' = Append(alerts, a) /\ hand' = 0 /\ UNCHANGED <<queue, subs, pipe, cur>>
  BY DEF Filed, inboxVars
<1> HIDE DEF a
<1>4. /\ Len(alerts) \in Nat /\ DOMAIN alerts = 1..Len(alerts) /\ DOMAIN alerts' = 1..(Len(alerts) + 1)
      /\ \A i \in DOMAIN alerts : alerts'[i] = alerts[i]
      /\ alerts'[Len(alerts) + 1] = a
  BY <1>1, <1>2, <1>3, AppendProperties, LenProperties
<1>5. \A i \in DOMAIN alerts' : i \in DOMAIN alerts \/ i = Len(alerts) + 1 BY <1>4
<1>6. Sorted' BY <1>3 DEF Order, Sorted
<1>7. \A k : Behind(k) => Behind(k)' BY <1>3 DEF Behind
<1>8. Behind(hand) /\ \A i \in DOMAIN alerts : Behind(alerts[i].at) /\ alerts[i].at < hand
  BY <1>1 DEF Order, Ranked
<1>9. Ranked' BY <1>2, <1>3, <1>4, <1>5, <1>7, <1>8 DEF Ranked
<1>10. ASSUME NEW i \in DOMAIN alerts', NEW j \in DOMAIN alerts', i < j
       PROVE  alerts'[i].at < alerts'[j].at
  <2>1. i \in DOMAIN alerts BY <1>4, <1>10
  <2>2. CASE j \in DOMAIN alerts BY <1>4, <1>10, <2>1, <2>2 DEF Order, InOrder
  <2>3. CASE j = Len(alerts) + 1 BY <1>2, <1>4, <1>8, <2>1, <2>3
  <2> QED BY <1>5, <2>2, <2>3
<1>11. InOrder' BY <1>10 DEF InOrder
<1> QED BY <1>6, <1>9, <1>11 DEF Order

\* The other kinds of steps hand the queue over whole or take away.
LEMMA OrderKept ==
  ASSUME Ground, Order, [Next]_vars
  PROVE  Order'
<1>1. Step BY StepKinds
<1>2. CASE Taken BY <1>2, TakenInOrder
<1>3. CASE TakenForOther
  BY <1>3 DEF TakenForOther, DeliverToOther, Order, Sorted, Ranked, Behind, InOrder
<1>4. CASE Opened
  <2>1. PICK s \in Streams : /\ Subscribe(s) /\ cur = NoStream /\ cur' = s
                             /\ hand = 0 /\ UNCHANGED <<hand, alerts>>
    BY <1>4 DEF Opened
  <2>2. /\ queue' = << >> /\ pipe'[s] = queue /\ \A t \in Streams : t # s => pipe'[t] = pipe[t]
    BY <2>1, Numbers DEF Subscribe
  <2>3. Ascending(<< >>) /\ Before(queue, << >>) /\ \A k : Above(<< >>, k)
    BY DEF Ascending, Before, Above
  <2>4. Sorted' BY <2>1, <2>2, <2>3 DEF Order, Sorted
  <2>5. \A k : Behind(k) => Behind(k)' BY <2>1, <2>2, <2>3 DEF Behind
  <2>6. Ranked' BY <2>1, <2>5 DEF Order, Ranked
  <2> QED BY <2>1, <2>4, <2>6 DEF Order, InOrder
<1>5. CASE Drawn BY <1>5, DrawnInOrder
<1>6. CASE Filed BY <1>6, FiledInOrder
<1>7. CASE Dropped
  <2>1. cur' = NoStream /\ hand' = 0 /\ UNCHANGED <<queue, subs, pipe, alerts>>
    BY <1>7 DEF Dropped, inboxVars
  <2> QED BY <2>1 DEF Order, Sorted, Ranked, Behind, InOrder
<1>8. CASE Forgot
  <2>1. Ascending(<< >>) /\ \A k : Above(<< >>, k) /\ Before(k, << >>) BY DEF Ascending, Before, Above
  <2>2. queue' = << >> /\ subs' = {} /\ UNCHANGED <<pipe, cur, hand, alerts>> BY <1>8 DEF Forgot
  <2>3. \A k : Behind(k) => Behind(k)' BY <2>1, <2>2 DEF Behind
  <2>4. Sorted' BY <2>1, <2>2 DEF Order, Sorted
  <2>5. Ranked' BY <2>2, <2>3 DEF Order, Ranked
  <2> QED BY <2>2, <2>4, <2>5 DEF Order, InOrder
<1>9. CASE Left
  <2>1. PICK s \in Streams : \E k \in 0..Len(pipe[s]) : End(s, k) /\ UNCHANGED <<cur, hand, alerts>>
    BY <1>9 DEF Left
  <2>2. PICK k \in 0..Len(pipe[s]) : End(s, k) /\ UNCHANGED <<cur, hand, alerts>> BY <2>1
  <2>3. pipe[s] \in Seq(Nat) /\ pipe \in [Streams -> Seq(Nat)] BY Numbers
  <2> DEFINE t == SubSeq(pipe[s], 1, k)
  <2>4. \A i \in DOMAIN t : i \in DOMAIN pipe[s] /\ t[i] = pipe[s][i] BY <2>2, <2>3, CutShort
  <2>5. pipe' = [pipe EXCEPT ![s] = t] /\ UNCHANGED <<queue, subs, cur, hand, alerts>>
    BY <2>2 DEF End
  <2> HIDE DEF t
  <2>6. /\ Ascending(pipe[s]) => Ascending(t)
        /\ \A q : Before(pipe[s], q) => Before(t, q)
        /\ \A n : Above(pipe[s], n) => Above(t, n)
    BY <2>4 DEF Ascending, Before, Above
  <2>7. \A r \in Streams : pipe'[r] = IF r = s THEN t ELSE pipe[r] BY <2>3, <2>5
  <2>8. cur \in Streams \cup {NoStream} BY Numbers
  <2>9. Sorted' BY <2>5, <2>6, <2>7, <2>8 DEF Order, Sorted
  <2>10. \A n : Behind(n) => Behind(n)' BY <2>5, <2>6, <2>7, <2>8 DEF Behind
  <2>11. Ranked' BY <2>5, <2>10 DEF Order, Ranked
  <2> QED BY <2>5, <2>9, <2>11 DEF Order, InOrder
<1>10. CASE Reported
  <2>1. subs' \subseteq subs /\ UNCHANGED <<queue, pipe, cur, hand, alerts>> BY <1>10 DEF Reported, Down
  <2> QED BY <2>1 DEF Order, Sorted, Ranked, Behind, InOrder
<1>11. CASE Idle BY <1>11 DEF Idle, inboxVars, Order, Sorted, Ranked, Behind, InOrder
<1> QED BY <1>1, <1>2, <1>3, <1>4, <1>5, <1>6, <1>7, <1>8, <1>9, <1>10, <1>11 DEF Step

\* At first nothing is on its way.
LEMMA OrderAtFirst ==
  ASSUME Init
  PROVE  Order
BY DEF Init, InboxInit, Order, Sorted, Ranked, Behind, InOrder, Ascending, Before, Above

\* Alerts are written in the order their messages reached the inbox, over any
\* number of reconnections, receivers and crashes.
THEOREM AlertsInOrder == Spec => []InOrder
<1> DEFINE Inv == Ground /\ Order
<1>1. Init => Inv BY GroundAtFirst, OrderAtFirst
<1>2. Inv /\ [Next]_vars => Inv' BY GroundKept, OrderKept
<1>3. Inv => InOrder BY DEF Order
<1> QED BY <1>1, <1>2, <1>3, PTL DEF Spec

-----------------------------------------------------------------------------
(* What a kind of step does to the messages on their way.                  *)

OnStream == IF cur = NoStream THEN {} ELSE Elements(pipe[cur])

\* Only the last number can join, if the inbox takes a message; without one
\* that is new nothing moves.
LEMMA TakenUnderway ==
  ASSUME Ground, Taken
  PROVE  \/ /\ Len(arrivals') = Len(arrivals) + 1
            /\ Underway' \in {Underway, Underway \cup {Len(arrivals) + 1}}
            /\ ~StaleReceivers => Len(arrivals) + 1 \in Underway'
         \/ Len(arrivals') = Len(arrivals) /\ Underway' = Underway
<1> DEFINE n == Len(arrivals)
<1>1. PICK m \in Msgs : Deliver(m) /\ UNCHANGED <<cur, hand, alerts>> BY DEF Taken
<1>2. CASE m \in seen BY <1>1, <1>2 DEF Deliver, inboxVars, Underway
<1>3. CASE m \notin seen
  <2>1. Dispatch(n + 1) /\ arrivals' = Append(arrivals, m) BY <1>1, <1>3 DEF Deliver
  <2>2. /\ n \in Nat /\ queue \in Seq(Nat) /\ pipe \in [Streams -> Seq(Nat)]
        /\ cur \in Streams \cup {NoStream} /\ NoStream \notin Streams /\ subs \subseteq Streams
        /\ arrivals \in Seq(Msgs)
    BY Numbers
  <2>3. Len(arrivals') = n + 1 BY <2>1, <2>2, AppendProperties
  <2> HIDE DEF n
  <2>4. CASE subs = {}
    <3>1. queue' = Append(queue, n + 1) /\ pipe' = pipe BY <2>1, <2>4 DEF Dispatch
    <3>2. Elements(queue') = Elements(queue) \cup {n + 1} BY <2>2, <3>1, BackOf
    <3>3. Underway' = Underway \cup {n + 1}
      <4>1. OnStream' = OnStream BY <1>1, <3>1 DEF OnStream, Elements
      <4> QED BY <1>1, <3>2, <4>1 DEF Underway, OnStream
    <3> QED BY <2>3, <3>3 DEF n
  <2>5. CASE subs # {}
    <3>1. queue' = queue /\ pipe' = [s \in Streams |-> IF s \in Reached THEN Append(pipe[s], n + 1) ELSE pipe[s]]
      BY <2>1, <2>5 DEF Dispatch
    <3>2. CASE cur \in Reached
      <4>1. pipe'[cur] = Append(pipe[cur], n + 1) /\ pipe[cur] \in Seq(Nat) /\ cur # NoStream
        BY <2>2, <3>1, <3>2 DEF Reached
      <4>2. Elements(pipe'[cur]) = Elements(pipe[cur]) \cup {n + 1} BY <2>2, <4>1, BackOf
      <4>3. Underway' = Underway \cup {n + 1}
        <5>1. OnStream' = OnStream \cup {n + 1} BY <1>1, <4>1, <4>2 DEF OnStream
        <5> QED BY <1>1, <3>1, <5>1 DEF Underway, OnStream
      <4> QED BY <2>3, <4>3 DEF n
    <3>3. CASE cur \notin Reached
      <4>1. OnStream' = OnStream
        <5>1. cur \in Streams => pipe'[cur] = pipe[cur] BY <3>1, <3>3
        <5> QED BY <1>1, <2>2, <5>1 DEF OnStream
      <4>2. Underway' = Underway BY <1>1, <3>1, <4>1 DEF Underway, OnStream
      <4> QED BY <2>3, <2>5, <3>3, <4>2 DEF n, StaleReceivers
    <3> QED BY <3>2, <3>3
  <2> QED BY <2>4, <2>5
<1> QED BY <1>2, <1>3

\* The other kinds: handed over within the bridge and the inbox, or filed, or
\* gone for one of the three reasons.
LEMMA OthersUnderway ==
  ASSUME Ground, Order, Step, ~Taken
  PROVE  /\ arrivals' = arrivals
         /\ \/ Underway' = Underway /\ alerts' = alerts
            \/ /\ Filed /\ hand \in Underway /\ Underway' = Underway \ {hand}
               /\ \A k \in Underway : hand <= k
            \/ /\ Underway' \subseteq Underway /\ alerts' = alerts
               /\ faults' > faults \/ (pc = "lookup" /\ Expired(tok))
<1>0. /\ queue \in Seq(Nat) /\ pipe \in [Streams -> Seq(Nat)]
      /\ cur \in Streams \cup {NoStream} /\ NoStream \notin Streams
      /\ hand # 0 => cur # NoStream
      /\ hand \in Nat
  BY Numbers
<1>00. Elements(<< >>) = {} BY DEF Elements
<1>1. CASE TakenForOther BY <1>1 DEF TakenForOther, DeliverToOther, Underway
<1>2. CASE Opened
  <2>1. PICK s \in Streams : /\ Subscribe(s) /\ cur = NoStream /\ cur' = s
                             /\ hand = 0 /\ UNCHANGED <<hand, alerts>>
    BY <1>2 DEF Opened
  <2>2. queue' = << >> /\ pipe'[s] = queue /\ arrivals' = arrivals BY <1>0, <2>1 DEF Subscribe
  <2>3. Underway' = Elements(queue) /\ Underway = Elements(queue)
    BY <1>0, <1>00, <2>1, <2>2 DEF Underway
  <2> QED BY <2>1, <2>2, <2>3
<1>3. CASE Drawn
  <2>1. /\ cur \in Streams /\ pipe[cur] \in Seq(Nat) /\ pipe[cur] # << >> /\ hand = 0
        /\ hand' = Head(pipe[cur]) /\ pipe'[cur] = Tail(pipe[cur])
        /\ UNCHANGED <<queue, arrivals, cur, alerts>>
    BY <1>0, <1>3 DEF Drawn
  <2>2. Elements(pipe[cur]) = {hand'} \cup Elements(pipe'[cur]) BY <2>1, FrontOf
  <2>3. hand' # 0
    <3>1. pipe[cur][1] = hand' /\ 1 \in DOMAIN pipe[cur] BY <2>1, FrontOf
    <3>2. Within(pipe[cur], Len(arrivals)) /\ Len(arrivals) \in Nat BY <2>1, Numbers
    <3> QED BY <3>1, <3>2 DEF Within
  <2> QED BY <1>0, <2>1, <2>2, <2>3 DEF Underway
<1>4. CASE Filed
  <2>1. hand # 0 /\ hand' = 0 /\ cur # NoStream /\ UNCHANGED <<queue, pipe, arrivals, cur>>
    BY <1>0, <1>4 DEF Filed, inboxVars
  <2>2. Underway = Elements(queue) \cup Elements(pipe[cur]) \cup {hand} BY <2>1 DEF Underway
  <2>3. Underway' = Elements(queue) \cup Elements(pipe[cur]) BY <2>1 DEF Underway
  <2>4. Above(queue, hand) /\ Above(pipe[cur], hand) BY <2>1 DEF Order, Ranked, Behind
  <2>5. \A k \in Elements(queue) \cup Elements(pipe[cur]) : k \in Nat /\ hand < k
    <3>1. pipe[cur] \in Seq(Nat) BY <1>0, <2>1
    <3>2. \A i \in DOMAIN queue : queue[i] \in Nat BY <1>0, LenProperties
    <3>3. \A i \in DOMAIN pipe[cur] : pipe[cur][i] \in Nat BY <3>1, LenProperties
    <3> QED BY <2>4, <3>2, <3>3 DEF Above, Elements
  <2>6. \A k \in Underway : hand <= k BY <1>0, <2>2, <2>5
  <2>7. hand \notin Elements(queue) \cup Elements(pipe[cur]) BY <1>0, <2>5
  <2> QED BY <1>4, <2>1, <2>2, <2>3, <2>6, <2>7
<1>5. CASE Dropped
  <2>1. /\ cur' = NoStream /\ hand' = 0 /\ UNCHANGED <<queue, arrivals, alerts>>
        /\ \/ faults' > faults
           \/ pc = "lookup" /\ Expired(tok)
           \/ hand = 0 /\ cur \in Streams /\ pipe[cur] = << >>
    BY <1>5 DEF Dropped, inboxVars
  <2>2. Underway' = Elements(queue) BY <2>1 DEF Underway
  <2>3. Underway' \subseteq Underway BY <2>2 DEF Underway
  <2>4. ASSUME hand = 0, cur \in Streams, pipe[cur] = << >> PROVE Underway' = Underway
    BY <1>00, <2>2, <2>4 DEF Underway
  <2> QED BY <2>1, <2>3, <2>4
<1>6. CASE Forgot
  <2>1. /\ queue' = << >> /\ UNCHANGED <<pipe, arrivals, cur, hand, alerts>> /\ faults' > faults
    BY <1>6 DEF Forgot
  <2>2. Underway' \subseteq Underway BY <1>00, <2>1 DEF Underway
  <2> QED BY <2>1, <2>2
<1>7. CASE Left
  <2>1. PICK s \in Streams : \E k \in 0..Len(pipe[s]) :
          /\ End(s, k) /\ UNCHANGED <<cur, hand, alerts>>
          /\ s # cur \/ faults' > faults \/ k = Len(pipe[s])
    BY <1>7 DEF Left
  <2>2. PICK k \in 0..Len(pipe[s]) :
          /\ End(s, k) /\ UNCHANGED <<cur, hand, alerts>>
          /\ s # cur \/ faults' > faults \/ k = Len(pipe[s])
    BY <2>1
  <2>3. pipe[s] \in Seq(Nat) BY <1>0
  <2> DEFINE t == SubSeq(pipe[s], 1, k)
  <2>4. Elements(t) \subseteq Elements(pipe[s]) /\ (k = Len(pipe[s]) => t = pipe[s])
    BY <2>2, <2>3, CutShort
  <2>5. pipe' = [pipe EXCEPT ![s] = t] /\ UNCHANGED <<queue, arrivals, cur, hand, alerts>>
    BY <2>2 DEF End
  <2> HIDE DEF t
  <2>6. \A r \in Streams : pipe'[r] = IF r = s THEN t ELSE pipe[r] BY <1>0, <2>5
  <2>7. OnStream' \subseteq OnStream BY <1>0, <2>4, <2>5, <2>6 DEF OnStream
  <2>8. Underway' \subseteq Underway BY <2>5, <2>7 DEF Underway, OnStream
  <2>9. ASSUME s # cur \/ k = Len(pipe[s]) PROVE Underway' = Underway
    <3>1. OnStream' = OnStream BY <1>0, <2>4, <2>5, <2>6, <2>9 DEF OnStream
    <3> QED BY <2>5, <3>1 DEF Underway, OnStream
  <2> QED BY <2>2, <2>5, <2>8, <2>9
<1>8. CASE Reported BY <1>8 DEF Reported, Down, Underway
<1>9. CASE Idle BY <1>9 DEF Idle, inboxVars, Underway
<1> QED BY <1>1, <1>2, <1>3, <1>4, <1>5, <1>6, <1>7, <1>8, <1>9 DEF Step

\* What the filing of an alert makes the last one written.
LEMMA FiledLast ==
  ASSUME Ground, Order, Filed
  PROVE  /\ LastWritten' = hand /\ hand \in Written' /\ LastWritten < hand
<1> DEFINE a == [at |-> hand, name |-> NameOf(hand)]
<1>1. alerts \in Seq([at : Nat, name : Names]) /\ NameOf(hand) \in Names /\ hand \in Nat /\ hand # 0
  BY NameIsName DEF Filed, Ground, TypeOK
<1>2. a \in [at : Nat, name : Names] /\ a.at = hand BY <1>1
<1>3. alerts' = Append(alerts, a) BY DEF Filed
<1> HIDE DEF a
<1>4. /\ Len(alerts) \in Nat /\ DOMAIN alerts = 1..Len(alerts) /\ DOMAIN alerts' = 1..(Len(alerts) + 1)
      /\ Len(alerts') = Len(alerts) + 1 /\ alerts'[Len(alerts) + 1] = a /\ alerts' # << >>
      /\ alerts # << >> => Len(alerts) \in DOMAIN alerts
  BY <1>1, <1>2, <1>3, AppendProperties, LenProperties, EmptySeq
<1>5. LastWritten' = hand BY <1>2, <1>4 DEF LastWritten
<1>6. hand \in Written'
  <2>1. Len(alerts) + 1 \in DOMAIN alerts' BY <1>4
  <2> QED BY <1>2, <1>4, <2>1 DEF Written
<1>7. LastWritten < hand BY <1>1, <1>4 DEF LastWritten, Order, Ranked
<1> QED BY <1>5, <1>6, <1>7

\* Bridge and inbox implement Delivery: the numbers they hand over come from
\* those on their way, the smallest first.
THEOREM DeliveryImplemented == Spec => KeepsOrder
<1> DEFINE Inv == Ground /\ Order
<1>1. Init => Inv BY GroundAtFirst, OrderAtFirst
<1>2. Inv /\ [Next]_vars => Inv' BY GroundKept, OrderKept
<1>3. Init => OrderedDelivery!Init
  <2> SUFFICES ASSUME Init PROVE OrderedDelivery!Init OBVIOUS
  <2>1. Len(arrivals) = 0 BY EmptySeq DEF Init, InboxInit
  <2>2. Underway = {} BY DEF Init, InboxInit, Underway, Elements
  <2>3. LastWritten = 0 BY DEF Init, LastWritten
  <2> QED BY <2>1, <2>2, <2>3 DEF OrderedDelivery!Init
<1>4. Inv /\ [Next]_vars => [OrderedDelivery!Next]_(OrderedDelivery!deliveryVars)
  <2> SUFFICES ASSUME Inv, [Next]_vars
               PROVE  [OrderedDelivery!Next]_(OrderedDelivery!deliveryVars)
    OBVIOUS
  <2>1. Step BY StepKinds
  <2>2. CASE Taken
    <3>1. LastWritten' = LastWritten BY <2>2 DEF Taken, LastWritten
    <3> QED BY <2>2, <3>1, TakenUnderway
         DEF OrderedDelivery!Next, OrderedDelivery!Arrive, OrderedDelivery!deliveryVars
  <2>3. CASE ~Taken
    <3>1. /\ arrivals' = arrivals
          /\ \/ Underway' = Underway /\ alerts' = alerts
             \/ /\ Filed /\ hand \in Underway /\ Underway' = Underway \ {hand}
                /\ \A k \in Underway : hand <= k
             \/ Underway' \subseteq Underway /\ alerts' = alerts
      BY <2>1, <2>3, OthersUnderway
    <3>2. CASE alerts' = alerts /\ Underway' \subseteq Underway
      <4>1. LastWritten' = LastWritten /\ Len(arrivals') = Len(arrivals) BY <3>1, <3>2 DEF LastWritten
      <4> QED BY <3>2, <4>1 DEF OrderedDelivery!Next, OrderedDelivery!Lose
    <3>3. CASE /\ Filed /\ hand \in Underway /\ Underway' = Underway \ {hand}
               /\ \A k \in Underway : hand <= k
      <4>1. LastWritten' = hand /\ LastWritten < hand BY <3>3, FiledLast
      <4>2. OrderedDelivery!HandOver(hand) BY <3>1, <3>3, <4>1 DEF OrderedDelivery!HandOver
      <4> QED BY <3>3, <4>2 DEF OrderedDelivery!Next
    <3> QED BY <3>1, <3>2, <3>3
  <2> QED BY <2>2, <2>3
<1> QED BY <1>1, <1>2, <1>3, <1>4, PTL DEF Spec, KeepsOrder, OrderedDelivery!Spec

\* A message the inbox takes is held for the bridge or sent to it, unless the
\* receivers the server knows have all ended or lost their client.
THEOREM ArrivalsAreHeld == Spec => ArrivedIsHeld
<1>1. Ground /\ [Next]_vars =>
        (Len(arrivals') > Len(arrivals) => Len(arrivals') \in Underway' \/ StaleReceivers)
  <2> SUFFICES ASSUME Ground, [Next]_vars, Len(arrivals') > Len(arrivals)
               PROVE  Len(arrivals') \in Underway' \/ StaleReceivers
    OBVIOUS
  <2>1. Step /\ Len(arrivals) \in Nat BY StepKinds, Numbers
  <2>2. Taken
    <3> SUFFICES ASSUME ~Taken PROVE arrivals' = arrivals BY <2>1
    <3> QED BY <2>1 DEF Step, TakenForOther, DeliverToOther, Opened, Subscribe, Drawn, Filed, Dropped,
                       Forgot, Left, End, Reported, Down, Idle, inboxVars
  <2> QED BY <2>1, <2>2, TakenUnderway
<1> QED BY <1>1, GroundAtFirst, GroundKept, PTL DEF Spec, ArrivedIsHeld

\* What can be read is written, or lost by a failure or by a lookup that is
\* turned down.
THEOREM LossesHaveCauses == Spec => LostOnlyByFaults
<1> DEFINE Inv == Ground /\ Order
<1>1. Init => Inv BY GroundAtFirst, OrderAtFirst
<1>2. Inv /\ [Next]_vars => Inv' BY GroundKept, OrderKept
<1>3. Inv /\ [Next]_vars => [\A n \in Underway \ Underway' :
                                  \/ n \in Written'
                                  \/ faults' > faults
                                  \/ pc = "lookup" /\ Expired(tok)]_vars
  <2> SUFFICES ASSUME Inv, [Next]_vars, NEW n \in Underway, n \notin Underway'
               PROVE  n \in Written' \/ faults' > faults \/ (pc = "lookup" /\ Expired(tok))
    OBVIOUS
  <2>1. Step BY StepKinds
  <2>2. ~Taken BY TakenUnderway
  <2> QED BY <2>1, <2>2, OthersUnderway, FiledLast
<1>4. Spec => [][\A n \in Underway \ Underway' :
                    \/ n \in Written'
                    \/ faults' > faults
                    \/ pc = "lookup" /\ Expired(tok)]_vars
  BY <1>1, <1>2, <1>3, PTL DEF Spec
<1> QED BY <1>4 DEF LostOnlyByFaults

-----------------------------------------------------------------------------
(* What the inbox remembers: everything it took is in `seen' or has left it. *)

Remembered == \A i \in DOMAIN arrivals : arrivals[i] \in seen \cup forgotten

Memory == Remembered /\ TakenOnce

\* What is taken is remembered, and was not; the server forgets into forgotten.
LEMMA MemoryKept ==
  ASSUME Ground, Memory, [Next]_vars
  PROVE  Memory'
<1>1. Step BY StepKinds
<1>2. arrivals \in Seq(Msgs) BY Numbers
<1>3. \A i \in DOMAIN arrivals : arrivals[i] \in Msgs BY <1>2, LenProperties
<1>4. CASE Taken
  <2>1. PICK m \in Msgs : Deliver(m) BY <1>4 DEF Taken
  <2>2. CASE m \in seen BY <2>1, <2>2 DEF Deliver, inboxVars, Memory, Remembered, TakenOnce
  <2>3. CASE m \notin seen
    <3>1. MarkSeen(m) /\ arrivals' = Append(arrivals, m) BY <2>1, <2>3 DEF Deliver
    <3>2. /\ Len(arrivals) \in Nat /\ DOMAIN arrivals = 1..Len(arrivals)
          /\ DOMAIN arrivals' = 1..(Len(arrivals) + 1)
          /\ \A i \in DOMAIN arrivals : arrivals'[i] = arrivals[i]
          /\ arrivals'[Len(arrivals) + 1] = m
      BY <1>2, <3>1, AppendProperties, LenProperties
    <3>3. \A i \in DOMAIN arrivals' : i \in DOMAIN arrivals \/ i = Len(arrivals) + 1 BY <3>2
    <3>4. m \in seen' /\ seen \cap Msgs \subseteq seen' \cup forgotten' /\ forgotten \subseteq forgotten'
      BY <3>1 DEF MarkSeen
    <3>5. \A i \in DOMAIN arrivals : arrivals[i] \in seen' \cup forgotten'
      BY <1>3, <3>4 DEF Memory, Remembered
    <3>6. Remembered' BY <3>2, <3>3, <3>4, <3>5 DEF Remembered
    <3>7. \A i \in DOMAIN arrivals : arrivals[i] = m => m \in forgotten'
      BY <2>3, <3>4 DEF Memory, Remembered
    <3>8. TakenOnce'
      <4> SUFFICES ASSUME NEW i \in DOMAIN arrivals', NEW j \in DOMAIN arrivals',
                          i # j, arrivals'[i] = arrivals'[j]
                   PROVE  arrivals'[i] \in forgotten'
        BY DEF TakenOnce
      <4>1. CASE i \in DOMAIN arrivals /\ j \in DOMAIN arrivals
        BY <3>2, <3>4, <4>1 DEF Memory, TakenOnce
      <4>2. CASE i = Len(arrivals) + 1
        <5>1. j \in DOMAIN arrivals BY <3>3, <4>2
        <5> QED BY <3>2, <3>7, <4>2, <5>1
      <4>3. CASE j = Len(arrivals) + 1
        <5>1. i \in DOMAIN arrivals BY <3>3, <4>3
        <5> QED BY <3>2, <3>7, <4>3, <5>1
      <4> QED BY <3>3, <4>1, <4>2, <4>3
    <3> QED BY <3>6, <3>8 DEF Memory
  <2> QED BY <2>2, <2>3
<1>5. CASE TakenForOther
  <2>1. PICK key \in Others : DeliverToOther(key) BY <1>5 DEF TakenForOther
  <2>2. seen \cap Msgs \subseteq seen' \cup forgotten' /\ forgotten \subseteq forgotten' /\ arrivals' = arrivals
    BY <2>1 DEF DeliverToOther, MarkSeen
  <2> QED BY <1>3, <2>2 DEF Memory, Remembered, TakenOnce
<1>6. CASE Forgot
  <2>1. forgotten' = forgotten \cup (seen \cap Msgs) /\ arrivals' = arrivals BY <1>6 DEF Forgot
  <2> QED BY <1>3, <2>1 DEF Memory, Remembered, TakenOnce
<1>7. CASE Opened \/ Drawn \/ Filed \/ Dropped \/ Left \/ Reported \/ Idle
  <2>1. UNCHANGED <<seen, arrivals, forgotten>>
    BY <1>7 DEF Opened, Subscribe, Drawn, Filed, Dropped, Left, End, Reported, Down, Idle, inboxVars
  <2> QED BY <2>1 DEF Memory, Remembered, TakenOnce
<1> QED BY <1>1, <1>4, <1>5, <1>6, <1>7 DEF Step

\* The inbox takes a message again only if its memory of it was emptied.
THEOREM MessagesTakenOnce == Spec => []TakenOnce
<1> DEFINE Inv == Ground /\ Memory
<1>1. Init => Inv
  <2>1. Init => Memory BY DEF Init, InboxInit, Memory, Remembered, TakenOnce
  <2> QED BY <2>1, GroundAtFirst
<1>2. Inv /\ [Next]_vars => Inv' BY GroundKept, MemoryKept
<1>3. Inv => TakenOnce BY DEF Memory
<1> QED BY <1>1, <1>2, <1>3, PTL DEF Spec

-----------------------------------------------------------------------------
(* Who is named and let in.                                                *)

Heard == AlertsAreHeard /\ (pc = "write" => NameOf(hand) \in white)

\* A step of the node or a failure leaves the names and what is written alone.
LEMMA OutsideSteps ==
  ASSUME Ground, Node \/ Failure \/ UNCHANGED vars
  PROVE  /\ UNCHANGED <<byDid, white, alerts>>
         /\ (pc' = pc /\ hand' = hand) \/ pc' \notin {"whitelist", "write"}
         /\ hand' # 0 => arrivals'[hand'] = arrivals[hand'] /\ hand' = hand
<1> USE DEF bridgeVars, inboxVars, nodeVars
<1>1. /\ arrivals \in Seq(Msgs) /\ hand # 0 => hand \in DOMAIN arrivals
  <2>1. arrivals \in Seq(Msgs) BY Numbers
  <2>2. hand # 0 => hand \in DOMAIN arrivals BY NameIsName
  <2> QED BY <2>1, <2>2
<1>2. CASE \E m \in Msgs : SendHere(m) \/ MeshDeliver(m)
  <2>1. PICK m \in Msgs : SendHere(m) \/ MeshDeliver(m) BY <1>2
  <2>2. UNCHANGED bridgeVars /\ (Deliver(m) \/ UNCHANGED inboxVars)
    BY <2>1 DEF SendHere, MeshDeliver
  <2>3. arrivals' = arrivals \/ arrivals' = Append(arrivals, m) BY <2>2 DEF Deliver
  <2>4. hand # 0 => arrivals'[hand] = arrivals[hand]
    <3> SUFFICES ASSUME hand # 0 PROVE arrivals'[hand] = arrivals[hand] OBVIOUS
    <3>1. hand \in 1..Len(arrivals) BY Numbers
    <3> QED BY <1>1, <2>3, <3>1, AppendProperties
  <2> QED BY <2>2, <2>4
<1>3. CASE Node /\ ~\E m \in Msgs : SendHere(m) \/ MeshDeliver(m)
  <2>1. UNCHANGED <<bridgeVars, arrivals>>
    BY <1>3 DEF Node, SendFromAfar, Reconcile, TopicGone, OthersMail, DeliverToOther, DayPasses,
                ToolRefreshes, Announce, NoticeGone, End, ReceiverReported, Down
  <2> QED BY <2>1
<1>4. CASE Failure
  <2>1. UNCHANGED <<byDid, white, alerts, arrivals>>
    BY <1>4 DEF Failure, Cut, Stall, RequestFails, BridgeDies, ReceiverDies, End, InboxDies,
                ServerCrash, NodeRestarts, NodeCrash
  <2>2. \/ pc' = pc /\ hand' = hand
        \/ pc' \notin {"whitelist", "write"} /\ (hand' = 0 \/ hand' = hand)
    BY <1>4 DEF Failure, Cut, Stall, RequestFails, BridgeDies, ReceiverDies, InboxDies, NodeRestarts
  <2> QED BY <2>1, <2>2
<1>5. CASE UNCHANGED vars BY <1>5 DEF vars
<1> QED BY <1>2, <1>3, <1>4, <1>5

\* A sender is whitelisted before the alert that names it, under that name.
LEMMA HeardKept ==
  ASSUME Ground, Heard, [Next]_vars
  PROVE  Heard'
<1>0. Control BY DEF Ground
<1>1. CASE Node \/ Failure \/ UNCHANGED vars
  <2>1. /\ UNCHANGED <<byDid, white, alerts>>
        /\ (pc' = pc /\ hand' = hand) \/ pc' \notin {"whitelist", "write"}
        /\ hand' # 0 => arrivals'[hand'] = arrivals[hand'] /\ hand' = hand
    BY <1>1, OutsideSteps
  <2>2. AlertsAreHeard' BY <2>1 DEF Heard, AlertsAreHeard
  <2>3. pc' = "write" => pc = "write" /\ NameOf(hand)' = NameOf(hand) BY <1>0, <2>1 DEF NameOf, Control
  <2> QED BY <2>1, <2>2, <2>3 DEF Heard
<1>2. CASE Bridge
  <2> USE DEF inboxVars
  <2>1. CASE Resolve \/ Refused \/ Refresh \/ EndOfStream \/ Sleep \/ Restart
             \/ \E s \in Streams : Connect(s)
    <3>1. UNCHANGED <<white, alerts>> /\ pc' # "write"
      BY <2>1 DEF Resolve, Refused, Refresh, EndOfStream, Sleep, Restart, Connect
    <3> QED BY <3>1 DEF Heard, AlertsAreHeard
  <2>2. CASE Read \/ Lookup
    <3>1. UNCHANGED <<white, alerts>> /\ pc' # "write" BY <2>2 DEF Read, Lookup
    <3> QED BY <3>1 DEF Heard, AlertsAreHeard
  <2>3. CASE Whitelist
    <3>1. white' = white \cup {NameOf(hand)} /\ NameOf(hand)' = NameOf(hand) /\ alerts' = alerts
      BY <2>3 DEF Whitelist, NameOf
    <3> QED BY <3>1 DEF Heard, AlertsAreHeard
  <2>4. CASE WriteAlert
    <3> DEFINE a == [at |-> hand, name |-> NameOf(hand)]
    <3>1. /\ alerts' = Append(alerts, a) /\ white' = white /\ pc' # "write"
          /\ NameOf(hand) \in white /\ hand # 0
      BY <1>0, <2>4 DEF WriteAlert, Heard, Control
    <3>2. NameOf(hand) \in Names /\ hand \in Nat /\ alerts \in Seq([at : Nat, name : Names])
      BY <3>1, NameIsName DEF Ground, TypeOK
    <3>3. a \in [at : Nat, name : Names] /\ a.name = NameOf(hand) BY <3>2
    <3> HIDE DEF a
    <3>4. /\ Len(alerts) \in Nat /\ DOMAIN alerts = 1..Len(alerts)
          /\ DOMAIN alerts' = 1..(Len(alerts) + 1)
          /\ \A i \in DOMAIN alerts : alerts'[i] = alerts[i]
          /\ alerts'[Len(alerts) + 1] = a
      BY <3>1, <3>2, <3>3, AppendProperties, LenProperties
    <3>5. \A i \in DOMAIN alerts' : i \in DOMAIN alerts \/ i = Len(alerts) + 1 BY <3>4
    <3> QED BY <3>1, <3>3, <3>4, <3>5 DEF Heard, AlertsAreHeard
  <2> QED BY <1>2, <2>1, <2>2, <2>3, <2>4 DEF Bridge
<1> QED BY <1>1, <1>2 DEF Next

\* FileWatcher is never alerted about a sender it does not know.
THEOREM AllAlertsHeard == Spec => []AlertsAreHeard
<1> DEFINE Inv == Ground /\ Heard
<1>1. Init => Inv
  <2>1. Init => Heard BY DEF Init, Heard, AlertsAreHeard
  <2> QED BY <2>1, GroundAtFirst
<1>2. Inv /\ [Next]_vars => Inv' BY GroundKept, HeardKept
<1>3. Inv => AlertsAreHeard BY DEF Heard
<1> QED BY <1>1, <1>2, <1>3, PTL DEF Spec

-----------------------------------------------------------------------------
(* Who has a message on its way registered once. As long as the node has   *)
(* not forgotten, such a peer is in its directory, and so in by_did once    *)
(* looked up, unless another registration took its name.                    *)

IsLocal(m) == SenderOf[m] \in Local

Introduced ==
  /\ known \subseteq met
  /\ \A m \in sent : IsLocal(m) => SenderOf[m] \in met
  /\ \A m \in Msgs : copies[m] > 0 => m \in sent
  /\ \A i \in DOMAIN arrivals : IsLocal(arrivals[i]) => SenderOf[arrivals[i]] \in met

Placed == \A p \in met : p \in known \/ Superseded(p)

LookedUp ==
  pc \in {"whitelist", "write"} /\ IsLocal(arrivals[hand]) =>
     SenderOf[arrivals[hand]] \in byDid \/ Superseded(SenderOf[arrivals[hand]])

Naming == Introduced /\ LocalPeersNamed /\ (~restarted => Placed /\ LookedUp)

\* What is sent and what arrives comes from peers that were met.
LEMMA IntroducedKept ==
  ASSUME Ground, Introduced, [Next]_vars
  PROVE  Introduced'
<1> USE DEF inboxVars, nodeVars, bridgeVars
<1>0. /\ arrivals \in Seq(Msgs) /\ copies \in [Msgs -> 0..MaxCopies] /\ MaxCopies \in Nat
      /\ sent \subseteq Msgs /\ known \subseteq met
  <2>1. arrivals \in Seq(Msgs) BY Numbers
  <2> QED BY <2>1, RadioAssumption DEF Ground, TypeOK, Introduced
<1>1. ASSUME NEW m \in Msgs, Deliver(m) \/ UNCHANGED inboxVars, IsLocal(m) => SenderOf[m] \in met
      PROVE  \A i \in DOMAIN arrivals' : IsLocal(arrivals'[i]) => SenderOf[arrivals'[i]] \in met
  <2>1. CASE arrivals' = arrivals BY <2>1 DEF Introduced
  <2>2. CASE arrivals' = Append(arrivals, m)
    <3>1. /\ Len(arrivals) \in Nat /\ DOMAIN arrivals = 1..Len(arrivals)
          /\ DOMAIN arrivals' = 1..(Len(arrivals) + 1)
          /\ \A i \in DOMAIN arrivals : arrivals'[i] = arrivals[i]
          /\ arrivals'[Len(arrivals) + 1] = m
      BY <1>0, <2>2, AppendProperties, LenProperties
    <3>2. \A i \in DOMAIN arrivals' : i \in DOMAIN arrivals \/ i = Len(arrivals) + 1 BY <3>1
    <3> QED BY <1>1, <3>1, <3>2 DEF Introduced
  <2> QED BY <1>1, <2>1, <2>2 DEF Deliver
<1>2. CASE \E m \in Msgs : SendHere(m)
  <2>1. PICK m \in Msgs : SendHere(m) BY <1>2
  <2>2. /\ sent' = sent \cup {m} /\ UNCHANGED <<known, met>> /\ SenderOf[m] \in met /\ Deliver(m)
        /\ \E n \in 0..MaxCopies : copies' = [copies EXCEPT ![m] = n]
    BY <1>0, <2>1 DEF SendHere
  <2>3. \A k \in Msgs : k # m => copies'[k] = copies[k] BY <1>0, <2>2
  <2>4. \A k \in Msgs : copies'[k] > 0 => k \in sent' BY <2>2, <2>3 DEF Introduced
  <2>5. \A i \in DOMAIN arrivals' : IsLocal(arrivals'[i]) => SenderOf[arrivals'[i]] \in met'
    BY <1>1, <2>2
  <2> QED BY <2>2, <2>4, <2>5 DEF Introduced, IsLocal
<1>3. CASE \E m \in Msgs : SendFromAfar(m)
  <2>1. PICK m \in Msgs : SendFromAfar(m) BY <1>3
  <2>2. /\ sent' = sent \cup {m} /\ UNCHANGED <<known, met>> /\ ~IsLocal(m) /\ UNCHANGED arrivals
        /\ \E n \in 0..MaxCopies : copies' = [copies EXCEPT ![m] = n]
    BY <2>1 DEF SendFromAfar, IsLocal
  <2>3. \A k \in Msgs : k # m => copies'[k] = copies[k] BY <1>0, <2>2
  <2>4. \A k \in Msgs : copies'[k] > 0 => k \in sent' BY <2>2, <2>3 DEF Introduced
  <2> QED BY <2>2, <2>4 DEF Introduced, IsLocal
<1>4. CASE \E m \in Msgs : MeshDeliver(m)
  <2>1. PICK m \in Msgs : MeshDeliver(m) BY <1>4
  <2>2. /\ sent' = sent /\ UNCHANGED <<known, met>> /\ copies[m] > 0 /\ (Deliver(m) \/ UNCHANGED inboxVars)
        /\ copies' = [copies EXCEPT ![m] = copies[m] - 1]
    BY <2>1 DEF MeshDeliver
  <2>3. m \in sent /\ (IsLocal(m) => SenderOf[m] \in met) BY <2>2 DEF Introduced
  <2>4. \A k \in Msgs : k # m => copies'[k] = copies[k] BY <1>0, <2>2
  <2>5. \A k \in Msgs : copies'[k] > 0 => k \in sent' BY <2>2, <2>3, <2>4 DEF Introduced
  <2>6. \A i \in DOMAIN arrivals' : IsLocal(arrivals'[i]) => SenderOf[arrivals'[i]] \in met'
    BY <1>1, <2>2, <2>3
  <2> QED BY <2>2, <2>5, <2>6 DEF Introduced, IsLocal
<1>5. CASE /\ Node
           /\ ~\E m \in Msgs : SendHere(m) \/ SendFromAfar(m) \/ MeshDeliver(m)
  <2>1. UNCHANGED <<arrivals, sent, copies>> /\ met \subseteq met' /\ known' \subseteq met'
    BY <1>0, <1>5 DEF Node, Reconcile, TopicGone, OthersMail, DeliverToOther, DayPasses, ToolRefreshes,
                      Announce, Rivals, NoticeGone, End, ReceiverReported, Down
  <2> QED BY <2>1 DEF Introduced, IsLocal
<1>6. CASE Bridge \/ UNCHANGED vars
  <2>1. UNCHANGED <<arrivals, sent, copies, known, met>>
    BY <1>6 DEF Bridge, vars, Resolve, Refused, Refresh, Read, Lookup, Whitelist, WriteAlert, EndOfStream,
                Sleep, Restart, Connect, Subscribe
  <2> QED BY <2>1 DEF Introduced, IsLocal
<1>7. CASE Failure
  <2>1. UNCHANGED <<arrivals, sent, copies, met>> /\ known' \subseteq known
    BY <1>7 DEF Failure, Cut, Stall, RequestFails, BridgeDies, ReceiverDies, End, InboxDies, ServerCrash,
                NodeRestarts, NodeCrash
  <2> QED BY <1>0, <2>1 DEF Introduced, IsLocal
<1> QED BY <1>2, <1>3, <1>4, <1>5, <1>6, <1>7 DEF Next

\* Who loses its place in the directory, or gets none, loses it to a registration
\* under its name that is no older; and who was superseded stays so.
LEMMA PlacedKept ==
  ASSUME Ground, Introduced, [Next]_vars
  PROVE  /\ \A p : Superseded(p) => Superseded(p)'
         /\ ~restarted /\ Placed /\ ~restarted' => Placed'
<1> USE DEF inboxVars, nodeVars, bridgeVars
<1>1. CASE \E p \in Peers : Announce(p)
  <2>1. PICK p \in Peers : Announce(p) BY <1>1
  <2>2. /\ met' = met \cup {p} /\ p \notin known /\ known \subseteq met /\ known \subseteq Peers
        /\ Since \in [Peers -> Nat]
    BY <2>1, RadioAssumption DEF Announce, Introduced, Ground, TypeOK
  <2>3. \A r : Superseded(r) => Superseded(r)' BY <2>2 DEF Superseded
  <2>4. CASE \E q \in Rivals(p) : Since[q] > Since[p]
    <3>1. PICK q \in Rivals(p) : Since[q] > Since[p] BY <2>4
    <3>2. Since[q] >= Since[p] BY <2>2, <3>1 DEF Rivals
    <3>3. Superseded(p)' BY <2>2, <3>1, <3>2 DEF Superseded, Rivals
    <3>4. known' = known BY <2>1, <2>4 DEF Announce
    <3> QED BY <2>2, <2>3, <3>3, <3>4 DEF Placed
  <2>5. CASE ~\E q \in Rivals(p) : Since[q] > Since[p]
    <3>1. known' = (known \ Rivals(p)) \cup {p} BY <2>1, <2>5 DEF Announce
    <3>2. \A q \in Rivals(p) : Superseded(q)'
      <4> TAKE q \in Rivals(p)
      <4>1. q # p /\ Called[p] = Called[q] /\ Since[p] >= Since[q] BY <2>2, <2>5 DEF Rivals
      <4> QED BY <2>2, <4>1 DEF Superseded
    <3> QED BY <2>2, <2>3, <3>1, <3>2 DEF Placed
  <2> QED BY <2>3, <2>4, <2>5
<1>2. CASE ~\E p \in Peers : Announce(p)
  <2>1. met' = met /\ (known' = known \/ restarted')
    BY <1>2 DEF Next, Node, Bridge, Failure, vars, SendHere, SendFromAfar, MeshDeliver, Reconcile, TopicGone,
           OthersMail, DayPasses, ToolRefreshes, NoticeGone, ReceiverReported, Resolve, Refused, Refresh, Read,
           Lookup, Whitelist, WriteAlert, EndOfStream, Sleep, Restart, Connect, Cut, Stall, RequestFails,
           BridgeDies, ReceiverDies, InboxDies, NodeRestarts
  <2> QED BY <2>1 DEF Placed, Superseded
<1> QED BY <1>1, <1>2

\* An alert from a local peer carries its name.
LEMMA NamingKept ==
  ASSUME Ground, Naming, [Next]_vars
  PROVE  Naming'
<1>a. Introduced /\ Introduced' BY IntroducedKept DEF Naming
<1> SUFFICES ASSUME ~restarted' PROVE LocalPeersNamed' /\ Placed' /\ LookedUp'
  BY <1>a DEF Naming, LocalPeersNamed
<1>0. ~restarted /\ Control
  BY DEF Ground, Next, Node, Bridge, Failure, vars, nodeVars, bridgeVars, SendHere, SendFromAfar,
         MeshDeliver, Reconcile, TopicGone, OthersMail, DayPasses, ToolRefreshes, Announce, NoticeGone,
         ReceiverReported, Resolve, Refused, Refresh, Read, Lookup, Whitelist, WriteAlert, EndOfStream, Sleep, Restart,
         Connect, Cut, Stall, RequestFails, BridgeDies, ReceiverDies, InboxDies, NodeRestarts
<1>1. Introduced /\ Placed /\ LookedUp /\ LocalPeersNamed BY <1>0 DEF Naming
<1>2. /\ Placed'
      /\ \A p : Superseded(p) => Superseded(p)'
  BY <1>0, <1>1, PlacedKept
<1>3. CASE Node \/ Failure \/ UNCHANGED vars
  <2>1. /\ UNCHANGED <<byDid, white, alerts>>
        /\ (pc' = pc /\ hand' = hand) \/ pc' \notin {"whitelist", "write"}
        /\ hand' # 0 => arrivals'[hand'] = arrivals[hand'] /\ hand' = hand
    BY <1>3, OutsideSteps
  <2>2. pc' \in {"whitelist", "write"} => /\ pc \in {"whitelist", "write"}
                                         /\ arrivals'[hand'] = arrivals[hand]
    BY <1>0, <2>1 DEF Control
  <2>3. LookedUp' BY <1>1, <1>2, <2>1, <2>2 DEF LookedUp, IsLocal
  <2> QED BY <1>0, <1>1, <1>2, <2>1, <2>3 DEF LocalPeersNamed
<1>4. CASE Bridge
  <2> USE DEF inboxVars
  <2>1. CASE Resolve \/ Refused \/ Refresh \/ EndOfStream \/ Sleep \/ Restart
             \/ \E s \in Streams : Connect(s)
    <3>1. alerts' = alerts /\ pc' \notin {"whitelist", "write"}
      BY <2>1 DEF Resolve, Refused, Refresh, EndOfStream, Sleep, Restart, Connect
    <3> QED BY <1>0, <1>1, <1>2, <3>1 DEF LocalPeersNamed, LookedUp
  <2>2. CASE Read
    <3>1. /\ UNCHANGED <<alerts, byDid, arrivals>>
          /\ pc' = IF SenderOf[arrivals[hand']] \in byDid THEN "whitelist" ELSE "lookup"
      BY <2>2 DEF Read
    <3>2. LookedUp' BY <3>1 DEF LookedUp, IsLocal
    <3> QED BY <1>0, <1>1, <1>2, <3>1, <3>2 DEF LocalPeersNamed
  <2>3. CASE Lookup
    <3>1. /\ UNCHANGED <<alerts, arrivals>> /\ pc = "lookup"
          /\ \/ pc' = "sleep"
             \/ pc' = "whitelist" /\ byDid' = known /\ hand' = hand
      BY <2>3 DEF Lookup
    <3>2. hand \in DOMAIN arrivals BY <1>0, <3>1, NameIsName DEF Control
    <3>3. LookedUp' BY <1>1, <1>2, <3>1, <3>2 DEF LookedUp, Introduced, Placed, IsLocal
    <3> QED BY <1>0, <1>1, <1>2, <3>1, <3>3 DEF LocalPeersNamed
  <2>4. CASE Whitelist
    <3>1. UNCHANGED <<alerts, arrivals, byDid, hand>> /\ pc = "whitelist" BY <2>4 DEF Whitelist
    <3>2. LookedUp' BY <1>1, <1>2, <3>1 DEF LookedUp, IsLocal
    <3> QED BY <1>0, <1>1, <1>2, <3>1, <3>2 DEF LocalPeersNamed
  <2>5. CASE WriteAlert
    <3> DEFINE a == [at |-> hand, name |-> NameOf(hand)]
    <3>1. alerts' = Append(alerts, a) /\ pc = "write" /\ pc' = "reading" /\ hand # 0
      BY <1>0, <2>5 DEF WriteAlert, Control
    <3>2. /\ NameOf(hand) \in Names /\ NameOf(hand)[1] = SenderOf[arrivals[hand]] /\ hand \in Nat
          /\ alerts \in Seq([at : Nat, name : Names])
      BY <3>1, NameIsName DEF Ground, TypeOK
    <3>3. a \in [at : Nat, name : Names] /\ a.name = NameOf(hand) BY <3>2
    <3>4. a.name[1] \in Local => a.name[2] = "name" \/ Superseded(a.name[1])
      BY <1>1, <3>1, <3>2, <3>3 DEF LookedUp, IsLocal, NameOf
    <3> HIDE DEF a
    <3>5. /\ Len(alerts) \in Nat /\ DOMAIN alerts = 1..Len(alerts)
          /\ DOMAIN alerts' = 1..(Len(alerts) + 1)
          /\ \A i \in DOMAIN alerts : alerts'[i] = alerts[i]
          /\ alerts'[Len(alerts) + 1] = a
      BY <3>1, <3>2, <3>3, AppendProperties, LenProperties
    <3>6. \A i \in DOMAIN alerts' : i \in DOMAIN alerts \/ i = Len(alerts) + 1 BY <3>5
    <3>7. LocalPeersNamed' BY <1>0, <1>1, <1>2, <3>4, <3>5, <3>6 DEF LocalPeersNamed
    <3> QED BY <1>2, <3>1, <3>7 DEF LookedUp
  <2> QED BY <1>4, <2>1, <2>2, <2>3, <2>4, <2>5 DEF Bridge
<1> QED BY <1>3, <1>4 DEF Next

\* Until its node loses its memory, no alert calls a peer that registered there
\* by anything but its name, unless another registration took the name.
THEOREM PeersAreNamed == Spec => []LocalPeersNamed
<1> DEFINE Inv == Ground /\ Naming
<1>1. Init => Inv
  <2>1. ASSUME Init PROVE Naming
    <3>1. LocalPeersNamed /\ LookedUp BY <2>1 DEF Init, LocalPeersNamed, LookedUp
    <3>2. Introduced /\ Placed BY <2>1 DEF Init, InboxInit, Introduced, Placed
    <3> QED BY <3>1, <3>2 DEF Naming
  <2> QED BY <2>1, GroundAtFirst
<1>2. Inv /\ [Next]_vars => Inv' BY GroundKept, NamingKept
<1>3. Inv => LocalPeersNamed BY DEF Naming
<1> QED BY <1>1, <1>2, <1>3, PTL DEF Spec

=============================================================================
