--------------------------- MODULE CommitteeProofs ---------------------------
(***************************************************************************)
(* Proofs about Committee, for any roster, any number of rounds and any    *)
(* trouble with the mesh. The type invariant and NeverWaitsForADrone are   *)
(* inductive together; the second is about what the mailbox still holds,   *)
(* so what a handler's Tail and a sender's Append do to the signals in a   *)
(* mailbox is said first.                                                  *)
(***************************************************************************)
EXTENDS Committee, SequenceTheorems, TLAPS

\* The mailbox holds something that moves the committee on.
Signalled(box) == \E i \in DOMAIN box : box[i].kind \in Signals

\* A message sent joins the mailbox, and every signal in it stays.
LEMMA Sent ==
  ASSUME NEW box \in Seq(Messages), NEW m \in Messages
  PROVE  /\ Append(box, m) \in Seq(Messages)
         /\ Signalled(box) \/ m.kind \in Signals => Signalled(Append(box, m))
<1>1. /\ Append(box, m) \in Seq(Messages) /\ Len(Append(box, m)) = Len(box) + 1
      /\ \A i \in 1..Len(box) : Append(box, m)[i] = box[i]
      /\ Append(box, m)[Len(box) + 1] = m
  BY AppendProperties
<1>2. Len(box) \in Nat /\ DOMAIN box = 1..Len(box) /\ DOMAIN Append(box, m) = 1..(Len(box) + 1)
  BY <1>1, LenProperties
<1>3. Len(box) + 1 \in DOMAIN Append(box, m) /\ \A i \in DOMAIN box : i \in DOMAIN Append(box, m)
  BY <1>2
<1> QED BY <1>1, <1>2, <1>3 DEF Signalled

\* A message read leaves the mailbox, and if it was no signal every signal stays.
LEMMA Taken ==
  ASSUME NEW box \in Seq(Messages), box # << >>
  PROVE  /\ Tail(box) \in Seq(Messages) /\ Head(box) \in Messages
         /\ Signalled(box) /\ Head(box).kind \notin Signals => Signalled(Tail(box))
<1>1. /\ Tail(box) \in Seq(Messages) /\ Head(box) \in Messages /\ Head(box) = box[1]
      /\ Len(Tail(box)) = Len(box) - 1
      /\ \A i \in 1..Len(Tail(box)) : Tail(box)[i] = box[i + 1]
  BY HeadTailProperties
<1>2. Len(box) \in Nat /\ DOMAIN box = 1..Len(box) /\ DOMAIN Tail(box) = 1..(Len(box) - 1)
  BY <1>1, LenProperties
<1>3. ASSUME NEW i \in DOMAIN box, box[i].kind \in Signals, box[1].kind \notin Signals
      PROVE  Signalled(Tail(box))
  <2>1. i # 1 BY <1>3
  <2>2. i - 1 \in 1..(Len(box) - 1) /\ (i - 1) + 1 = i BY <1>2, <2>1
  <2>3. Tail(box)[i - 1] = box[i] BY <1>1, <2>2
  <2> QED BY <1>2, <1>3, <2>2, <2>3 DEF Signalled
<1> QED BY <1>1, <1>3 DEF Signalled

\* The messages of the committee are messages.
LEMMA Kinds ==
  /\ \A k \in Signals : Signal(k) \in Messages /\ Signal(k).kind = k
  /\ \A d \in Drones, k \in {"line", "silence"} : Message(k, d) \in Messages
  /\ "line" \notin Signals /\ "silence" \notin Signals
  /\ {"subscribe", "gone", "floor_timeout", "adjourn"} \subseteq Signals
<1>1. \A k \in Signals : Signal(k) \in Messages /\ Signal(k).kind = k
  <2>1. 0 \in 0..N BY CommitteeAssumption
  <2> QED BY <2>1 DEF Signal, Message, Messages
<1>2. \A d \in Drones, k \in {"line", "silence"} : Message(k, d) \in Messages
  <2>1. \A d \in Drones : d \in 0..N BY CommitteeAssumption DEF Drones
  <2> QED BY <2>1 DEF Message, Messages
<1>3. /\ "line" \notin Signals /\ "silence" \notin Signals
      /\ {"subscribe", "gone", "floor_timeout", "adjourn"} \subseteq Signals
  BY DEF Signals
<1> QED BY <1>1, <1>2, <1>3

-----------------------------------------------------------------------------
(* The floor.                                                              *)

\* What the handlers keep true of the drones.
DronesOK ==
  alive \subseteq Drones /\ room \subseteq alive /\ thinking \in [Drones -> Nat] /\ disturbed \in BOOLEAN

\* The coordinator will go on by itself.
Moving == timer \/ reporting

\* Giving the floor leaves drones drones, and a timer that runs.
LEMMA FloorOpened ==
  ASSUME DronesOK, NEW d \in Drones, OpenFloor(d)
  PROVE  DronesOK' /\ timer' = TRUE
<1>1. CASE UNCHANGED drones /\ disturbed' = TRUE
  BY <1>1 DEF DronesOK, OpenFloor, drones
<1>2. CASE thinking' = [thinking EXCEPT ![d] = @ + 1] /\ UNCHANGED <<alive, room, disturbed>>
  <2>1. thinking' \in [Drones -> Nat] BY <1>2 DEF DronesOK
  <2> QED BY <1>2, <2>1 DEF DronesOK, OpenFloor
<1> QED BY <1>1, <1>2 DEF OpenFloor, PublishFloor

\* Passing the floor on arms a timer or starts the report.
LEMMA Advanced ==
  ASSUME TypeOK, NEW left \in BOOLEAN, Advance(left), mail # << >>
  PROVE  /\ DronesOK' /\ cursor' \in Drones /\ timer' \in BOOLEAN /\ reporting' \in BOOLEAN
         /\ mail' \in Seq(Messages) /\ Moving'
<1>1. DronesOK BY DEF TypeOK, DronesOK
<1>2. mail' \in Seq(Messages) BY Taken DEF TypeOK, Advance
<1>3. CASE cursor < N
  <2>1. cursor + 1 \in Drones BY <1>3, CommitteeAssumption DEF TypeOK, Drones
  <2>2. cursor' = cursor + 1 /\ OpenFloor(cursor + 1) /\ reporting' = reporting
    BY <1>3 DEF Advance
  <2>3. DronesOK' /\ timer' = TRUE BY <1>1, <2>1, <2>2, FloorOpened
  <2> QED BY <1>2, <2>1, <2>2, <2>3 DEF TypeOK, Moving
<1>4. CASE ~(cursor < N)
  <2>1. 1 \in Drones BY CommitteeAssumption DEF Drones
  <2>2. cursor' = 1 /\ timer' = left /\ reporting' = TRUE /\ UNCHANGED <<drones, disturbed>>
    BY <1>4 DEF Advance
  <2>3. DronesOK' BY <1>1, <2>2 DEF DronesOK, drones
  <2> QED BY <1>2, <2>1, <2>2, <2>3 DEF Moving
<1> QED BY <1>3, <1>4

-----------------------------------------------------------------------------
(* The invariant.                                                          *)

Inv == TypeOK /\ NeverWaitsForADrone

\* A line taken keeps the record a record.
LEMMA RecordKept ==
  ASSUME heard \in Seq(Drones), NEW d \in Drones, Takes(d)
  PROVE  heard' \in Seq(Drones)
BY AppendProperties DEF Takes

\* The committee starts with the subscription it asked for.
LEMMA Started == Init => Inv
<1> SUFFICES ASSUME Init PROVE Inv OBVIOUS
<1>1. Signal("subscribe") \in Messages /\ "subscribe" \in Signals /\ Signal("subscribe").kind = "subscribe"
  BY Kinds
<1>2. mail \in Seq(Messages) /\ DOMAIN mail = 1..1 /\ mail[1] = Signal("subscribe")
  BY <1>1 DEF Init
<1>3. heard \in Seq(Drones) BY DEF Init
<1>4. 1 \in Drones /\ trouble \in 0..MaxTrouble BY CommitteeAssumption DEF Drones, Init
<1>5. TypeOK BY <1>2, <1>3, <1>4 DEF Init, TypeOK
<1>6. 1 \in DOMAIN mail /\ mail[1].kind \in Signals BY <1>1, <1>2
<1> QED BY <1>5, <1>6 DEF Inv, NeverWaitsForADrone

\* Each of the coordinator's handlers keeps the invariant.
LEMMA Coordinated == Inv /\ Coordinate => Inv'
<1> SUFFICES ASSUME Inv, Coordinate PROVE Inv' OBVIOUS
<1> USE DEF Inv
<1>1. DronesOK BY DEF TypeOK, DronesOK
<1>2. CASE Subscribe
  <2>1. mail' \in Seq(Messages) BY <1>2, Taken DEF Subscribe, Hears, TypeOK
  <2>2. DronesOK' /\ timer' = TRUE BY <1>1, <1>2, FloorOpened DEF Subscribe, TypeOK
  <2> QED BY <1>2, <2>1, <2>2 DEF Subscribe, TypeOK, DronesOK, NeverWaitsForADrone
<1>3. CASE SubscribeFails
  <2>1. Tail(mail) \in Seq(Messages) BY <1>3, Taken DEF SubscribeFails, Hears, TypeOK
  <2>2. mail' \in Seq(Messages) /\ Signalled(mail')
    BY <1>3, <2>1, Sent, Kinds DEF SubscribeFails
  <2>3. trouble' \in 0..MaxTrouble BY <1>3, CommitteeAssumption DEF SubscribeFails, TypeOK
  <2> QED BY <1>3, <2>2, <2>3 DEF SubscribeFails, TypeOK, NeverWaitsForADrone, Signalled, coordinator, drones, history
<1>4. CASE Gone
  <2>1. Tail(mail) \in Seq(Messages) BY <1>4, Taken DEF Gone, Hears, TypeOK
  <2>2. mail' \in Seq(Messages) /\ Signalled(mail') BY <1>4, <2>1, Sent, Kinds DEF Gone
  <2> QED BY <1>4, <2>2 DEF Gone, TypeOK, NeverWaitsForADrone, Signalled, coordinator, drones, history
<1>5. CASE OnLine
  <2>1. mail # << >> /\ Head(mail).kind = "line" BY <1>5 DEF OnLine, Hears
  <2>2. /\ Tail(mail) \in Seq(Messages)
        /\ Signalled(mail) => Signalled(Tail(mail))
    BY <2>1, Taken, Kinds DEF TypeOK
  <2>3. CASE Head(mail).drone = cursor
    <3>1. Takes(cursor) /\ Advance(FALSE) BY <1>5, <2>3 DEF OnLine
    <3>2. heard' \in Seq(Drones) BY <3>1, RecordKept DEF TypeOK
    <3>3. /\ DronesOK' /\ cursor' \in Drones /\ timer' \in BOOLEAN /\ reporting' \in BOOLEAN
          /\ mail' \in Seq(Messages) /\ Moving'
      BY <2>1, <3>1, Advanced
    <3>4. TypeOK' BY <1>5, <3>2, <3>3 DEF OnLine, TypeOK, DronesOK
    <3> QED BY <3>3, <3>4 DEF NeverWaitsForADrone, Moving
  <2>4. CASE Head(mail).drone # cursor
    <3>1. mail' = Tail(mail) /\ UNCHANGED <<cursor, timer, reporting, drones, history>>
      BY <1>5, <2>4 DEF OnLine
    <3>2. TypeOK' BY <1>5, <2>2, <3>1 DEF OnLine, TypeOK, drones, history
    <3> QED BY <1>5, <2>2, <3>1, <3>2 DEF OnLine, NeverWaitsForADrone, Signalled
  <2> QED BY <2>3, <2>4
<1>6. CASE OnSilence
  <2>1. mail # << >> /\ Head(mail).kind = "silence" BY <1>6 DEF OnSilence, Hears
  <2>2. /\ Tail(mail) \in Seq(Messages)
        /\ Signalled(mail) => Signalled(Tail(mail))
    BY <2>1, Taken, Kinds DEF TypeOK
  <2>3. CASE Head(mail).drone = cursor
    <3>1. Advance(FALSE) BY <1>6, <2>3 DEF OnSilence
    <3>2. /\ DronesOK' /\ cursor' \in Drones /\ timer' \in BOOLEAN /\ reporting' \in BOOLEAN
          /\ mail' \in Seq(Messages) /\ Moving'
      BY <2>1, <3>1, Advanced
    <3>3. TypeOK' BY <1>6, <3>2 DEF OnSilence, TypeOK, DronesOK
    <3> QED BY <3>2, <3>3 DEF NeverWaitsForADrone, Moving
  <2>4. CASE Head(mail).drone # cursor
    <3>1. mail' = Tail(mail) /\ UNCHANGED <<cursor, timer, reporting, drones, disturbed>>
      BY <1>6, <2>4 DEF OnSilence
    <3>2. TypeOK' BY <1>6, <2>2, <3>1 DEF OnSilence, TypeOK, drones
    <3> QED BY <1>6, <2>2, <3>1, <3>2 DEF OnSilence, NeverWaitsForADrone, Signalled
  <2> QED BY <2>3, <2>4
<1>7. CASE OnFloorTimeout
  <2>1. mail # << >> /\ timer \in BOOLEAN /\ Advance(timer) BY <1>7 DEF OnFloorTimeout, Hears, TypeOK
  <2>2. /\ DronesOK' /\ cursor' \in Drones /\ timer' \in BOOLEAN /\ reporting' \in BOOLEAN
        /\ mail' \in Seq(Messages) /\ Moving'
    BY <2>1, Advanced
  <2>3. TypeOK' BY <1>7, <2>2 DEF OnFloorTimeout, TypeOK, DronesOK
  <2> QED BY <2>2, <2>3 DEF NeverWaitsForADrone, Moving
<1>8. CASE Proceed
  <2>1. round' \in Nat BY <1>8 DEF Proceed, TypeOK
  <2>2. CASE round' >= MaxRounds
    <3>1. mail' = Append(mail, Signal("adjourn")) /\ UNCHANGED <<timer, drones, disturbed>>
      BY <1>8, <2>2 DEF Proceed
    <3>2. mail' \in Seq(Messages) /\ Signalled(mail') BY <3>1, Sent, Kinds DEF TypeOK
    <3> QED BY <1>8, <2>1, <3>1, <3>2 DEF Proceed, TypeOK, NeverWaitsForADrone, Signalled, drones
  <2>3. CASE ~(round' >= MaxRounds)
    <3>1. OpenFloor(cursor) /\ mail' = mail BY <1>8, <2>3 DEF Proceed
    <3>2. DronesOK' /\ timer' = TRUE BY <1>1, <3>1, FloorOpened DEF TypeOK
    <3> QED BY <1>8, <2>1, <3>1, <3>2 DEF Proceed, TypeOK, DronesOK, NeverWaitsForADrone
  <2> QED BY <2>2, <2>3
<1>9. CASE OnAdjourn
  <2>1. mail' \in Seq(Messages) BY <1>9 DEF OnAdjourn
  <2>2. thinking' \in [Drones -> Nat] BY <1>9 DEF OnAdjourn
  <2> QED BY <1>9, <2>1, <2>2 DEF OnAdjourn, TypeOK, NeverWaitsForADrone, history
<1> QED BY <1>2, <1>3, <1>4, <1>5, <1>6, <1>7, <1>8, <1>9 DEF Coordinate

\* What timer, mesh and drones do adds to the mailbox, and takes nothing from it.
LEMMA Surrounded ==
  ASSUME Inv, \/ TimerFires \/ TopicGone
              \/ \E d \in Drones : Enter(d) \/ Exit(d) \/ Speak(d) \/ Stop(d)
  PROVE  Inv'
<1> USE DEF Inv
<1>1. CASE TimerFires
  <2>1. mail' \in Seq(Messages) /\ Signalled(mail') BY <1>1, Sent, Kinds DEF TimerFires, TypeOK
  <2> QED BY <1>1, <2>1 DEF TimerFires, TypeOK, NeverWaitsForADrone, Signalled, drones
<1>2. CASE TopicGone
  <2>1. mail' \in Seq(Messages) /\ Signalled(mail') BY <1>2, Sent, Kinds DEF TopicGone, TypeOK
  <2>2. trouble' \in 0..MaxTrouble BY <1>2, CommitteeAssumption DEF TopicGone, TypeOK
  <2> QED BY <1>2, <2>1, <2>2 DEF TopicGone, TypeOK, NeverWaitsForADrone, Signalled, drones
<1>3. ASSUME NEW d \in Drones, Enter(d) PROVE Inv'
  BY <1>3 DEF Enter, TypeOK, NeverWaitsForADrone, coordinator, history
<1>4. ASSUME NEW d \in Drones, Exit(d) PROVE Inv'
  <2>1. trouble' \in 0..MaxTrouble BY <1>4, CommitteeAssumption DEF Exit, TypeOK
  <2> QED BY <1>4, <2>1 DEF Exit, TypeOK, NeverWaitsForADrone, coordinator, history
<1>5. ASSUME NEW d \in Drones, Speak(d) PROVE Inv'
  <2>1. thinking' \in [Drones -> Nat] BY <1>5 DEF Speak, TypeOK
  <2>2. /\ mail' \in Seq(Messages)
        /\ Signalled(mail) => Signalled(mail')
        /\ disturbed' \in BOOLEAN
    BY <1>5, Sent, Kinds DEF Speak, TypeOK
  <2>3. TypeOK' BY <1>5, <2>1, <2>2 DEF Speak, TypeOK, coordinator
  <2> QED BY <1>5, <2>2, <2>3 DEF Speak, NeverWaitsForADrone, Signalled, coordinator
<1>6. ASSUME NEW d \in Drones, Stop(d) PROVE Inv'
  <2>1. thinking' \in [Drones -> Nat] BY <1>6 DEF Stop, TypeOK
  <2>2. trouble' \in 0..MaxTrouble BY <1>6, CommitteeAssumption DEF Stop, TypeOK
  <2>3. alive' \subseteq Drones /\ room' \subseteq alive' /\ disturbed' \in BOOLEAN
    BY <1>6 DEF Stop, TypeOK
  <2> QED BY <1>6, <2>1, <2>2, <2>3 DEF Stop, TypeOK, NeverWaitsForADrone, coordinator
<1> QED BY <1>1, <1>2, <1>3, <1>4, <1>5, <1>6

\* The two hold in every state of a committee.
THEOREM Invariance == Spec => []Inv
<1>1. Inv /\ [Next]_vars => Inv'
  <2>1. ASSUME Inv, UNCHANGED vars PROVE Inv'
    BY <2>1 DEF Inv, TypeOK, NeverWaitsForADrone, vars, coordinator, drones, history
  <2> QED BY <2>1, Coordinated, Surrounded DEF Next
<1> QED BY <1>1, Started, PTL DEF Spec

\* Cursor, mailbox, drones and record are what they are taken for: in particular
\* the cursor always names a drone of the roster, so current_drone finds one.
THEOREM TypeCorrect == Spec => []TypeOK
BY Invariance, PTL DEF Inv

\* However drones fail and whatever the mesh loses, a committee that runs has a
\* floor timer, a report under way or a message that moves it on.
THEOREM NeverWaits == Spec => []NeverWaitsForADrone
BY Invariance, PTL DEF Inv

-----------------------------------------------------------------------------
(* A committee that nothing disturbs.                                      *)

None == thinking = [d \in Drones |-> 0]
Only(d) == thinking = [e \in Drones |-> IF e = d THEN 1 ELSE 0]

\* The record is everyone in turn, up to the drone that has the floor.
Record ==
  /\ heard = [i \in 1..Len(heard) |-> ((i - 1) % N) + 1]
  /\ Len(heard) = (N * round) + (cursor - 1) + (IF reporting THEN N ELSE 0)

\* The floor is to be opened, is thought about, or has been spoken to.
OnTheFloor ==
  /\ running /\ ~reporting /\ round < MaxRounds
  /\ \/ mail = <<Signal("subscribe")>> /\ None
     \/ mail = << >> /\ Only(cursor)
     \/ mail = <<Message("line", cursor)>> /\ None
InReport == running /\ reporting /\ round < MaxRounds /\ cursor = 1 /\ mail = << >> /\ None
Adjourning ==
  /\ ~reporting /\ round = MaxRounds /\ cursor = 1 /\ None
  /\ running => mail = <<Signal("adjourn")>>

Calm == Record /\ (OnTheFloor \/ InReport \/ Adjourning)

\* The remainders that matter.
LEMMA InTurn ==
  ASSUME NEW r \in Nat, NEW k \in 0..(N - 1)
  PROVE  ((N * r) + k) % N = k
BY CommitteeAssumption

\* Rounds are of N lines.
LEMMA Rounds ==
  ASSUME NEW r \in Nat
  PROVE  N * r \in Nat /\ N * (r + 1) = (N * r) + N /\ N * 0 = 0
BY CommitteeAssumption

\* A mailbox of one message.
LEMMA OneMessage ==
  ASSUME NEW x
  PROVE  Head(<<x>>) = x /\ Tail(<<x>>) = << >> /\ Append(<< >>, x) = <<x>> /\ <<x>> # << >>
OBVIOUS

\* Messages of a kind.
LEMMA KindOf ==
  ASSUME NEW k, NEW d
  PROVE  Signal(k).kind = k /\ Message(k, d).kind = k /\ Message(k, d).drone = d
BY DEF Signal, Message

\* The line of the drone that has the floor is the next of the record.
LEMMA RecordGrows ==
  ASSUME TypeOK, Record, ~reporting, heard' = Append(heard, cursor)
  PROVE  /\ heard' = [i \in 1..Len(heard') |-> ((i - 1) % N) + 1]
         /\ Len(heard') = (N * round) + cursor
<1>1. heard \in Seq(Drones) /\ cursor \in 1..N /\ round \in Nat /\ N \in Nat \ {0}
  BY CommitteeAssumption DEF TypeOK, Drones
<1> DEFINE L == Len(heard)
<1>2. L \in Nat /\ L = (N * round) + (cursor - 1) BY <1>1, LenProperties DEF Record
<1>3. /\ heard' \in Seq(Drones) /\ Len(heard') = L + 1 /\ heard'[L + 1] = cursor
      /\ \A i \in 1..L : heard'[i] = heard[i]
  BY <1>1, AppendProperties DEF Drones
<1>4. L % N = cursor - 1
  <2>1. cursor - 1 \in 0..(N - 1) BY <1>1
  <2> HIDE DEF L
  <2> QED BY <1>1, <1>2, <2>1, InTurn
<1>5. \A i \in 1..L : heard[i] = ((i - 1) % N) + 1 BY DEF Record
<1> HIDE DEF L
<1>6. ASSUME NEW i \in 1..(L + 1) PROVE heard'[i] = ((i - 1) % N) + 1
  <2>1. CASE i = L + 1
    <3>1. i - 1 = L BY <1>2, <2>1
    <3> QED BY <1>1, <1>3, <1>4, <2>1, <3>1
  <2>2. CASE i # L + 1
    <3>1. i \in 1..L BY <1>2, <2>2
    <3> QED BY <1>3, <1>5, <3>1
  <2> QED BY <2>1, <2>2
<1>7. DOMAIN heard' = 1..(L + 1) /\ heard' = [i \in DOMAIN heard' |-> heard'[i]]
  BY <1>2, <1>3, LenProperties
<1>8. Len(heard') = (N * round) + cursor
  <2>1. N * round \in Nat BY <1>1, Rounds
  <2> QED BY ONLY <1>1, <1>2, <1>3, <2>1
<1> QED BY <1>3, <1>6, <1>7, <1>8

\* The floor that is opened in peace is thought about once.
LEMMA OpenedInPeace ==
  ASSUME TypeOK, None, NEW d \in Drones, OpenFloor(d), ~disturbed'
  PROVE  thinking' = [e \in Drones |-> IF e = d THEN 1 ELSE 0]
BY DEF OpenFloor, PublishFloor, None

\* A record that stays, with the numbers it goes by.
LEMMA RecordStays ==
  ASSUME Record, UNCHANGED <<heard, round, cursor, reporting>>
  PROVE  Record'
BY DEF Record

\* What the coordinator does in peace.
LEMMA CoordinatedInPeace ==
  ASSUME TypeOK, Calm, Coordinate, ~disturbed, ~disturbed'
  PROVE  Calm'
<1>0. /\ N \in Nat \ {0} /\ MaxRounds \in Nat \ {0}
      /\ cursor \in 1..N /\ round \in Nat /\ heard \in Seq(Drones) /\ N * round \in Nat
  BY CommitteeAssumption, Rounds DEF TypeOK, Drones
<1>1. /\ OnTheFloor /\ mail # << >> =>
           \/ mail = <<Signal("subscribe")>> /\ Head(mail).kind = "subscribe" /\ None
           \/ /\ mail = <<Message("line", cursor)>> /\ Head(mail).kind = "line"
              /\ Head(mail).drone = cursor /\ None
      /\ InReport => reporting
      /\ Adjourning /\ running => Head(mail).kind = "adjourn"
  BY OneMessage, KindOf DEF OnTheFloor, InReport, Adjourning
<1>2. CASE Subscribe
  <2>1. OnTheFloor /\ mail = <<Signal("subscribe")>> /\ None
    BY <1>1, <1>2 DEF Calm, Subscribe, Hears
  <2>2. /\ mail' = << >> /\ OpenFloor(cursor)
        /\ UNCHANGED <<running, cursor, round, reporting, heard>>
    BY <1>2, <2>1, OneMessage DEF Subscribe
  <2>3. Only(cursor)'
    BY <2>1, <2>2, OpenedInPeace DEF TypeOK, Only
  <2>4. OnTheFloor' BY <2>1, <2>2, <2>3 DEF OnTheFloor
  <2> QED BY <2>2, <2>4, RecordStays DEF Calm
<1>3. CASE SubscribeFails
  <2>1. OnTheFloor /\ mail = <<Signal("subscribe")>> /\ None
    BY <1>1, <1>3 DEF Calm, SubscribeFails, Hears
  <2>2. mail' = mail /\ UNCHANGED <<running, cursor, round, reporting, heard, thinking>>
    BY <1>3, <2>1, OneMessage DEF SubscribeFails, coordinator, drones, history
  <2>3. OnTheFloor' BY <2>1, <2>2 DEF OnTheFloor, None
  <2> QED BY <2>2, <2>3, RecordStays DEF Calm
<1>4. CASE OnLine
  <2>1. /\ OnTheFloor /\ mail = <<Message("line", cursor)>> /\ Head(mail).drone = cursor
        /\ None /\ ~reporting
    BY <1>1, <1>4 DEF Calm, OnLine, Hears
  <2>2. /\ Takes(cursor) /\ Advance(FALSE) /\ UNCHANGED <<running, round>>
    BY <1>4, <2>1 DEF OnLine
  <2>3. heard' = Append(heard, cursor) /\ mail' = << >>
    BY <2>1, <2>2, OneMessage DEF Takes, Advance
  <2>4. /\ heard' = [i \in 1..Len(heard') |-> ((i - 1) % N) + 1]
        /\ Len(heard') = (N * round) + cursor
    BY <2>1, <2>3, RecordGrows DEF Calm
  <2>5. CASE cursor < N
    <3>1. cursor' = cursor + 1 /\ OpenFloor(cursor + 1) /\ reporting' = reporting
      BY <2>2, <2>5 DEF Advance
    <3>2. cursor + 1 \in Drones /\ (cursor + 1) - 1 = cursor BY <1>0, <2>5 DEF Drones
    <3>3. Only(cursor)'
      BY <2>1, <3>1, <3>2, OpenedInPeace DEF Only
    <3>4. OnTheFloor' BY <2>1, <2>2, <2>3, <3>1, <3>3 DEF OnTheFloor
    <3>5. Len(heard') = (N * round') + (cursor' - 1) + 0 /\ reporting' = FALSE
      BY <1>0, <2>1, <2>2, <2>4, <3>1, <3>2
    <3> QED BY <2>4, <3>4, <3>5 DEF Calm, Record
  <2>6. CASE ~(cursor < N)
    <3>1. cursor = N /\ cursor' = 1 /\ reporting' = TRUE /\ UNCHANGED drones
      BY <1>0, <2>2, <2>6 DEF Advance
    <3>2. InReport' BY <2>1, <2>2, <2>3, <3>1 DEF InReport, OnTheFloor, None, drones
    <3>3. Len(heard') = (N * round') + (cursor' - 1) + N BY <1>0, <2>2, <2>4, <3>1
    <3> QED BY <2>4, <3>1, <3>2, <3>3 DEF Calm, Record
  <2> QED BY <2>5, <2>6
<1>5. CASE Proceed
  <2>1. InReport /\ heard' = heard /\ cursor' = cursor /\ cursor = 1 /\ running' = running
        /\ round' = round + 1 /\ reporting' = FALSE /\ running
    BY <1>5 DEF Calm, OnTheFloor, InReport, Adjourning, Proceed
  <2>2. Record'
    <3>1. heard' = [i \in 1..Len(heard') |-> ((i - 1) % N) + 1]
      BY <2>1 DEF Calm, Record
    <3>2. Len(heard) = (N * round) + (cursor - 1) + N BY <2>1 DEF Calm, Record, InReport
    <3>3. N * (round + 1) = (N * round) + N /\ N * round' = N * (round + 1)
      BY <1>0, <2>1, Rounds
    <3>4. Len(heard') = (N * round') + (cursor' - 1) + 0
      BY ONLY <1>0, <2>1, <3>2, <3>3
    <3> QED BY <2>1, <3>1, <3>4 DEF Record
  <2>3. CASE round' >= MaxRounds
    <3>1. round' = MaxRounds BY <1>0, <2>1, <2>3 DEF InReport
    <3>2. mail' = <<Signal("adjourn")>> /\ UNCHANGED thinking
      BY <1>5, <2>1, <2>3, OneMessage DEF Proceed, InReport, drones
    <3>3. Adjourning' BY <2>1, <3>1, <3>2 DEF Adjourning, InReport, None
    <3> QED BY <2>2, <3>3 DEF Calm
  <2>4. CASE ~(round' >= MaxRounds)
    <3>1. OpenFloor(cursor) /\ mail' = mail BY <1>5, <2>4 DEF Proceed
    <3>2. Only(cursor)'
      BY <2>1, <3>1, OpenedInPeace DEF InReport, TypeOK, Only
    <3>3. round' < MaxRounds BY <1>0, <2>1, <2>4
    <3>4. OnTheFloor' BY <2>1, <3>1, <3>2, <3>3 DEF OnTheFloor, InReport
    <3> QED BY <2>2, <3>4 DEF Calm
  <2> QED BY <2>3, <2>4
<1>6. CASE OnAdjourn
  <2>1. Adjourning BY <1>1, <1>6 DEF Calm, OnAdjourn, Hears, OnTheFloor, InReport
  <2>2. Adjourning' BY <1>6, <2>1 DEF Adjourning, OnAdjourn, None
  <2>3. UNCHANGED <<heard, round, cursor, reporting>> BY <1>6 DEF OnAdjourn, history
  <2> QED BY <2>2, <2>3, RecordStays DEF Calm
<1>7. ~(Gone \/ OnSilence \/ OnFloorTimeout)
  BY <1>1 DEF Calm, Gone, OnSilence, OnFloorTimeout, Hears, OnTheFloor, InReport, Adjourning
<1> QED BY <1>2, <1>3, <1>4, <1>5, <1>6, <1>7 DEF Coordinate

\* What the rest does in peace.
LEMMA SurroundedInPeace ==
  ASSUME TypeOK, Calm, ~disturbed, ~disturbed',
         \/ TimerFires \/ TopicGone
         \/ \E d \in Drones : Enter(d) \/ Exit(d) \/ Speak(d) \/ Stop(d)
  PROVE  Calm'
<1>1. PICK d \in Drones : Enter(d) \/ Exit(d) \/ Speak(d) \/ Stop(d)
  BY DEF TimerFires, TopicGone
<1>2. UNCHANGED <<running, cursor, round, reporting, heard>>
  BY <1>1 DEF Enter, Exit, Speak, Stop, coordinator, history
<1>3. Record' BY <1>2, RecordStays DEF Calm
<1>4. CASE Enter(d) \/ Exit(d)
  <2>1. UNCHANGED <<mail, thinking>> BY <1>4 DEF Enter, Exit
  <2> QED BY <1>2, <1>3, <2>1 DEF Calm, OnTheFloor, InReport, Adjourning, None, Only
<1>5. CASE Speak(d)
  <2>1. thinking[d] > 0 BY <1>5 DEF Speak
  <2>2. ~None BY <2>1 DEF None
  <2>3. OnTheFloor /\ mail = << >> /\ Only(cursor)
    BY <2>2 DEF Calm, OnTheFloor, InReport, Adjourning
  <2>4. d = cursor BY <2>1, <2>3 DEF Only
  <2>5. thinking' = [thinking EXCEPT ![d] = @ - 1] BY <1>5 DEF Speak
  <2>6. None' BY <2>3, <2>4, <2>5 DEF None, Only
  <2>7. mail' = <<Message("line", cursor)>> BY <1>5, <2>3, <2>4, OneMessage DEF Speak
  <2>8. OnTheFloor' BY <1>2, <2>3, <2>6, <2>7 DEF OnTheFloor
  <2> QED BY <1>3, <2>8 DEF Calm
<1>6. CASE Stop(d)
  <2>1. /\ ~(round < MaxRounds) /\ mail' = mail /\ thinking' = [thinking EXCEPT ![d] = 0]
    BY <1>6 DEF Stop
  <2>2. Adjourning BY <2>1 DEF Calm, OnTheFloor, InReport
  <2>3. Adjourning' BY <1>2, <2>1, <2>2 DEF Adjourning, None
  <2> QED BY <1>3, <2>3 DEF Calm
<1> QED BY <1>1, <1>4, <1>5, <1>6

\* What was disturbed stays so.
LEMMA StaysDisturbed == ASSUME TypeOK, [Next]_vars, disturbed PROVE disturbed'
<1>1. CASE Coordinate
  BY <1>1 DEF Coordinate, Subscribe, SubscribeFails, Gone, OnLine, OnSilence, OnFloorTimeout,
              Proceed, OnAdjourn, Advance, OpenFloor, PublishFloor, history
<1>2. CASE UNCHANGED vars \/ TimerFires \/ TopicGone
  BY <1>2 DEF vars, TimerFires, TopicGone, history
<1>3. ASSUME NEW d \in Drones, Enter(d) \/ Exit(d) \/ Speak(d) \/ Stop(d) PROVE disturbed'
  BY <1>3 DEF Enter, Exit, Speak, Stop, history
<1> QED BY <1>1, <1>2, <1>3 DEF Next

\* Everyone is heard once a round, in the order of the roster, and all rounds are
\* on record at the end, in any committee whose lines, floors and subscriptions
\* come through in time.
THEOREM EveryoneInTurn == Spec => []EveryoneIsHeard
<1> DEFINE Peace == ~disturbed => Calm
<1>1. Init => Peace
  <2> SUFFICES ASSUME Init PROVE Calm OBVIOUS
  <2>1. heard = << >> /\ Len(heard) = 0 /\ N * 0 = 0 /\ N \in Nat \ {0} /\ MaxRounds \in Nat \ {0}
    BY CommitteeAssumption, Rounds DEF Init
  <2>2. heard = [i \in 1..Len(heard) |-> ((i - 1) % N) + 1] BY <2>1
  <2>3. Record BY <2>1, <2>2 DEF Record, Init
  <2>4. OnTheFloor BY <2>1 DEF OnTheFloor, None, Init
  <2> QED BY <2>3, <2>4 DEF Calm
<1>2. Inv /\ Peace /\ [Next]_vars => Peace'
  <2> SUFFICES ASSUME Inv, Peace, [Next]_vars, ~disturbed' PROVE Calm' OBVIOUS
  <2>1. TypeOK /\ ~disturbed /\ Calm BY StaysDisturbed DEF Inv
  <2>2. CASE UNCHANGED vars
    BY <2>1, <2>2 DEF vars, coordinator, drones, history, Calm, Record, OnTheFloor, InReport,
                      Adjourning, None, Only
  <2> QED BY <2>1, <2>2, CoordinatedInPeace, SurroundedInPeace DEF Next
<1>3. Inv /\ Peace => EveryoneIsHeard
  <2> SUFFICES ASSUME TypeOK, Calm PROVE
                 /\ heard = [i \in 1..Len(heard) |-> ((i - 1) % N) + 1]
                 /\ ~running => Len(heard) = N * MaxRounds
    BY DEF Inv, EveryoneIsHeard
  <2>1. ~running => Adjourning BY DEF Calm, OnTheFloor, InReport
  <2>2. N * round \in Nat BY Rounds DEF TypeOK
  <2>3. Adjourning => Len(heard) = N * round /\ round = MaxRounds
    BY <2>2 DEF Calm, Record, Adjourning
  <2> QED BY <2>1, <2>3 DEF Calm, Record
<1> QED BY <1>1, <1>2, <1>3, Invariance, PTL DEF Spec

-----------------------------------------------------------------------------
(* The end, when it is due.                                                *)

\* The mailbox holds the adjournment.
Called(box) == \E i \in DOMAIN box : box[i].kind = "adjourn"

\* A committee is adjourned when its rounds are over, and not before: from the
\* last round on the adjournment is in the mailbox, whatever else is there.
EndsWhenDue == IF running THEN Called(mail) <=> round >= MaxRounds ELSE round >= MaxRounds

\* A message sent calls for the end if it is the adjournment.
LEMMA CalledSent ==
  ASSUME NEW box \in Seq(Messages), NEW x \in Messages
  PROVE  Called(Append(box, x)) <=> Called(box) \/ x.kind = "adjourn"
<1>1. /\ Append(box, x) \in Seq(Messages) /\ Len(Append(box, x)) = Len(box) + 1
      /\ \A i \in 1..Len(box) : Append(box, x)[i] = box[i]
      /\ Append(box, x)[Len(box) + 1] = x
  BY AppendProperties
<1>2. Len(box) \in Nat /\ DOMAIN box = 1..Len(box) /\ DOMAIN Append(box, x) = 1..(Len(box) + 1)
  BY <1>1, LenProperties
<1>3. 1..(Len(box) + 1) = 1..Len(box) \cup {Len(box) + 1} BY <1>2
<1> QED BY <1>1, <1>2, <1>3 DEF Called

\* A message read that is not the adjournment leaves it where it is.
LEMMA CalledTaken ==
  ASSUME NEW box \in Seq(Messages), box # << >>, Head(box).kind # "adjourn"
  PROVE  Called(Tail(box)) <=> Called(box)
<1>1. /\ Tail(box) \in Seq(Messages) /\ Head(box) = box[1]
      /\ Len(Tail(box)) = Len(box) - 1
      /\ \A i \in 1..Len(Tail(box)) : Tail(box)[i] = box[i + 1]
  BY HeadTailProperties
<1>2. Len(box) \in Nat /\ DOMAIN box = 1..Len(box) /\ DOMAIN Tail(box) = 1..(Len(box) - 1)
  BY <1>1, LenProperties
<1>3. ASSUME NEW i \in 1..(Len(box) - 1) PROVE i + 1 \in DOMAIN box /\ Tail(box)[i] = box[i + 1]
  BY <1>1, <1>2
<1>4. ASSUME NEW i \in DOMAIN box, box[i].kind = "adjourn" PROVE Called(Tail(box))
  <2>1. i # 1 BY <1>1, <1>4
  <2>2. i - 1 \in 1..(Len(box) - 1) /\ (i - 1) + 1 = i BY <1>2, <2>1
  <2>3. Tail(box)[i - 1] = box[i] BY <1>1, <1>2, <2>2
  <2> QED BY <1>2, <1>4, <2>2, <2>3 DEF Called
<1> QED BY <1>2, <1>3, <1>4 DEF Called

\* While the mailbox calls for the end just as before and no round is closed, a
\* committee that goes on keeps to it.
LEMMA StaysDue ==
  ASSUME EndsWhenDue, running' = running, round' = round, running => (Called(mail') <=> Called(mail))
  PROVE  EndsWhenDue'
BY DEF EndsWhenDue, Called

\* Nobody but proceed closes a round, and nobody but the adjournment ends it.
LEMMA DueStep == Inv /\ EndsWhenDue /\ [Next]_vars => EndsWhenDue'
<1> SUFFICES ASSUME Inv, EndsWhenDue, [Next]_vars PROVE EndsWhenDue' OBVIOUS
<1>0. /\ mail \in Seq(Messages) /\ round \in Nat /\ MaxRounds \in Nat \ {0}
      /\ \A k \in Signals : Signal(k) \in Messages /\ Signal(k).kind = k
      /\ \A d \in Drones, k \in {"line", "silence"} : Message(k, d) \in Messages /\ Message(k, d).kind = k
      /\ {"subscribe", "gone", "floor_timeout", "adjourn"} \subseteq Signals
  BY Kinds, KindOf, CommitteeAssumption DEF Inv, TypeOK
<1>1. ASSUME NEW k \in {"subscribe", "gone", "line", "silence", "floor_timeout"}, Hears(k)
      PROVE  Tail(mail) \in Seq(Messages) /\ (Called(Tail(mail)) <=> Called(mail))
  BY <1>0, <1>1, Taken, CalledTaken DEF Hears
<1>2. CASE Subscribe
  BY <1>1, <1>2, StaysDue DEF Subscribe
<1>3. CASE SubscribeFails \/ Gone
  <2>1. /\ Hears("subscribe") \/ Hears("gone")
        /\ mail' = Append(Tail(mail), Signal("subscribe")) /\ UNCHANGED <<running, round>>
    BY <1>3 DEF SubscribeFails, Gone, coordinator
  <2>2. Called(mail') <=> Called(mail) BY <1>0, <1>1, <2>1, CalledSent
  <2> QED BY <2>1, <2>2, StaysDue
<1>4. CASE OnLine \/ OnSilence \/ OnFloorTimeout
  <2>1. /\ Hears("line") \/ Hears("silence") \/ Hears("floor_timeout")
        /\ mail' = Tail(mail) /\ UNCHANGED <<running, round>>
    BY <1>4 DEF OnLine, OnSilence, OnFloorTimeout, Advance
  <2> QED BY <1>1, <2>1, StaysDue
<1>5. CASE Proceed
  <2>1. running /\ running' /\ round' = round + 1
    BY <1>5 DEF Proceed
  <2>2. CASE round' >= MaxRounds
    <3>1. mail' = Append(mail, Signal("adjourn")) BY <1>5, <2>2 DEF Proceed
    <3>2. Called(mail') BY <1>0, <3>1, CalledSent
    <3> QED BY <2>1, <2>2, <3>2 DEF EndsWhenDue, Called
  <2>3. CASE ~(round' >= MaxRounds)
    <3>1. mail' = mail BY <1>5, <2>3 DEF Proceed
    <3>2. ~(round >= MaxRounds) BY <1>0, <2>1, <2>3
    <3>3. ~Called(mail') BY <2>1, <3>1, <3>2 DEF EndsWhenDue
    <3> QED BY <2>1, <2>3, <3>3 DEF EndsWhenDue, Called
  <2> QED BY <2>2, <2>3
<1>6. CASE OnAdjourn
  <2>1. running /\ ~running' /\ round' = round /\ mail # << >> /\ Head(mail).kind = "adjourn"
    BY <1>6 DEF OnAdjourn, Hears
  <2>2. 1 \in DOMAIN mail /\ mail[1].kind = "adjourn"
    <3>1. Len(mail) \in Nat /\ DOMAIN mail = 1..Len(mail) /\ Len(mail) # 0 BY <1>0, <2>1, LenProperties, EmptySeq
    <3>2. Head(mail) = mail[1] BY <1>0, <2>1, HeadTailProperties
    <3> QED BY <2>1, <3>1, <3>2
  <2> QED BY <2>1, <2>2 DEF EndsWhenDue, Called
<1>7. CASE TimerFires \/ TopicGone
  <2>1. /\ \E k \in {"gone", "floor_timeout"} : mail' = Append(mail, Signal(k))
        /\ UNCHANGED <<running, round>>
    BY <1>7 DEF TimerFires, TopicGone
  <2>2. Called(mail') <=> Called(mail) BY <1>0, <2>1, CalledSent
  <2> QED BY <2>1, <2>2, StaysDue
<1>8. ASSUME NEW d \in Drones, Enter(d) \/ Exit(d) \/ Stop(d) PROVE EndsWhenDue'
  BY <1>8, StaysDue DEF Enter, Exit, Stop, coordinator
<1>9. ASSUME NEW d \in Drones, Speak(d) PROVE EndsWhenDue'
  <2>1. /\ mail' = mail \/ \E k \in {"line", "silence"} : mail' = Append(mail, Message(k, d))
        /\ UNCHANGED <<running, round>>
    BY <1>9 DEF Speak, coordinator
  <2>2. ASSUME NEW k \in {"line", "silence"} PROVE Called(Append(mail, Message(k, d))) <=> Called(mail)
    BY <1>0, CalledSent
  <2>3. Called(mail') <=> Called(mail)
    <3>1. CASE mail' = mail BY <3>1
    <3>2. CASE mail' # mail
      <4>1. PICK k \in {"line", "silence"} : mail' = Append(mail, Message(k, d)) BY <2>1, <3>2
      <4> QED BY <2>2, <4>1
    <3> QED BY <3>1, <3>2
  <2> QED BY <2>1, <2>3, StaysDue
<1>10. CASE UNCHANGED vars
  BY <1>10, StaysDue DEF vars, coordinator
<1> QED BY <1>2, <1>3, <1>4, <1>5, <1>6, <1>7, <1>8, <1>9, <1>10 DEF Next, Coordinate

\* No committee ends before its last round was reported, and from then on its
\* end is on the way, whatever the mesh loses and however late its timers are.
THEOREM EndsInTime == Spec => []EndsWhenDue
<1>1. Init => EndsWhenDue
  <2>1. Init => mail = <<Signal("subscribe")>> /\ running /\ round = 0 BY DEF Init
  <2>2. ~Called(<<Signal("subscribe")>>) BY KindOf DEF Called
  <2> QED BY <2>1, <2>2, CommitteeAssumption DEF EndsWhenDue
<1> QED BY <1>1, DueStep, Invariance, PTL DEF Spec

=============================================================================
