------------------------------ MODULE Committee -------------------------------
(***************************************************************************)
(* One committee: the coordinator (committee.erl), which gives the floor   *)
(* to its drones one after the other for MaxRounds rounds and has the      *)
(* scribe report after each, and the drones (committee_drone.erl), each a  *)
(* process that thinks when it hears it has the floor and says a line on   *)
(* the committee's topic. Coordinator and drones meet only on that topic,  *)
(* where a fact reaches those subscribed at the time, or does not.         *)
(*                                                                         *)
(* The coordinator is a gen_server: a handler runs whole but for the       *)
(* scribe's minutes, and what comes meanwhile is in the mailbox. How long  *)
(* a fact travels is part of how long a drone thinks.                      *)
(***************************************************************************)
EXTENDS Naturals, Sequences

CONSTANTS
  N,           \* the drones, numbered in the order of the roster
  MaxRounds,   \* max_rounds
  MaxTrouble   \* bound: subscriptions that fail or are dropped

ASSUME CommitteeAssumption ==
  /\ N \in Nat \ {0} /\ MaxRounds \in Nat \ {0} /\ MaxTrouble \in Nat

VARIABLES
  running,     \* the coordinator is alive
  mail,        \* its mailbox
  subscribed,  \* it hears the topic
  cursor,      \* the drone that has the floor
  round,       \* rounds closed
  timer,       \* a floor timer runs
  reporting,   \* the scribe thinks, and the coordinator waits for it
  alive,       \* drones that have not stopped
  room,        \* drones that hear the topic
  thinking,    \* how many thoughts each drone has under way
  trouble,     \* how often the mesh failed so far
  disturbed,   \* history: a line, a floor or a subscription was lost or late
  heard        \* history: the drones whose lines it took, up to then

coordinator == <<running, subscribed, cursor, round, timer, reporting>>
history == <<disturbed, heard>>
drones == <<alive, room, thinking>>
vars == <<coordinator, mail, drones, trouble, history>>

Drones == 1..N
Signals == {"subscribe", "gone", "floor_timeout", "adjourn"}
Message(kind, d) == [kind |-> kind, drone |-> d]
Signal(kind) == Message(kind, 0)
Messages == [kind : Signals \cup {"line", "silence"}, drone : 0..N]

TypeOK ==
  /\ running \in BOOLEAN /\ subscribed \in BOOLEAN /\ timer \in BOOLEAN
  /\ reporting \in BOOLEAN /\ disturbed \in BOOLEAN
  /\ mail \in Seq(Messages) /\ heard \in Seq(Drones)
  /\ cursor \in Drones /\ round \in Nat /\ trouble \in 0..MaxTrouble
  /\ alive \subseteq Drones /\ room \subseteq alive
  /\ thinking \in [Drones -> Nat]

\* init: the drones are born, and the subscription is asked for.
Init ==
  /\ running = TRUE /\ mail = <<Signal("subscribe")>> /\ subscribed = FALSE
  /\ cursor = 1 /\ round = 0 /\ timer = FALSE /\ reporting = FALSE
  /\ alive = Drones /\ room = {} /\ thinking = [d \in Drones |-> 0]
  /\ trouble = 0 /\ disturbed = FALSE /\ heard = << >>

-----------------------------------------------------------------------------
(* The floor.                                                              *)

\* The line is taken.
Takes(d) == heard' = IF disturbed THEN heard ELSE Append(heard, d)

\* publish_floor: the drone starts a thought, unless the fact does not reach it.
PublishFloor(d) ==
  \/ /\ d \in room
     /\ thinking' = [thinking EXCEPT ![d] = @ + 1]
     /\ UNCHANGED <<alive, room, disturbed>>
  \/ /\ disturbed' = TRUE
     /\ UNCHANGED drones

\* Mistake: the floor is given without a timer.
OpenFloorUntimed(d) == PublishFloor(d) /\ UNCHANGED timer

\* open_floor: whatever timer ran is cancelled, and a new one armed.
OpenFloor(d) == PublishFloor(d) /\ timer' = TRUE

\* advance: the next drone, or the report that closes the round. The report
\* takes its time, and a timer that still runs goes on.
Advance(left) ==
  /\ mail' = Tail(mail)
  /\ IF cursor < N
     THEN /\ cursor' = cursor + 1 /\ OpenFloor(cursor + 1)
          /\ UNCHANGED reporting
     ELSE /\ cursor' = 1 /\ timer' = left /\ reporting' = TRUE
          /\ UNCHANGED <<drones, disturbed>>

-----------------------------------------------------------------------------
(* The coordinator's handlers.                                             *)

Hears(kind) == running /\ ~reporting /\ mail # << >> /\ Head(mail).kind = kind

\* do_subscribe: the room is open, and the floor with it, now or once more.
Subscribe ==
  /\ Hears("subscribe")
  /\ mail' = Tail(mail) /\ subscribed' = TRUE
  /\ OpenFloor(cursor)
  /\ UNCHANGED <<running, cursor, round, reporting, trouble, heard>>

\* Or it is asked for again.
SubscribeFails ==
  /\ Hears("subscribe") /\ trouble < MaxTrouble
  /\ trouble' = trouble + 1
  /\ mail' = Append(Tail(mail), Signal("subscribe"))
  /\ UNCHANGED <<coordinator, drones, history>>

\* macula_event_gone
Gone ==
  /\ Hears("gone")
  /\ mail' = Append(Tail(mail), Signal("subscribe"))
  /\ UNCHANGED <<coordinator, drones, trouble, history>>

\* Mistake: the timer is cancelled for whoever speaks.
OnLineCancels ==
  /\ Hears("line")
  /\ LET d == Head(mail).drone
     IN  IF d = cursor THEN Takes(d) /\ Advance(FALSE)
         ELSE /\ mail' = Tail(mail) /\ timer' = FALSE
              /\ UNCHANGED <<cursor, reporting, drones, history>>
  /\ UNCHANGED <<running, subscribed, round, trouble>>

\* committee_line: from the drone that has the floor, or of no account here.
OnLine ==
  /\ Hears("line")
  /\ LET d == Head(mail).drone
     IN  IF d = cursor THEN Takes(d) /\ Advance(FALSE)
         ELSE /\ mail' = Tail(mail)
              /\ UNCHANGED <<cursor, timer, reporting, drones, history>>
  /\ UNCHANGED <<running, subscribed, round, trouble>>

OnSilence ==
  /\ Hears("silence")
  /\ UNCHANGED <<running, subscribed, round, trouble, heard>>
  /\ IF Head(mail).drone = cursor THEN Advance(FALSE)
     ELSE /\ mail' = Tail(mail)
          /\ UNCHANGED <<cursor, timer, reporting, drones, disturbed>>

\* floor_timeout, of whichever timer it was.
OnFloorTimeout ==
  /\ Hears("floor_timeout")
  /\ UNCHANGED <<running, subscribed, round, trouble, heard>>
  /\ Advance(timer)

\* Mistake: a new round starts with the drone that ended the last.
ProceedInPlace ==
  /\ running /\ reporting
  /\ reporting' = FALSE /\ round' = round + 1
  /\ IF round' >= MaxRounds
     THEN mail' = Append(mail, Signal("adjourn")) /\ UNCHANGED <<cursor, timer, drones, disturbed>>
     ELSE cursor' = N /\ OpenFloor(N) /\ UNCHANGED mail
  /\ UNCHANGED <<running, subscribed, trouble, heard>>

\* proceed: the next round, or the adjournment, which is a message to itself
\* and behind all that came during the report.
Proceed ==
  /\ running /\ reporting
  /\ reporting' = FALSE /\ round' = round + 1
  /\ IF round' >= MaxRounds
     THEN mail' = Append(mail, Signal("adjourn")) /\ UNCHANGED <<timer, drones, disturbed>>
     ELSE OpenFloor(cursor) /\ UNCHANGED mail
  /\ UNCHANGED <<running, subscribed, cursor, trouble, heard>>

\* adjourn: the end; terminate stops the drones.
OnAdjourn ==
  /\ Hears("adjourn")
  /\ running' = FALSE /\ mail' = << >> /\ subscribed' = FALSE /\ timer' = FALSE
  /\ alive' = {} /\ room' = {} /\ thinking' = [d \in Drones |-> 0]
  /\ UNCHANGED <<cursor, round, reporting, trouble, history>>

-----------------------------------------------------------------------------
(* Timer, mesh and drones.                                                 *)

\* The time it takes is longer than it takes to read what is in the mailbox:
\* the last one's message is not there any more.
TimerFires ==
  /\ timer /\ \A i \in DOMAIN mail : mail[i].kind # "floor_timeout"
  /\ timer' = FALSE /\ mail' = Append(mail, Signal("floor_timeout"))
  /\ disturbed' = TRUE
  /\ UNCHANGED <<running, subscribed, cursor, round, reporting, drones, trouble, heard>>

TopicGone ==
  /\ subscribed /\ trouble < MaxTrouble
  /\ trouble' = trouble + 1 /\ subscribed' = FALSE
  /\ mail' = Append(mail, Signal("gone"))
  /\ disturbed' = TRUE
  /\ UNCHANGED <<running, cursor, round, timer, reporting, drones, heard>>

Enter(d) ==
  /\ d \in alive \ room
  /\ room' = room \cup {d}
  /\ UNCHANGED <<coordinator, mail, alive, thinking, trouble, history>>

\* A drone's own subscription is dropped; it will ask for another.
Exit(d) ==
  /\ d \in room /\ trouble < MaxTrouble
  /\ trouble' = trouble + 1 /\ room' = room \ {d}
  /\ UNCHANGED <<coordinator, mail, alive, thinking, history>>

\* A thought ends: a line, or word that there is none, if that gets through.
Speak(d) ==
  /\ thinking[d] > 0
  /\ thinking' = [thinking EXCEPT ![d] = @ - 1]
  /\ \/ /\ subscribed /\ mail' = Append(mail, Message("line", d))
        /\ UNCHANGED disturbed
     \/ /\ subscribed /\ mail' = Append(mail, Message("silence", d))
        /\ disturbed' = TRUE
     \/ disturbed' = TRUE /\ UNCHANGED mail
  /\ UNCHANGED <<coordinator, alive, room, trouble, heard>>

\* It crashes, or has heard of the adjournment. Nothing starts it again.
Stop(d) ==
  /\ d \in alive /\ (trouble < MaxTrouble \/ (round >= MaxRounds /\ d \in room))
  /\ trouble' = IF round >= MaxRounds /\ d \in room THEN trouble ELSE trouble + 1
  /\ alive' = alive \ {d} /\ room' = room \ {d} /\ thinking' = [thinking EXCEPT ![d] = 0]
  /\ disturbed' = (disturbed \/ round < MaxRounds)
  /\ UNCHANGED <<coordinator, mail, heard>>

-----------------------------------------------------------------------------
Coordinate ==
  \/ Subscribe \/ SubscribeFails \/ Gone \/ OnLine \/ OnSilence \/ OnFloorTimeout
  \/ Proceed \/ OnAdjourn

Next ==
  \/ Coordinate \/ TimerFires \/ TopicGone
  \/ \E d \in Drones : Enter(d) \/ Exit(d) \/ Speak(d) \/ Stop(d)

Spec == Init /\ [][Next]_vars

\* The coordinator reads its mailbox and timers fire. Nothing is asked of a drone.
FairSpec == Spec /\ WF_vars(Coordinate) /\ WF_vars(TimerFires)

-----------------------------------------------------------------------------
(* Properties.                                                             *)

\* The committee never waits for a drone alone: a timer runs, or something is in
\* the mailbox that opens the floor, passes it on or ends the committee.
NeverWaitsForADrone ==
  running => timer \/ reporting \/ \E i \in DOMAIN mail : mail[i].kind \in Signals

\* If nothing is lost or late, everyone is heard once a round, in the order of
\* the roster, and the record is complete when the committee adjourns.
EveryoneIsHeard ==
  ~disturbed =>
    /\ heard = [i \in 1..Len(heard) |-> ((i - 1) % N) + 1]
    /\ ~running => Len(heard) = N * MaxRounds

\* Drones that crash, stay silent or cannot be heard do not keep it from ending.
Ends == <>~running

=============================================================================
