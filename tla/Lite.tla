-------------------------------- MODULE Lite --------------------------------
(***************************************************************************)
(* Entities of spartan_lite.py that talk to one another: each streams its  *)
(* inbox, has a language model think of a reply to every message that is   *)
(* not a broadcast, up to MaxTurns for each peer, and posts it; a second   *)
(* thread opens the first dialogue. An entity makes a new key each time it *)
(* is started, so its name moves to a new DID and the node knows the old   *)
(* one no more. What waits for a DID, on the node or on its stream, is one *)
(* queue here.                                                             *)
(***************************************************************************)
EXTENDS Integers, Sequences, FiniteSets

CONSTANTS
  Entities,
  Greets,     \* whom each is told to greet, or Nobody
  Nobody,
  Outsiders,  \* peers that never answer: the wire, the square
  MaxTurns,   \* --max-turns
  MaxLives,   \* bound: starts of each entity
  MaxNews,    \* bound: what the outsiders say
  TtlDays,    \* how long a UCAN is good for
  LastDay,    \* bound: days that pass
  MaxFaults   \* bound: requests, thoughts and processes that fail

ASSUME LiteAssumption ==
  /\ Greets \in [Entities -> Entities \cup {Nobody}] /\ Nobody \notin Entities
  /\ MaxTurns \in Nat /\ MaxLives \in Nat \ {0} /\ MaxNews \in Nat
  /\ TtlDays \in Nat \ {0} /\ LastDay \in Nat /\ MaxFaults \in Nat

Dids == Entities \X (1..MaxLives)
Peers == Dids \cup (Outsiders \X {0})
Messages == [from : Peers, broadcast : BOOLEAN]

VARIABLES
  life,    \* how often each entity was started; 0 before the first
  at,      \* where its main thread is
  hand,    \* the peer it is answering
  turns,   \* turns: the replies of each DID to each peer
  issued,  \* the day of issue of its UCAN
  greeter, \* where its greeting thread is
  found,   \* whom that has found
  box,     \* what waits for each DID
  news, day, faults,
  said     \* history: how many messages of one DID were accepted for another,
           \* counted up to Many

threadVars == <<at, hand, turns, greeter, found>>
vars == <<life, threadVars, issued, box, news, day, faults, said>>

Many == MaxTurns + 2
Did(e) == <<e, life[e]>>
\* The directory has the newest DID of every name.
Known(did) == did[2] > 0 => did = Did(did[1])

TypeOK ==
  /\ life \in [Entities -> 0..MaxLives]
  /\ at \in [Entities -> {"off", "connect", "refresh", "listen", "think", "post", "renew",
                      "sleep", "stalled"}]
  /\ \A e \in Entities : hand[e] \in Peers \cup {<<Nobody, 0>>}
  /\ turns \in [Dids -> [Peers -> 0..MaxTurns]]
  /\ \A e \in Entities : issued[e] \in 0..day
  /\ greeter \in [Entities -> {"off", "look", "post", "renew", "over"}]
  /\ \A e \in Entities : found[e] \in Dids \cup {<<Nobody, 0>>}
  /\ \A d \in Dids : box[d] \in Seq(Messages)
  /\ news \in 0..MaxNews /\ day \in 0..LastDay /\ faults \in 0..MaxFaults
  /\ said \in [Peers -> [Peers -> 0..Many]]

Init ==
  /\ life = [e \in Entities |-> 0] /\ at = [e \in Entities |-> "off"]
  /\ hand = [e \in Entities |-> <<Nobody, 0>>] /\ turns = [d \in Dids |-> [p \in Peers |-> 0]]
  /\ issued = [e \in Entities |-> 0] /\ greeter = [e \in Entities |-> "off"]
  /\ found = [e \in Entities |-> <<Nobody, 0>>] /\ box = [d \in Dids |-> << >>]
  /\ news = 0 /\ day = 0 /\ faults = 0 /\ said = [p \in Peers |-> [q \in Peers |-> 0]]

Expired(e) == day >= issued[e] + TtlDays
Fault == faults < MaxFaults /\ faults' = faults + 1

-----------------------------------------------------------------------------
(* The node and the world.                                                 *)

\* /v1/send takes a message for a DID it knows; a peer outside has no queue here.
Accept(from, to) ==
  /\ said' = [said EXCEPT ![from][to] = IF @ = Many THEN Many ELSE @ + 1]
  /\ box' = IF to \in Dids
            THEN [box EXCEPT ![to] = Append(@, [from |-> from, broadcast |-> FALSE])] ELSE box
Turn(from, to) == IF Known(to) THEN Accept(from, to) ELSE UNCHANGED <<said, box>>

\* A headline, a post in the square or a broadcast comes in.
Outside(o, e) ==
  /\ news < MaxNews /\ life[e] > 0
  /\ news' = news + 1
  /\ \/ Accept(<<o, 0>>, Did(e))
     \/ /\ box' = [box EXCEPT ![Did(e)] = Append(@, [from |-> <<o, 0>>, broadcast |-> TRUE])]
        /\ UNCHANGED said
  /\ UNCHANGED <<life, threadVars, issued, day, faults>>

DayPasses ==
  /\ day < LastDay
  /\ day' = day + 1
  /\ UNCHANGED <<life, threadVars, issued, box, news, faults, said>>

-----------------------------------------------------------------------------
(* The main thread.                                                        *)

\* A new key, its registration, and no memory of any dialogue.
Start(e) ==
  /\ at[e] = "off" /\ life[e] < MaxLives
  /\ life' = [life EXCEPT ![e] = @ + 1]
  /\ at' = [at EXCEPT ![e] = "connect"] /\ issued' = [issued EXCEPT ![e] = day]
  /\ greeter' = [greeter EXCEPT ![e] = IF Greets[e] = Nobody THEN "over" ELSE "look"]
  /\ UNCHANGED <<hand, turns, found, box, news, day, faults, said>>

Connect(e) ==
  /\ at[e] = "connect"
  /\ at' = [at EXCEPT ![e] = IF Expired(e) THEN "refresh" ELSE "listen"]
  /\ UNCHANGED <<life, hand, turns, issued, greeter, found, box, news, day, faults, said>>

\* Mistake: the new UCAN is not kept.
RefreshInVain(e) ==
  /\ at[e] = "refresh"
  /\ at' = [at EXCEPT ![e] = "connect"]
  /\ UNCHANGED <<life, hand, turns, issued, greeter, found, box, news, day, faults, said>>

\* A 401 to the stream: register again and open it at once.
Refresh(e) ==
  /\ at[e] = "refresh"
  /\ issued' = [issued EXCEPT ![e] = day] /\ at' = [at EXCEPT ![e] = "connect"]
  /\ UNCHANGED <<life, hand, turns, greeter, found, box, news, day, faults, said>>

\* Mistakes: no end to a dialogue; one count for all peers.
HandleForEver(e) ==
  /\ at[e] = "listen" /\ box[Did(e)] # << >>
  /\ LET msg == Head(box[Did(e)])
     IN  IF msg.broadcast
         THEN UNCHANGED <<hand, at>>
         ELSE hand' = [hand EXCEPT ![e] = msg.from] /\ at' = [at EXCEPT ![e] = "think"]
  /\ box' = [box EXCEPT ![Did(e)] = Tail(@)]
  /\ UNCHANGED <<life, turns, issued, greeter, found, news, day, faults, said>>

HandleByTotal(e) ==
  /\ at[e] = "listen" /\ box[Did(e)] # << >>
  /\ LET msg == Head(box[Did(e)])
     IN  IF msg.broadcast \/ \E p \in Peers : turns[Did(e)][p] >= MaxTurns
         THEN UNCHANGED <<hand, at>>
         ELSE hand' = [hand EXCEPT ![e] = msg.from] /\ at' = [at EXCEPT ![e] = "think"]
  /\ box' = [box EXCEPT ![Did(e)] = Tail(@)]
  /\ UNCHANGED <<life, turns, issued, greeter, found, news, day, faults, said>>

\* _handle, up to the call of think. A post of the square is a message like any.
Handle(e) ==
  /\ at[e] = "listen" /\ box[Did(e)] # << >>
  /\ LET msg == Head(box[Did(e)])
     IN  IF msg.broadcast \/ msg.from = Did(e) \/ turns[Did(e)][msg.from] >= MaxTurns
         THEN UNCHANGED <<hand, at>>
         ELSE hand' = [hand EXCEPT ![e] = msg.from] /\ at' = [at EXCEPT ![e] = "think"]
  /\ box' = [box EXCEPT ![Did(e)] = Tail(@)]
  /\ UNCHANGED <<life, turns, issued, greeter, found, news, day, faults, said>>

\* Mistake: replies are not counted.
ThinkUncounted(e) ==
  /\ at[e] = "think"
  /\ at' = [at EXCEPT ![e] = "post"]
  /\ UNCHANGED <<life, hand, turns, issued, greeter, found, box, news, day, faults, said>>

\* The reply is in the history, and counts, before it is sent.
Think(e) ==
  /\ at[e] = "think"
  /\ turns' = [turns EXCEPT ![Did(e)][hand[e]] = @ + 1]
  /\ at' = [at EXCEPT ![e] = "post"]
  /\ UNCHANGED <<life, hand, issued, greeter, found, box, news, day, faults, said>>

\* send, whose result is ignored.
Post(e) ==
  /\ at[e] = "post" /\ ~Expired(e)
  /\ Turn(Did(e), hand[e])
  /\ at' = [at EXCEPT ![e] = "listen"] /\ hand' = [hand EXCEPT ![e] = <<Nobody, 0>>]
  /\ UNCHANGED <<life, turns, issued, greeter, found, news, day, faults>>

PostRefused(e) ==
  /\ at[e] = "post" /\ Expired(e)
  /\ at' = [at EXCEPT ![e] = "renew"]
  /\ UNCHANGED <<life, hand, turns, issued, greeter, found, box, news, day, faults, said>>

\* Registered again; the second post is the last.
PostAgain(e) ==
  /\ at[e] = "renew"
  /\ issued' = [issued EXCEPT ![e] = day]
  /\ Turn(Did(e), hand[e])
  /\ at' = [at EXCEPT ![e] = "listen"] /\ hand' = [hand EXCEPT ![e] = <<Nobody, 0>>]
  /\ UNCHANGED <<life, turns, greeter, found, news, day, faults>>

Wake(e) ==
  /\ at[e] = "sleep"
  /\ at' = [at EXCEPT ![e] = "connect"]
  /\ UNCHANGED <<life, hand, turns, issued, greeter, found, box, news, day, faults, said>>

-----------------------------------------------------------------------------
(* The greeting thread. An exception ends it, and nothing else.            *)

\* The peer is looked for until it is there; a 401 is an exception.
Look(e) ==
  /\ greeter[e] = "look"
  /\ IF Expired(e) THEN greeter' = [greeter EXCEPT ![e] = "over"] /\ UNCHANGED found
     ELSE /\ life[Greets[e]] > 0
          /\ greeter' = [greeter EXCEPT ![e] = "post"]
          /\ found' = [found EXCEPT ![e] = Did(Greets[e])]
  /\ UNCHANGED <<life, at, hand, turns, issued, box, news, day, faults, said>>

\* Two minutes are over.
GiveUp(e) ==
  /\ greeter[e] = "look"
  /\ greeter' = [greeter EXCEPT ![e] = "over"]
  /\ UNCHANGED <<life, at, hand, turns, issued, found, box, news, day, faults, said>>

\* The opener, posted like a reply but not counted as one.
Greet(e) ==
  /\ greeter[e] = "post"
  /\ IF Expired(e) THEN greeter' = [greeter EXCEPT ![e] = "renew"] /\ UNCHANGED <<said, box>>
     ELSE greeter' = [greeter EXCEPT ![e] = "over"] /\ Turn(Did(e), found[e])
  /\ UNCHANGED <<life, at, hand, turns, issued, found, news, day, faults>>

GreetAgain(e) ==
  /\ greeter[e] = "renew"
  /\ issued' = [issued EXCEPT ![e] = day]
  /\ greeter' = [greeter EXCEPT ![e] = "over"] /\ Turn(Did(e), found[e])
  /\ UNCHANGED <<life, at, hand, turns, found, news, day, faults>>

-----------------------------------------------------------------------------
(* What fails.                                                             *)

\* The model does not answer: the message is dropped, the turn is not counted.
ThinkError(e) ==
  /\ Fault /\ at[e] = "think"
  /\ at' = [at EXCEPT ![e] = "listen"] /\ hand' = [hand EXCEPT ![e] = <<Nobody, 0>>]
  /\ UNCHANGED <<life, turns, issued, greeter, found, box, news, day, said>>

\* Mistake: the message is handled again when its reply was not acknowledged.
SilenceRetried(e) ==
  /\ Fault /\ at[e] = "post" /\ ~Expired(e)
  /\ Turn(Did(e), hand[e]) \/ UNCHANGED <<said, box>>
  /\ at' = [at EXCEPT ![e] = "think"]
  /\ UNCHANGED <<life, hand, turns, issued, greeter, found, news, day>>

\* A request without an answer leaves the with statement: with the stream goes
\* what was on it. A reply that was being posted may have been accepted.
Silence(e) ==
  /\ Fault /\ at[e] \in {"connect", "refresh", "listen", "post", "renew"}
  /\ at' = [at EXCEPT ![e] = "sleep"] /\ hand' = [hand EXCEPT ![e] = <<Nobody, 0>>]
  /\ \/ \E k \in 0..(IF at[e] \in {"connect", "refresh"} THEN 0 ELSE Len(box[Did(e)])) :
          /\ box' = [box EXCEPT ![Did(e)] = SubSeq(@, k + 1, Len(@))]
          /\ UNCHANGED said
     \/ at[e] = "post" /\ ~Expired(e) /\ Turn(Did(e), hand[e])
  /\ UNCHANGED <<life, turns, issued, greeter, found, news, day>>

\* The stream dies without a word, and is waited for without a timeout.
Stall(e) ==
  /\ Fault /\ at[e] = "listen"
  /\ at' = [at EXCEPT ![e] = "stalled"]
  /\ UNCHANGED <<life, hand, turns, issued, greeter, found, box, news, day, said>>

GreetSilence(e) ==
  /\ Fault /\ greeter[e] \in {"look", "post", "renew"}
  /\ greeter' = [greeter EXCEPT ![e] = "over"]
  /\ \/ UNCHANGED <<said, box>>
     \/ greeter[e] = "post" /\ ~Expired(e) /\ Turn(Did(e), found[e])
  /\ UNCHANGED <<life, at, hand, turns, issued, found, news, day>>

\* The process ends, both threads with it.
Dies(e) ==
  /\ Fault /\ at[e] # "off"
  /\ at' = [at EXCEPT ![e] = "off"] /\ greeter' = [greeter EXCEPT ![e] = "off"]
  /\ hand' = [hand EXCEPT ![e] = <<Nobody, 0>>]
  /\ UNCHANGED <<life, turns, issued, found, box, news, day, said>>

-----------------------------------------------------------------------------
Main(e) ==
  \/ Connect(e) \/ Refresh(e) \/ Handle(e) \/ Think(e) \/ Post(e) \/ PostRefused(e)
  \/ PostAgain(e) \/ Wake(e)

Greeting(e) == Look(e) \/ GiveUp(e) \/ Greet(e) \/ GreetAgain(e)

Failure(e) == ThinkError(e) \/ Silence(e) \/ Stall(e) \/ GreetSilence(e) \/ Dies(e)

Next ==
  \/ \E e \in Entities : \/ Start(e) \/ Main(e) \/ Greeting(e) \/ Failure(e)
                         \/ \E o \in Outsiders : Outside(o, e)
  \/ DayPasses

Spec == Init /\ [][Next]_vars

\* Both threads of a process go on.
FairSpec == Spec /\ \A e \in Entities : WF_vars(Main(e)) /\ WF_vars(Greeting(e))

-----------------------------------------------------------------------------
(* Properties.                                                             *)

\* An entity told to greet a peer opens one dialogue with it in each of its lives.
Opening(d, p) == IF d[1] \in Entities /\ Greets[d[1]] = p[1] THEN 1 ELSE 0

\* No peer is told more than MaxTurns replies and the opening.
TurnsAreBounded ==
  \A d \in Dids, p \in Peers : said[d][p] <= MaxTurns + Opening(d, p)

\* A reply answers a message of its own: nobody is answered more often than it
\* spoke, whatever was refused, posted again or lost.
NoMonologue ==
  \A d \in Dids, p \in Peers : said[d][p] <= said[p][d] + Opening(d, p)

Quiet ==
  \A e \in Entities :
     /\ at[e] \in {"off", "listen", "stalled"} /\ greeter[e] \in {"off", "over"}
     /\ at[e] = "listen" => box[Did(e)] = << >>

\* A dialogue that nothing disturbed ends because one of the two has had all its
\* turns, and headlines or posts heard in between do not shorten it.
EndsByTurns ==
  Quiet /\ faults = 0 =>
     \A d, p \in Dids : d # p /\ said[d][p] > 0 => turns[d][p] = MaxTurns \/ turns[p][d] = MaxTurns

\* Dialogues converge: in the end nobody thinks or speaks any more.
Converges == <>[]Quiet

\* An entity that connects with an expired UCAN gets a fresh one, unless its
\* process ends.
RefusedRefreshes ==
  \A e \in Entities : (at[e] = "connect" /\ Expired(e)) ~> (~Expired(e) \/ at[e] = "off")

=============================================================================
