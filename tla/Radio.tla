------------------------------- MODULE Radio --------------------------------
(***************************************************************************)
(* The receive bridge of macula_radio.py: the loop that resolves the       *)
(* peers' names, opens the stream of its entity's inbox and turns each     *)
(* message into an alert file that Spartan's FileWatcher hears, if its     *)
(* sender is in the whitelist. It runs against one node: its inbox         *)
(* (Inbox), its registry, the mesh subscription of federation_inbox and    *)
(* the UCANs it issues, which stop being good TtlDays after their issue.   *)
(***************************************************************************)
EXTENDS Inbox

CONSTANTS
  Peers,      \* who writes to the entity
  Local,      \* those homed on this node
  SenderOf,   \* the peer each message is from
  Called,     \* entity_name: the name each peer registers under
  Since,      \* registered_at: and when
  MaxCopies,  \* bound: how often the mesh may bring one message
  TtlDays,    \* how long a UCAN is good for
  LastDay,    \* bound: days that pass
  MaxFaults,  \* bound: connections, requests and processes that fail
  NoStream    \* `resp' outside the with statement

ASSUME RadioAssumption ==
  /\ Local \subseteq Peers /\ SenderOf \in [Msgs -> Peers] /\ Since \in [Peers -> Nat]
  /\ MaxCopies \in Nat /\ TtlDays \in Nat \ {0} /\ LastDay \in Nat /\ MaxFaults \in Nat
  /\ NoStream \notin Streams

VARIABLES
  registered,  \* the entity is in the node's registry and directory
  known,       \* the peers in the directory
  met,         \* history: those that were ever entered there
  meshSub,     \* federation_inbox is subscribed to the entity's topic
  copies,      \* how often the mesh will still bring each message
  sent,        \* the messages a node accepted for routing
  day,         \* the node's date
  restarted,   \* history: the node's memory was lost once
  faults,      \* how much has failed so far
  fileTok,     \* the day of issue of the UCAN in the config file
  tok,         \* of the one the bridge holds in cfg
  pc,          \* where the bridge is
  byDid,       \* by_did: the peers it has a name for
  cur,         \* the stream it reads
  hand,        \* the message it is turning into an alert, 0 for none
  white,       \* alerts/.whitelist
  alerts       \* the alert files, in the order of their names

nodeVars == <<registered, known, met, meshSub, copies, sent, day, restarted>>
bridgeVars == <<tok, pc, byDid, cur, hand, white, alerts>>
vars == <<inboxVars, nodeVars, faults, fileTok, bridgeVars>>

\* The name an alert is filed under: the peer's own, or else its DID.
Names == Peers \X {"name", "did"}
NameOf(n) == LET p == SenderOf[arrivals[n]]
             IN  <<p, IF p \in byDid THEN "name" ELSE "did">>

Places == {"resolve", "receive", "refresh", "reading", "lookup", "whitelist",
           "write", "stalled", "sleep", "down"}

TypeOK ==
  /\ InboxTypeOK
  /\ registered \in BOOLEAN /\ meshSub \in BOOLEAN /\ restarted \in BOOLEAN
  /\ known \subseteq Peers /\ met \subseteq Peers /\ byDid \subseteq Peers
  /\ copies \in [Msgs -> 0..MaxCopies] /\ sent \subseteq Msgs
  /\ day \in 0..LastDay /\ tok \in 0..day /\ fileTok \in 0..day
  /\ faults \in 0..MaxFaults
  /\ pc \in Places /\ cur \in Streams \cup {NoStream} /\ hand \in Nat
  /\ white \subseteq Names /\ alerts \in Seq([at : Nat, name : Names])

Init ==
  /\ InboxInit
  /\ registered = TRUE /\ known = {} /\ met = {} /\ meshSub = FALSE /\ restarted = FALSE
  /\ copies = [m \in Msgs |-> 0] /\ sent = {} /\ day = 0 /\ faults = 0
  /\ fileTok = 0 /\ tok = 0 /\ pc = "resolve" /\ byDid = {} /\ cur = NoStream
  /\ hand = 0 /\ white = {} /\ alerts = << >>

Expired(issued) == day >= issued + TtlDays

-----------------------------------------------------------------------------
(* The node.                                                               *)

\* A peer of this node writes, with the UCAN it was given when it registered.
\* dispatch hands the message to the inbox and publishes it; route_message_api
\* refuses a recipient it does not know.
SendHere(msg) ==
  /\ msg \notin sent /\ SenderOf[msg] \in Local
  /\ SenderOf[msg] \in met
  /\ registered
  /\ sent' = sent \cup {msg}
  /\ \E n \in 0..MaxCopies : copies' = [copies EXCEPT ![msg] = n]
  /\ Deliver(msg)
  /\ UNCHANGED <<registered, known, met, meshSub, day, restarted, faults, fileTok, bridgeVars>>

\* A peer homed elsewhere writes; its node knows the entity by announcement.
SendFromAfar(msg) ==
  /\ msg \notin sent /\ SenderOf[msg] \notin Local
  /\ sent' = sent \cup {msg}
  /\ \E n \in 0..MaxCopies : copies' = [copies EXCEPT ![msg] = n]
  /\ UNCHANGED <<inboxVars, registered, known, met, meshSub, day, restarted, faults, fileTok, bridgeVars>>

\* The mesh brings a copy to federation_inbox, if that listens.
MeshDeliver(msg) ==
  /\ copies[msg] > 0
  /\ copies' = [copies EXCEPT ![msg] = @ - 1]
  /\ IF meshSub THEN Deliver(msg) ELSE UNCHANGED inboxVars
  /\ UNCHANGED <<registered, known, met, meshSub, sent, day, restarted, faults, fileTok, bridgeVars>>

\* The timer of federation_inbox: a topic for every entity of the registry.
Reconcile ==
  /\ registered /\ ~meshSub
  /\ meshSub' = TRUE
  /\ UNCHANGED <<inboxVars, registered, known, met, copies, sent, day, restarted,
                 faults, fileTok, bridgeVars>>

\* The mesh drops the subscription (macula_event_gone).
TopicGone ==
  /\ meshSub
  /\ meshSub' = FALSE
  /\ UNCHANGED <<inboxVars, registered, known, met, copies, sent, day, restarted,
                 faults, fileTok, bridgeVars>>

\* Who stands in the directory under p's name.
Rivals(p) == {q \in known \ {p} : Called[q] = Called[p]}

\* A peer registers here, or is announced by its own node. The newest
\* registration has the name: an older one is turned down, or drops out.
Announce(p) ==
  /\ p \notin known
  /\ met' = met \cup {p}
  /\ known' = IF \E q \in Rivals(p) : Since[q] > Since[p]
              THEN known
              ELSE (known \ Rivals(p)) \cup {p}
  /\ UNCHANGED <<inboxVars, registered, meshSub, copies, sent, day, restarted,
                 faults, fileTok, bridgeVars>>

OthersMail ==
  /\ \E key \in Others : DeliverToOther(key)
  /\ UNCHANGED <<nodeVars, faults, fileTok, bridgeVars>>

DayPasses ==
  /\ day < LastDay
  /\ day' = day + 1
  /\ UNCHANGED <<inboxVars, registered, known, met, meshSub, copies, sent, restarted,
                 faults, fileTok, bridgeVars>>

\* A receiver fails to write to a client that has left it, and ends; nobody
\* reads what it was given. A client that waits for ever has left it too.
NoticeGone(s) ==
  /\ \/ s # cur /\ End(s, 0)
     \/ s = cur /\ pc = "stalled" /\ End(s, Len(pipe[s]))
  /\ UNCHANGED <<nodeVars, faults, fileTok, bridgeVars>>

\* The inbox learns of a receiver that ended.
ReceiverReported(s) ==
  /\ Down(s)
  /\ UNCHANGED <<nodeVars, faults, fileTok, bridgeVars>>

\* A tool of the entity, run with the same config, renews the UCAN in it.
ToolRefreshes ==
  /\ Expired(fileTok)
  /\ fileTok' = day /\ registered' = TRUE
  /\ UNCHANGED <<inboxVars, known, met, meshSub, copies, sent, day, restarted, faults, bridgeVars>>

-----------------------------------------------------------------------------
(* The bridge.                                                             *)

\* resolve_peers, with what raise_for_status makes of a 401.
Resolve ==
  /\ pc = "resolve"
  /\ IF Expired(tok)
     THEN pc' = "sleep" /\ UNCHANGED byDid
     ELSE pc' = "receive" /\ byDid' = known
  /\ UNCHANGED <<inboxVars, nodeVars, faults, fileTok, tok, cur, hand, white, alerts>>

\* GET /v1/receive: the stream opens with the backlog, or a 401.
Connect(s) ==
  /\ pc = "receive" /\ ~Expired(tok)
  /\ Subscribe(s)
  /\ cur' = s /\ pc' = "reading"
  /\ UNCHANGED <<nodeVars, faults, fileTok, tok, byDid, hand, white, alerts>>

Refused ==
  /\ pc = "receive" /\ Expired(tok)
  /\ pc' = "refresh"
  /\ UNCHANGED <<inboxVars, nodeVars, faults, fileTok, tok, byDid, cur, hand, white, alerts>>

\* refresh_ucan and save_config. Registering again puts the entity back into
\* a registry that lost it.
Refresh ==
  /\ pc = "refresh"
  /\ tok' = day /\ fileTok' = day /\ registered' = TRUE
  /\ pc' = "resolve"
  /\ UNCHANGED <<inboxVars, known, met, meshSub, copies, sent, day, restarted,
                 faults, byDid, cur, hand, white, alerts>>

\* Mistake: names as they were when the stream was opened.
ReadWithoutLookup ==
  /\ pc = "reading" /\ pipe[cur] # << >>
  /\ hand' = Head(pipe[cur])
  /\ pipe' = [pipe EXCEPT ![cur] = Tail(@)]
  /\ pc' = "whitelist"
  /\ UNCHANGED <<queue, subs, seen, alive, arrivals, forgotten, nodeVars,
                 faults, fileTok, tok, byDid, cur, white, alerts>>

\* The next data line of the stream.
Read ==
  /\ pc = "reading" /\ pipe[cur] # << >>
  /\ hand' = Head(pipe[cur])
  /\ pipe' = [pipe EXCEPT ![cur] = Tail(@)]
  /\ pc' = IF SenderOf[arrivals[hand']] \in byDid THEN "whitelist" ELSE "lookup"
  /\ UNCHANGED <<queue, subs, seen, alive, arrivals, forgotten, nodeVars,
                 faults, fileTok, tok, byDid, cur, white, alerts>>

\* An unknown sender: look again. A 401 is an exception here too, which leaves
\* the loop, the stream and the message.
Lookup ==
  /\ pc = "lookup"
  /\ IF Expired(tok)
     THEN pc' = "sleep" /\ hand' = 0 /\ cur' = NoStream /\ UNCHANGED byDid
     ELSE pc' = "whitelist" /\ byDid' = known /\ UNCHANGED <<hand, cur>>
  /\ UNCHANGED <<inboxVars, nodeVars, faults, fileTok, tok, white, alerts>>

\* Mistake: only peers of the registry are let in.
WhitelistPeers ==
  /\ pc = "whitelist"
  /\ white' = white \cup ({NameOf(hand)} \cap (Peers \X {"name"}))
  /\ pc' = "write"
  /\ UNCHANGED <<inboxVars, nodeVars, faults, fileTok, tok, byDid, cur, hand, alerts>>

\* ensure_whitelisted
Whitelist ==
  /\ pc = "whitelist"
  /\ white' = white \cup {NameOf(hand)}
  /\ pc' = "write"
  /\ UNCHANGED <<inboxVars, nodeVars, faults, fileTok, tok, byDid, cur, hand, alerts>>

\* The alert file itself.
WriteAlert ==
  /\ pc = "write"
  /\ alerts' = Append(alerts, [at |-> hand, name |-> NameOf(hand)])
  /\ hand' = 0 /\ pc' = "reading"
  /\ UNCHANGED <<inboxVars, nodeVars, faults, fileTok, tok, byDid, cur, white>>

\* The stream ended with its receiver: the loop starts over at once.
EndOfStream ==
  /\ pc = "reading" /\ cur \notin alive /\ pipe[cur] = << >>
  /\ pc' = "resolve" /\ cur' = NoStream
  /\ UNCHANGED <<inboxVars, nodeVars, faults, fileTok, tok, byDid, hand, white, alerts>>

Sleep ==
  /\ pc = "sleep"
  /\ pc' = "resolve"
  /\ UNCHANGED <<inboxVars, nodeVars, faults, fileTok, tok, byDid, cur, hand, white, alerts>>

\* The watchdog starts it again, from the config file.
Restart ==
  /\ pc = "down"
  /\ pc' = "resolve" /\ tok' = fileTok /\ byDid' = {}
  /\ UNCHANGED <<inboxVars, nodeVars, faults, fileTok, cur, hand, white, alerts>>

-----------------------------------------------------------------------------
(* What fails.                                                             *)

Fault == faults < MaxFaults /\ faults' = faults + 1

\* The connection breaks; what was on it is gone.
Cut ==
  /\ Fault /\ pc = "reading"
  /\ pc' = "sleep" /\ cur' = NoStream
  /\ UNCHANGED <<inboxVars, nodeVars, fileTok, tok, byDid, hand, white, alerts>>

\* It dies without a word: timeout=None waits for ever.
Stall ==
  /\ Fault /\ pc = "reading"
  /\ pc' = "stalled"
  /\ UNCHANGED <<inboxVars, nodeVars, fileTok, tok, byDid, cur, hand, white, alerts>>

\* A request is not answered.
RequestFails ==
  /\ Fault /\ pc \in {"resolve", "receive", "refresh", "lookup"}
  /\ pc' = "sleep" /\ hand' = 0 /\ cur' = NoStream
  /\ UNCHANGED <<inboxVars, nodeVars, fileTok, tok, byDid, white, alerts>>

\* The process is killed, or meets an exception the loop does not catch.
BridgeDies ==
  /\ Fault /\ pc # "down"
  /\ pc' = "down" /\ hand' = 0 /\ cur' = NoStream
  /\ UNCHANGED <<inboxVars, nodeVars, fileTok, tok, byDid, white, alerts>>

ReceiverDies ==
  /\ Fault /\ cur # NoStream
  /\ \E k \in 0..Len(pipe[cur]) : End(cur, k)
  /\ UNCHANGED <<nodeVars, fileTok, bridgeVars>>

InboxDies ==
  /\ Fault
  /\ ServerCrash
  /\ UNCHANGED <<nodeVars, fileTok, bridgeVars>>

\* A node restarts with empty tables; its key, and so its UCANs, stay good.
NodeRestarts ==
  /\ Fault
  /\ NodeCrash
  /\ registered' = FALSE /\ known' = {} /\ meshSub' = FALSE /\ restarted' = TRUE
  /\ UNCHANGED <<met, copies, sent, day, fileTok, bridgeVars>>

-----------------------------------------------------------------------------
Node ==
  \/ \E m \in Msgs : SendHere(m) \/ SendFromAfar(m) \/ MeshDeliver(m)
  \/ Reconcile \/ TopicGone \/ OthersMail \/ DayPasses \/ ToolRefreshes
  \/ \E p \in Peers : Announce(p)
  \/ \E s \in Streams : NoticeGone(s) \/ ReceiverReported(s)

Bridge ==
  \/ Resolve \/ Refused \/ Refresh \/ Read \/ Lookup \/ Whitelist \/ WriteAlert
  \/ EndOfStream \/ Sleep \/ Restart
  \/ \E s \in Streams : Connect(s)

Failure == Cut \/ Stall \/ RequestFails \/ BridgeDies \/ ReceiverDies \/ InboxDies \/ NodeRestarts

Next == Node \/ Bridge \/ Failure

Spec == Init /\ [][Next]_vars

\* The bridge goes on, the node's pings find out who has left, and a monitor
\* reports it.
FairSpec == /\ Spec /\ WF_vars(Bridge)
            /\ WF_vars(\E s \in Streams : NoticeGone(s))
            /\ WF_vars(\E s \in Streams : ReceiverReported(s))

-----------------------------------------------------------------------------
(* Properties.                                                             *)

Elements(seq) == {seq[i] : i \in DOMAIN seq}

\* The messages in the inbox that may still become alerts.
Underway ==
  Elements(queue) \cup (IF cur = NoStream THEN {} ELSE Elements(pipe[cur]))
                  \cup ({hand} \ {0})

Written == {alerts[i].at : i \in DOMAIN alerts}
LastWritten == IF alerts = << >> THEN 0 ELSE alerts[Len(alerts)].at

\* Bridge and inbox hand over what arrived in its order, each message once: the
\* backlog, live messages, stale receivers and reconnections do not mix.
OrderedDelivery ==
  INSTANCE Delivery WITH arrived <- Len(arrivals), pending <- Underway, last <- LastWritten
KeepsOrder == OrderedDelivery!Spec

\* Alerts follow the order in which their messages reached the inbox.
InOrder == \A i, j \in DOMAIN alerts : i < j => alerts[i].at < alerts[j].at

\* The inbox takes one message twice, and the entity may be alerted to it twice,
\* only if its memory of it was emptied in between.
TakenOnce ==
  \A i, j \in DOMAIN arrivals :
     i # j /\ arrivals[i] = arrivals[j] => arrivals[i] \in forgotten

\* FileWatcher knows every sender it is alerted about: whitelisted first.
AlertsAreHeard == \A i \in DOMAIN alerts : alerts[i].name \in white

\* Another registration under p's name, no older than p's, was seen.
Superseded(p) ==
  \E q \in met \ {p} : Called[q] = Called[p] /\ Since[q] >= Since[p]

\* A peer that registered at this node is called by its name in every alert,
\* also one that registered after the stream was opened, unless the node forgot
\* or the name is no longer the peer's: then it is filed under its DID.
LocalPeersNamed ==
  ~restarted => \A i \in DOMAIN alerts :
                   alerts[i].name[1] \in Local =>
                      \/ alerts[i].name[2] = "name"
                      \/ Superseded(alerts[i].name[1])

\* What the server knows of receivers is out of date: there are some, but the
\* bridge's is not among them, or has ended and its 'DOWN' is still to come.
StaleReceivers == subs # {} /\ cur \notin Reached

\* A message the inbox takes can be read, unless the server's receivers are all
\* stale: those that have ended, and those that have lost their client. Such a
\* message is seen, sent to them and gone.
ArrivedIsHeld ==
  [][Len(arrivals') > Len(arrivals) =>
       Len(arrivals') \in Underway' \/ StaleReceivers]_vars

\* What can be read is lost by a failure, or because the names were looked up
\* with a UCAN that had expired, and by nothing else.
LostOnlyByFaults ==
  [][\A n \in Underway \ Underway' :
       \/ n \in Written'
       \/ faults' > faults
       \/ pc = "lookup" /\ Expired(tok)]_vars

\* In these states the bridge is up and hears nothing more.
Deaf ==
  \/ Expired(tok)
  \/ pc = "stalled"
  \/ cur \in alive /\ cur \notin subs

\* All that waits is alerted or lost in the end, once failures stop, unless the
\* bridge is deaf: its UCAN has expired, its connection is dead without notice,
\* or the inbox its receiver had subscribed to is no more.
EventuallyHeard ==
  Underway # {} ~> (Underway = {} \/ Deaf)

=============================================================================
