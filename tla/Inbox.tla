------------------------------- MODULE Inbox --------------------------------
(***************************************************************************)
(* hecate_spartan_inbox and the receive streams of receive_api, for one    *)
(* entity. The server takes a message once, queues it while the entity has *)
(* no receiver and sends it to every receiver while it has one; a receiver *)
(* is a cowboy process that starts with the backlog and writes what it is  *)
(* sent to its connection.                                                 *)
(*                                                                         *)
(* A message is known here by its number of arrival: queue and pipe hold   *)
(* numbers, and arrivals says which message each was. A pipe is all that   *)
(* a receiver was given and its client has not read, be it in the mailbox  *)
(* of the process or in the connection.                                    *)
(***************************************************************************)
EXTENDS Integers, Sequences, FiniteSets

CONSTANTS
  Msgs,     \* the messages addressed to the entity
  Others,   \* what is addressed to other entities of the node
  SeenMax,  \* SEEN_MAX
  Streams   \* receivers; a name is used again once the server has forgotten it

ASSUME InboxAssumption ==
  Msgs \cap Others = {} /\ SeenMax \in Nat \ {0}

VARIABLES
  queue,      \* undelivered messages, oldest first
  subs,       \* the receivers the server knows
  seen,       \* the {recipient, msg_id} pairs it remembers
  alive,      \* the receiver processes there are
  pipe,       \* what each receiver has on its way to its client
  arrivals,   \* history: the message each number stands for
  forgotten   \* history: the messages that ever left `seen'

inboxVars == <<queue, subs, seen, alive, pipe, arrivals, forgotten>>

InboxTypeOK ==
  /\ queue \in Seq(Nat) /\ pipe \in [Streams -> Seq(Nat)]
  /\ alive \subseteq Streams /\ subs \subseteq Streams
  /\ seen \subseteq Msgs \cup Others /\ forgotten \subseteq Msgs
  /\ arrivals \in Seq(Msgs)

InboxInit ==
  /\ queue = << >> /\ subs = {} /\ seen = {} /\ alive = {}
  /\ pipe = [s \in Streams |-> << >>]
  /\ arrivals = << >> /\ forgotten = {}

-----------------------------------------------------------------------------
\* mark_seen: a full set is emptied first.
MarkSeen(key) ==
  IF Cardinality(seen) >= SeenMax
  THEN seen' = {key} /\ forgotten' = forgotten \cup (seen \cap Msgs)
  ELSE seen' = seen \cup {key} /\ UNCHANGED forgotten

\* The receivers a message reaches: one sent to a process that is gone is lost.
Reached == subs \cap alive

\* Mistakes: only one of several receivers is sent to; the message is queued as well.
DispatchToOne(n) ==
  IF subs = {}
  THEN queue' = Append(queue, n) /\ UNCHANGED pipe
  ELSE LET only == CHOOSE s \in subs : TRUE
       IN  /\ pipe' = [s \in Streams |-> IF s \in Reached \cap {only} THEN Append(pipe[s], n) ELSE pipe[s]]
           /\ UNCHANGED queue

DispatchAndQueue(n) ==
  /\ queue' = Append(queue, n)
  /\ pipe' = [s \in Streams |-> IF s \in Reached THEN Append(pipe[s], n) ELSE pipe[s]]

\* dispatch: to every receiver the server knows, or to the back of the queue.
Dispatch(n) ==
  IF subs = {}
  THEN queue' = Append(queue, n) /\ UNCHANGED pipe
  ELSE /\ pipe' = [s \in Streams |-> IF s \in Reached THEN Append(pipe[s], n) ELSE pipe[s]]
       /\ UNCHANGED queue

\* Mistake: no look at what was seen.
DeliverUnchecked(msg) ==
  /\ MarkSeen(msg)
  /\ Dispatch(Len(arrivals) + 1)
  /\ arrivals' = Append(arrivals, msg)
  /\ UNCHANGED <<subs, alive>>

\* handle_cast({deliver, _, _}): a message already seen is dropped.
Deliver(msg) ==
  IF msg \in seen
  THEN UNCHANGED inboxVars
  ELSE /\ MarkSeen(msg)
       /\ Dispatch(Len(arrivals) + 1)
       /\ arrivals' = Append(arrivals, msg)
       /\ UNCHANGED <<subs, alive>>

\* The same for another entity, of which only the memory it takes up matters.
DeliverToOther(key) ==
  /\ key \notin seen
  /\ MarkSeen(key)
  /\ UNCHANGED <<queue, subs, alive, pipe, arrivals>>

\* Mistakes: the backlog as it is stored, newest first; cleared and not handed
\* over; left in the queue.
SubscribeReversed(s) ==
  /\ s \notin alive \cup subs
  /\ alive' = alive \cup {s} /\ subs' = subs \cup {s}
  /\ pipe' = [pipe EXCEPT ![s] = [i \in DOMAIN queue |-> queue[Len(queue) + 1 - i]]]
  /\ queue' = << >>
  /\ UNCHANGED <<seen, arrivals, forgotten>>

SubscribeFromNow(s) ==
  /\ s \notin alive \cup subs
  /\ alive' = alive \cup {s} /\ subs' = subs \cup {s}
  /\ pipe' = [pipe EXCEPT ![s] = << >>] /\ queue' = << >>
  /\ UNCHANGED <<seen, arrivals, forgotten>>

SubscribeOnly(s) ==
  /\ s \notin alive \cup subs
  /\ alive' = alive \cup {s} /\ subs' = subs \cup {s}
  /\ pipe' = [pipe EXCEPT ![s] = << >>]
  /\ UNCHANGED <<queue, seen, arrivals, forgotten>>

\* start_stream: a new receiver subscribes, takes the backlog and clears it.
Subscribe(s) ==
  /\ s \notin alive \cup subs
  /\ alive' = alive \cup {s}
  /\ subs' = subs \cup {s}
  /\ pipe' = [pipe EXCEPT ![s] = queue]
  /\ queue' = << >>
  /\ UNCHANGED <<seen, arrivals, forgotten>>

\* A receiver ends. The first k messages it was given are on the connection
\* and may still be read; the rest was in its mailbox.
End(s, k) ==
  /\ s \in alive
  /\ alive' = alive \ {s}
  /\ pipe' = [pipe EXCEPT ![s] = SubSeq(@, 1, k)]
  /\ UNCHANGED <<queue, subs, seen, arrivals, forgotten>>

\* Its 'DOWN', or the unsubscribe of its terminate, reaches the server. Until
\* then it is a receiver like the others.
Down(s) ==
  /\ s \in subs \ alive
  /\ subs' = subs \ {s}
  /\ UNCHANGED <<queue, seen, alive, pipe, arrivals, forgotten>>

\* The server's state is gone with it; the receivers do not notice.
ServerCrash ==
  /\ queue' = << >> /\ subs' = {} /\ seen' = {}
  /\ forgotten' = forgotten \cup (seen \cap Msgs)
  /\ UNCHANGED <<alive, pipe, arrivals>>

\* The node stops: the receivers are gone too.
NodeCrash ==
  /\ queue' = << >> /\ subs' = {} /\ seen' = {} /\ alive' = {}
  /\ forgotten' = forgotten \cup (seen \cap Msgs)
  /\ UNCHANGED <<pipe, arrivals>>

=============================================================================
