-------------------------------- MODULE Wire --------------------------------
(***************************************************************************)
(* wire.py, which brings the press of a country to its agents. A pass      *)
(* loads the file of what was seen, fetches the outlets' feeds, sends the  *)
(* first MaxItems unseen items to every agent the directory has, one post  *)
(* each, and writes the file at the end, cut to the Cap largest ids. Ids   *)
(* are hashes: their order has nothing to do with when an item appeared.   *)
(* Whatever goes wrong outside the fetching of a feed ends the process,    *)
(* and someone starts it again.                                            *)
(***************************************************************************)
EXTENDS Integers, SequencesExt

CONSTANTS
  Items,      \* ids
  Outlets,    \* the feeds of the country, in the order they are read
  Prints,     \* the items each of them has to list
  Window,     \* how many items a feed lists
  Readers,    \* the agents of the country
  MaxItems,   \* MAX_ITEMS
  Cap,        \* the 500 of save_seen
  TtlDays,    \* how long a UCAN is good for
  LastDay,    \* bound: days that pass
  MaxFaults   \* bound: feeds, requests and processes that fail

ASSUME WireAssumption ==
  /\ Items \subseteq Nat /\ IsFiniteSet(Items) /\ Outlets \in Seq(STRING)
  /\ Prints \in [Range(Outlets) -> SUBSET Items]
  /\ Window \in Nat \ {0} /\ MaxItems \in Nat \ {0} /\ Cap \in Nat \ {0}
  /\ TtlDays \in Nat \ {0} /\ LastDay \in Nat /\ MaxFaults \in Nat

VARIABLES
  feed,      \* what each outlet lists, newest first
  printed,   \* bound and history: what each outlet ever listed
  present,   \* the agents in the directory; it never forgets one
  file,      \* the seen file: whether it can be read, and its ids
  at,        \* where the process is
  seen,      \* the set run_once works on
  batch,     \* the items of the pass still to be sent
  audience,  \* the agents the item in hand is still to be sent to
  issued,    \* the day of issue of the wire's UCAN
  day, faults,
  got,       \* history: how often each agent was sent each item, 2 for more than once
  offered,   \* history: the items that were sent to all who were there
  cut,       \* history: items that save_seen left out
  unsaved,   \* history: items sent by a process that ended before it saved
  doubled    \* history: items that came twice in one batch

wireVars == <<file, at, seen, batch, audience, issued>>
history == <<got, offered, cut, unsaved, doubled>>
vars == <<feed, printed, present, wireVars, day, faults, history>>

Unread == [text |-> "absent", ids |-> {}]
Broken == [text |-> "broken", ids |-> {}]
Saved(ids) == [text |-> "whole", ids |-> ids]

TypeOK ==
  /\ \A o \in Range(Outlets) : /\ Len(feed[o]) <= Window /\ Range(feed[o]) \subseteq Items
                               /\ printed[o] \subseteq Items
  /\ present \subseteq Readers /\ audience \subseteq present
  /\ file \in {Unread, Broken} \cup {Saved(ids) : ids \in SUBSET Items}
  /\ Cardinality(file.ids) <= Cap
  /\ at \in {"down", "pass", "readers", "send", "open", "write", "sleep"}
  /\ seen \subseteq Items /\ Range(batch) \subseteq Items
  /\ issued \in 0..day /\ day \in 0..LastDay /\ faults \in 0..MaxFaults
  /\ got \in [Items -> [Readers -> 0..2]]
  /\ UNION {offered, cut, unsaved, doubled} \subseteq Items

Init ==
  /\ feed = [o \in Range(Outlets) |-> << >>] /\ printed = [o \in Range(Outlets) |-> {}]
  /\ present = {} /\ file = Unread /\ at = "pass" /\ seen = {} /\ batch = << >>
  /\ audience = {} /\ issued = 0 /\ day = 0 /\ faults = 0
  /\ got = [i \in Items |-> [r \in Readers |-> 0]]
  /\ offered = {} /\ cut = {} /\ unsaved = {} /\ doubled = {}

Expired == day >= issued + TtlDays
Listed == UNION {Range(feed[o]) : o \in Range(Outlets)}
More(n) == IF n < 2 THEN n + 1 ELSE 2
FirstOf(n, s) == SubSeq(s, 1, IF Len(s) < n THEN Len(s) ELSE n)
Fault == faults < MaxFaults /\ faults' = faults + 1

-----------------------------------------------------------------------------
(* The world.                                                              *)

\* An outlet lists an item, its own or one that another has too.
Publish(o, i) ==
  /\ i \in Prints[o] \ printed[o]
  /\ printed' = [printed EXCEPT ![o] = @ \cup {i}]
  /\ feed' = [feed EXCEPT ![o] = FirstOf(Window, <<i>> \o @)]
  /\ UNCHANGED <<present, wireVars, day, faults, history>>

Join(r) ==
  /\ r \notin present
  /\ present' = present \cup {r}
  /\ UNCHANGED <<feed, printed, wireVars, day, faults, history>>

DayPasses ==
  /\ day < LastDay
  /\ day' = day + 1
  /\ UNCHANGED <<feed, printed, present, wireVars, faults, history>>

-----------------------------------------------------------------------------
(* A pass.                                                                 *)

\* What the outlets list, but for those that cannot be fetched.
Fetched(failing) ==
  FlattenSeq([n \in DOMAIN Outlets |-> IF Outlets[n] \in failing THEN << >> ELSE feed[Outlets[n]]])

\* The items to send; one that is listed twice is taken twice.
Take(items) ==
  /\ batch' = FirstOf(MaxItems, items)
  /\ doubled' = doubled \cup {batch'[n] : n \in {m \in DOMAIN batch' :
                                                   \E k \in 1..(m - 1) : batch'[k] = batch'[m]}}
  /\ at' = IF batch' = << >> THEN "open" ELSE "readers"

\* What of these is not seen yet, in the order they come.
Unseen(items) ==
  LET fresh[n \in 0..Len(items)] ==
        IF n = 0 THEN << >>
        ELSE IF items[n] \in file.ids THEN fresh[n - 1] ELSE Append(fresh[n - 1], items[n])
  IN  fresh[Len(items)]

\* Mistakes: all that is new counts as seen, though only the batch is sent; what
\* was seen is not left out.
PassSeesAll(failing) ==
  /\ at = "pass" /\ file.text # "broken"
  /\ seen' = file.ids \cup Range(Fetched(failing)) /\ Take(Unseen(Fetched(failing)))
  /\ UNCHANGED <<feed, printed, present, file, audience, issued, day, got, offered, cut, unsaved>>

PassUnfiltered(failing) ==
  /\ at = "pass" /\ file.text # "broken"
  /\ seen' = file.ids /\ Take(Fetched(failing))
  /\ UNCHANGED <<feed, printed, present, file, audience, issued, day, got, offered, cut, unsaved>>

\* load_seen, and what of the feeds is not seen yet.
PassWithout(failing) ==
  /\ at = "pass" /\ file.text # "broken"
  /\ seen' = file.ids /\ Take(Unseen(Fetched(failing)))
  /\ UNCHANGED <<feed, printed, present, file, audience, issued, day, got, offered, cut, unsaved>>

Pass == PassWithout({}) /\ UNCHANGED faults

FeedFails == Fault /\ \E o \in Range(Outlets) : PassWithout({o})

\* A file that cannot be read is not written again either.
CannotLoad ==
  /\ at = "pass" /\ file.text = "broken"
  /\ at' = "down"
  /\ UNCHANGED <<feed, printed, present, file, seen, batch, audience, issued, day, faults, history>>

\* The item in hand was sent to everyone.
ItemDone(i) ==
  /\ seen' = seen \cup {i} /\ offered' = offered \cup {i}
  /\ batch' = Tail(batch)
  /\ at' = IF Len(batch) = 1 THEN "open" ELSE "readers"

\* readers: who is there. Nothing renews a UCAN that is refused here.
LookUp ==
  /\ at = "readers" /\ ~Expired
  /\ audience' = present
  /\ IF present = {} THEN ItemDone(Head(batch))
                     ELSE at' = "send" /\ UNCHANGED <<seen, batch, offered>>
  /\ UNCHANGED <<feed, printed, present, file, issued, day, faults, got, cut, unsaved, doubled>>

LookUpRefused ==
  /\ at = "readers" /\ Expired
  /\ at' = "down"
  /\ unsaved' = unsaved \cup (seen \ file.ids)
  /\ UNCHANGED <<feed, printed, present, file, seen, batch, audience, issued, day, faults,
                 got, offered, cut, doubled>>

\* Mistake: one agent has it, the item is done.
SendToOne(r) ==
  /\ at = "send" /\ r \in audience /\ ~Expired
  /\ got' = [got EXCEPT ![Head(batch)][r] = More(@)]
  /\ audience' = {} /\ ItemDone(Head(batch))
  /\ UNCHANGED <<feed, printed, present, file, issued, day, faults, cut, unsaved, doubled>>

\* post_authed to the next of the agents.
Send(r) ==
  /\ at = "send" /\ r \in audience /\ ~Expired
  /\ got' = [got EXCEPT ![Head(batch)][r] = More(@)]
  /\ audience' = audience \ {r}
  /\ IF audience' = {} THEN ItemDone(Head(batch)) ELSE UNCHANGED <<seen, batch, offered, at>>
  /\ UNCHANGED <<feed, printed, present, file, issued, day, faults, cut, unsaved, doubled>>

\* A 401 to a post: register again, save the identity, and post again.
Renew ==
  /\ at = "send" /\ Expired
  /\ issued' = day
  /\ UNCHANGED <<feed, printed, present, file, at, seen, batch, audience, day, faults, history>>

\* save_seen: opened, which empties the file.
OpenSeen ==
  /\ at = "open"
  /\ file' = Broken /\ at' = "write"
  /\ UNCHANGED <<feed, printed, present, seen, batch, audience, issued, day, faults, history>>

\* Mistake: the file grows.
WriteSeenUncut ==
  /\ at = "write"
  /\ file' = Saved(seen)
  /\ at' = "sleep"
  /\ UNCHANGED <<feed, printed, present, seen, batch, audience, issued, day, faults, history>>

\* sorted(seen)[-Cap:], and the file is closed.
WriteSeen ==
  /\ at = "write"
  /\ \E kept \in SUBSET seen :
       /\ Cardinality(kept) = IF Cardinality(seen) < Cap THEN Cardinality(seen) ELSE Cap
       /\ \A i \in kept, j \in seen \ kept : j < i
       /\ file' = Saved(kept) /\ cut' = cut \cup (seen \ kept)
  /\ at' = "sleep"
  /\ UNCHANGED <<feed, printed, present, seen, batch, audience, issued, day, faults,
                 got, offered, unsaved, doubled>>

Sleep ==
  /\ at = "sleep"
  /\ at' = "pass"
  /\ UNCHANGED <<feed, printed, present, file, seen, batch, audience, issued, day, faults, history>>

-----------------------------------------------------------------------------
(* What fails.                                                             *)

\* Killed, or a request without an answer: the node may have taken a post.
Dies ==
  /\ Fault /\ at # "down"
  /\ at' = "down"
  /\ unsaved' = unsaved \cup IF at \in {"pass", "sleep"} THEN {} ELSE
                 (seen \cup (IF at = "send" THEN {Head(batch)} ELSE {})) \ file.ids
  /\ audience' = {}
  /\ \/ UNCHANGED got
     \/ \E r \in audience : at = "send" /\ ~Expired /\ got' = [got EXCEPT ![Head(batch)][r] = More(@)]
  /\ UNCHANGED <<feed, printed, present, file, seen, batch, issued, day, offered, cut, doubled>>

\* The node turns a post down: the agent goes without.
TurnedDown(r) ==
  /\ Fault /\ at = "send" /\ r \in audience /\ ~Expired
  /\ audience' = audience \ {r}
  /\ IF audience' = {} THEN ItemDone(Head(batch)) ELSE UNCHANGED <<seen, batch, offered, at>>
  /\ UNCHANGED <<feed, printed, present, file, issued, day, got, cut, unsaved, doubled>>

\* Started again, with the identity in its file.
Start ==
  /\ at = "down"
  /\ at' = "pass"
  /\ UNCHANGED <<feed, printed, present, file, seen, batch, audience, issued, day, faults, history>>

-----------------------------------------------------------------------------
World ==
  \/ \E o \in Range(Outlets), i \in Items : Publish(o, i)
  \/ \E r \in Readers : Join(r)
  \/ DayPasses

Steps ==
  \/ Pass \/ CannotLoad \/ LookUp \/ LookUpRefused \/ Renew \/ OpenSeen \/ WriteSeen
  \/ Sleep \/ Start
  \/ \E r \in Readers : Send(r)

Next == World \/ Steps \/ FeedFails \/ Dies \/ \E r \in Readers : TurnedDown(r)

Spec == Init /\ [][Next]_vars

\* The process goes on, and is started again when it has ended.
FairSpec == Spec /\ WF_vars(Steps)

-----------------------------------------------------------------------------
(* Properties.                                                             *)

\* No agent is sent an item twice, unless its id was cut from the file or was
\* lost with a process that ended before it saved, or it came twice in one batch.
SentOnce ==
  \A i \in Items, r \in Readers : got[i][r] > 1 => i \in cut \cup unsaved \cup doubled

\* What the file calls seen was offered: an item that did not fit in a batch is
\* put off, not dropped.
SeenWasOffered == file.ids \subseteq offered

\* An agent that was found by the lookup is sent the item in hand before the
\* item is done, unless a post is turned down or the process ends.
EveryoneServed ==
  [][\A r \in audience \ audience' :
       \/ got'[Head(batch)][r] = More(got[Head(batch)][r])
       \/ faults' > faults]_vars

\* What an outlet goes on listing is offered in the end. Not so once the file had
\* to forget: what it forgot comes again in every pass, before the rest. Nor
\* when the wire cannot work at all, because its UCAN expired between two passes
\* or it was stopped in a save.
EventuallyOffered ==
  \A i \in Items :
     i \in Listed ~> \/ i \in offered \/ i \notin Listed
                     \/ cut \cap Listed # {} \/ Expired \/ (file.text = "broken" /\ at # "write")

=============================================================================
