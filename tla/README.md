# A verification of hecate-spartan

hecate-spartan is an Erlang/OTP service in which *minds* (one process per
resident entity, reasoning with LLM providers) hear a federated public square,
the *agora*, and speak in it. Eight nodes run it, joined by a publish/subscribe
mesh that delivers a fact to whoever listens at that moment, and there is no
store behind it: what a node knows of the others is what it heard since it
started. Around it are Python clients, processes of their own that talk to a
node over HTTP: the receive bridge and the command-line tools of an entity, the
press wire, and lite entities. This directory holds TLA+ models of these
programs, TLC runs over small instances and TLAPS proofs for all instances.
Line numbers of `.erl` files are those of `src/apps/hecate_spartan/src/`
(`spartan_mind.erl` and `convene_committee/` being in `inhabit_mind/`), those of
`.py` files of `src/client/`.

| file | what it is |
| --- | --- |
| `Mind.tla` | a mind's attention: hearing, the gate, holding replies, turns |
| `MindProofs.tla` | its safety invariants and what becomes of a reply, proved |
| `MCMind.tla`, `MCMind*.cfg` | its instances and runs |
| `FeedWindow.tla` | which posts the square's window keeps |
| `Feed.tla` | what the square of a node promises |
| `FeedTable.tla` | the public table many processes write, which keeps that promise |
| `FeedTableProofs.tla` | its invariants and the refinement, proved |
| `MCFeedTable.tla`, `MCFeedTable.cfg` | its instance and run |
| `Inbox.tla` | the inbox server of a node and the receive streams, for one entity |
| `Radio.tla` | the receive bridge of `macula_radio.py`, its node and the mesh, over `Inbox` |
| `Delivery.tla` | what bridge and inbox together promise |
| `RadioProofs.tla` | Radio's safety properties and the refinement, proved |
| `MCRadio.tla`, `MCRadio.cfg` | its instance and run |
| `Committee.tla`, `MCCommittee.cfg` | a committee's coordinator and drones, and their run |
| `CommitteeProofs.tla` | its types, that it never waits for a drone and that everyone is heard, proved |
| `Registry.tla` | the directories of the nodes and the claims on names |
| `RegistryProofs.tla` | who may hold a name, proved |
| `MCRegistry.tla`, `MCRegistry.cfg` | its instance and run |
| `Tools.tla` | the command-line tools `SpartanRadio.py` and `macula_radio.py`, side by side |
| `Wire.tla` | `wire.py`, the press wire |
| `Lite.tla` | `spartan_lite.py`, entities in dialogue |
| `ToolsProofs.tla`, `WireProofs.tla`, `LiteProofs.tla` | safety of each, proved |
| `MCTools.*`, `MCWire.*`, `MCLite.*` | their instances and runs |

`PROJECT.json` maps every definition to the lines it models, and lists the runs,
the mutants of the code each property was seen to catch, the hazards, the
findings and the theorems.

## 1. The system: an inventory

**A mind's attention** (`spartan_mind.erl`). *State*: `#st` — busy, two cooldown
clocks (openings, replies), a bounded set of heard ids with its order, the
replies held (one per thread, bounded), the timer that comes back to them, and
the context of the turn (`replying_to`, `stimulus`, `kind`). *Operations*: mesh
facts; `{reasoned, _}`, `{reasoning_failed, _}`, `{evolved, _}`, `'DOWN'`,
`resume_held`, self-alerts. *Interaction*: spawns a monitored reasoning process
per turn, which works on the mind's snapshot and reports tool calls back; the
mind's server then carries them out, `speak` among them, in its `{reasoned, _}`
handler (`apply_tool_calls`, 196-197). It reads the square's table directly. *Hard*: everything interleaves with a turn that
lasts minutes; a post arrives live, as history, late and repeatedly; two
monitored processes die in any order. *Correct when*: one thought at a time; a
reply is never stranded nor answered twice; a turn's context is of that turn.

**Long-term memory and self-alerts** (`mind_memory`, `self_alerts`, the memory
half of `spartan_mind`). A memory document with a version, rewritten every few
turns by an off-process evolver and a seeder that worked on a snapshot; alerts
on disk, due by tokens spent. *Hard*: results of stale snapshots, a crash
between erasing an alert and reasoning about it. *Correct when*: no remembered
turn is dropped by a late result, no alert fires twice or never.

**Memory tiers, sleep cycle, journal** (`memory*`, `sleep_cycle`,
`mind_journal`). Servers per area (short, middle, long) with rings on disk as
appended frames; a consolidation process reads a tier, reflects with an LLM for
minutes, writes a gist to the tier above and trims the tier below. *Hard*: what is added
during the reflection, crashes between the three writes, a torn last frame.
*Correct when*: nothing is trimmed that no gist covers; what was recorded after
a restart is read by the next one.

**Soul, tunables, capabilities** (`soul*`, `mind_tunables`,
`mind_capabilities`). A document per area behind the same journal, and lookups.

**Tools and novelty** (`mind_tools`, `novelty`). What a turn may do: speak,
send, convene, search. `speak` reads the thread, compares, and dispatches:
check-then-act against other minds of the node.

**LLM carousel and breaker** (`spartan_mind_llm`, `breaker`, `mindfulness`,
`mind_verifier`). Backends tried in turn; a failing one rests, in a table owned
by whichever process made it. *Correct when*: a told rest is honoured, a rest
is bounded, there is always somebody left to ask.

**The square's table on a node** (`hecate_spartan_agora`). A public ETS table of
the 200 newest posts; every posting process inserts and prunes it itself;
queries read it unlocked. *Hard*: prunes by lists that are stale. *Correct
when*: the newest posts are never lost to a race and the table stays bounded.

**Federation of the square** (`federation_agora`, `publish_to_agora`). Lands
peers' posts, says the node's own recent posts again each minute marked as
history, fans fresh speech out to local inboxes. *Hard*: loss, duplication,
restart with an empty square, square and mind hearing by separate
subscriptions. *Correct when*: squares converge on what is said again, a mind's
inbox hears a post once, a story's thread is bounded and gets one closing word.

**Committees** (`convene_committee/*`). A convener process passes a floor among
drones for two rounds with a floor timer, then adjourns. *Hard*: a timeout
already in the mailbox, resubscription, a slow report, drones that are late,
deaf or dead. *Correct when*: only the holder of the floor speaks into the
record, everyone is heard, and the committee ends whatever its drones do.

**Inboxes and messages** (`hecate_spartan_inbox`, `federation_inbox`,
`route_message`, `broadcast_message`). A queue and a receiver per entity, a
dedup set flushed at 20 000. *Hard*: dead receivers, redelivery. *Correct when*:
a message is neither lost silently nor delivered twice within the bound.

**Registration, directory, election** (`hecate_spartan_entities`,
`hecate_spartan_mesh_entities`, `federation_registry`, `federation_ask`,
`register_entity`, `citizen_registration`). Local and mesh-wide tables of who
exists, name claims settled by age, and the election, per node from its own
directory, of who answers a visitor. *Hard*: a claim is read, delete and insert on
a public table; directories differ. *Correct when*: one owner per name, at most
one answer per question once directories agree.

**The receive bridge** (`macula_radio.py bridge`). A loop that looks up the
peers' names, opens the stream of its entity's inbox, and makes of each message
an alert file and a whitelist entry. *State*: the UCAN it holds, its name table,
the message in hand, the files. *Hard*: everything it asks may be refused, fail or
never answer between two lines of it; a stream that is open is not one that is
heard. *Correct when*: alerts are in order and known to the file watcher, and
a message is lost to a failure or not at all.

**The command-line tools** (`SpartanRadio.py`, `macula_radio.py`). Short-lived
processes that share one config file with the only copy of the key, and renew the
UCAN in it. *Hard*: they overlap and are killed; one call is several requests.
*Correct when*: the key is not lost, the name stays with it, and what
a call reports of its message is so.

**The press wire** (`wire.py`). Reads feeds, sends what is new to the agents of a
country, remembers it in a file cut to 500 hashes. *Hard*: death anywhere
in a pass, the cut, agents and feeds that change. *Correct when*: nobody is
sent an item twice and every item is offered.

**Lite entities** (`spartan_lite.py`). A stream thread that answers
messages with a model, up to a number of turns per peer, and a greeting thread. *Hard*:
two such entities answer each other; replies are counted before they are
posted; restarts change the DID. *Correct when*: a dialogue ends, and by its
turns alone.

**Identity, ingress, HTTP**; **context, defusing, embeddings**; **activity and
artifacts**; **supervision and wiring**: I/O, cryptography, text and vector
functions, declarative trees. They are not to be modelled beyond their effect
on the parts above (a restart, a call, a 401).

How they meet: a fact comes over the mesh to two subscribers, the mind and
`federation_agora`. The mind decides from its own state and the local table, a
turn runs in its own process, and `speak` puts a post into the table, the local
inboxes and, once, the mesh. A message for an entity comes to its inbox from its
own node and over the mesh, and leaves it by the stream a client holds open; clients
send by HTTP with a UCAN that the node refuses when it has expired.

## 2. Mind: one mind's attention

The server's `#st` is the record `m` and each handler clause an operator from
record to record, so that the composite calls of the code (`over` → `resume` →
`settle` → `consider`) compose the same way in the model; an action applies one
handler whole. `HearPost`/`HearUnposted` are `handle_info({macula_event, ...})`
through `maybe_react`; `Reasoned`, `ReasoningFailed`, `ReasonerDies`,
`EvolverEnds`, `ResumeHeld`, `SelfAlert` the other messages. The rest
(`Surroundings`) is what the handlers read: the clocks running out, posts growing
old, threads filling in, and falling out of, the local square.

Abstractions, all of data:
- Time is the comparisons the code makes: whether each cooldown has run out, and
  whether a post is within HISTORY_MS, within HOLD_MAX_AGE_MS, or past both. Posts
  grow old in the order they were said.
- The timer of `resume_later` is `waiting` until the reply cooldown has run
  out and `due` after, as its delay is computed from that clock.
- The recursion `resume`/`settle` is one operator, `Resume`: the newest post the
  loop does not go past is the one it stops at.
- A turn's tool calls are reduced to whether it spoke; the memory half of a
  finished turn to whether it started the evolver or made a self-alert due.
- Journal writes and logging are left out, as is the subscription, which is
  assumed up: a subscription that is down is a post not heard, which `HearPost` may do.
- Posts have distinct `posted_at` (the code breaks a tie by map order).
- The last fields of `m` are not the server's: how many reasoners are alive,
  what they reason about, what was answered and forgotten. They are history
  that no guard of a handler reads, apart from `closed`, which is the square's.
  `Traced` bounds for which posts history is kept.

Properties:
- `OneThought`: a reasoning process is alive exactly while the mind is busy;
  no sequence of reports, failures and `'DOWN'`s frees it early, or never.
- `HeldIsScheduled`: an idle mind with a reply held has its timer set; the
  property that makes `resume`, `settle`, `resume_later` and the two clauses of
  `resume_held` one mechanism.
- `HeldOnePerStory`: one post per thread and at most HOLD_MAX, also through what
  the loop puts back.
- `ReplyLinksToItsCause`: during a turn the link `speak` falls back on is the
  post that woke that turn, or none.
- `HeldIsAccountedFor` (action): a post leaves the hold only by being answered,
  expired, empty, of a full thread, superseded, or the oldest of too many.
- `AnsweredOnceWhileLive` (action): no turn answers a post past HOLD_MAX_AGE, nor
  one reasoned about before and still remembered, whatever is repeated.
- `HeldIsSettled` (liveness): what is held does not stay held for ever.

Fairness (`FairSpec`): a turn ends by one of its three ends, because provider calls
have deadlines and the process is monitored; a due timer's message is handled;
time passes (the reply clock, the age of posts). Nothing obliges anyone to
speak, a thread to fill, or a self-alert to find the mind idle.

| run | instance | shows |
| --- | --- | --- |
| `mind` | two posts of a thread, an unprompted one said between, one story, synthesizer, HEARD_MAX 1, HOLD_MAX 2 | the safety properties over 824 304 states |
| `mind_live` | two threads for a hold of one, with a self-alert in flight | overflow of the hold, and `HeldIsSettled` |
| `mind_kind`, `mind_heard`, `mind_stimulus` | two posts | the findings below |

Why the bounds are enough: three posts are what it takes to supersede in a
thread with something of another thread between, which is where order matters;
a heard set of one is at its bound at once, so forgetting and hearing again are
explored; a hold of one overflows with two threads, a hold of two has the loop
put one back. Every post may be delivered any number of times, live or as history, at any age,
and every instance lets the turn end in all ways.

### Findings

Each is a run that TLC refutes, against the text it quotes (`PROJECT.json`); section 8 says
what of each is true.
- `mind_kind`: a closing turn that *fails* leaves `kind = synthesis`, and the next
  ordinary post is a conclusion and closes its story (`spartan_mind.erl:203-205,
  233-235`; the comment at 199-200 says the kind belongs to the turn).
- `mind_heard`: an id said again enters the order twice and leaves the set with
  its first entry, so fewer than HEARD_MAX ids are remembered (`539-549`).
- `mind_stimulus`: a turn without a stimulus (unprompted speech, a self-alert)
  keeps the last turn's and speaks under its story (`608`; the comment at
  122-126 says it clears it).

Two more are noted and not yet runs: a reply dropped by `hold`/`bounded` is
not reported as let go although the text at 402-406 says so, and a full thread
stays unclosed when the post that fills it is the synthesizer's own. The second
belongs to Society.

## 3. Feed and FeedTable: the square of a node

`Feed` is the promise: the square shows a window on the posts that reached the
node, in which a post takes its place in one step. `FeedTable` is the code:
`post/1` runs in the caller — any mind's turn, or `federation_agora` — on a
public table, as `Insert`, `Count` (the `prune()` test), `Choose` (`tab2list`,
sort, `nthtail`) and one `Delete` per row, and any number of writers are
anywhere in it. A read of the table is one step: a few hundred rows are read
within one table lock. A post may be inserted again at any time (history), and
an old one may arrive late. Posts have distinct times; with ties, two readers
might order a tie differently once the table has grown between them, which this
does not cover. A writer does not die inside `post/1`.

- `KeepsTheFeed`: `FeedTable` implements `Feed` with `feed` the window of the
  table: no delete, by however stale a list, takes a post out of the window.
  `recent(N)` for N up to the window reads only that.
- `TailExists`: `lists:nthtail(200, _)` never meets a shorter list, which would
  crash the speaking turn, although others delete between the count and the read.
- `BoundedAtRest`: whenever no writer is inside `post/1` the table is within
  the window; two writers never leave a row to each other.

Run `feed_table`: three writers (a third acts between the steps of two), six
posts for a window of two, so that lists of up to four rows go stale in each other's hands.

## 4. Inbox, Radio and Delivery: how a message reaches an entity

`Inbox` is `hecate_spartan_inbox` with the stream processes of `receive_api`: a
message is taken once (`seen`, emptied when full), queued while the server knows no
receiver, sent to every receiver otherwise; a new receiver takes the backlog. The end of
a receiver (`End`) and the server's `'DOWN'` for it (`Down`) are steps of their own, and what
is sent between them to a process that is gone is lost (`Reached`). `Radio`
extends it with the bridge (`pc` is the line it is at: `resolve_peers`, the GET,
`refresh_ucan`, the read loop with its lookup, whitelist and alert file), the
node around the inbox (registry, directory, `federation_inbox`'s subscription,
the mesh's copies), the claims of peers on their names, of which the newest drops the others
from the directory (`Announce`), the UCANs by day of issue, and everything that fails, each a
`Fault`: a connection cut or silent, a request unanswered, the bridge, the
receiver, the inbox server or the node gone. Messages are known by their number
of arrival, so a message taken twice is two arrivals of one.

- `KeepsOrder`: Radio implements `Delivery`, a queue that may lose but neither
  reorders nor repeats. Backlog, live messages and the remains of an
  earlier stream meet in the bridge, and it is not obvious that they do not mix.
- `TakenOnce`: redelivery reaches the entity only after `seen` was emptied.
- `AlertsAreHeard`, `LocalPeersNamed`: whitelisting and naming are steps of their
  own, between which peers register and lookups fail. A local peer goes by its DID only
  after the node lost its memory, or if another registration of its name, no older than its
  own, was seen there (`Superseded`): its message waited while it lost the name.
- `ArrivedIsHeld`, `LostOnlyByFaults` (actions): where a message may disappear.
  The exceptions in these two are the code's. A message is lost as it arrives when the
  receivers the server knows are all stale (`StaleReceivers`): they have lost their client,
  or are dead and their `'DOWN'` is still to come. A message that waits is lost by a
  failure, or by a lookup that meets an expired UCAN.
- `EventuallyHeard` (liveness): once failures stop, what waits is alerted, unless
  the bridge is `Deaf`. The three ways of being deaf are real states of the code: a
  UCAN that expired before `resolve_peers`, whose 401 is an exception that
  nothing renews on; a connection that died silently under `timeout=None`; an
  inbox server that restarted, which its receivers do not notice.

Fairness: the bridge's own steps (it is a loop under a watchdog), that a node
finds out, by writing its 30 s pings, that a client has left, and that a monitor's
`'DOWN'` reaches the inbox. Neither the mesh nor
peers nor the tools are obliged to anything.

Run `radio`: two messages, a peer of the node and one from afar that registers later under
the same name, another entity's mail, memory of 2, two streams, one mesh copy, a day, one
fault; 0.73 million states, all properties. Two streams are what an old receiver and its successor need; a memory of two
overflows with the other entity's message; one day is one expiry. One fault at a time is
what liveness leaves room for: that failures which meet keep the safety properties too is
what the proofs show, for any number of them.

## 5. Committee: the floor

The coordinator (`committee.erl`) is a gen_server whose mailbox is `mail`; each
handler clause is an action on its head. The scribe's report is a call of the
handler that takes long: while `reporting` holds, messages come and are not
read. A drone (`committee_drone.erl`) is whether it lives, whether it hears the
topic, and how many thoughts it has under way: `take_floor` starts one each time,
so a floor given twice is spoken to twice. How long a fact travels is part of how
long a drone thinks. Timers: `cancel_timer` stops a timer that runs, and does not take a
`floor_timeout` out of the mailbox, as in the code; the timer of 180 s does not
fire twice while the mailbox is not read.

- `NeverWaitsForADrone`: a committee that runs has a timer, a report under way or
  a message that moves it; no loss, crash or dropped subscription strands it.
- `EveryoneIsHeard`: if nothing was lost or late, the record is every drone
  once a round, in the order of the roster, and complete at the adjournment.
- `Ends` (liveness): it ends, with nothing asked of any drone. Fairness: the
  coordinator reads its mailbox, a running timer fires.

Run `committee`: two drones (one before and one at the wrap), two rounds (one
that goes on, one that adjourns), one failure of subscription or drone, and
any number of lost, late or declined turns; 1.62 million states.

What the runs do *not* say, because the code does not do it: that there are never
more rounds than `max_rounds`. `adjourn` is a message to itself (190-198), behind
what came during the last report; with late lines of every drone there, a
third round is closed and reported after the adjournment was announced, though the
module calls itself bounded to "a fixed number of rounds, then a final report
and a clean stop" (19-20). The `floor_timeout` left in the mailbox likewise
makes the "second, wrong advance" that the comment at 155-159 means to rule out.

## 6. Tools, Wire, Lite: the other clients

**Tools.** Every invocation is a process in `tool`: where it is, its job (the
requests of it, in order), the key and UCAN it loaded, what was accepted of it.
The config file is what Python does to it: emptied at `open(path, "w")`, filled at
the close, from the first byte — so a shorter text over a longer leaves a rest. A
post that gets a 401 refreshes and posts once more; an upload or a lookup
does not. How long a text is depends on two things (`SizeOf`): `macula_radio.py` indents
(74), `SpartanRadio.py` does not, and the config of a `register` has a realm (119), which
one that `SpartanRadio.py` made has not (61-62). Each tool saves again what it loaded, so
the lengths are four and one tool may write two of them.

At the node, `enrolled` is the registry and `holder` whom the directory gives the
entity's name. A registration writes both, one of a DID that the registry has changes
nothing (`SameKey`), and one of a DID it forgot claims the name anew. A node, or its registry or
directory alone, may restart and forget (`NodeForgets`); another entity, anywhere, may
register the name with a newer claim (`NameTaken`); an announcement of an earlier key may be heard
again once the name is free (`ComesBack`). A claim is one step here; claims that meet are
Registry's.

- `Truthful`, `AtMostOnce`: what is reported of a message is what became of
  it, over every combination of refusal, renewal, silence and copy.
- `FileIsWhole`: the key is lost by a kill inside a save (`cut`), or by two saves at once of texts
  of unlike length (`clashed`): of the two tools, or of one, as when a `register` and the refresh of
  a call that loaded a config of `SpartanRadio.py` meet. By nothing else.
- `NameIsHeld`: at rest the name is not moved off the key in the file but by a key
  made while another call ran (`overlapped`), a key that was never saved or was announced
  again (`strays`), a node that forgot the name, or another entity that took it.

The exceptions named are hazards the code has. Assumed: DIDs and UCANs are of one length,
so that lengths differ by tool and realm only; the `--url` of a `register` and the
SERVICE_URL are the same text; a node's clock does not go back, so that what a node
registers now is no older than what it registered before. Of a killed call's
request, what the node does with it afterwards is what it does when its answer is lost (`Silence`).

Run `tools`: one `SpartanRadio` call and two of `macula_radio`, one of which registers; jobs
that hold every request and everything that can follow it; two days, one fault; 2.9
million states. Clashes of both sorts, and each cause that `NameIsHeld` names, occur.

**Wire.** A pass is `PassWithout` (load, fetch, filter, take), a lookup of readers
and posts per item, `OpenSeen` and `WriteSeen`; anything uncaught is `down`, and
`Start` runs it again. `SentOnce`: duplicates come from the cut, from a pass
that ended unsaved, or from one item in two feeds, and from nothing else.
`SeenWasOffered`: what is beyond MAX_ITEMS is put off, not dropped.
`EveryoneServed` (action): no agent found by the lookup is passed over without
a fault. `EventuallyOffered` (liveness, under "the process goes on and is started
again"): holds until the file has forgotten something a feed still lists, since
`sorted(seen)[-500:]` keeps the largest hashes, so that an item with a small one
comes back in each pass and may keep others out. Run `wire`: two outlets
that share an item, two readers, Cap 1 with two items (so the cut happens),
batch of 2, one expiry, two faults.

**Lite.** `at` is where the stream's thread of an entity is, `greeter` where its
greeting thread is; both use one UCAN. A restart is a new DID. `TurnsAreBounded`:
no peer is told more than MaxTurns replies and the opening. `NoMonologue`: nobody is
answered more often than it spoke, whatever was refused, posted again or lost.
`EndsByTurns`: an undisturbed dialogue of two ends because one had its turns, and
what outsiders say does not shorten it. `Converges`: all dialogues stop.
`RefusedRefreshes`: an expired UCAN does not keep the stream closed. Fairness:
each thread of a process goes on (both are loops whose exceptions are
caught, or which end). Run `lite`: two entities, one greeting the other, two turns,
two lives each, two messages from outside, one expiry, one fault. Two turns tell
"counts per reply" from "stops after the first"; what was said is counted
up to MaxTurns + 2, one past what is allowed.

No run checks for deadlock but those of Mind and FeedTable: feeds, clients and committees may
rightly stop (nothing to read, a process that ended, bounds used up).

## 7. Registry: who holds a name

A node has two tables: `entities`, of those registered at it (`local`, by home), and
`mesh_entities`, of all it heard of (`dir`). A registration (`Register`) writes the
first, claims its name in the second and announces itself; the subscriber of a node makes the
same claim for every announcement it hears (`Hear`) and says its own again every
minute and on each subscription (`Reannounce`, `Subscribe`). A claim runs in the process
that makes it, on a public table: it reads its rivals (`Read`, with
`Stands` the comparison by age), deletes them one at a time (`Drop`) and inserts (`Insert`).
A handler's steps up to its read are one step, since what they touch nobody else writes; two
requests to register the *same* DID at once are not modelled. Announcements
travel as a set per node: in any order, merged if alike. `Loops` are the nodes that hear
themselves, as a node's publishes "may not loop back" (`maybe_register_entity.erl:119-121`).
Nothing is on disk, so a restart forgets registrations, rows and claims.

`crossed` and `aged` are history: a node's names on which two claims met between read and write,
and those of which a row gave way to an older one of the same DID, which is not
compared.

- `OneHolder`: "a name resolves to exactly ONE live DID" (`hecate_spartan_mesh_entities.erl:27`)
  holds where no two claims met.
- `UnseatedByNewer` (action): no row goes for an older registration, however late, often
  or out of order that is heard.
- `Agree` (liveness): in the end every directory gives the name to the newest registration,
  or to one not older whose home forgot it. What was lost, or mixed up by claims that met, is mended by
  the announcement of a minute later, except at the home of the newest if it does not hear
  itself: there a second row, or an older one of another DID, stays. Fairness: handlers finish, timers come back,
  the subscriber works off its mailbox (strong, because it is busy between messages).

Run `registry`: two nodes, one of which hears itself; two DIDs of one name, one at each;
three registrations, of which the second is older or newer than the first and the third the
oldest; one restart, lost message or lost subscription; 0.15 million states. Each
exception of the properties is needed in this instance: without any of them it fails.

## 8. What is proved

`MindProofs` (assuming only `MindAssumption`, the typing of the constants):
`TypeOK`, `OneThought`, `HeldIsScheduled`, `HeldOnePerStory` and
`ReplyLinksToItsCause` hold for any posts, stories and bounds. None is inductive
alone. `IInv` adds to them that the held set is finite and that the link and the count of
reasoners go with `busy`; `HeldIsScheduled` is what the end of a turn needs only
because it *re-establishes* it from anything (`ResumeSound`), which is how the
timer can be cleared mid-turn without harm. As the handlers are operators, the
lemmas are one per operator (a sound record in, a sound record out) and the
actions follow.

So do the action properties `HeldIsAccountedFor` and
`AnsweredOnceWhileLive`. They need one invariant more, `Remembered`: what was
answered or is held is in the heard set or was forgotten, and what is held again
after it was answered was forgotten. A step of an operator is `Proper` if it keeps
that, accounts for every post it stops holding and answers no post again; each
operator is shown to be, the one that drops the oldest of too many (`bounded`)
by the choice of the least timestamp, and the actions follow.

Where the findings of section 2 refute a property, what is left of it is proved (`Minded`,
again one lemma per operator). A turn about a story speaks under that story, so the wrong
stimulus is only that of turns about none (`SpeaksUnderItsStory`). A leftover mark
makes only a synthesizer's turn a conclusion, and one about a story closes that story
(`ConcludesItsStory`). An id is forgotten only from the front of an order of HEARD_MAX entries
(`ForgetsInOrder`), and the set, all of which is in the order, never has more than HEARD_MAX
members (`HeardIsBounded`).

`FeedTableProofs` (assuming `WindowAssumption`): the same three properties and the
refinement `Spec => KeepsTheFeed`, for any number of writers, any posts and any
window. The inductive invariant adds two facts: `Stale`, every row on
anybody's list has a whole window of newer rows in the table *still*, and
`Charged`, every row beyond the window is on some list or some writer has
yet to read the table. The lemmas are about the window: it is full as soon as
a row is beyond it (`FullWindow`), deleting such a row leaves it
(`DropKeepsWindow`), and an insert is an insert into the window
(`InsertIsPost`), which is the step of `Feed`.

`RadioProofs` (assuming `InboxAssumption` and `RadioAssumption`): all safety
properties of the run `radio`, the refinement `Spec => KeepsOrder` among them, and
`AlertsInOrder`, which follows from the same facts. The inductive invariant is in parts proved one after the
other: `Ground` (types, the bridge's control, numbers within range), `Order` (queue,
current pipe, hand and alerts ascend, each before the next: it is an
invariant only because a receiver that subscribes takes *all* of the queue and leaves
none), `Memory` (what is not seen and has arrived was forgotten), `Heard` and
`Naming`. `StepKinds` says that a step is of one of ten kinds as far as the order
is concerned, so the order is proved over ten cases and not thirty.

`CommitteeProofs` (assuming `CommitteeAssumption`): `TypeOK`,
`NeverWaitsForADrone` and `EveryoneIsHeard`, for any roster, rounds and troubles. What the
second needs beside the handlers is that reading a line never removes a signal
from the mailbox. For the third, an undisturbed committee (`Calm`) is in one of
three phases — a drone has the floor, its report is under way, or it adjourns — and in
each the length of the record is fixed by round and cursor. `EndsInTime` is the safety half of
`Ends`: the adjournment is in the mailbox from the last round on and not before, as
nothing but its own handler takes it out.

`RegistryProofs` (assuming `RegistryAssumption`): `TypeOK`, `OneHolder` and
`UnseatedByNewer`, for any nodes, entities, names, times, registrations and faults. The
inductive invariant says that while claims on a name have not met at a node there is one
writer of it there at most (`Alone`), and that this one is still to delete every row of another DID
and none that is newer (`Knows`), so that what it read is as good as what is there.
Two more theorems hold with no such exception, also where claims met: a name once held at a
node, by a row or by a claim underway, stays held until the node restarts (`NeverUnheld`),
and whoever a home has registered has its name held in the directory there (`HomeHolds`).
Claims that meet can leave two rows of a name, but never none: a row goes only for a claim
whose own is still to come (`OfItsName`). That is the safety half of `Agree`: announcing
again has a choice of holders to mend, not a name to find again. TLC checked both on the instance of
`MCRegistry` before they were proved; no run repeats them.

`ToolsProofs` (assuming `ToolsAssumption`): `TypeOK`, `Truthful`, `AtMostOnce`,
`FileIsWhole` and `NameIsHeld`, for any calls, jobs, days and faults. `StepKinds`
says that whatever happens, it is one call doing one of eleven things or something
elsewhere (a day, the node, another entity), and the parts
of the invariant are proved over those: `Counted` (what was accepted of a call's
message goes with where the call is in its job, in which a post comes once:
`JobsInOrder`), `Saving` (those who have the file open write texts of one length, over none that
is longer) and `Keyed` (unless a key was made while another call ran, one key is in use: all
that hold a key hold the same, it is the file's or is new and with its maker alone, and the
name is its own if it is nobody else's). The types need two parts more: that there are no more keys than calls is a matter of
counting (`Numbered`: each key was minted by a call, no two by one; the assumption says
that the calls are finitely many), and that no UCAN is from tomorrow goes through the file,
which hands the UCAN of one call to another (`Dated`).

`WireProofs` (assuming `WireAssumption`): `TypeOK`, `SentOnce`, `EveryoneServed` and
`SeenWasOffered`, for any outlets, agents, windows and faults. What a pass takes is computed
by recursion on sequences (`Unseen`, and `FlattenSeq` of the community modules). That
there is such a function and what it makes (`Recursion`, `UnseenItems`, `Flattened`) is
proved from the least number for which it would fail, as the induction theorems of the library
cannot be used. `SentOnce` is not inductive: between passes what an agent got must be in
the file, during one in the set that goes to the file or be the item in hand and the
agent no longer in its audience (`Accounted`), and what is still in the batch was not
seen and is there once (`Pending`), each unless the wire was made to forget or the item was listed
twice. `NothingPutOff` is the step that `EventuallyOffered` rests on: what is new is taken unless
the batch is full.

`LiteProofs` (assuming `LiteAssumption`): `TypeOK`, `TurnsAreBounded`,
`NoMonologue` and `EndsByTurns`, for any entities, greetings, turns, lives and faults.
`NoMonologue` is not
inductive: what must stay within bounds is what was said *and* what may still be
without another word from the peer — a reply being thought or posted, an
opening to come, messages in the box. `Numbers` has that sum for every two DIDs, with
`Fresh`: a DID that does not exist yet has no part in anything, which is why
a restart can begin at zero. `EndsByTurns` rests on it too: as long as nothing has
failed a dialogue is `Going` — a message waits at one of the two, one of them is at
work on a reply, or one has used up its turns — and a reply to a DID the node does not
know, which would break that, goes to one that never spoke (`Hears`).

Model-checked only: the liveness properties (`HeldIsSettled`, `EventuallyHeard`, `Ends`,
`EventuallyOffered`, `Converges`, `RefusedRefreshes`, `Agree`), fairness being out of
the prover's reach. Every invariant and every action property of the passing runs is a theorem.
The types of Radio, Lite, Committee and Registry are proved and no run repeats them.

## 9. Noted and not runs

Places where code and text part that no run shows, because a run would only restate them:
- `hecate_spartan_inbox.erl:3-8`: a message for an entity without a live receiver "queues until
  the entity connects"; one that comes between the receiver's end and its `'DOWN'` is marked
  seen, sent to the dead process (103-105) and lost (`StaleReceivers`, section 4).
- A reply dropped by `hold`/`bounded` is not reported as let go although the text at
  `spartan_mind.erl:402-406` says so; a full thread stays unclosed when the post that
  fills it is the synthesizer's own.
- `hecate_spartan_agora:closed/1` (135) compares `kind` with an atom, while a value
  may cross the mesh as a binary (as `committee.erl:316` says of it).
- Committee: a round too many, and the stale timeout (section 5).
- Registry: two claims on one name that meet leave two rows of it, against
  `hecate_spartan_mesh_entities.erl:27`, and at the home of the newest for good if it does not hear
  itself (section 7); an older announcement of a DID replaces its newer row; registrations of one
  millisecond unseat each other at every announcement.
- `federation_ask.erl:86` elects among all who have a row, where the comment (84) says
  "currently online": the first DID may be one whose node is gone, and nobody answers.
- `macula_radio.py`: a bridge whose UCAN expired is refused in `resolve_peers`
  (343) and does not get to its refresh (347-350), though `client/README.md:67-68`
  promises one "on the next call"; `--attach` is always a TypeError (188); `--config` before
  `bridge` is ignored (417), against `client/spartan/README.md:34`.
- `SpartanRadio.py:44-45`: two first calls mint two keys, where
  `client/spartan/README.md:28` says one is minted once.
- `wire.py`: a 401 to `readers` ends the process; the readers are not filtered
  for being alive (142-150); `--once`, which its text mentions, is not an option.
- `spartan_lite.py`: posts of the square are answered as direct messages, and
  headlines use up the turns of whoever brings them.

## 10. The plan

1. **Square** — N nodes with a `Feed` each (`FeedTable` shows that a table may be
   one), facts in flight to square and mind separately, loss, history said again,
   restarts. Abstract: a set of posts said, which each square's window converges to.
2. **Society** — minds of several nodes over Square: the cap read when a turn
   starts and used when it speaks, closing by the synthesizer, a conclusion
   as it survives (or not) the wire and a restart.
3. **MindMemory** — versions of memory, evolver and seeder results, self-alerts
   with crashes. **Recollection** — tiers, sleep cycle and journal with crashes between
   the writes and torn tails.
4. **Carousel** — rests, strikes and the table's owner; the election over Registry.

## 11. Not modelled

- The components the inventory says are I/O, text or declarations, for that reason.
- Those of the plan, which are not done.
- Of Committee: `convene_committee`, whose cap of four is a check before a start.
- Of the inbox: broadcasts as such (to an inbox they are messages), `pending`, `online`. In
  Radio the entity's own name is never taken over, which would only keep local peers from
  finding it by name: fewer messages, no other behaviour.
- Of the wire: its identity file (written like the tools' config) and the parsing of feeds. Its
  directory never drops a reader once it has it; a post to one that was dropped is a
  post turned down.
- Of lite entities: the prompt and history, beyond the count of turns. Between nodes a message is
  in one queue from which it may be lost; that the mesh brings it again after the inbox
  emptied its memory of what it has seen is in Radio, and not in Lite.
- Of registration: the election, the loop that registers the residents, presence
  (`online`), and a DID that changes its home or name. In Registry and Radio the directory
  process does not restart alone (it would lose the rows of peers and read its own again from the
  registry); in Tools it does, as `NodeForgets` and `ComesBack`.
- The wording of prompts and posts; the mesh itself, of which only what the code
  assumes (a fact may reach a listener, or not, once or often) is used.
