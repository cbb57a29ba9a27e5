-------------------------------- MODULE Mind --------------------------------
(***************************************************************************)
(* The attention of one mind: spartan_mind.erl, the gen_server that hears  *)
(* the square, decides what is worth a thought, reasons about one thing at *)
(* a time in a spawned process, and keeps a peer's reply that arrives      *)
(* meanwhile until it can be taken up.                                     *)
(*                                                                         *)
(* The server's record #st is the variable m, and every handler is a pure  *)
(* operator from one such record to the next, as the Erlang clauses are.   *)
(* The record's memory half (remember_turn and what follows from it) is    *)
(* the subject of MindMemory; here a finished turn only may make a         *)
(* self-alert due or start the off-process evolver.                        *)
(*                                                                         *)
(* Time is kept as the comparisons the code makes: whether each of the two *)
(* cooldowns has run out, and whether a post is younger than HISTORY_MS    *)
(* ("fresh"), at most HOLD_MAX_AGE_MS ("old"), or older ("expired").       *)
(***************************************************************************)
EXTENDS Integers, Sequences, FiniteSets

CONSTANTS
  Posts,        \* post ids
  NoPost,       \* `undefined': a fact that carries no post_id
  Stories,      \* item ids of the stories posts and openings are about
  NoStory,      \* `undefined': a fact that carries no stimulus
  StoryOf,      \* the story each post answers, or NoStory
  PostedAt,     \* the posted_at of each post
  Mine,         \* the posts this mind said itself
  Blank,        \* the posts whose body is empty
  HeardMax,     \* HEARD_MAX
  HoldMax,      \* HOLD_MAX
  Synthesizer,  \* HECATE_MIND_SYNTHESIZER
  MaxAlerts,    \* bound: self-alert messages in flight at a time
  Traced        \* bound: the posts whose history is kept for the properties

\* Distinct times make "the newest" one post; the code breaks a tie by map order.
ASSUME MindAssumption ==
  /\ NoPost \notin Posts
  /\ NoStory \notin Stories
  /\ StoryOf \in [Posts -> Stories \cup {NoStory}]
  /\ PostedAt \in [Posts -> Nat]
  /\ \A p, q \in Posts : PostedAt[p] = PostedAt[q] => p = q
  /\ Mine \subseteq Posts /\ Blank \subseteq Posts
  /\ HeardMax \in Nat \ {0} /\ HoldMax \in Nat \ {0} /\ MaxAlerts \in Nat
  /\ Synthesizer \in BOOLEAN /\ Traced \subseteq Posts

VARIABLES
  m,       \* the server's state, with what its handlers did outside it
  age,     \* how old each post is by now
  full,    \* the stories whose thread in the local square is at the cap
  alerts   \* self-alert messages sent or waiting to be sent again

vars == <<m, age, full, alerts>>

-----------------------------------------------------------------------------
(* Facts and turns.                                                        *)

Ages == {"fresh", "old", "expired"}
TurnKinds == {"none", "peer", "opening", "other", "closing"}
Timers == {"none", "waiting", "due"}

Facts == [post : Posts \cup {NoPost}, story : Stories \cup {NoStory},
          mine : BOOLEAN, replay : BOOLEAN, blank : BOOLEAN]

PostFact(p, replay) == [post |-> p, story |-> StoryOf[p], mine |-> p \in Mine,
                        replay |-> replay, blank |-> p \in Blank]

\* Everything without a post_id: a sensor's opening, a broadcast, own or not.
UnpostedFacts == {f \in Facts : f.post = NoPost /\ ~f.replay}

\* The empty map a closing turn and a self-alert are started with.
NoFact == [post |-> NoPost, story |-> NoStory,
           mine |-> FALSE, replay |-> FALSE, blank |-> FALSE]

NoTurn == [kind |-> "none", post |-> NoPost, story |-> NoStory]

Turns == [kind : TurnKinds, post : Posts \cup {NoPost}, story : Stories \cup {NoStory}]

\* #st, less the identity, memory and mission fields. From `reasoning' on they
\* are not the server's own: the reasoning processes alive, whether the evolver
\* is, the stories whose conclusion it has put in the square, and (history only)
\* what it reasons about, the posts it ever reasoned about, and those that ever
\* left its heard set.
MindState ==
  [busy : BOOLEAN, openReady : BOOLEAN, replyReady : BOOLEAN,
   heardOrder : Seq(Posts), heardSet : SUBSET Posts,
   held : SUBSET Posts, holdTimer : Timers,
   replyingTo : Posts \cup {NoPost}, stimulus : Stories \cup {NoStory},
   kind : {"none", "synthesis"},
   reasoning : Nat, evolver : BOOLEAN, closed : SUBSET Stories,
   turn : Turns,   answered : SUBSET Traced, forgotten : SUBSET Traced]

InitMind ==
  [busy |-> FALSE, openReady |-> TRUE, replyReady |-> TRUE,
   heardOrder |-> << >>, heardSet |-> {}, held |-> {}, holdTimer |-> "none",
   replyingTo |-> NoPost, stimulus |-> NoStory, kind |-> "none",
   reasoning |-> 0, evolver |-> FALSE, closed |-> {},
   turn |-> NoTurn, answered |-> {}, forgotten |-> {}]

-----------------------------------------------------------------------------
(* Hearing a post once.                                                    *)

\* heard_add: the id goes to the back of the order whether or not it is known,
\* and the id at the front, past HEARD_MAX, leaves the set.
HeardAdd(p, st) ==
  LET order == Append(st.heardOrder, p)
      known == st.heardSet \cup {p}
  IN  IF Len(order) > HeardMax
      THEN [st EXCEPT !.heardOrder = Tail(order),
                      !.heardSet = known \ {Head(order)},
                      !.forgotten = @ \cup ({Head(order)} \cap Traced)]
      ELSE [st EXCEPT !.heardOrder = order, !.heardSet = known]

-----------------------------------------------------------------------------
(* Holding a peer's reply.                                                 *)

\* story_key: a story is its own thread, unprompted speech a thread of one.
SameThread(p, q) == p = q \/ (StoryOf[p] = StoryOf[q] /\ StoryOf[p] # NoStory)

Newest(S) == CHOOSE p \in S : \A q \in S : PostedAt[p] >= PostedAt[q]
Oldest(S) == CHOOSE p \in S : \A q \in S : PostedAt[p] <= PostedAt[q]

\* Mistakes: the bound off by one; the newest let go instead of the oldest.
BoundedLate(S) == IF Cardinality(S) > HoldMax + 1 THEN S \ {Oldest(S)} ELSE S
BoundedWrongEnd(S) == IF Cardinality(S) > HoldMax THEN S \ {Newest(S)} ELSE S

Bounded(S) == IF Cardinality(S) > HoldMax THEN S \ {Oldest(S)} ELSE S

\* Mistakes: held by post id and not by story; the older of two posts kept.
HoldByPost(p, held) == Bounded(held \cup {p})
HoldOlder(p, held) ==
  LET kept == {q \in held : SameThread(p, q)}
  IN  Bounded(IF \A q \in kept : PostedAt[p] <= PostedAt[q]
              THEN (held \ kept) \cup {p}
              ELSE held)

Hold(p, held) ==
  LET kept == {q \in held : SameThread(p, q)}
  IN  Bounded(IF \A q \in kept : PostedAt[p] >= PostedAt[q]
              THEN (held \ kept) \cup {p}
              ELSE held)

Keep(p, st) == [st EXCEPT !.held = Hold(p, @)]

\* The timer is set for the end of the reply cooldown, at the earliest.
ResumeLater(st) ==
  IF st.holdTimer = "none"
  THEN [st EXCEPT !.holdTimer = IF st.replyReady THEN "due" ELSE "waiting"]
  ELSE st

-----------------------------------------------------------------------------
(* Starting a turn.                                                        *)

\* Mistakes: the story's id linked instead of the post's; a turn no peer woke
\* that leaves the last link in place.
ClockedByStory(k, f, st) ==
  IF k = "peer" THEN [st EXCEPT !.replyReady = FALSE, !.replyingTo = f.story]
                ELSE [st EXCEPT !.openReady = FALSE, !.replyingTo = NoPost]
ClockedKeepsLink(k, f, st) ==
  CASE k = "peer"    -> [st EXCEPT !.replyReady = FALSE, !.replyingTo = f.post]
    [] k = "closing" -> st
    [] OTHER         -> [st EXCEPT !.openReady = FALSE, !.replyingTo = NoPost]

Clocked(k, f, st) ==
  CASE k = "peer"    -> [st EXCEPT !.replyReady = FALSE, !.replyingTo = f.post]
    [] k = "closing" -> [st EXCEPT !.replyingTo = NoPost]
    [] OTHER         -> [st EXCEPT !.openReady = FALSE, !.replyingTo = NoPost]

\* A fact without a stimulus leaves the one the last turn carried.
Carried(f, st) == IF f.story = NoStory THEN st.stimulus ELSE f.story

StartTurn(k, f, st) ==
  Clocked(k, f,
    [st EXCEPT !.busy = TRUE,
               !.reasoning = @ + 1,
               !.stimulus = Carried(f, st),
               !.turn = [kind |-> k, post |-> f.post,
                         story |-> IF k = "closing" THEN st.stimulus ELSE f.story],
               !.answered = @ \cup ({f.post} \cap Traced)])

\* A full thread has voices in it, so close_with always finds words to close.
Close(story, st) ==
  StartTurn("closing", NoFact, [st EXCEPT !.stimulus = story, !.kind = "synthesis"])

Closable(story, st) ==
  Synthesizer /\ ~st.busy /\ story # NoStory /\ story \notin st.closed

-----------------------------------------------------------------------------
(* The gate.                                                               *)

KindOf(f) ==
  IF f.post = NoPost
  THEN IF f.mine THEN "own" ELSE IF f.story # NoStory THEN "opening" ELSE "other"
  ELSE IF f.replay \/ age[f.post] # "fresh" THEN "replay"
       ELSE IF f.mine THEN "own" ELSE "peer"

Decide(k, f, st) ==
  CASE f.blank                      -> "empty"
    [] ~f.blank /\ f.story \in full -> "thread_full"
    [] OTHER -> IF k = "peer"
                THEN IF st.replyReady THEN "ok" ELSE "reply_cooldown"
                ELSE IF st.openReady THEN "ok" ELSE "cooldown"

React(k, f, st) ==
  LET verdict == Decide(k, f, st)
  IN  CASE verdict = "ok"             -> StartTurn(k, f, st)
        [] verdict = "thread_full"    -> IF Closable(f.story, st)
                                         THEN Close(f.story, st) ELSE st
        [] verdict = "reply_cooldown" -> ResumeLater(Keep(f.post, st))
        [] OTHER                      -> st

\* One thought at a time: a peer's reply is kept, anything else is let go.
Consider(k, f, st) ==
  IF ~st.busy THEN React(k, f, st)
  ELSE IF k = "peer" THEN Keep(f.post, st) ELSE st

\* Mistake: a peer's post is not remembered as heard when it is considered.
ArrivalForgets(f, st) ==
  LET k == KindOf(f)
  IN  CASE k = "own"    -> st
        [] k = "replay" -> HeardAdd(f.post, st)
        [] k = "peer"   -> IF f.post \in st.heardSet THEN st ELSE Consider("peer", f, st)
        [] OTHER        -> Consider(k, f, st)

Arrival(f, st) ==
  LET k == KindOf(f)
  IN  CASE k = "own"    -> st
        [] k = "replay" -> HeardAdd(f.post, st)
        [] k = "peer"   -> IF f.post \in st.heardSet THEN st
                           ELSE Consider("peer", f, HeardAdd(f.post, st))
        [] OTHER        -> Consider(k, f, st)

-----------------------------------------------------------------------------
(* resume: after a turn, or when the reply clock runs out, take up what was *)
(* held, newest first, until a turn starts, the clock says wait, or nothing *)
(* is left. With the timer still set it stops after one post, whatever     *)
(* became of it (settle's second clause).                                  *)

Live(held) == {q \in held : age[q] # "expired"}

\* A post the loop goes past: declined for good, and no closing word started.
Passed(q, st) ==
  q \in Blank \/ (StoryOf[q] \in full /\ ~Closable(StoryOf[q], st))

\* Mistake: one step and no loop, whether or not the timer is set.
ResumeOnce(st) ==
  LET next == Newest(Live(st.held))
      rest == {q \in Live(st.held) : PostedAt[q] < PostedAt[next]}
  IN  IF Live(st.held) = {}
      THEN [st EXCEPT !.held = {}]
      ELSE React("peer", PostFact(next, FALSE), [st EXCEPT !.held = rest])

Resume(st) ==
  LET stops == {q \in Live(st.held) : st.holdTimer = "none" => ~Passed(q, st)}
      next  == Newest(stops)
      rest  == {q \in Live(st.held) : PostedAt[q] < PostedAt[next]}
  IN  IF stops = {}
      THEN [st EXCEPT !.held = {}]
      ELSE React("peer", PostFact(next, FALSE), [st EXCEPT !.held = rest])

\* The reasoning process is gone and the mind is free: take up what was held.
\* Mistake: the mind is freed but does not take up what it held.
TurnOverDeaf(st) ==
  [st EXCEPT !.busy = FALSE, !.reasoning = @ - 1, !.turn = NoTurn]

TurnOver(st) ==
  Resume([st EXCEPT !.busy = FALSE, !.reasoning = @ - 1, !.turn = NoTurn])

OnResumeHeld(st) ==
  LET fired == [st EXCEPT !.holdTimer = "none"]
  IN  IF st.busy THEN fired ELSE Resume(fired)

\* Mistake: any process that dies is taken for the one that reasons.
OnAnyDown(st) == Resume([st EXCEPT !.evolver = FALSE, !.busy = FALSE])

OnEvolverDown(st) == [st EXCEPT !.evolver = FALSE]

-----------------------------------------------------------------------------
(* The actions: what reaches the mailbox, and what time and the rest of    *)
(* the node do.                                                            *)

Hear(f) ==
  /\ m' = Arrival(f, m)
  /\ UNCHANGED <<age, full, alerts>>

HearPost == \E p \in Posts, replay \in BOOLEAN : Hear(PostFact(p, replay))
HearUnposted == \E f \in UnpostedFacts : Hear(f)

\* {reasoned, ...}: the tool calls act first. A `speak' in a turn marked
\* synthesis puts the conclusion in the square; remember_turn may start the
\* evolver and may make self-alerts due; then the turn is over.
Reasoned ==
  /\ m.reasoning > 0
  /\ \E spoke, evolve \in BOOLEAN, due \in 0..(MaxAlerts - alerts) :
       /\ alerts' = alerts + due
       /\ m' = TurnOver(
                 [m EXCEPT !.closed = IF spoke /\ m.kind = "synthesis"
                                      THEN @ \cup ({m.stimulus} \ {NoStory}) ELSE @,
                           !.evolver = @ \/ evolve,
                           !.kind = "none"])
  /\ UNCHANGED <<age, full>>

\* {reasoning_failed, ...}
ReasoningFailed ==
  /\ m.reasoning > 0
  /\ m' = TurnOver(m)
  /\ UNCHANGED <<age, full, alerts>>

\* 'DOWN' of a reasoning process that never reported.
ReasonerDies ==
  /\ m.reasoning > 0
  /\ m' = IF m.busy THEN TurnOver(m) ELSE [m EXCEPT !.reasoning = @ - 1]
  /\ UNCHANGED <<age, full, alerts>>

\* {evolved, ...}, or the 'DOWN' of an evolver that crashed.
EvolverEnds ==
  /\ m.evolver
  /\ m' = OnEvolverDown(m)
  /\ UNCHANGED <<age, full, alerts>>

ResumeHeld ==
  /\ m.holdTimer = "due"
  /\ m' = OnResumeHeld(m)
  /\ UNCHANGED <<age, full, alerts>>

\* While the mind is mid-thought the message is sent again three seconds later.
SelfAlert ==
  /\ alerts > 0 /\ ~m.busy
  /\ alerts' = alerts - 1
  /\ m' = StartTurn("other", NoFact, m)
  /\ UNCHANGED <<age, full>>

ReplyCooldownEnds ==
  /\ ~m.replyReady
  /\ m' = [m EXCEPT !.replyReady = TRUE,
                    !.holdTimer = IF @ = "waiting" THEN "due" ELSE @]
  /\ UNCHANGED <<age, full, alerts>>

OpenCooldownEnds ==
  /\ ~m.openReady
  /\ m' = [m EXCEPT !.openReady = TRUE]
  /\ UNCHANGED <<age, full, alerts>>

\* Posts grow old in the order they were said.
GrowOld(p) ==
  /\ age[p] # "expired"
  /\ \A q \in Posts : PostedAt[q] < PostedAt[p] => age[q] # age[p]
  /\ age' = [age EXCEPT ![p] = IF @ = "fresh" THEN "old" ELSE "expired"]
  /\ UNCHANGED <<m, full, alerts>>

\* hecate_spartan_agora: other voices fill a thread; the window of two hundred
\* posts rolls on and a thread, with its closing word, falls out of it.
ThreadFills(s) ==
  /\ s \notin full
  /\ full' = full \cup {s}
  /\ UNCHANGED <<m, age, alerts>>

ThreadPruned(s) ==
  /\ s \in full
  /\ full' = full \ {s}
  /\ \E conclusion \in BOOLEAN :
       m' = IF conclusion THEN [m EXCEPT !.closed = @ \ {s}] ELSE m
  /\ UNCHANGED <<age, alerts>>

Init ==
  /\ m = InitMind
  /\ age = [p \in Posts |-> "fresh"]
  /\ full = {}
  /\ alerts = 0

Handlers == HearPost \/ HearUnposted \/ Reasoned \/ ReasoningFailed \/ ReasonerDies
              \/ EvolverEnds \/ ResumeHeld \/ SelfAlert

Surroundings == ReplyCooldownEnds \/ OpenCooldownEnds
                  \/ (\E p \in Posts : GrowOld(p))
                  \/ (\E s \in Stories : ThreadFills(s) \/ ThreadPruned(s))

Next == Handlers \/ Surroundings

Spec == Init /\ [][Next]_vars

\* Every turn ends (the provider call has a deadline and the process is
\* monitored), the timer fires and time passes. Nothing obliges a peer to
\* speak, a thread to fill or a self-alert to find the mind idle.
Fairness ==
  /\ WF_vars(Reasoned \/ ReasoningFailed \/ ReasonerDies)
  /\ WF_vars(ResumeHeld)
  /\ WF_vars(ReplyCooldownEnds)
  /\ \A p \in Posts : WF_vars(GrowOld(p))

FairSpec == Spec /\ Fairness

-----------------------------------------------------------------------------
(* Properties.                                                             *)

\* The server's record keeps the shape of #st through every handler: the order
\* of heard ids its bound, a reply link a post id, a stimulus a story.
TypeOK ==
  /\ m \in MindState
  /\ Len(m.heardOrder) <= HeardMax
  /\ age \in [Posts -> Ages]
  /\ full \subseteq Stories
  /\ alerts \in Nat

\* One thought at a time: a reasoning process is alive exactly while the mind
\* is busy. Clearing `busy' on the wrong 'DOWN' would start a second one.
OneThought == m.reasoning = IF m.busy THEN 1 ELSE 0

\* A reply that was kept is never stranded: whenever a mind with something held
\* is idle, the timer that brings it back to it is set (resume, settle,
\* resume_later, and the two resume_held clauses together).
HeldIsScheduled == m.held # {} /\ ~m.busy => m.holdTimer # "none"

\* At most one post held per story, and HOLD_MAX stories.
HeldOnePerStory ==
  /\ Cardinality(m.held) <= HoldMax
  /\ \A p, q \in m.held : SameThread(p, q) => p = q

\* While a turn is in flight, the link `speak' falls back on is to the peer post
\* that woke this turn, and a turn no peer woke links to nothing (answering/2).
ReplyLinksToItsCause == m.busy => m.replyingTo = m.turn.post

\* No reply is lost on the way: a post that stops being held was taken up as a
\* turn, had nothing left to answer (it is too old, it is empty, its thread is
\* full), was superseded by a newer post of its thread, or was the oldest of
\* too many (hold, bounded, step, take_up).
HeldIsAccountedFor ==
  [][\A p \in m.held \ m'.held :
       \/ m'.turn.post = p
       \/ age[p] = "expired" \/ p \in Blank \/ StoryOf[p] \in full
       \/ \E q \in m'.held : SameThread(p, q) /\ PostedAt[q] > PostedAt[p]
       \/ /\ Cardinality(m'.held) = HoldMax
          /\ \A q \in m'.held : PostedAt[q] > PostedAt[p]]_vars

\* No turn answers a peer post past HOLD_MAX_AGE, nor one the mind has already
\* reasoned about and still remembers hearing, however often it is delivered,
\* held and taken up again.
AnsweredOnceWhileLive ==
  [][m'.turn # m.turn /\ m'.turn.kind = "peer" =>
       /\ m'.turn.post \notin m.answered \ m'.forgotten
       /\ age[m'.turn.post] # "expired"]_vars

\* Whatever is held is settled in the end: taken up, superseded or let go.
HeldIsSettled == \A p \in Posts : (p \in m.held) ~> (p \notin m.held)

\* HEARD_MAX ids are remembered (the comment on HEARD_MAX): an id leaves the set
\* only when as many others as the bound allows are in it.
ForgetsOnlyWhenFull ==
  [][m.heardSet \ m'.heardSet # {} => Cardinality(m'.heardSet) = HeardMax]_vars

\* The kind belongs to the turn, never to the mind: a post is marked a
\* conclusion, and its story closed, only by a closing turn.
ConclusionsComeFromClosingTurns ==
  [][m'.closed \ m.closed # {} => m.turn.kind = "closing"]_vars

\* What a turn's speech is filed under is what the turn is about: an unprompted
\* turn clears the stimulus rather than citing the last turn's (the comment on
\* #st.stimulus). carried/2 keeps it instead.
StimulusIsOfThisTurn == m.busy => m.stimulus = m.turn.story
=============================================================================
