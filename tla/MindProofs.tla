----------------------------- MODULE MindProofs -----------------------------
(***************************************************************************)
(* What is true of a mind's attention whatever the posts, the stories and  *)
(* the bounds: proofs of the invariants and action properties of Mind.     *)
(*                                                                         *)
(* The handlers are operators on the server's record, so the inductive     *)
(* invariant is proved of the operators first (a sound record goes in, a   *)
(* sound record comes out) and of the actions, which only apply them, last.*)
(***************************************************************************)
EXTENDS Mind, FiniteSetTheorems, SequenceTheorems, WellFoundedInduction, TLAPS

(* The parts of the inductive invariant, of one record.                    *)

Typed(st) == st \in MindState /\ Len(st.heardOrder) <= HeardMax

Thinking(st) == st.reasoning = IF st.busy THEN 1 ELSE 0

Linked(st) == st.busy => st.replyingTo = st.turn.post

\* A set of posts that may be held; finite, which Cardinality needs.
Holdable(H) ==
  /\ H \subseteq Posts /\ IsFiniteSet(H) /\ Cardinality(H) <= HoldMax
  /\ \A p, q \in H : SameThread(p, q) => p = q

Sound(st) == Typed(st) /\ Thinking(st) /\ Linked(st) /\ Holdable(st.held)

Scheduled(st) == st.held # {} /\ ~st.busy => st.holdTimer # "none"

\* What the server knows of a fact it reacts to: only a peer's has a post id.
Caused(k, f) ==
  /\ f \in Facts /\ k \in {"peer", "opening", "other", "closing"}
  /\ k = "peer" => f.post \in Posts
  /\ k # "peer" => f.post = NoPost

Outside == age \in [Posts -> Ages] /\ full \subseteq Stories /\ alerts \in Nat

IInv == Sound(m) /\ Scheduled(m) /\ Outside

-----------------------------------------------------------------------------
(* The newest and the oldest of some posts are among them.                 *)

\* A finite set of posts that is not empty has a newest member: a smallest
\* subset without one would have one as soon as an element is put back.
LEMMA NewestIn ==
  ASSUME NEW S \in SUBSET Posts, IsFiniteSet(S), S # {}
  PROVE  Newest(S) \in S /\ \A q \in S : PostedAt[Newest(S)] >= PostedAt[q]
<1> USE MindAssumption
<1> DEFINE HasNewest(X) == \E p \in X : \A q \in X : PostedAt[p] >= PostedAt[q]
           T == {X \in FiniteSubsetsOf(S) : X # {} /\ ~HasNewest(X)}
<1>1. HasNewest(S)
  <2> SUFFICES ASSUME ~HasNewest(S) PROVE FALSE
    OBVIOUS
  <2>1. T # {} /\ T \subseteq FiniteSubsetsOf(S)
    BY DEF FiniteSubsetsOf
  <2>2. PICK X \in T : \A Y \in T : <<Y, X>> \notin StrictSubsetOrdering(S)
    BY <2>1, WFMin, FS_StrictSubsetOrderingWellFounded
  <2>3. X \in SUBSET S /\ IsFiniteSet(X) /\ X # {} /\ ~HasNewest(X)
    BY DEF FiniteSubsetsOf
  <2>4. PICK x \in X : TRUE
    BY <2>3
  <2>5. IsFiniteSet(X \ {x})
    BY <2>3, FS_RemoveElement
  <2>6. <<X \ {x}, X>> \in StrictSubsetOrdering(S)
    BY <2>3, <2>4 DEF StrictSubsetOrdering
  <2>7. X \ {x} = {} \/ HasNewest(X \ {x})
    BY <2>2, <2>3, <2>5, <2>6 DEF FiniteSubsetsOf
  <2>8. \A p, q \in X : PostedAt[p] \in Nat /\ PostedAt[q] \in Nat
    BY <2>3
  <2>9. HasNewest(X)
    BY <2>4, <2>7, <2>8
  <2> QED BY <2>3, <2>9
<1> QED BY <1>1 DEF Newest

\* And, the same way, an oldest.
LEMMA OldestIn ==
  ASSUME NEW S \in SUBSET Posts, IsFiniteSet(S), S # {}
  PROVE  Oldest(S) \in S /\ \A q \in S : PostedAt[Oldest(S)] <= PostedAt[q]
<1> USE MindAssumption
<1> DEFINE HasOldest(X) == \E p \in X : \A q \in X : PostedAt[p] <= PostedAt[q]
           T == {X \in FiniteSubsetsOf(S) : X # {} /\ ~HasOldest(X)}
<1>1. HasOldest(S)
  <2> SUFFICES ASSUME ~HasOldest(S) PROVE FALSE
    OBVIOUS
  <2>1. T # {} /\ T \subseteq FiniteSubsetsOf(S)
    BY DEF FiniteSubsetsOf
  <2>2. PICK X \in T : \A Y \in T : <<Y, X>> \notin StrictSubsetOrdering(S)
    BY <2>1, WFMin, FS_StrictSubsetOrderingWellFounded
  <2>3. X \in SUBSET S /\ IsFiniteSet(X) /\ X # {} /\ ~HasOldest(X)
    BY DEF FiniteSubsetsOf
  <2>4. PICK x \in X : TRUE
    BY <2>3
  <2>5. IsFiniteSet(X \ {x})
    BY <2>3, FS_RemoveElement
  <2>6. <<X \ {x}, X>> \in StrictSubsetOrdering(S)
    BY <2>3, <2>4 DEF StrictSubsetOrdering
  <2>7. X \ {x} = {} \/ HasOldest(X \ {x})
    BY <2>2, <2>3, <2>5, <2>6 DEF FiniteSubsetsOf
  <2>8. \A p, q \in X : PostedAt[p] \in Nat /\ PostedAt[q] \in Nat
    BY <2>3
  <2>9. HasOldest(X)
    BY <2>4, <2>7, <2>8
  <2> QED BY <2>3, <2>9
<1> QED BY <1>1 DEF Oldest

-----------------------------------------------------------------------------
(* Holding.                                                                *)

\* hold/2 keeps one post per story and at most HOLD_MAX of them.
LEMMA HoldHoldable ==
  ASSUME NEW p \in Posts, NEW H, Holdable(H)
  PROVE  Holdable(Hold(p, H))
<1> USE MindAssumption
<1> DEFINE kept == {q \in H : SameThread(p, q)}
           N == (H \ kept) \cup {p}
<1>1. IsFiniteSet(N) /\ Cardinality(N) <= HoldMax + 1 /\ N \subseteq Posts
  <2>1. IsFiniteSet(H \ kept) /\ Cardinality(H \ kept) <= Cardinality(H)
    BY FS_Subset DEF Holdable
  <2>2. Cardinality(H) \in Nat /\ Cardinality(H \ kept) \in Nat
    BY <2>1, FS_CardinalityType DEF Holdable
  <2>3. /\ IsFiniteSet(N)
        /\ Cardinality(N) = IF p \in H \ kept THEN Cardinality(H \ kept)
                                             ELSE Cardinality(H \ kept) + 1
    BY <2>1, FS_AddElement
  <2> QED BY <2>1, <2>2, <2>3 DEF Holdable
<1>2. \A q, r \in N : SameThread(q, r) => q = r
  BY DEF SameThread, Holdable
<1>3. ASSUME NEW S, S \subseteq Posts, IsFiniteSet(S), Cardinality(S) <= HoldMax + 1,
             \A q, r \in S : SameThread(q, r) => q = r
      PROVE  Holdable(Bounded(S))
  <2>1. Cardinality(S) \in Nat
    BY <1>3, FS_CardinalityType
  <2>2. CASE Cardinality(S) <= HoldMax
    BY <1>3, <2>1, <2>2 DEF Bounded, Holdable
  <2>3. CASE Cardinality(S) > HoldMax
    <3>1. S # {}
      BY <2>3, FS_EmptySet
    <3>2. Oldest(S) \in S
      BY <1>3, <3>1, OldestIn
    <3>3. IsFiniteSet(S \ {Oldest(S)}) /\ Cardinality(S \ {Oldest(S)}) = Cardinality(S) - 1
      BY <1>3, <3>2, FS_RemoveElement
    <3>4. Bounded(S) = S \ {Oldest(S)}
      BY <2>3 DEF Bounded
    <3>5. Cardinality(Bounded(S)) <= HoldMax
      BY <1>3, <2>1, <3>3, <3>4
    <3> QED BY <1>3, <3>3, <3>4, <3>5 DEF Holdable
  <2> QED BY <2>1, <2>2, <2>3
<1>4. Holdable(Bounded(N))
  BY <1>1, <1>2, <1>3
<1>5. Cardinality(H) <= HoldMax + 1
  BY FS_CardinalityType DEF Holdable
<1>6. Holdable(Bounded(H))
  BY <1>3, <1>5 DEF Holdable
<1> QED BY <1>4, <1>6 DEF Hold

\* What is left after some were taken away may still be held.
LEMMA FewerHoldable ==
  ASSUME NEW H, Holdable(H), NEW G, G \subseteq H
  PROVE  Holdable(G)
<1>1. IsFiniteSet(G) /\ Cardinality(G) <= Cardinality(H)
  BY FS_Subset DEF Holdable
<1>2. Cardinality(G) \in Nat /\ Cardinality(H) \in Nat
  BY <1>1, FS_CardinalityType DEF Holdable
<1> QED BY <1>1, <1>2, MindAssumption DEF Holdable

-----------------------------------------------------------------------------
(* The operators on the server's record.                                   *)

\* heard_add keeps the order within HEARD_MAX and touches nothing else.
LEMMA HeardSound ==
  ASSUME NEW st, Sound(st), NEW p \in Posts
  PROVE  /\ Sound(HeardAdd(p, st))
         /\ HeardAdd(p, st).busy = st.busy
         /\ HeardAdd(p, st).held = st.held
         /\ HeardAdd(p, st).holdTimer = st.holdTimer
<1> USE MindAssumption
<1> DEFINE order == Append(st.heardOrder, p)
           known == st.heardSet \cup {p}
<1>1. st \in MindState /\ st.heardOrder \in Seq(Posts) /\ Len(st.heardOrder) <= HeardMax
  BY DEF Sound, Typed, MindState
<1>2. /\ order \in Seq(Posts) /\ Len(order) = Len(st.heardOrder) + 1
      /\ order # << >> /\ Head(order) \in Posts
      /\ Tail(order) \in Seq(Posts) /\ Len(Tail(order)) = Len(st.heardOrder)
  <2>1. order \in Seq(Posts) /\ Len(order) = Len(st.heardOrder) + 1 /\ order # << >>
    BY <1>1, AppendProperties
  <2>2. Len(st.heardOrder) \in Nat
    BY <1>1, LenProperties
  <2> HIDE DEF order
  <2> QED BY <2>1, <2>2, HeadTailProperties
<1>3. known \in SUBSET Posts /\ known \ {Head(order)} \in SUBSET Posts
  BY <1>1 DEF MindState
<1>4. st.forgotten \cup ({Head(order)} \cap Traced) \in SUBSET Traced
  BY <1>1 DEF MindState
<1>5. CASE Len(order) > HeardMax
  <2>1. HeardAdd(p, st) = [st EXCEPT !.heardOrder = Tail(order),
                                     !.heardSet = known \ {Head(order)},
                                     !.forgotten = @ \cup ({Head(order)} \cap Traced)]
    BY <1>5 DEF HeardAdd
  <2>2. HeardAdd(p, st) \in MindState
    BY <1>1, <1>2, <1>3, <1>4, <2>1 DEF MindState
  <2> QED BY <1>1, <1>2, <2>1, <2>2 DEF MindState, Sound, Typed, Thinking, Linked
<1>6. CASE ~(Len(order) > HeardMax)
  <2>1. HeardAdd(p, st) = [st EXCEPT !.heardOrder = order, !.heardSet = known]
    BY <1>6 DEF HeardAdd
  <2>2. HeardAdd(p, st) \in MindState
    BY <1>1, <1>2, <1>3, <2>1 DEF MindState
  <2>3. Len(order) <= HeardMax
    BY <1>1, <1>2, <1>6
  <2> QED BY <1>1, <1>2, <2>1, <2>2, <2>3 DEF MindState, Sound, Typed, Thinking, Linked
<1> QED BY <1>5, <1>6

\* Only a mind that is not busy starts a turn, so it starts one; and the link it
\* leaves for `speak' is to the post the turn is about.
LEMMA StartSound ==
  ASSUME NEW st, Sound(st), ~st.busy, NEW k, NEW f, Caused(k, f)
  PROVE  Sound(StartTurn(k, f, st)) /\ StartTurn(k, f, st).busy = TRUE
<1> DEFINE t == [kind |-> k, post |-> f.post,
                 story |-> IF k = "closing" THEN st.stimulus ELSE f.story]
           s == [st EXCEPT !.busy = TRUE,
                           !.reasoning = @ + 1,
                           !.stimulus = Carried(f, st),
                           !.turn = t,
                           !.answered = @ \cup ({f.post} \cap Traced)]
<1>1. st \in MindState /\ st.reasoning = 0 /\ st.reasoning + 1 = 1
  BY DEF Sound, Typed, Thinking
<1>2. f.post \in Posts \cup {NoPost} /\ f.story \in Stories \cup {NoStory}
  BY DEF Caused, Facts
<1>3. t \in Turns /\ t.post = f.post
  BY <1>1, <1>2 DEF Caused, Turns, TurnKinds, MindState
<1>4. Carried(f, st) \in Stories \cup {NoStory}
  BY <1>1, <1>2 DEF Carried, MindState
<1>5. st.answered \cup ({f.post} \cap Traced) \in SUBSET Traced
  BY <1>1 DEF MindState
<1>6. s \in MindState /\ s.reasoning = 1 /\ s.busy = TRUE /\ s.turn = t
      /\ s.held = st.held /\ s.heardOrder = st.heardOrder
  <2> DEFINE stimulus == Carried(f, st)
             answered == st.answered \cup ({f.post} \cap Traced)
  <2>1. stimulus \in Stories \cup {NoStory} /\ answered \in SUBSET Traced
    BY <1>4, <1>5
  <2>2. s = [st EXCEPT !.busy = TRUE, !.reasoning = 1,
                       !.stimulus = stimulus, !.turn = t, !.answered = answered]
    BY <1>1
  <2> HIDE DEF s, t, stimulus, answered
  <2>3. s \in MindState
    BY <1>1, <1>3, <2>1, <2>2 DEF MindState
  <2> QED BY <1>1, <2>2, <2>3 DEF MindState
<1> HIDE DEF s
<1>7. ASSUME NEW c \in MindState, c = Clocked(k, f, s)
      PROVE  c.busy = TRUE /\ c.reasoning = 1 /\ c.turn.post = f.post /\ c.replyingTo = f.post
             /\ c.held = st.held /\ c.heardOrder = st.heardOrder
  BY <1>3, <1>6, <1>7 DEF Clocked, Caused, MindState
<1>8. Clocked(k, f, s) \in MindState
  BY <1>2, <1>6 DEF Clocked, Caused, MindState
<1>9. StartTurn(k, f, st) = Clocked(k, f, s)
  BY DEF StartTurn, s
<1> QED BY <1>7, <1>8, <1>9 DEF Sound, Typed, Thinking, Linked

\* A closing turn is a turn: the conclusion's mark and stimulus are set before.
LEMMA CloseSound ==
  ASSUME NEW st, Sound(st), NEW story \in Stories \cup {NoStory}, Closable(story, st)
  PROVE  Sound(Close(story, st)) /\ Close(story, st).busy = TRUE
<1> DEFINE s == [st EXCEPT !.stimulus = story, !.kind = "synthesis"]
<1>1. Sound(s) /\ ~s.busy
  BY DEF Closable, Sound, Typed, Thinking, Linked, MindState
<1>2. Caused("closing", NoFact)
  BY DEF Caused, NoFact, Facts
<1>3. Close(story, st) = StartTurn("closing", NoFact, s)
  BY DEF Close
<1> HIDE DEF s
<1> QED BY <1>1, <1>2, <1>3, StartSound

\* Keeping a reply, mid-turn or not, is holding it and nothing else.
LEMMA KeepSound ==
  ASSUME NEW st, Sound(st), NEW p \in Posts
  PROVE  /\ Sound(Keep(p, st))
         /\ Keep(p, st).busy = st.busy /\ Keep(p, st).holdTimer = st.holdTimer
<1>1. Holdable(Hold(p, st.held))
  BY HoldHoldable DEF Sound
<1>2. Hold(p, st.held) \in SUBSET Posts
  BY <1>1 DEF Holdable
<1>3. Keep(p, st) = [st EXCEPT !.held = Hold(p, st.held)]
  BY DEF Keep
<1>4. Keep(p, st) \in MindState
  BY <1>2, <1>3 DEF Sound, Typed, MindState
<1> QED BY <1>1, <1>3, <1>4 DEF Sound, Typed, Thinking, Linked, MindState

\* resume_later leaves the timer set, and whatever else as it was.
LEMMA ResumeLaterSound ==
  ASSUME NEW st, Sound(st)
  PROVE  /\ Sound(ResumeLater(st))
         /\ ResumeLater(st).busy = st.busy /\ ResumeLater(st).holdTimer # "none"
<1>1. st \in MindState
  BY DEF Sound, Typed
<1>2. ResumeLater(st) \in MindState
  BY <1>1 DEF ResumeLater, MindState, Timers
<1> QED BY <1>1, <1>2 DEF ResumeLater, Sound, Typed, Thinking, Linked, MindState

-----------------------------------------------------------------------------
(* The gate.                                                               *)

\* Whatever react does, a mind that was idle ends up busy, or with its timer set
\* and the post kept, or just as it was; the last only if the fact was not a
\* peer's or the loop goes past it.
LEMMA ReactSound ==
  ASSUME NEW st, Sound(st), ~st.busy, NEW k, NEW f, Caused(k, f)
  PROVE  /\ Sound(React(k, f, st))
         /\ \/ React(k, f, st).busy = TRUE
            \/ React(k, f, st).holdTimer # "none"
            \/ /\ React(k, f, st) = st
               /\ k = "peer" => \/ f.blank
                                \/ f.story \in full /\ ~Closable(f.story, st)
<1> DEFINE verdict == Decide(k, f, st)
<1>1. f.story \in Stories \cup {NoStory}
  BY DEF Caused, Facts
<1>2. verdict \in {"empty", "thread_full", "ok", "reply_cooldown", "cooldown"}
  BY DEF Decide
<1>3. CASE verdict = "ok"
  <2>1. React(k, f, st) = StartTurn(k, f, st)
    BY <1>3 DEF React
  <2> QED BY <2>1, StartSound
<1>4. CASE verdict = "thread_full" /\ Closable(f.story, st)
  <2>1. React(k, f, st) = Close(f.story, st)
    BY <1>4 DEF React
  <2> QED BY <1>1, <1>4, <2>1, CloseSound
<1>5. CASE verdict = "thread_full" /\ ~Closable(f.story, st)
  <2>1. React(k, f, st) = st
    BY <1>5 DEF React
  <2>2. f.story \in full
    BY <1>5 DEF Decide
  <2> QED BY <1>5, <2>1, <2>2
<1>6. CASE verdict = "reply_cooldown"
  <2>1. React(k, f, st) = ResumeLater(Keep(f.post, st))
    BY <1>6 DEF React
  <2>2. f.post \in Posts
    BY <1>6 DEF Decide, Caused
  <2> QED BY <2>1, <2>2, KeepSound, ResumeLaterSound
<1>7. CASE verdict \in {"empty", "cooldown"}
  <2>1. React(k, f, st) = st
    BY <1>7 DEF React
  <2>2. k = "peer" => f.blank
    BY <1>7 DEF Decide
  <2> QED BY <2>1, <2>2
<1> QED BY <1>2, <1>3, <1>4, <1>5, <1>6, <1>7

\* What is scheduled stays scheduled when a fact is reacted to.
LEMMA ConsiderSound ==
  ASSUME NEW st, Sound(st), Scheduled(st), NEW k, NEW f, Caused(k, f)
  PROVE  Sound(Consider(k, f, st)) /\ Scheduled(Consider(k, f, st))
<1>1. CASE ~st.busy
  <2>1. Consider(k, f, st) = React(k, f, st)
    BY <1>1 DEF Consider
  <2> QED BY <1>1, <2>1, ReactSound DEF Scheduled
<1>2. CASE st.busy /\ k = "peer"
  <2>1. Consider(k, f, st) = Keep(f.post, st)
    BY <1>2 DEF Consider
  <2> QED BY <1>2, <2>1, KeepSound DEF Scheduled, Caused
<1>3. CASE st.busy /\ k # "peer"
  BY <1>3 DEF Consider
<1> QED BY <1>1, <1>2, <1>3

\* Whatever arrives, heard before or not, leaves the server sound.
LEMMA ArrivalSound ==
  ASSUME NEW st, Sound(st), Scheduled(st), NEW f \in Facts
  PROVE  Sound(Arrival(f, st)) /\ Scheduled(Arrival(f, st))
<1> DEFINE k == KindOf(f)
<1>1. k \in {"own", "replay", "peer", "opening", "other"}
  BY DEF KindOf
<1>2. k \in {"replay", "peer"} => f.post \in Posts
  BY DEF KindOf, Facts
<1>3. k \in {"opening", "other"} => f.post = NoPost
  BY DEF KindOf
<1>4. CASE k = "own"
  BY <1>4 DEF Arrival
<1>5. CASE k = "replay"
  <2>1. Arrival(f, st) = HeardAdd(f.post, st)
    BY <1>5 DEF Arrival
  <2> QED BY <1>2, <1>5, <2>1, HeardSound DEF Scheduled
<1>6. CASE k = "peer" /\ f.post \in st.heardSet
  BY <1>6 DEF Arrival
<1>7. CASE k = "peer" /\ f.post \notin st.heardSet
  <2>1. Arrival(f, st) = Consider("peer", f, HeardAdd(f.post, st))
    BY <1>7 DEF Arrival
  <2>2. Sound(HeardAdd(f.post, st)) /\ Scheduled(HeardAdd(f.post, st))
    BY <1>2, <1>7, HeardSound DEF Scheduled
  <2>3. Caused("peer", f)
    BY <1>2, <1>7 DEF Caused
  <2> QED BY <2>1, <2>2, <2>3, ConsiderSound
<1>8. CASE k \in {"opening", "other"}
  <2>1. Arrival(f, st) = Consider(k, f, st)
    BY <1>8 DEF Arrival
  <2>2. Caused(k, f)
    BY <1>3, <1>8 DEF Caused
  <2> HIDE DEF k
  <2> QED BY <2>1, <2>2, ConsiderSound
<1> QED BY <1>1, <1>4, <1>5, <1>6, <1>7, <1>8

\* The loop that takes up what was held never stops with something held and
\* nothing to come back to it. It needs no promise about the timer beforehand.
LEMMA ResumeSound ==
  ASSUME NEW st, Sound(st), ~st.busy
  PROVE  Sound(Resume(st)) /\ Scheduled(Resume(st))
<1> DEFINE stops == {q \in Live(st.held) : st.holdTimer = "none" => ~Passed(q, st)}
           next  == Newest(stops)
           rest  == {q \in Live(st.held) : PostedAt[q] < PostedAt[next]}
           s     == [st EXCEPT !.held = rest]
           f     == PostFact(next, FALSE)
<1>1. st \in MindState /\ Holdable(st.held)
  BY DEF Sound, Typed
<1>2. stops \subseteq st.held /\ rest \subseteq st.held
  BY DEF Live
<1>3. ASSUME NEW G, G \subseteq st.held
      PROVE  LET g == [st EXCEPT !.held = G] IN Sound(g) /\ ~g.busy
  <2>1. Holdable(G)
    BY <1>1, <1>3, FewerHoldable
  <2>2. G \in SUBSET Posts
    BY <2>1 DEF Holdable
  <2>3. [st EXCEPT !.held = G] \in MindState
    BY <1>1, <2>2 DEF MindState
  <2> QED BY <1>1, <2>1, <2>3 DEF Sound, Typed, Thinking, Linked, MindState
<1>4. CASE stops = {}
  <2>1. Resume(st) = [st EXCEPT !.held = {}]
    BY <1>4 DEF Resume
  <2>2. Resume(st).held = {}
    BY <1>1, <2>1 DEF MindState
  <2> QED BY <1>3, <2>1, <2>2 DEF Scheduled
<1>5. CASE stops # {}
  <2>1. Resume(st) = React("peer", f, s)
    BY <1>5 DEF Resume
  <2>2. next \in stops /\ next \in Posts
    <3>1. stops \in SUBSET Posts /\ IsFiniteSet(stops)
      BY <1>1, <1>2, FS_Subset DEF Holdable
    <3> HIDE DEF stops
    <3> QED BY <1>5, <3>1, NewestIn
  <2>3. Caused("peer", f) /\ f.blank = (next \in Blank) /\ f.story = StoryOf[next]
    BY <2>2, MindAssumption DEF Caused, PostFact, Facts
  <2>4. Sound(s) /\ ~s.busy
    BY <1>2, <1>3
  <2>5. /\ s.holdTimer = st.holdTimer
        /\ \A story : Closable(story, s) <=> Closable(story, st)
    BY <1>1 DEF MindState, Closable
  <2>6. s.holdTimer = "none" => ~Passed(next, st)
    BY <2>2, <2>5
  <2> HIDE DEF s, f, stops, next
  <2>7. \/ Resume(st).busy = TRUE \/ Resume(st).holdTimer # "none"
        \/ Resume(st) = s /\ Passed(next, st)
    BY <2>1, <2>3, <2>4, <2>5, ReactSound DEF Passed
  <2> QED BY <2>1, <2>3, <2>4, <2>6, <2>7, ReactSound DEF Scheduled
<1> QED BY <1>4, <1>5

\* When the one process that reasons is gone the mind is free, and what it held
\* is taken up or scheduled.
LEMMA TurnOverSound ==
  ASSUME NEW st, Sound(st), st.reasoning > 0
  PROVE  Sound(TurnOver(st)) /\ Scheduled(TurnOver(st))
<1> DEFINE s == [st EXCEPT !.busy = FALSE, !.reasoning = @ - 1, !.turn = NoTurn]
<1>1. st \in MindState /\ st.reasoning = 1
  BY DEF Sound, Typed, Thinking, MindState
<1>2. NoTurn \in Turns
  BY DEF NoTurn, Turns, TurnKinds
<1>3. s = [st EXCEPT !.busy = FALSE, !.reasoning = 0, !.turn = NoTurn]
  BY <1>1
<1>4. TurnOver(st) = Resume(s)
  BY DEF TurnOver
<1> HIDE DEF s
<1>5. s \in MindState
  BY <1>1, <1>2, <1>3 DEF MindState
<1>6. s.busy = FALSE /\ s.reasoning = 0 /\ s.held = st.held /\ s.heardOrder = st.heardOrder
  BY <1>1, <1>3 DEF MindState
<1>7. Sound(s) /\ ~s.busy
  BY <1>5, <1>6 DEF Sound, Typed, Thinking, Linked
<1> QED BY <1>4, <1>7, ResumeSound

\* The timer's message leaves no reply unscheduled, mid-turn or idle.
LEMMA ResumeHeldSound ==
  ASSUME NEW st, Sound(st)
  PROVE  Sound(OnResumeHeld(st)) /\ Scheduled(OnResumeHeld(st))
<1> DEFINE s == [st EXCEPT !.holdTimer = "none"]
<1>1. s \in MindState /\ s.busy = st.busy
  BY DEF Sound, Typed, MindState, Timers
<1>2. Sound(s)
  BY <1>1 DEF Sound, Typed, Thinking, Linked, MindState
<1>3. OnResumeHeld(st) = IF st.busy THEN s ELSE Resume(s)
  BY DEF OnResumeHeld
<1> HIDE DEF s
<1> QED BY <1>1, <1>2, <1>3, ResumeSound DEF Scheduled

\* A sound mind with nothing held is sound to begin with.
LEMMA InitSound == Init => IInv
<1> SUFFICES ASSUME Init PROVE IInv
  OBVIOUS
<1> USE MindAssumption
<1>1. InitMind \in MindState
  BY DEF InitMind, MindState, Timers, NoTurn, Turns, TurnKinds
<1>2. Holdable({})
  BY FS_EmptySet DEF Holdable
<1>3. Sound(InitMind) /\ Scheduled(InitMind)
  BY <1>1, <1>2 DEF Sound, Typed, Thinking, Linked, Scheduled, InitMind
<1>4. Outside
  BY DEF Init, Outside, Ages
<1> QED BY <1>3, <1>4 DEF Init, IInv

-----------------------------------------------------------------------------
(* The actions.                                                            *)

\* Every action keeps the inductive invariant.
LEMMA NextSound == IInv /\ [Next]_vars => IInv'
<1> SUFFICES ASSUME IInv, [Next]_vars PROVE IInv'
  OBVIOUS
<1> USE MindAssumption
<1>0. Sound(m) /\ Scheduled(m) /\ Outside /\ m \in MindState
  BY DEF IInv, Sound, Typed
<1>1. ASSUME NEW f \in Facts, Hear(f) PROVE IInv'
  <2>1. Sound(m') /\ Scheduled(m')
    BY <1>0, <1>1, ArrivalSound DEF Hear
  <2>2. Outside'
    BY <1>0, <1>1 DEF Hear, Outside
  <2> QED BY <2>1, <2>2 DEF IInv, Sound, Typed, Thinking, Linked, Scheduled
<1>2. CASE HearPost
  <2>1. \A p \in Posts, replay \in BOOLEAN : PostFact(p, replay) \in Facts
    BY DEF PostFact, Facts
  <2> QED BY <1>1, <1>2, <2>1 DEF HearPost
<1>3. CASE HearUnposted
  BY <1>1, <1>3 DEF HearUnposted, UnpostedFacts
<1>4. CASE Reasoned
  <2>1. PICK spoke \in BOOLEAN, evolve \in BOOLEAN, due \in 0..(MaxAlerts - alerts) :
          /\ alerts' = alerts + due
          /\ m' = TurnOver([m EXCEPT
                     !.closed = IF spoke /\ m.kind = "synthesis"
                                THEN @ \cup ({m.stimulus} \ {NoStory}) ELSE @,
                     !.evolver = @ \/ evolve,
                     !.kind = "none"])
    BY <1>4 DEF Reasoned
  <2> DEFINE closed == IF spoke /\ m.kind = "synthesis"
                       THEN m.closed \cup ({m.stimulus} \ {NoStory}) ELSE m.closed
             evolver == m.evolver \/ evolve
             s == [m EXCEPT !.closed = closed, !.evolver = evolver, !.kind = "none"]
  <2>2. closed \in SUBSET Stories /\ evolver \in BOOLEAN
    BY <1>0 DEF MindState
  <2>3. m' = TurnOver(s)
    BY <2>1
  <2> HIDE DEF closed, evolver
  <2>4. s \in MindState
    BY <1>0, <2>2 DEF MindState
  <2>5. Sound(s) /\ s.reasoning > 0
    BY <1>0, <1>4, <2>4 DEF Reasoned, Sound, Typed, Thinking, Linked, MindState
  <2> HIDE DEF s
  <2>6. Sound(m') /\ Scheduled(m')
    BY <2>3, <2>5, TurnOverSound
  <2>7. Outside'
    BY <1>0, <1>4, <2>1 DEF Reasoned, Outside
  <2> QED BY <2>6, <2>7 DEF IInv, Sound, Typed, Thinking, Linked, Scheduled
<1>5. CASE ReasoningFailed \/ ReasonerDies
  <2>1. m' = TurnOver(m) /\ m.reasoning > 0 /\ UNCHANGED <<age, full, alerts>>
    BY <1>0, <1>5 DEF ReasoningFailed, ReasonerDies, Sound, Thinking
  <2>2. Sound(m') /\ Scheduled(m')
    BY <1>0, <2>1, TurnOverSound
  <2> QED BY <1>0, <2>1, <2>2 DEF Outside, IInv, Sound, Typed, Thinking, Linked, Scheduled
<1>6. CASE EvolverEnds
  <2>1. m' = [m EXCEPT !.evolver = FALSE] /\ UNCHANGED <<age, full, alerts>>
    BY <1>6 DEF EvolverEnds, OnEvolverDown
  <2>2. m' \in MindState
    BY <1>0, <2>1 DEF MindState
  <2> QED BY <1>0, <2>1, <2>2
          DEF Outside, IInv, Sound, Typed, Thinking, Linked, Scheduled, MindState
<1>7. CASE ResumeHeld
  <2>1. Sound(m') /\ Scheduled(m')
    BY <1>0, <1>7, ResumeHeldSound DEF ResumeHeld
  <2> QED BY <1>0, <1>7, <2>1
          DEF ResumeHeld, Outside, IInv, Sound, Typed, Thinking, Linked, Scheduled
<1>8. CASE SelfAlert
  <2>1. Caused("other", NoFact)
    BY DEF Caused, NoFact, Facts
  <2>2. Sound(m') /\ Scheduled(m')
    BY <1>0, <1>8, <2>1, StartSound DEF SelfAlert, Scheduled
  <2>3. Outside'
    BY <1>0, <1>8 DEF SelfAlert, Outside
  <2> QED BY <2>2, <2>3 DEF IInv, Sound, Typed, Thinking, Linked, Scheduled
<1>9. CASE ReplyCooldownEnds
  <2> DEFINE timer == IF m.holdTimer = "waiting" THEN "due" ELSE m.holdTimer
  <2>1. m' = [m EXCEPT !.replyReady = TRUE, !.holdTimer = timer]
    BY <1>9 DEF ReplyCooldownEnds
  <2>2. timer \in Timers /\ (m.holdTimer # "none" => timer # "none")
    BY <1>0 DEF MindState, Timers
  <2> HIDE DEF timer
  <2>3. m' \in MindState
    BY <1>0, <2>1, <2>2 DEF MindState
  <2>4. Sound(m') /\ Scheduled(m')
    BY <1>0, <2>1, <2>2, <2>3
       DEF Sound, Typed, Thinking, Linked, Scheduled, MindState
  <2> QED BY <1>0, <1>9, <2>4
          DEF ReplyCooldownEnds, Outside, IInv, Sound, Typed, Thinking, Linked, Scheduled
<1>10. CASE OpenCooldownEnds
  <2>1. m' = [m EXCEPT !.openReady = TRUE] /\ UNCHANGED <<age, full, alerts>>
    BY <1>10 DEF OpenCooldownEnds
  <2>2. m' \in MindState
    BY <1>0, <2>1 DEF MindState
  <2> QED BY <1>0, <2>1, <2>2
          DEF Outside, IInv, Sound, Typed, Thinking, Linked, Scheduled, MindState
<1>11. ASSUME NEW p \in Posts, GrowOld(p) PROVE IInv'
  <2>1. age' \in [Posts -> Ages]
    BY <1>0, <1>11 DEF GrowOld, Outside, Ages
  <2> QED BY <1>0, <1>11, <2>1
          DEF GrowOld, Outside, IInv, Sound, Typed, Thinking, Linked, Scheduled
<1>12. ASSUME NEW s \in Stories, ThreadFills(s) PROVE IInv'
  BY <1>0, <1>12
     DEF ThreadFills, Outside, IInv, Sound, Typed, Thinking, Linked, Scheduled
<1>13. ASSUME NEW s \in Stories, ThreadPruned(s) PROVE IInv'
  <2>1. Outside'
    BY <1>0, <1>13 DEF ThreadPruned, Outside
  <2>2. CASE m' = m
    BY <1>0, <2>1, <2>2 DEF IInv, Sound, Typed, Thinking, Linked, Scheduled
  <2>3. CASE m' = [m EXCEPT !.closed = @ \ {s}]
    <3>1. m.closed \ {s} \in SUBSET Stories
      BY <1>0 DEF MindState
    <3>2. m' \in MindState
      BY <1>0, <2>3, <3>1 DEF MindState
    <3> QED BY <1>0, <2>1, <2>3, <3>2
            DEF IInv, Sound, Typed, Thinking, Linked, Scheduled, MindState
  <2> QED BY <1>13, <2>2, <2>3 DEF ThreadPruned
<1>14. CASE UNCHANGED vars
  BY <1>0, <1>14 DEF vars, Outside, IInv, Sound, Typed, Thinking, Linked, Scheduled
<1> QED BY <1>2, <1>3, <1>4, <1>5, <1>6, <1>7, <1>8, <1>9, <1>10, <1>11, <1>12,
           <1>13, <1>14 DEF Next, Handlers, Surroundings

-----------------------------------------------------------------------------
(* The theorems.                                                           *)

\* The inductive invariant holds of every behaviour of a mind.
THEOREM Invariance == Spec => []IInv
BY InitSound, NextSound, PTL DEF Spec

\* The server's record keeps its type, and never more than HEARD_MAX ids in the
\* order of what it heard.
THEOREM TypeCorrect == Spec => []TypeOK
<1>1. IInv => TypeOK
  BY DEF IInv, Sound, Typed, Outside, TypeOK
<1> QED BY <1>1, Invariance, PTL

\* A mind reasons about one thing at a time: a reasoning process is alive exactly
\* while the mind is busy, whatever processes die and in whatever order.
THEOREM OneThoughtHolds == Spec => []OneThought
<1>1. IInv => OneThought
  BY DEF IInv, Sound, Thinking, OneThought
<1> QED BY <1>1, Invariance, PTL

\* A reply that is kept is never stranded in an idle mind.
THEOREM HeldIsScheduledHolds == Spec => []HeldIsScheduled
<1>1. IInv => HeldIsScheduled
  BY DEF IInv, Scheduled, HeldIsScheduled
<1> QED BY <1>1, Invariance, PTL

\* One post is held per story, and HOLD_MAX of them.
THEOREM HeldOnePerStoryHolds == Spec => []HeldOnePerStory
<1>1. IInv => HeldOnePerStory
  BY DEF IInv, Sound, Holdable, HeldOnePerStory
<1> QED BY <1>1, Invariance, PTL

\* What a mind says while it answers a peer links to the post that woke it, and
\* what it says of its own accord links to nothing.
THEOREM ReplyLinksHolds == Spec => []ReplyLinksToItsCause
<1>1. IInv => ReplyLinksToItsCause
  BY DEF IInv, Sound, Linked, ReplyLinksToItsCause
<1> QED BY <1>1, Invariance, PTL
-----------------------------------------------------------------------------
(* What becomes of a reply that was heard: the action properties, proved   *)
(* of the operators first and of the actions last, like the invariants.    *)


(* What is claimed of a step, from a record st to a record s.              *)

\* What the server has answered or holds it remembers having heard, or it has
\* forgotten that it did; and what it holds again after answering it, it forgot.
Remembered(st) ==
  /\ (st.answered \cup (st.held \cap Traced)) \subseteq (st.heardSet \cup st.forgotten)
  /\ (st.held \cap st.answered) \subseteq st.forgotten

\* A post let go for one that is newer in its thread, or as the oldest of too many.
Superseded(p, H) == \E q \in H : SameThread(p, q) /\ PostedAt[q] > PostedAt[p]
Overflowed(p, H) == Cardinality(H) = HoldMax /\ \A q \in H : PostedAt[q] > PostedAt[p]

Settled(p, s) ==
  \/ s.turn.post = p
  \/ age[p] = "expired" \/ p \in Blank \/ StoryOf[p] \in full
  \/ Superseded(p, s.held) \/ Overflowed(p, s.held)

Accounted(st, s) == \A p \in st.held \ s.held : Settled(p, s)

AnswersAnew(st, s) ==
  s.turn # st.turn /\ s.turn.kind = "peer" =>
    s.turn.post \notin st.answered \ s.forgotten /\ age[s.turn.post] # "expired"

Proper(st, s) == Remembered(s) /\ Accounted(st, s) /\ AnswersAnew(st, s)

\* A post that may be held or answered now.
Ready(p, st) ==
  p \in Traced => /\ p \in st.heardSet \cup st.forgotten
                  /\ p \in st.held \cup st.answered => p \in st.forgotten

\* The record is as it was, as far as these claims go.
Alike(st, s) ==
  /\ s.held = st.held /\ s.answered = st.answered /\ s.heardSet = st.heardSet
  /\ s.forgotten = st.forgotten /\ s.turn = st.turn

\* So it keeps them.
LEMMA AlikeProper ==
  ASSUME NEW st, NEW s, Alike(st, s), Remembered(st)
  PROVE  Proper(st, s)
BY DEF Alike, Remembered, Proper, Accounted, AnswersAnew

-----------------------------------------------------------------------------
(* Holding.                                                                *)

\* Posts of a time are one.
LEMMA TimesDiffer ==
  ASSUME NEW p \in Posts, NEW q \in Posts, p # q, PostedAt[p] <= PostedAt[q]
  PROVE  PostedAt[p] < PostedAt[q]
BY MindAssumption

\* A post that is not held after all, or no longer, gave way to a newer one of its
\* thread, or was the oldest of too many.
LEMMA HoldAccounts ==
  ASSUME NEW p \in Posts, NEW H, Holdable(H),
         NEW q \in H \cup {p}, q \notin Hold(p, H)
  PROVE  Superseded(q, Hold(p, H)) \/ Overflowed(q, Hold(p, H))
<1> USE MindAssumption
<1> DEFINE kept == {r \in H : SameThread(p, r)}
           N == (H \ kept) \cup {p}
           newer == \A r \in kept : PostedAt[p] >= PostedAt[r]
<1>1. /\ H \subseteq Posts /\ IsFiniteSet(H) /\ Cardinality(H) <= HoldMax
      /\ Cardinality(H) \in Nat
  BY FS_CardinalityType DEF Holdable
<1>2. CASE ~newer
  <2>1. Hold(p, H) = Bounded(H) BY <1>2 DEF Hold
  <2>2. Hold(p, H) = H BY <1>1, <2>1 DEF Bounded
  <2>3. q = p BY <2>2
  <2>4. PICK r \in kept : PostedAt[r] > PostedAt[p] BY <1>1, <1>2
  <2> QED BY <2>2, <2>3, <2>4 DEF Superseded
<1>3. CASE newer
  <2>1. Hold(p, H) = Bounded(N) BY <1>3 DEF Hold
  <2>2. IsFiniteSet(H \ kept) /\ Cardinality(H \ kept) <= Cardinality(H)
        /\ Cardinality(H \ kept) \in Nat
    BY <1>1, FS_Subset, FS_CardinalityType
  <2>3. IsFiniteSet(N) /\ N \in SUBSET Posts /\ p \in N
        /\ Cardinality(N) = IF p \in H \ kept THEN Cardinality(H \ kept)
                                             ELSE Cardinality(H \ kept) + 1
    BY <1>1, <2>2, FS_AddElement
  <2>4. CASE Cardinality(N) > HoldMax
    <3>1. Cardinality(N) = HoldMax + 1 /\ Cardinality(N) \in Nat
      BY <1>1, <2>2, <2>3, <2>4
    <3>2. Oldest(N) \in N /\ \A r \in N : PostedAt[Oldest(N)] <= PostedAt[r]
      BY <2>3, OldestIn
    <3>3. Hold(p, H) = N \ {Oldest(N)} BY <2>1, <2>4 DEF Bounded
    <3>4. Cardinality(Hold(p, H)) = HoldMax
      <4> HIDE DEF N
      <4>1. Cardinality(N \ {Oldest(N)}) = Cardinality(N) - 1 BY <2>3, <3>2, FS_RemoveElement
      <4> QED BY <3>1, <3>3, <4>1
    <3>5. kept = {}
      <4>1. ASSUME kept # {} PROVE FALSE
        <5>1. PICK r \in kept : TRUE BY <4>1
        <5>2. r \in H /\ r \notin H \ kept BY <5>1
        <5>3. Cardinality(H \ {r}) = Cardinality(H) - 1 /\ IsFiniteSet(H \ {r})
          BY <1>1, <5>2, FS_RemoveElement
        <5>4. H \ kept \subseteq H \ {r} BY <5>2
        <5>5. Cardinality(H \ kept) <= Cardinality(H \ {r}) BY <5>3, <5>4, FS_Subset
        <5> HIDE DEF kept, N
        <5> QED BY <1>1, <2>2, <2>3, <3>1, <5>3, <5>5
      <4> QED BY <4>1
    <3>6. q = Oldest(N) BY <3>3, <3>5
    <3>7. \A r \in Hold(p, H) : PostedAt[r] > PostedAt[q]
      <4> HIDE DEF N
      <4> QED BY <2>3, <3>2, <3>3, <3>6, TimesDiffer
    <3> QED BY <3>4, <3>7 DEF Overflowed
  <2>5. CASE ~(Cardinality(N) > HoldMax)
    <3>1. Hold(p, H) = N BY <2>1, <2>5 DEF Bounded
    <3>2. q \in kept /\ q # p BY <3>1
    <3>3. SameThread(q, p) /\ PostedAt[q] < PostedAt[p]
      BY <1>1, <1>3, <3>2, TimesDiffer DEF SameThread
    <3> QED BY <3>1, <3>3 DEF Superseded
  <2> QED BY <2>4, <2>5
<1> QED BY <1>2, <1>3

\* Nothing else comes to be held.
LEMMA HoldAdds ==
  ASSUME NEW p, NEW H
  PROVE  Hold(p, H) \subseteq H \cup {p}
BY DEF Hold, Bounded

-----------------------------------------------------------------------------
(* The operators on the server's record.                                   *)

\* heard_add: an id that is in the set no more is forgotten.
LEMMA HeardKinds ==
  ASSUME NEW st \in MindState, NEW p \in Posts
  PROVE  LET s == HeardAdd(p, st)
         IN  /\ s.held = st.held /\ s.answered = st.answered /\ s.turn = st.turn
             /\ st.forgotten \subseteq s.forgotten
             /\ ((st.heardSet \cup {p}) \cap Traced) \subseteq (s.heardSet \cup s.forgotten)
<1> DEFINE order == Append(st.heardOrder, p)
           known == st.heardSet \cup {p}
           s == HeardAdd(p, st)
<1>1. CASE Len(order) > HeardMax
  <2> DEFINE set == known \ {Head(order)}
             gone == st.forgotten \cup ({Head(order)} \cap Traced)
             tl == Tail(order)
  <2>1. s = [st EXCEPT !.heardOrder = tl, !.heardSet = set, !.forgotten = gone]
    BY <1>1 DEF HeardAdd
  <2>2. st.forgotten \subseteq gone /\ (known \cap Traced) \subseteq set \cup gone OBVIOUS
  <2> HIDE DEF s, set, gone, tl
  <2>3. /\ s.heardSet = set /\ s.forgotten = gone
        /\ s.held = st.held /\ s.answered = st.answered /\ s.turn = st.turn
    BY <2>1 DEF MindState
  <2> QED BY <2>2, <2>3 DEF s
<1>2. CASE ~(Len(order) > HeardMax)
  <2>1. s = [st EXCEPT !.heardOrder = order, !.heardSet = known] BY <1>2 DEF HeardAdd
  <2> HIDE DEF s, order, known
  <2>2. /\ s.heardSet = known /\ s.forgotten = st.forgotten
        /\ s.held = st.held /\ s.answered = st.answered /\ s.turn = st.turn
    BY <2>1 DEF MindState
  <2> QED BY <2>2 DEF s, known
<1> QED BY <1>1, <1>2

\* What was remembered still is, and a post that is heard anew is one to hold or
\* to answer.
LEMMA HeardProper ==
  ASSUME NEW st \in MindState, Remembered(st), NEW p \in Posts
  PROVE  LET s == HeardAdd(p, st)
         IN  /\ Proper(st, s) /\ (p \notin st.heardSet => Ready(p, s))
             /\ s.held = st.held /\ s.answered = st.answered /\ s.turn = st.turn
             /\ st.forgotten \subseteq s.forgotten
<1> DEFINE s == HeardAdd(p, st)
<1>1. /\ s.held = st.held /\ s.answered = st.answered /\ s.turn = st.turn
      /\ st.forgotten \subseteq s.forgotten
      /\ ((st.heardSet \cup {p}) \cap Traced) \subseteq (s.heardSet \cup s.forgotten)
  BY HeardKinds
<1>2. st.answered \subseteq Traced BY DEF MindState
<1> HIDE DEF s
<1>3. Remembered(s) BY <1>1, <1>2 DEF Remembered
<1>4. Accounted(st, s) /\ AnswersAnew(st, s) BY <1>1 DEF Accounted, AnswersAnew
<1>5. p \notin st.heardSet => Ready(p, s) BY <1>1 DEF Remembered, Ready
<1> QED BY <1>1, <1>3, <1>4, <1>5 DEF Proper, s

\* A turn that starts is about the fact, and that is all that is answered.
LEMMA StartKinds ==
  ASSUME NEW st \in MindState, NEW k \in {"peer", "opening", "other", "closing"}, NEW f
  PROVE  LET s == StartTurn(k, f, st)
         IN  /\ s.held = st.held /\ s.heardSet = st.heardSet /\ s.forgotten = st.forgotten
             /\ s.answered = st.answered \cup ({f.post} \cap Traced)
             /\ s.turn.kind = k /\ s.turn.post = f.post
<1> DEFINE t == [kind |-> k, post |-> f.post,
                 story |-> IF k = "closing" THEN st.stimulus ELSE f.story]
           answered == st.answered \cup ({f.post} \cap Traced)
           stimulus == Carried(f, st)
           count == st.reasoning + 1
           s == [st EXCEPT !.busy = TRUE, !.reasoning = count, !.stimulus = stimulus,
                           !.turn = t, !.answered = answered]
<1>1. StartTurn(k, f, st) = Clocked(k, f, s) BY DEF StartTurn
<1>2. t.kind = k /\ t.post = f.post OBVIOUS
<1> HIDE DEF t, answered, stimulus, count
<1>3. /\ s.held = st.held /\ s.heardSet = st.heardSet /\ s.forgotten = st.forgotten
      /\ s.answered = answered /\ s.turn = t
  BY DEF MindState
<1>4. ASSUME NEW u, \/ u = [s EXCEPT !.replyReady = FALSE, !.replyingTo = f.post]
                    \/ u = [s EXCEPT !.replyingTo = NoPost]
                    \/ u = [s EXCEPT !.openReady = FALSE, !.replyingTo = NoPost]
      PROVE  /\ u.held = s.held /\ u.heardSet = s.heardSet /\ u.forgotten = s.forgotten
             /\ u.answered = s.answered /\ u.turn = s.turn
  BY <1>4 DEF MindState
<1> HIDE DEF s
<1>5. \/ Clocked(k, f, s) = [s EXCEPT !.replyReady = FALSE, !.replyingTo = f.post]
      \/ Clocked(k, f, s) = [s EXCEPT !.replyingTo = NoPost]
      \/ Clocked(k, f, s) = [s EXCEPT !.openReady = FALSE, !.replyingTo = NoPost]
  BY DEF Clocked
<1> QED BY <1>1, <1>2, <1>3, <1>4, <1>5 DEF answered

\* What react may do: start a turn about the fact, start a closing turn, keep the
\* post, or nothing.
LEMMA ReactKinds ==
  ASSUME NEW st, Sound(st), NEW k, NEW f, Caused(k, f)
  PROVE  LET s == React(k, f, st)
         IN  /\ s.heardSet = st.heardSet /\ s.forgotten = st.forgotten
             /\ \/ /\ s.held = st.held /\ s.answered = st.answered \cup ({f.post} \cap Traced)
                   /\ s.turn.kind = k /\ s.turn.post = f.post
                \/ /\ f.story \in full /\ s.held = st.held /\ s.answered = st.answered
                   /\ s.turn.kind = "closing" \/ s.turn = st.turn
                \/ /\ k = "peer" /\ s.held = Hold(f.post, st.held)
                   /\ s.answered = st.answered /\ s.turn = st.turn
                \/ /\ k = "peer" => f.blank
                   /\ s.held = st.held /\ s.answered = st.answered /\ s.turn = st.turn
<1> DEFINE verdict == Decide(k, f, st)
           s == React(k, f, st)
<1>0. st \in MindState BY DEF Sound, Typed
<1>1. verdict \in {"empty", "thread_full", "ok", "reply_cooldown", "cooldown"} BY DEF Decide
<1>2. CASE verdict = "ok"
  <2>1. s = StartTurn(k, f, st) BY <1>2 DEF React
  <2> HIDE DEF s
  <2> QED BY <1>0, <2>1, StartKinds DEF Caused, s
<1>3. CASE verdict = "thread_full" /\ Closable(f.story, st)
  <2> DEFINE u == [st EXCEPT !.stimulus = f.story, !.kind = "synthesis"]
  <2>1. s = StartTurn("closing", NoFact, u) BY <1>3 DEF React, Close
  <2>2. u \in MindState BY <1>0 DEF Caused, Facts, MindState
  <2>3. /\ u.held = st.held /\ u.heardSet = st.heardSet /\ u.forgotten = st.forgotten
        /\ u.answered = st.answered
    BY <1>0 DEF MindState
  <2>4. f.story \in full BY <1>3 DEF Decide
  <2>5. {NoFact.post} \cap Traced = {} BY MindAssumption DEF NoFact
  <2> HIDE DEF s, u
  <2>6. /\ s.held = u.held /\ s.heardSet = u.heardSet /\ s.forgotten = u.forgotten
        /\ s.answered = u.answered \cup ({NoFact.post} \cap Traced)
        /\ s.turn.kind = "closing"
    BY <2>1, <2>2, StartKinds
  <2>7. s.answered = u.answered BY <2>5, <2>6
  <2> QED BY <2>3, <2>4, <2>6, <2>7 DEF s
<1>4. CASE verdict = "thread_full" /\ ~Closable(f.story, st)
  <2>1. s = st /\ f.story \in full BY <1>4 DEF React, Decide
  <2> HIDE DEF s
  <2> QED BY <2>1 DEF s
<1>5. CASE verdict = "reply_cooldown"
  <2> DEFINE H == Hold(f.post, st.held)
             u == [st EXCEPT !.held = H]
  <2>1. s = ResumeLater(u) /\ k = "peer" BY <1>5 DEF React, Keep, Decide
  <2> HIDE DEF H
  <2>2. /\ u.held = H /\ u.heardSet = st.heardSet /\ u.forgotten = st.forgotten
        /\ u.answered = st.answered /\ u.turn = st.turn
    BY <1>0 DEF MindState
  <2>3. ASSUME NEW timer
        PROVE  LET v == [u EXCEPT !.holdTimer = timer]
               IN  /\ v.held = u.held /\ v.heardSet = u.heardSet /\ v.forgotten = u.forgotten
                   /\ v.answered = u.answered /\ v.turn = u.turn
    BY <1>0 DEF MindState
  <2> HIDE DEF u
  <2>4. s = u \/ \E timer : s = [u EXCEPT !.holdTimer = timer] BY <2>1 DEF ResumeLater
  <2> HIDE DEF s
  <2>5. /\ s.held = u.held /\ s.heardSet = u.heardSet /\ s.forgotten = u.forgotten
        /\ s.answered = u.answered /\ s.turn = u.turn
    BY <2>3, <2>4
  <2> QED BY <2>1, <2>2, <2>5 DEF s, H
<1>6. CASE verdict \in {"empty", "cooldown"}
  <2>1. s = st /\ (k = "peer" => f.blank) BY <1>6 DEF React, Decide
  <2> HIDE DEF s
  <2> QED BY <2>1 DEF s
<1> QED BY <1>1, <1>2, <1>3, <1>4, <1>5, <1>6

-----------------------------------------------------------------------------
(* The gate and the loop.                                                  *)

\* A post that is kept, whatever it takes the place of.
LEMMA KeepProper ==
  ASSUME NEW st, Sound(st), Remembered(st), NEW p \in Posts, Ready(p, st), NEW s,
         s.held = Hold(p, st.held), s.answered = st.answered, s.heardSet = st.heardSet,
         s.forgotten = st.forgotten, s.turn = st.turn
  PROVE  Proper(st, s)
<1>1. Holdable(st.held) /\ st.answered \subseteq Traced BY DEF Sound, Typed, MindState
<1>2. s.held \subseteq st.held \cup {p} BY HoldAdds
<1>3. Remembered(s) BY <1>1, <1>2 DEF Remembered, Ready
<1>4. Accounted(st, s) BY <1>1, HoldAccounts DEF Accounted, Settled
<1> QED BY <1>3, <1>4 DEF Proper, AnswersAnew

\* A fact that is reacted to: what is kept or let go is accounted for, and a post
\* that may be answered is answered anew.
LEMMA ReactProper ==
  ASSUME NEW st, Sound(st), Remembered(st), NEW k, NEW f, Caused(k, f),
         k = "peer" => Ready(f.post, st) /\ age[f.post] # "expired"
  PROVE  Proper(st, React(k, f, st))
<1> DEFINE s == React(k, f, st)
<1>1. /\ s.heardSet = st.heardSet /\ s.forgotten = st.forgotten
      /\ \/ /\ s.held = st.held /\ s.answered = st.answered \cup ({f.post} \cap Traced)
            /\ s.turn.kind = k /\ s.turn.post = f.post
         \/ /\ f.story \in full /\ s.held = st.held /\ s.answered = st.answered
            /\ s.turn.kind = "closing" \/ s.turn = st.turn
         \/ /\ k = "peer" /\ s.held = Hold(f.post, st.held)
            /\ s.answered = st.answered /\ s.turn = st.turn
         \/ /\ k = "peer" => f.blank
            /\ s.held = st.held /\ s.answered = st.answered /\ s.turn = st.turn
  BY ReactKinds
<1>2. Holdable(st.held) /\ st.answered \subseteq Traced BY DEF Sound, Typed, MindState
<1>3. k # "peer" => {f.post} \cap Traced = {} BY MindAssumption DEF Caused
<1> HIDE DEF s
<1>4. CASE /\ s.held = st.held /\ s.answered = st.answered \cup ({f.post} \cap Traced)
           /\ s.turn.kind = k /\ s.turn.post = f.post
  <2>1. CASE k = "peer"
    <3>1. Remembered(s) BY <1>1, <1>4, <2>1 DEF Remembered, Ready
    <3>2. f.post \notin st.answered \ s.forgotten BY <1>1, <1>2, <2>1 DEF Ready
    <3> QED BY <1>4, <2>1, <3>1, <3>2 DEF Proper, Accounted, AnswersAnew, s
  <2>2. CASE k # "peer"
    <3>1. Remembered(s) BY <1>1, <1>3, <1>4, <2>2 DEF Remembered
    <3> QED BY <1>4, <2>2, <3>1 DEF Proper, Accounted, AnswersAnew, s
  <2> QED BY <2>1, <2>2
<1>5. CASE /\ s.held = st.held /\ s.answered = st.answered
           /\ s.turn.kind = "closing" \/ s.turn = st.turn
  <2>1. Remembered(s) BY <1>1, <1>5 DEF Remembered
  <2> QED BY <1>5, <2>1 DEF Proper, Accounted, AnswersAnew, s
<1>6. CASE /\ k = "peer" /\ s.held = Hold(f.post, st.held)
           /\ s.answered = st.answered /\ s.turn = st.turn
  <2>1. f.post \in Posts BY <1>6 DEF Caused
  <2> QED BY <1>1, <1>6, <2>1, KeepProper DEF s
<1> QED BY <1>1, <1>4, <1>5, <1>6

\* Of what is held when the loop begins, what it goes past is done with, what it
\* stops at is answered or kept, and the rest stays.
LEMMA ResumeProper ==
  ASSUME NEW st, Sound(st), Remembered(st)
  PROVE  Proper(st, Resume(st))
<1> DEFINE stops == {q \in Live(st.held) : st.holdTimer = "none" => ~Passed(q, st)}
           next  == Newest(stops)
           rest  == {q \in Live(st.held) : PostedAt[q] < PostedAt[next]}
           u     == [st EXCEPT !.held = rest]
           f     == PostFact(next, FALSE)
           s     == Resume(st)
<1>1. st \in MindState /\ Holdable(st.held) /\ st.held \subseteq Posts
  BY DEF Sound, Typed, Holdable
<1>2. \A q \in st.held \ stops : age[q] = "expired" \/ q \in Blank \/ StoryOf[q] \in full
  BY DEF Live, Passed
<1>3. CASE stops = {}
  <2>1. s = [st EXCEPT !.held = {}] BY <1>3 DEF Resume
  <2> HIDE DEF s
  <2>2. /\ s.held = {} /\ s.answered = st.answered /\ s.heardSet = st.heardSet
        /\ s.forgotten = st.forgotten /\ s.turn = st.turn
    BY <1>1, <2>1 DEF MindState
  <2>3. Remembered(s) BY <2>2 DEF Remembered
  <2>4. Accounted(st, s) BY <1>2, <1>3 DEF Accounted, Settled
  <2> QED BY <2>2, <2>3, <2>4 DEF Proper, AnswersAnew, s
<1>4. CASE stops # {}
  <2>1. s = React("peer", f, u) BY <1>4 DEF Resume
  <2>2. /\ next \in stops /\ \A q \in stops : PostedAt[next] >= PostedAt[q]
    <3>1. stops \in SUBSET Posts /\ IsFiniteSet(stops)
      BY <1>1, FS_Subset DEF Holdable, Live
    <3> HIDE DEF stops
    <3> QED BY <1>4, <3>1, NewestIn
  <2>3. next \in st.held /\ next \in Posts /\ age[next] # "expired"
    BY <1>1, <2>2 DEF Live
  <2>4. Caused("peer", f) /\ f.post = next /\ f.story = StoryOf[next]
        /\ (f.blank <=> next \in Blank)
    <3> HIDE DEF next
    <3>1. /\ f.post = next /\ f.story = StoryOf[next] /\ f.mine = (next \in Mine)
          /\ f.replay = FALSE /\ f.blank = (next \in Blank)
      BY DEF PostFact
    <3>2. f \in Facts BY <2>3, MindAssumption DEF PostFact, Facts
    <3> QED BY <2>3, <3>1, <3>2 DEF Caused
  <2>5. rest \subseteq st.held /\ next \notin rest /\ rest \subseteq Posts
    <3>1. PostedAt[next] \in Nat BY <2>3, MindAssumption
    <3> QED BY <1>1, <3>1 DEF Live
  <2>6. /\ u.held = rest /\ u.answered = st.answered /\ u.heardSet = st.heardSet
        /\ u.forgotten = st.forgotten /\ u.turn = st.turn
    BY <1>1 DEF MindState
  <2>7. Sound(u)
    <3>1. Holdable(rest) BY <1>1, <2>5, FewerHoldable
    <3> HIDE DEF rest
    <3>2. u \in MindState BY <1>1, <2>5 DEF MindState
    <3> QED BY <1>1, <3>1, <3>2 DEF Sound, Typed, Thinking, Linked, MindState
  <2>8. ASSUME NEW q \in st.held, q \notin rest, q # next
        PROVE  age[q] = "expired" \/ q \in Blank \/ StoryOf[q] \in full
    <3>1. CASE q \in Live(st.held)
      <4>1. PostedAt[next] <= PostedAt[q]
        BY <1>1, <2>3, <2>8, <3>1, MindAssumption
      <4>2. PostedAt[next] < PostedAt[q] BY <1>1, <2>3, <2>8, <4>1, TimesDiffer
      <4>3. q \notin stops
        <5>1. PostedAt[q] \in Nat /\ PostedAt[next] \in Nat BY <1>1, <2>3, MindAssumption
        <5> HIDE DEF stops, next
        <5> QED BY <2>2, <4>2, <5>1
      <4> QED BY <1>2, <4>3
    <3>2. CASE q \notin Live(st.held) BY <3>2 DEF Live
    <3> QED BY <3>1, <3>2
  <2> HIDE DEF s, u, f, rest, next, stops
  <2>9. Remembered(u) BY <2>5, <2>6 DEF Remembered
  <2>10. Ready(next, u)
    <3>1. next \in Traced => next \in st.heardSet \cup st.forgotten
      BY <2>3 DEF Remembered
    <3>2. next \in st.answered => next \in st.forgotten BY <2>3 DEF Remembered
    <3> QED BY <2>5, <2>6, <3>1, <3>2 DEF Ready
  <2>11. Proper(u, s) BY <2>1, <2>3, <2>4, <2>7, <2>9, <2>10, ReactProper
  <2>12. next \notin s.held => Settled(next, s)
    <3>1. \/ s.turn.post = next \/ StoryOf[next] \in full \/ s.held = Hold(next, rest)
          \/ next \in Blank
      BY <2>1, <2>4, <2>6, <2>7, ReactKinds
    <3>2. Holdable(rest) BY <2>6, <2>7 DEF Sound
    <3> QED BY <2>3, <3>1, <3>2, HoldAccounts DEF Settled
  <2>13. Accounted(st, s)
    BY <2>6, <2>8, <2>11, <2>12 DEF Proper, Accounted, Settled
  <2> QED BY <2>6, <2>11, <2>13 DEF Proper, AnswersAnew, s
<1> QED BY <1>3, <1>4

\* A fact that is considered, also mid-thought.
LEMMA ConsiderProper ==
  ASSUME NEW st, Sound(st), Remembered(st), NEW k, NEW f, Caused(k, f),
         k = "peer" => Ready(f.post, st) /\ age[f.post] # "expired"
  PROVE  Proper(st, Consider(k, f, st))
<1>1. CASE ~st.busy
  <2>1. Consider(k, f, st) = React(k, f, st) BY <1>1 DEF Consider
  <2> QED BY <2>1, ReactProper
<1>2. CASE st.busy /\ k = "peer"
  <2> DEFINE H == Hold(f.post, st.held)
             s == [st EXCEPT !.held = H]
  <2>1. Consider(k, f, st) = s BY <1>2 DEF Consider, Keep
  <2> HIDE DEF H
  <2>2. /\ s.held = H /\ s.answered = st.answered /\ s.heardSet = st.heardSet
        /\ s.forgotten = st.forgotten /\ s.turn = st.turn
    BY DEF Sound, Typed, MindState
  <2> HIDE DEF s
  <2>3. f.post \in Posts BY <1>2 DEF Caused
  <2> QED BY <1>2, <2>1, <2>2, <2>3, KeepProper DEF H
<1>3. CASE st.busy /\ k # "peer"
  <2>1. Consider(k, f, st) = st BY <1>3 DEF Consider
  <2> QED BY <2>1, AlikeProper DEF Alike
<1> QED BY <1>1, <1>2, <1>3

\* Whatever arrives, live or as history, once or again.
LEMMA ArrivalProper ==
  ASSUME NEW st, Sound(st), Remembered(st), NEW f \in Facts
  PROVE  Proper(st, Arrival(f, st))
<1> DEFINE k == KindOf(f)
<1>1. /\ k \in {"own", "replay", "peer", "opening", "other"}
      /\ k \in {"replay", "peer"} => f.post \in Posts
      /\ k \in {"opening", "other"} => f.post = NoPost
      /\ k = "peer" => age[f.post] = "fresh"
  BY DEF KindOf, Facts
<1>2. st \in MindState BY DEF Sound, Typed
<1>3. CASE k = "own" \/ (k = "peer" /\ f.post \in st.heardSet)
  <2>1. Arrival(f, st) = st BY <1>3 DEF Arrival
  <2> QED BY <2>1, AlikeProper DEF Alike
<1>4. CASE k = "replay"
  <2>1. Arrival(f, st) = HeardAdd(f.post, st) BY <1>4 DEF Arrival
  <2> QED BY <1>1, <1>2, <1>4, <2>1, HeardProper
<1>5. CASE k = "peer" /\ f.post \notin st.heardSet
  <2> DEFINE u == HeardAdd(f.post, st)
             s == Consider("peer", f, u)
  <2>1. Arrival(f, st) = s BY <1>5 DEF Arrival
  <2>2. /\ Proper(st, u) /\ Ready(f.post, u)
        /\ u.held = st.held /\ u.answered = st.answered /\ u.turn = st.turn
    BY <1>1, <1>2, <1>5, HeardProper
  <2>3. Sound(u) BY <1>1, <1>5, HeardSound
  <2>4. Caused("peer", f) BY <1>1, <1>5 DEF Caused
  <2> HIDE DEF u, k
  <2>5. Proper(u, s) BY <1>1, <1>5, <2>2, <2>3, <2>4, ConsiderProper DEF Proper, k
  <2> HIDE DEF s
  <2> QED BY <2>1, <2>2, <2>5 DEF Proper, Accounted, AnswersAnew
<1>6. CASE k \in {"opening", "other"}
  <2>1. Arrival(f, st) = Consider(k, f, st) BY <1>6 DEF Arrival
  <2>2. Caused(k, f) /\ k # "peer" BY <1>1, <1>6 DEF Caused
  <2> HIDE DEF k
  <2> QED BY <2>1, <2>2, ConsiderProper
<1> QED BY <1>1, <1>3, <1>4, <1>5, <1>6

\* A turn that ends hands over to the loop.
LEMMA TurnOverProper ==
  ASSUME NEW st, Sound(st), Remembered(st), st.reasoning > 0
  PROVE  Proper(st, TurnOver(st))
<1> DEFINE u == [st EXCEPT !.busy = FALSE, !.reasoning = @ - 1, !.turn = NoTurn]
           s == TurnOver(st)
<1>1. st \in MindState /\ st.reasoning = 1 BY DEF Sound, Typed, Thinking, MindState
<1>2. u = [st EXCEPT !.busy = FALSE, !.reasoning = 0, !.turn = NoTurn] BY <1>1
<1>3. NoTurn \in Turns BY DEF NoTurn, Turns, TurnKinds
<1>4. s = Resume(u) BY DEF TurnOver
<1> HIDE DEF u, s
<1>5. u \in MindState BY <1>1, <1>2, <1>3 DEF MindState
<1>6. /\ u.busy = FALSE /\ u.reasoning = 0 /\ u.turn = NoTurn /\ u.held = st.held
      /\ u.heardOrder = st.heardOrder /\ u.answered = st.answered
      /\ u.heardSet = st.heardSet /\ u.forgotten = st.forgotten
  BY <1>1, <1>2 DEF MindState
<1>7. Sound(u) BY <1>5, <1>6 DEF Sound, Typed, Thinking, Linked
<1>8. Remembered(u) BY <1>6 DEF Remembered
<1>9. Proper(u, s) BY <1>4, <1>7, <1>8, ResumeProper
<1>10. NoTurn.kind # "peer" BY DEF NoTurn
<1> QED BY <1>6, <1>9, <1>10 DEF Proper, Accounted, AnswersAnew, s

\* The timer's message hands over to the loop, or goes to a mind that thinks.
LEMMA ResumeHeldProper ==
  ASSUME NEW st, Sound(st), Remembered(st)
  PROVE  Proper(st, OnResumeHeld(st))
<1> DEFINE u == [st EXCEPT !.holdTimer = "none"]
           s == OnResumeHeld(st)
<1>1. s = IF st.busy THEN u ELSE Resume(u) BY DEF OnResumeHeld
<1>2. st \in MindState BY DEF Sound, Typed
<1> HIDE DEF s
<1>3. u \in MindState /\ u.busy = st.busy /\ Alike(st, u)
  BY <1>2 DEF MindState, Timers, Alike
<1>4. Sound(u) BY <1>2, <1>3 DEF Sound, Typed, Thinking, Linked, MindState
<1>5. Proper(st, u) /\ Remembered(u) BY <1>3, AlikeProper DEF Proper
<1> HIDE DEF u
<1>6. Proper(u, Resume(u)) BY <1>4, <1>5, ResumeProper
<1>7. Proper(u, Resume(u)) => Proper(st, Resume(u))
  BY <1>3 DEF Alike, Proper, Accounted, AnswersAnew
<1> QED BY <1>1, <1>5, <1>6, <1>7 DEF s

-----------------------------------------------------------------------------
(* The actions.                                                            *)

\* Every step of a mind, and of what is around it.
LEMMA StepProper ==
  ASSUME IInv, Remembered(m), [Next]_vars
  PROVE  Proper(m, m')
<1>1. Sound(m) /\ m \in MindState BY DEF IInv, Sound, Typed
<1>2. ASSUME Alike(m, m') PROVE Proper(m, m') BY <1>2, AlikeProper
<1>3. CASE HearPost
  <2>1. \A p \in Posts, replay \in BOOLEAN : PostFact(p, replay) \in Facts
    BY MindAssumption DEF PostFact, Facts
  <2> QED BY <1>1, <1>3, <2>1, ArrivalProper DEF HearPost, Hear
<1>4. CASE HearUnposted BY <1>1, <1>4, ArrivalProper DEF HearUnposted, Hear, UnpostedFacts
<1>5. CASE Reasoned
  <2>1. PICK spoke \in BOOLEAN, evolve \in BOOLEAN, due \in 0..(MaxAlerts - alerts) :
          m' = TurnOver([m EXCEPT
                     !.closed = IF spoke /\ m.kind = "synthesis"
                                THEN @ \cup ({m.stimulus} \ {NoStory}) ELSE @,
                     !.evolver = @ \/ evolve,
                     !.kind = "none"])
    BY <1>5 DEF Reasoned
  <2> DEFINE closed == IF spoke /\ m.kind = "synthesis"
                       THEN m.closed \cup ({m.stimulus} \ {NoStory}) ELSE m.closed
             evolver == m.evolver \/ evolve
             u == [m EXCEPT !.closed = closed, !.evolver = evolver, !.kind = "none"]
  <2>2. closed \in SUBSET Stories /\ evolver \in BOOLEAN BY <1>1 DEF MindState
  <2>3. m' = TurnOver(u) BY <2>1
  <2> HIDE DEF closed, evolver
  <2>4. u \in MindState /\ Alike(m, u) BY <1>1, <2>2 DEF MindState, Alike
  <2>5. Sound(u) /\ u.reasoning > 0
    BY <1>1, <1>5, <2>4 DEF Reasoned, Sound, Typed, Thinking, Linked, MindState
  <2> HIDE DEF u
  <2>6. Remembered(u) BY <2>4, AlikeProper DEF Proper
  <2>7. Proper(u, m') BY <2>3, <2>5, <2>6, TurnOverProper
  <2> QED BY <2>4, <2>7 DEF Alike, Proper, Accounted, AnswersAnew
<1>6. CASE ReasoningFailed \/ ReasonerDies
  <2>1. m' = TurnOver(m) /\ m.reasoning > 0
    BY <1>1, <1>6 DEF ReasoningFailed, ReasonerDies, Sound, Thinking
  <2> QED BY <1>1, <2>1, TurnOverProper
<1>7. CASE EvolverEnds
  <2>1. m' = [m EXCEPT !.evolver = FALSE] BY <1>7 DEF EvolverEnds, OnEvolverDown
  <2> QED BY <1>1, <1>2, <2>1 DEF Alike, MindState
<1>8. CASE ResumeHeld BY <1>1, <1>8, ResumeHeldProper DEF ResumeHeld
<1>9. CASE SelfAlert
  <2>1. m' = StartTurn("other", NoFact, m) BY <1>9 DEF SelfAlert
  <2>2. {NoFact.post} \cap Traced = {} BY MindAssumption DEF NoFact
  <2>3. /\ m'.held = m.held /\ m'.heardSet = m.heardSet /\ m'.forgotten = m.forgotten
        /\ m'.answered = m.answered \cup ({NoFact.post} \cap Traced) /\ m'.turn.kind = "other"
    BY <1>1, <2>1, StartKinds
  <2>4. Remembered(m') BY <2>2, <2>3 DEF Remembered
  <2> QED BY <2>3, <2>4 DEF Proper, Accounted, AnswersAnew
<1>10. CASE ReplyCooldownEnds
  <2> DEFINE timer == IF m.holdTimer = "waiting" THEN "due" ELSE m.holdTimer
  <2>1. m' = [m EXCEPT !.replyReady = TRUE, !.holdTimer = timer]
    BY <1>10 DEF ReplyCooldownEnds
  <2> HIDE DEF timer
  <2> QED BY <1>1, <1>2, <2>1 DEF Alike, MindState
<1>11. CASE OpenCooldownEnds
  <2>1. m' = [m EXCEPT !.openReady = TRUE] BY <1>11 DEF OpenCooldownEnds
  <2> QED BY <1>1, <1>2, <2>1 DEF Alike, MindState
<1>12. ASSUME NEW s \in Stories, ThreadPruned(s) PROVE Proper(m, m')
  <2>1. m' = m \/ m' = [m EXCEPT !.closed = m.closed \ {s}] BY <1>12 DEF ThreadPruned
  <2> QED BY <1>1, <1>2, <2>1 DEF Alike, MindState
<1>13. CASE UNCHANGED vars \/ (\E p \in Posts : GrowOld(p)) \/ (\E s \in Stories : ThreadFills(s))
  <2>1. m' = m BY <1>13 DEF vars, GrowOld, ThreadFills
  <2> QED BY <1>2, <2>1 DEF Alike
<1> QED BY <1>3, <1>4, <1>5, <1>6, <1>7, <1>8, <1>9, <1>10, <1>11, <1>12, <1>13
        DEF Next, Handlers, Surroundings

\* A mind remembers what it answered or holds, or has forgotten that it heard it.
THEOREM Remembering == Spec => [](IInv /\ Remembered(m))
<1>1. Init => IInv /\ Remembered(m) BY InitSound DEF Init, InitMind, Remembered
<1>2. IInv /\ Remembered(m) /\ [Next]_vars => (IInv /\ Remembered(m))'
  BY NextSound, StepProper DEF Proper, Remembered
<1> QED BY <1>1, <1>2, PTL DEF Spec

-----------------------------------------------------------------------------
(* The theorems.                                                           *)

\* No reply is lost on the way: what stops being held was taken up, had nothing
\* left to answer, or gave way to a newer post, however the mind got there.
THEOREM RepliesAccountedFor == Spec => HeldIsAccountedFor
<1>1. IInv /\ Remembered(m) /\ [Next]_vars
        => [\A p \in m.held \ m'.held :
              \/ m'.turn.post = p
              \/ age[p] = "expired" \/ p \in Blank \/ StoryOf[p] \in full
              \/ \E q \in m'.held : SameThread(p, q) /\ PostedAt[q] > PostedAt[p]
              \/ /\ Cardinality(m'.held) = HoldMax
                 /\ \A q \in m'.held : PostedAt[q] > PostedAt[p]]_vars
  BY StepProper DEF Proper, Accounted, Settled, Superseded, Overflowed
<1> QED BY <1>1, Remembering, PTL DEF Spec, HeldIsAccountedFor

\* No turn answers a post that is too old, or one that was answered and that the
\* mind remembers hearing, however often it is delivered, held and taken up.
THEOREM RepliesAnsweredOnce == Spec => AnsweredOnceWhileLive
<1>1. IInv /\ Remembered(m) /\ [Next]_vars
        => [m'.turn # m.turn /\ m'.turn.kind = "peer" =>
              /\ m'.turn.post \notin m.answered \ m'.forgotten
              /\ age[m'.turn.post] # "expired"]_vars
  BY StepProper DEF Proper, AnswersAnew
<1> QED BY <1>1, Remembering, PTL DEF Spec, AnsweredOnceWhileLive

-----------------------------------------------------------------------------
(* What a turn speaks under, and what is forgotten: what is true where     *)
(* StimulusIsOfThisTurn, ConclusionsComeFromClosingTurns and               *)
(* ForgetsOnlyWhenFull are not.                                            *)

\* Every id in the set is in the order, so that it will be dropped in its turn.
Recalled(st) == \A p \in st.heardSet : \E i \in DOMAIN st.heardOrder : st.heardOrder[i] = p

\* A turn about a story speaks under it.
Filed(st) == st.busy /\ st.turn.story # NoStory => st.stimulus = st.turn.story

\* A closing turn has a story and is marked a synthesis, and only a synthesizer
\* is ever marked.
Marked(st) ==
  /\ st.kind = "synthesis" => Synthesizer
  /\ st.busy /\ st.turn.kind = "closing" => st.kind = "synthesis" /\ st.turn.story # NoStory

Minded(st) == Recalled(st) /\ Filed(st) /\ Marked(st)

\* What is forgotten was the first of HEARD_MAX ids in the order.
Forgets(st, s) ==
  \A p \in st.heardSet \ s.heardSet : Len(st.heardOrder) = HeardMax /\ p = Head(st.heardOrder)

\* Two records that heard the same; and that speak of the same, too.
Ears(st, s) == s.heardSet = st.heardSet /\ s.heardOrder = st.heardOrder /\ s.closed = st.closed
Mute(st, s) ==
  /\ Ears(st, s)
  /\ s.busy = st.busy /\ s.turn = st.turn /\ s.stimulus = st.stimulus /\ s.kind = st.kind

LEMMA EarsMinded ==
  ASSUME NEW st, NEW s, Ears(st, s), Recalled(st), Filed(s), Marked(s)
  PROVE  Minded(s)
BY DEF Ears, Recalled, Minded

LEMMA MuteMinded ==
  ASSUME NEW st, NEW s, Mute(st, s), Minded(st)
  PROVE  Minded(s)
BY DEF Mute, Ears, Recalled, Filed, Marked, Minded

\* heard_add: the order has all that is in the set, and one at most is dropped.
LEMMA HeardMinded ==
  ASSUME NEW st, Sound(st), Minded(st), NEW p \in Posts
  PROVE  LET s == HeardAdd(p, st) IN Minded(s) /\ Forgets(st, s) /\ s.closed = st.closed
<1> DEFINE old == st.heardOrder
           order == Append(old, p)
           known == st.heardSet \cup {p}
           s == HeardAdd(p, st)
<1>1. /\ st \in MindState /\ old \in Seq(Posts) /\ Len(old) <= HeardMax
      /\ Recalled(st) /\ HeardMax \in Nat \ {0}
  BY MindAssumption DEF Sound, Typed, MindState, Minded
<1>2. /\ order \in Seq(Posts) /\ Len(order) = Len(old) + 1 /\ Len(old) \in Nat
      /\ \A i \in 1..Len(old) : order[i] = old[i]
      /\ order[Len(old) + 1] = p /\ DOMAIN old = 1..Len(old) /\ DOMAIN order = 1..(Len(old) + 1)
  BY <1>1, AppendProperties, LenProperties
<1>3. ASSUME NEW q \in known PROVE \E i \in 1..(Len(old) + 1) : order[i] = q
  <2>1. CASE q \in st.heardSet
    <3>1. PICK i \in 1..Len(old) : old[i] = q BY <1>1, <1>2, <2>1 DEF Recalled
    <3> QED BY <1>2, <3>1
  <2>2. CASE q = p BY <1>2, <2>2
  <2> QED BY <2>1, <2>2
<1>4. CASE Len(order) > HeardMax
  <2> DEFINE set == known \ {Head(order)}
             gone == st.forgotten \cup ({Head(order)} \cap Traced)
             tl == Tail(order)
  <2>1. s = [st EXCEPT !.heardOrder = tl, !.heardSet = set, !.forgotten = gone]
    BY <1>4 DEF HeardAdd
  <2>2. /\ Len(old) = HeardMax /\ 1 \in 1..Len(old) /\ order # << >>
        /\ Head(order) = order[1] /\ Head(old) = old[1] /\ order[1] = old[1]
    <3>1. Len(old) = HeardMax /\ 1 \in 1..Len(old)
      <4>1. /\ Len(old) \in Nat /\ HeardMax \in Nat \ {0} /\ Len(old) <= HeardMax
            /\ Len(order) = Len(old) + 1 /\ Len(order) > HeardMax
        BY <1>1, <1>2, <1>4
      <4> HIDE DEF order, old
      <4> QED BY ONLY <4>1
    <3>2. order # << >> /\ old # << >>
      <4> HIDE DEF order, old
      <4> QED BY <1>2, <3>1, EmptySeq
    <3> QED BY <1>1, <1>2, <3>1, <3>2, HeadTailProperties
  <2>3. DOMAIN tl = 1..Len(old) /\ \A i \in 1..Len(old) : tl[i] = order[i + 1]
    <3>1. /\ tl \in Seq(Posts) /\ Len(tl) = Len(order) - 1
          /\ \A i \in 1..Len(tl) : tl[i] = order[i + 1]
      <4> HIDE DEF order
      <4> QED BY <1>2, <2>2, HeadTailProperties
    <3>2. Len(tl) = Len(old)
      <4> HIDE DEF order, tl, old
      <4> QED BY <1>2, <3>1
    <3> QED BY <3>1, <3>2, LenProperties
  <2>4. ASSUME NEW q \in set PROVE \E i \in 1..Len(old) : tl[i] = q
    <3>1. PICK i \in 1..(Len(old) + 1) : order[i] = q BY <1>3
    <3>2. i # 1 BY <2>2, <3>1
    <3> HIDE DEF order, old, tl
    <3>3. i - 1 \in 1..Len(old) /\ (i - 1) + 1 = i BY <1>2, <3>2
    <3> QED BY <2>3, <3>1, <3>3
  <2>5. \A q \in st.heardSet \ set : q = Head(old) BY <2>2
  <2> HIDE DEF s, set, gone, tl, order, old
  <2>6. /\ s.heardSet = set /\ s.heardOrder = tl /\ s.closed = st.closed
        /\ s.busy = st.busy /\ s.turn = st.turn /\ s.stimulus = st.stimulus /\ s.kind = st.kind
    BY <1>1, <2>1 DEF MindState
  <2>7. Recalled(s) BY <2>3, <2>4, <2>6 DEF Recalled
  <2>8. Minded(s) BY <2>6, <2>7 DEF Minded, Filed, Marked
  <2>9. Forgets(st, s) BY <2>2, <2>5, <2>6 DEF Forgets, old
  <2> QED BY <2>6, <2>8, <2>9 DEF s
<1>5. CASE ~(Len(order) > HeardMax)
  <2>1. s = [st EXCEPT !.heardOrder = order, !.heardSet = known] BY <1>5 DEF HeardAdd
  <2>2. st.heardSet \subseteq known OBVIOUS
  <2> HIDE DEF s, order, known, old
  <2>3. /\ s.heardSet = known /\ s.heardOrder = order /\ s.closed = st.closed
        /\ s.busy = st.busy /\ s.turn = st.turn /\ s.stimulus = st.stimulus /\ s.kind = st.kind
    BY <1>1, <2>1 DEF MindState
  <2>4. Recalled(s) BY <1>2, <1>3, <2>3 DEF Recalled
  <2>5. Minded(s) BY <2>3, <2>4 DEF Minded, Filed, Marked
  <2>6. Forgets(st, s) BY <2>2, <2>3 DEF Forgets
  <2> QED BY <2>3, <2>5, <2>6 DEF s
<1> QED BY <1>4, <1>5

\* A turn speaks under the story it is about, if it is about one.
LEMMA StartMinded ==
  ASSUME NEW st \in MindState, Minded(st), NEW k \in {"peer", "opening", "other", "closing"},
         NEW f \in Facts,
         k = "closing" => st.kind = "synthesis" /\ st.stimulus # NoStory /\ f.story = NoStory
  PROVE  LET s == StartTurn(k, f, st) IN Ears(st, s) /\ Minded(s)
<1> DEFINE story == IF k = "closing" THEN st.stimulus ELSE f.story
           t == [kind |-> k, post |-> f.post, story |-> story]
           answered == st.answered \cup ({f.post} \cap Traced)
           stimulus == Carried(f, st)
           count == st.reasoning + 1
           s == [st EXCEPT !.busy = TRUE, !.reasoning = count, !.stimulus = stimulus,
                           !.turn = t, !.answered = answered]
<1>1. StartTurn(k, f, st) = Clocked(k, f, s) BY DEF StartTurn
<1>2. t.kind = k /\ t.story = story OBVIOUS
<1>3. story # NoStory => stimulus = story BY DEF Carried
<1>4. k = "closing" => st.kind = "synthesis" /\ story # NoStory OBVIOUS
<1> HIDE DEF story, t, answered, stimulus, count
<1>5. /\ Ears(st, s) /\ s.kind = st.kind /\ s.stimulus = stimulus /\ s.turn = t
  BY DEF MindState, Ears
<1>6. ASSUME NEW u, \/ u = [s EXCEPT !.replyReady = FALSE, !.replyingTo = f.post]
                    \/ u = [s EXCEPT !.replyingTo = NoPost]
                    \/ u = [s EXCEPT !.openReady = FALSE, !.replyingTo = NoPost]
      PROVE  Mute(s, u)
  <2>1. CASE u = [s EXCEPT !.replyReady = FALSE, !.replyingTo = f.post]
    BY <2>1 DEF MindState, Mute, Ears
  <2>2. CASE u = [s EXCEPT !.replyingTo = NoPost]
    BY <2>2 DEF MindState, Mute, Ears
  <2>3. CASE u = [s EXCEPT !.openReady = FALSE, !.replyingTo = NoPost]
    BY <2>3 DEF MindState, Mute, Ears
  <2> QED BY <1>6, <2>1, <2>2, <2>3
<1> HIDE DEF s
<1>7. Mute(s, Clocked(k, f, s))
  BY <1>6 DEF Clocked
<1> DEFINE c == Clocked(k, f, s)
<1> HIDE DEF c
<1>8. Ears(st, c) /\ c.kind = st.kind /\ c.stimulus = stimulus /\ c.turn = t
  BY <1>5, <1>7 DEF Mute, Ears, c
<1>9. Filed(c) BY <1>2, <1>3, <1>8 DEF Filed
<1>10. Marked(c) BY <1>2, <1>4, <1>8 DEF Marked, Minded
<1>11. Minded(c) BY <1>8, <1>9, <1>10, EarsMinded DEF Minded
<1> QED BY <1>1, <1>8, <1>11 DEF c

\* So does the closing turn, which is about the story whose thread is full.
LEMMA CloseMinded ==
  ASSUME NEW st \in MindState, Minded(st), NEW story \in Stories, Closable(story, st)
  PROVE  LET s == Close(story, st) IN Ears(st, s) /\ Minded(s)
<1> DEFINE u == [st EXCEPT !.stimulus = story, !.kind = "synthesis"]
           s == Close(story, st)
<1>1. Synthesizer /\ ~st.busy BY DEF Closable
<1>2. /\ u \in MindState /\ Ears(st, u)
      /\ u.busy = st.busy /\ u.stimulus = story /\ u.kind = "synthesis"
  BY DEF MindState, Ears
<1>3. Minded(u) BY <1>1, <1>2, EarsMinded DEF Minded, Filed, Marked
<1>4. NoFact \in Facts /\ NoFact.story = NoStory BY DEF NoFact, Facts
<1>5. story # NoStory BY MindAssumption
<1>6. s = StartTurn("closing", NoFact, u) BY DEF Close
<1> HIDE DEF s, u
<1>7. Ears(u, s) /\ Minded(s) BY <1>2, <1>3, <1>4, <1>5, <1>6, StartMinded
<1> QED BY <1>2, <1>7 DEF Ears, s

\* Whatever react does.
LEMMA ReactMinded ==
  ASSUME NEW st \in MindState, Minded(st), NEW k, NEW f, Caused(k, f), k # "closing"
  PROVE  LET s == React(k, f, st) IN Ears(st, s) /\ Minded(s)
<1> DEFINE verdict == Decide(k, f, st)
           s == React(k, f, st)
<1>1. verdict \in {"empty", "thread_full", "ok", "reply_cooldown", "cooldown"} BY DEF Decide
<1>2. f \in Facts /\ f.story \in Stories \cup {NoStory} BY DEF Caused, Facts
<1>3. Ears(st, st) BY DEF Ears
<1>4. CASE verdict = "ok"
  <2>1. s = StartTurn(k, f, st) BY <1>4 DEF React
  <2> HIDE DEF s
  <2> QED BY <1>2, <2>1, StartMinded DEF Caused, s
<1>5. CASE verdict = "thread_full" /\ Closable(f.story, st)
  <2>1. s = Close(f.story, st) BY <1>5 DEF React
  <2>2. f.story \in Stories BY <1>2, <1>5 DEF Closable
  <2> HIDE DEF s
  <2> QED BY <1>5, <2>1, <2>2, CloseMinded DEF s
<1>6. CASE verdict = "reply_cooldown"
  <2> DEFINE H == Hold(f.post, st.held)
             u == [st EXCEPT !.held = H]
  <2>1. s = ResumeLater(u) BY <1>6 DEF React, Keep
  <2> HIDE DEF H
  <2>2. Mute(st, u) BY DEF MindState, Mute, Ears
  <2>3. ASSUME NEW timer PROVE Mute(u, [u EXCEPT !.holdTimer = timer])
    BY DEF MindState, Mute, Ears
  <2>4. Mute(u, u) BY DEF Mute, Ears
  <2> HIDE DEF u
  <2>5. s = u \/ \E timer : s = [u EXCEPT !.holdTimer = timer] BY <2>1 DEF ResumeLater
  <2> HIDE DEF s
  <2>6. Mute(u, s) BY <2>3, <2>4, <2>5
  <2>7. Mute(st, s) BY <2>2, <2>6 DEF Mute, Ears
  <2> QED BY <2>7, MuteMinded DEF Mute, s
<1>7. CASE verdict \in {"empty", "cooldown"} \/ (verdict = "thread_full" /\ ~Closable(f.story, st))
  <2>1. s = st BY <1>7 DEF React
  <2> HIDE DEF s
  <2> QED BY <1>3, <2>1 DEF s
<1> QED BY <1>1, <1>4, <1>5, <1>6, <1>7

\* The gate.
LEMMA ConsiderMinded ==
  ASSUME NEW st \in MindState, Minded(st), NEW k, NEW f, Caused(k, f), k # "closing"
  PROVE  LET s == Consider(k, f, st) IN Ears(st, s) /\ Minded(s)
<1> DEFINE s == Consider(k, f, st)
<1>1. CASE ~st.busy
  <2>1. s = React(k, f, st) BY <1>1 DEF Consider
  <2> HIDE DEF s
  <2> QED BY <2>1, ReactMinded DEF s
<1>2. CASE st.busy /\ k = "peer"
  <2> DEFINE H == Hold(f.post, st.held)
  <2>1. s = [st EXCEPT !.held = H] BY <1>2 DEF Consider, Keep
  <2> HIDE DEF s, H
  <2>2. Mute(st, s) BY <2>1 DEF MindState, Mute, Ears
  <2> QED BY <2>2, MuteMinded DEF Mute, s
<1>3. CASE st.busy /\ k # "peer"
  <2>1. s = st BY <1>3 DEF Consider
  <2> HIDE DEF s
  <2> QED BY <2>1 DEF Ears, s
<1> QED BY <1>1, <1>2, <1>3

\* Whatever arrives.
LEMMA ArrivalMinded ==
  ASSUME NEW st, Sound(st), Minded(st), NEW f \in Facts
  PROVE  LET s == Arrival(f, st) IN Minded(s) /\ Forgets(st, s) /\ s.closed = st.closed
<1> DEFINE k == KindOf(f)
           s == Arrival(f, st)
<1>1. /\ k \in {"own", "replay", "peer", "opening", "other"}
      /\ k \in {"replay", "peer"} => f.post \in Posts
      /\ k \in {"opening", "other"} => f.post = NoPost
  BY DEF KindOf, Facts
<1>2. st \in MindState BY DEF Sound, Typed
<1> HIDE DEF k, s
<1>3. CASE k = "own" \/ (k = "peer" /\ f.post \in st.heardSet)
  <2>1. s = st BY <1>3 DEF Arrival, k, s
  <2> QED BY <2>1 DEF Forgets, s
<1>4. CASE k = "replay"
  <2>1. s = HeardAdd(f.post, st) BY <1>4 DEF Arrival, k, s
  <2> QED BY <1>1, <1>4, <2>1, HeardMinded DEF s
<1>5. CASE k = "peer" /\ f.post \notin st.heardSet
  <2> DEFINE u == HeardAdd(f.post, st)
  <2>1. s = Consider("peer", f, u) BY <1>5 DEF Arrival, k, s
  <2>2. Sound(u) /\ Minded(u) /\ Forgets(st, u) /\ u.closed = st.closed
    BY <1>1, <1>5, HeardSound, HeardMinded
  <2>3. Caused("peer", f) BY <1>1, <1>5 DEF Caused
  <2> HIDE DEF u
  <2>4. u \in MindState BY <2>2 DEF Sound, Typed
  <2>5. Ears(u, s) /\ Minded(s) BY <2>1, <2>2, <2>3, <2>4, ConsiderMinded
  <2> QED BY <2>2, <2>5 DEF Ears, Forgets, s
<1>6. CASE k \in {"opening", "other"}
  <2>1. s = Consider(k, f, st)
    <3>1. s = Consider(KindOf(f), f, st) BY <1>6 DEF Arrival, k, s
    <3> QED BY <3>1 DEF k
  <2>2. Caused(k, f) /\ k # "closing" BY <1>1, <1>6 DEF Caused
  <2>3. Ears(st, s) /\ Minded(s) BY <1>2, <2>1, <2>2, ConsiderMinded
  <2> QED BY <2>3 DEF Ears, Forgets, s
<1> QED BY <1>1, <1>3, <1>4, <1>5, <1>6

\* The loop.
LEMMA ResumeMinded ==
  ASSUME NEW st, Sound(st), Minded(st)
  PROVE  LET s == Resume(st) IN Ears(st, s) /\ Minded(s)
<1> DEFINE stops == {q \in Live(st.held) : st.holdTimer = "none" => ~Passed(q, st)}
           next  == Newest(stops)
           rest  == {q \in Live(st.held) : PostedAt[q] < PostedAt[next]}
           f     == PostFact(next, FALSE)
           s     == Resume(st)
<1>1. st \in MindState /\ Holdable(st.held) BY DEF Sound, Typed
<1>2. ASSUME NEW G
      PROVE  Mute(st, [st EXCEPT !.held = G])
  BY <1>1 DEF MindState, Mute, Ears
<1>3. CASE stops = {}
  <2>1. s = [st EXCEPT !.held = {}] BY <1>3 DEF Resume
  <2> HIDE DEF s
  <2>2. Mute(st, s) BY <1>2, <2>1
  <2> QED BY <2>2, MuteMinded DEF Mute, s
<1>4. CASE stops # {}
  <2> DEFINE u == [st EXCEPT !.held = rest]
  <2>1. s = React("peer", f, u) BY <1>4 DEF Resume
  <2>2. next \in Posts
    <3>1. stops \in SUBSET Posts /\ IsFiniteSet(stops)
      BY <1>1, FS_Subset DEF Holdable, Live
    <3> HIDE DEF stops
    <3> QED BY <1>4, <3>1, NewestIn
  <2>3. Caused("peer", f) BY <2>2, MindAssumption DEF Caused, PostFact, Facts
  <2>4. Mute(st, u) BY <1>2
  <2>5. u \in MindState
    <3>1. rest \in SUBSET Posts BY <1>1 DEF Live, Holdable
    <3> HIDE DEF rest
    <3> QED BY <1>1, <3>1 DEF MindState
  <2> HIDE DEF s, u, f, next, rest, stops
  <2>6. Ears(u, s) /\ Minded(s) BY <2>1, <2>3, <2>4, <2>5, MuteMinded, ReactMinded
  <2> QED BY <2>4, <2>6 DEF Ears, Mute, s
<1> QED BY <1>3, <1>4

\* A turn that ends.
LEMMA TurnOverMinded ==
  ASSUME NEW st, Sound(st), Minded(st), st.reasoning > 0
  PROVE  LET s == TurnOver(st) IN Ears(st, s) /\ Minded(s)
<1> DEFINE u == [st EXCEPT !.busy = FALSE, !.reasoning = @ - 1, !.turn = NoTurn]
           s == TurnOver(st)
<1>1. st \in MindState /\ st.reasoning = 1 BY DEF Sound, Typed, Thinking, MindState
<1>2. u = [st EXCEPT !.busy = FALSE, !.reasoning = 0, !.turn = NoTurn] BY <1>1
<1>3. NoTurn \in Turns BY DEF NoTurn, Turns, TurnKinds
<1>4. s = Resume(u) BY DEF TurnOver
<1> HIDE DEF u, s
<1>5. u \in MindState BY <1>1, <1>2, <1>3 DEF MindState
<1>6. /\ u.busy = FALSE /\ u.reasoning = 0 /\ u.held = st.held
      /\ u.heardOrder = st.heardOrder /\ u.kind = st.kind /\ Ears(st, u)
  BY <1>1, <1>2 DEF MindState, Ears
<1>7. Sound(u) BY <1>5, <1>6 DEF Sound, Typed, Thinking, Linked
<1>8. Minded(u) BY <1>6, EarsMinded DEF Minded, Filed, Marked
<1>9. Ears(u, s) /\ Minded(s) BY <1>4, <1>7, <1>8, ResumeMinded
<1> QED BY <1>6, <1>9 DEF Ears, s

\* The timer's message.
LEMMA ResumeHeldMinded ==
  ASSUME NEW st, Sound(st), Minded(st)
  PROVE  LET s == OnResumeHeld(st) IN Ears(st, s) /\ Minded(s)
<1> DEFINE u == [st EXCEPT !.holdTimer = "none"]
           s == OnResumeHeld(st)
<1>1. s = IF st.busy THEN u ELSE Resume(u) BY DEF OnResumeHeld
<1>2. st \in MindState BY DEF Sound, Typed
<1> HIDE DEF s
<1>3. u \in MindState /\ u.busy = st.busy /\ Mute(st, u)
  BY <1>2 DEF MindState, Timers, Mute, Ears
<1>4. Sound(u) BY <1>2, <1>3 DEF Sound, Typed, Thinking, Linked, MindState
<1>5. Minded(u) BY <1>3, MuteMinded
<1> HIDE DEF u
<1>6. Ears(u, Resume(u)) /\ Minded(Resume(u)) BY <1>4, <1>5, ResumeMinded
<1> QED BY <1>1, <1>3, <1>5, <1>6 DEF Mute, Ears, s

\* What is new in the square is a synthesizer's, and closes what its turn is about.
Concludes(st, s) ==
  \A story \in s.closed \ st.closed :
     Synthesizer /\ (st.turn.story # NoStory => story = st.turn.story)

\* Every step of a mind, and of what is around it.
LEMMA StepMinded ==
  ASSUME IInv, Minded(m), [Next]_vars
  PROVE  Minded(m') /\ Forgets(m, m') /\ Concludes(m, m')
<1>1. Sound(m) /\ m \in MindState BY DEF IInv, Sound, Typed
<1>2. ASSUME Mute(m, m') PROVE Minded(m') /\ Forgets(m, m') /\ Concludes(m, m')
  <2>1. Minded(m') BY <1>2, MuteMinded
  <2> QED BY <1>2, <2>1 DEF Mute, Ears, Forgets, Concludes
<1>3. ASSUME Ears(m, m'), Minded(m') PROVE Minded(m') /\ Forgets(m, m') /\ Concludes(m, m')
  BY <1>3 DEF Ears, Forgets, Concludes
<1>4. ASSUME NEW f \in Facts, Hear(f) PROVE Minded(m') /\ Forgets(m, m') /\ Concludes(m, m')
  BY <1>1, <1>4, ArrivalMinded DEF Hear, Concludes
<1>5. CASE HearPost
  <2>1. \A p \in Posts, replay \in BOOLEAN : PostFact(p, replay) \in Facts
    BY MindAssumption DEF PostFact, Facts
  <2> QED BY <1>4, <1>5, <2>1 DEF HearPost
<1>6. CASE HearUnposted BY <1>4, <1>6 DEF HearUnposted, UnpostedFacts
<1>7. CASE Reasoned
  <2>1. PICK spoke \in BOOLEAN, evolve \in BOOLEAN, due \in 0..(MaxAlerts - alerts) :
          m' = TurnOver([m EXCEPT
                     !.closed = IF spoke /\ m.kind = "synthesis"
                                THEN @ \cup ({m.stimulus} \ {NoStory}) ELSE @,
                     !.evolver = @ \/ evolve,
                     !.kind = "none"])
    BY <1>7 DEF Reasoned
  <2> DEFINE closed == IF spoke /\ m.kind = "synthesis"
                       THEN m.closed \cup ({m.stimulus} \ {NoStory}) ELSE m.closed
             evolver == m.evolver \/ evolve
             u == [m EXCEPT !.closed = closed, !.evolver = evolver, !.kind = "none"]
  <2>2. closed \in SUBSET Stories /\ evolver \in BOOLEAN BY <1>1 DEF MindState
  <2>3. m' = TurnOver(u) BY <2>1
  <2>4. /\ m.busy /\ m.reasoning = 1
    BY <1>1, <1>7 DEF Reasoned, Sound, Thinking, MindState
  <2>5. \A story \in closed \ m.closed : m.kind = "synthesis" /\ story = m.stimulus OBVIOUS
  <2> HIDE DEF closed, evolver
  <2> DEFINE v == [u EXCEPT !.busy = FALSE, !.reasoning = @ - 1, !.turn = NoTurn]
  <2>6. /\ u \in MindState /\ u.reasoning = 1 /\ u.kind = "none" /\ u.held = m.held
        /\ u.heardOrder = m.heardOrder /\ u.heardSet = m.heardSet /\ u.closed = closed
    BY <1>1, <2>2, <2>4 DEF MindState
  <2>7. m' = Resume(v) BY <2>3 DEF TurnOver
  <2> HIDE DEF u
  <2>8. NoTurn \in Turns /\ v = [u EXCEPT !.busy = FALSE, !.reasoning = 0, !.turn = NoTurn]
    BY <2>6 DEF NoTurn, Turns, TurnKinds
  <2> HIDE DEF v
  <2>9. /\ v \in MindState /\ v.busy = FALSE /\ v.reasoning = 0 /\ v.kind = "none" /\ v.held = m.held
        /\ v.heardOrder = m.heardOrder /\ v.heardSet = m.heardSet /\ v.closed = closed
    BY <2>6, <2>8 DEF MindState
  <2>10. Sound(v) BY <1>1, <2>9 DEF Sound, Typed, Thinking, Linked
  <2>11. Minded(v) BY <2>9 DEF Minded, Recalled, Filed, Marked
  <2>12. Ears(v, m') /\ Minded(m') BY <2>7, <2>10, <2>11, ResumeMinded
  <2>13. Concludes(m, m') BY <2>4, <2>5, <2>9, <2>12 DEF Concludes, Ears, Minded, Filed, Marked
  <2> QED BY <2>9, <2>12, <2>13 DEF Ears, Forgets
<1>8. CASE ReasoningFailed \/ ReasonerDies
  <2>1. m' = TurnOver(m) /\ m.reasoning > 0
    BY <1>1, <1>8 DEF ReasoningFailed, ReasonerDies, Sound, Thinking
  <2> QED BY <1>1, <1>3, <2>1, TurnOverMinded
<1>9. CASE EvolverEnds
  <2>1. m' = [m EXCEPT !.evolver = FALSE] BY <1>9 DEF EvolverEnds, OnEvolverDown
  <2> QED BY <1>1, <1>2, <2>1 DEF Mute, Ears, MindState
<1>10. CASE ResumeHeld BY <1>1, <1>3, <1>10, ResumeHeldMinded DEF ResumeHeld
<1>11. CASE SelfAlert
  <2>1. m' = StartTurn("other", NoFact, m) BY <1>11 DEF SelfAlert
  <2>2. NoFact \in Facts BY DEF NoFact, Facts
  <2> QED BY <1>1, <1>3, <2>1, <2>2, StartMinded
<1>12. CASE ReplyCooldownEnds
  <2> DEFINE timer == IF m.holdTimer = "waiting" THEN "due" ELSE m.holdTimer
  <2>1. m' = [m EXCEPT !.replyReady = TRUE, !.holdTimer = timer]
    BY <1>12 DEF ReplyCooldownEnds
  <2> HIDE DEF timer
  <2> QED BY <1>1, <1>2, <2>1 DEF Mute, Ears, MindState
<1>13. CASE OpenCooldownEnds
  <2>1. m' = [m EXCEPT !.openReady = TRUE] BY <1>13 DEF OpenCooldownEnds
  <2> QED BY <1>1, <1>2, <2>1 DEF Mute, Ears, MindState
<1>14. ASSUME NEW s \in Stories, ThreadPruned(s)
       PROVE  Minded(m') /\ Forgets(m, m') /\ Concludes(m, m')
  <2>1. CASE m' = m BY <1>2, <2>1 DEF Mute, Ears
  <2>2. CASE m' = [m EXCEPT !.closed = m.closed \ {s}]
    <3>1. /\ m'.heardSet = m.heardSet /\ m'.heardOrder = m.heardOrder /\ m'.closed = m.closed \ {s}
          /\ m'.busy = m.busy /\ m'.turn = m.turn /\ m'.stimulus = m.stimulus /\ m'.kind = m.kind
      BY <1>1, <2>2 DEF MindState
    <3> QED BY <3>1 DEF Minded, Recalled, Filed, Marked, Forgets, Concludes
  <2> QED BY <1>14, <2>1, <2>2 DEF ThreadPruned
<1>15. CASE UNCHANGED vars \/ (\E p \in Posts : GrowOld(p)) \/ (\E s \in Stories : ThreadFills(s))
  <2>1. m' = m BY <1>15 DEF vars, GrowOld, ThreadFills
  <2> QED BY <1>2, <2>1 DEF Mute, Ears
<1> QED BY <1>5, <1>6, <1>7, <1>8, <1>9, <1>10, <1>11, <1>12, <1>13, <1>14, <1>15
        DEF Next, Handlers, Surroundings

LEMMA AlwaysMinded == Spec => [](IInv /\ Minded(m))
<1>1. Init => IInv /\ Minded(m)
  BY InitSound DEF Init, InitMind, Minded, Recalled, Filed, Marked
<1>2. IInv /\ Minded(m) /\ [Next]_vars => (IInv /\ Minded(m))'
  <2> SUFFICES ASSUME IInv, Minded(m), [Next]_vars PROVE IInv' /\ Minded(m)' OBVIOUS
  <2>1. IInv' BY NextSound
  <2>2. Minded(m') BY StepMinded
  <2> QED BY <2>1, <2>2 DEF Minded, Recalled, Filed, Marked
<1> QED BY <1>1, <1>2, PTL DEF Spec

\* The ids remembered are never more than HEARD_MAX, however often one is said
\* again; fewer they may be, where an id is in the order twice.
THEOREM HeardIsBounded == Spec => [](Cardinality(m.heardSet) <= HeardMax)
<1>1. ASSUME IInv, Minded(m) PROVE Cardinality(m.heardSet) <= HeardMax
  <2> DEFINE order == m.heardOrder
             n == Len(order)
             ids == {order[i] : i \in 1..n}
  <2>1. order \in Seq(Posts) /\ n <= HeardMax /\ n \in Nat /\ DOMAIN order = 1..n
    BY <1>1, LenProperties DEF IInv, Sound, Typed, MindState
  <2>2. order \in Surjection(1..n, ids) BY <2>1 DEF Surjection
  <2>3. IsFiniteSet(1..n) /\ Cardinality(1..n) = n
    <3> HIDE DEF n
    <3> QED BY <2>1, FS_Interval
  <2>4. IsFiniteSet(ids) /\ Cardinality(ids) <= n
    <3> HIDE DEF n, ids, order
    <3> QED BY <2>2, <2>3, FS_Surjection
  <2>5. m.heardSet \in SUBSET ids BY <1>1, <2>1 DEF Minded, Recalled
  <2>6. IsFiniteSet(m.heardSet) /\ Cardinality(m.heardSet) <= Cardinality(ids)
    <3> HIDE DEF ids
    <3> QED BY <2>4, <2>5, FS_Subset
  <2>7. Cardinality(ids) \in Nat /\ Cardinality(m.heardSet) \in Nat
    <3> HIDE DEF ids
    <3> QED BY <2>4, <2>6, FS_CardinalityType
  <2> HIDE DEF n, ids, order
  <2> QED BY <2>1, <2>4, <2>6, <2>7, MindAssumption
<1> QED BY <1>1, AlwaysMinded, PTL

\* An id is forgotten only when HEARD_MAX ids, repeated or not, are in the order,
\* and only the one that is at its front: one at a time.
THEOREM ForgetsInOrder ==
  Spec => [][\A p \in m.heardSet \ m'.heardSet :
               Len(m.heardOrder) = HeardMax /\ p = Head(m.heardOrder)]_vars
<1>1. IInv /\ Minded(m) /\ [Next]_vars
        => [\A p \in m.heardSet \ m'.heardSet :
               Len(m.heardOrder) = HeardMax /\ p = Head(m.heardOrder)]_vars
  BY StepMinded DEF Forgets
<1> QED BY <1>1, AlwaysMinded, PTL DEF Spec

\* A turn that is about a story speaks under that story and no other: only a turn
\* about none speaks under the last one's.
THEOREM SpeaksUnderItsStory == Spec => [](m.busy /\ m.turn.story # NoStory => m.stimulus = m.turn.story)
<1>1. Minded(m) => (m.busy /\ m.turn.story # NoStory => m.stimulus = m.turn.story)
  BY DEF Minded, Filed
<1> QED BY <1>1, AlwaysMinded, PTL

\* Only a synthesizer closes a story, and a turn about a story closes that one; a
\* closing turn that failed can make another turn close, but no other mind do so.
THEOREM ConcludesItsStory ==
  Spec => [][\A story \in m'.closed \ m.closed :
               Synthesizer /\ (m.turn.story # NoStory => story = m.turn.story)]_vars
<1>1. IInv /\ Minded(m) /\ [Next]_vars
        => [\A story \in m'.closed \ m.closed :
               Synthesizer /\ (m.turn.story # NoStory => story = m.turn.story)]_vars
  BY StepMinded DEF Concludes
<1> QED BY <1>1, AlwaysMinded, PTL DEF Spec

=============================================================================
