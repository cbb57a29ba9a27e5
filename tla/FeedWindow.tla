----------------------------- MODULE FeedWindow -----------------------------
(***************************************************************************)
(* The window of the square: which posts prune/1 of hecate_spartan_agora   *)
(* keeps. Feed states what the square promises with it, FeedTable how the  *)
(* code keeps the promise.                                                 *)
(***************************************************************************)
EXTENDS Naturals, FiniteSets

CONSTANTS
  Posts,     \* post ids
  PostedAt,  \* the posted_at of each
  Window     \* WINDOW: how many posts the square keeps

\* Distinct times: for two posts of one millisecond the code's order is that
\* of the rows in the table, which nothing here depends on.
ASSUME WindowAssumption ==
  /\ PostedAt \in [Posts -> Nat]
  /\ \A p, q \in Posts : PostedAt[p] = PostedAt[q] => p = q
  /\ Window \in Nat \ {0}

Newer(p, S) == {q \in S : PostedAt[q] > PostedAt[p]}

\* The posts of S that have a place among its Window newest.
Newest(S) == {p \in S : Cardinality(Newer(p, S)) < Window}
=============================================================================
