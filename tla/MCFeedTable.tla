---------------------------- MODULE MCFeedTable -----------------------------
(* Posts are their own times. *)
EXTENDS FeedTable

MCPosts == 1..6
MCPostedAt == [p \in MCPosts |-> p]
=============================================================================
