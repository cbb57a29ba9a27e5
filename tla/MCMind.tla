------------------------------- MODULE MCMind -------------------------------
(* Small instances of Mind for TLC. *)
EXTENDS Mind

CONSTANTS p1, p2, p3, s1

\* Two peers' posts in one thread, and an unprompted one said between them.
MCPosts == {p1, p2, p3}
MCStoryOf == [p \in MCPosts |-> IF p = p3 THEN NoStory ELSE s1]
MCPostedAt == [p \in MCPosts |-> CASE p = p1 -> 1 [] p = p3 -> 2 [] OTHER -> 3]

\* Two threads of one post each, for the liveness run.
LivePosts == {p1, p3}
LiveStoryOf == [p \in LivePosts |-> MCStoryOf[p]]
LivePostedAt == [p \in LivePosts |-> MCPostedAt[p]]
=============================================================================
