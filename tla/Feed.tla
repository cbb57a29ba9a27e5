-------------------------------- MODULE Feed --------------------------------
(***************************************************************************)
(* What the square of a node promises whoever reads it: a window on the    *)
(* posts that reached the node, in which a post takes its place, and       *)
(* pushes another out, in one step. Which posts are in the window is a     *)
(* parameter; FeedWindow has the code's.                                   *)
(***************************************************************************)

CONSTANTS
  Posts,      \* post ids
  Newest(_)   \* what the window shows of a set of posts

VARIABLE feed

Init == feed = {}

Post(p) == feed' = Newest(feed \cup {p})

Next == \E p \in Posts : Post(p)

Spec == Init /\ [][Next]_feed
=============================================================================
