------------------------------ MODULE Delivery ------------------------------
(***************************************************************************)
(* What the node and a bridge together promise an entity: of the messages  *)
(* that reached its inbox, numbered as they came, it is handed some, each  *)
(* at most once and in their order. A message may be lost at any time      *)
(* before; it is never late, and never comes back.                         *)
(***************************************************************************)
EXTENDS Naturals

VARIABLES
  arrived,  \* how many messages reached the inbox
  pending,  \* the numbers of those still on their way
  last      \* the number of the one handed over last, 0 before the first

deliveryVars == <<arrived, pending, last>>

Init == arrived = 0 /\ pending = {} /\ last = 0

\* The next message; nobody may be there to take it.
Arrive ==
  /\ arrived' = arrived + 1
  /\ pending' \in {pending, pending \cup {arrived + 1}}
  /\ UNCHANGED last

\* The oldest of what is on its way is handed over.
HandOver(n) ==
  /\ n \in pending /\ \A k \in pending : n <= k
  /\ last < n
  /\ last' = n
  /\ pending' = pending \ {n}
  /\ UNCHANGED arrived

Lose == pending' \subseteq pending /\ UNCHANGED <<arrived, last>>

Next == Arrive \/ Lose \/ \E n \in pending : HandOver(n)

Spec == Init /\ [][Next]_deliveryVars

=============================================================================
