----------------------------- MODULE FeedTable ------------------------------
(***************************************************************************)
(* The square's table as the code keeps it: a public ETS table that every  *)
(* speaking process and the federation subscriber write themselves, with   *)
(* no process in between (hecate_spartan_agora:post/1). post/1 inserts,    *)
(* then asks for the count, then reads the whole table, then deletes what  *)
(* is beyond the window row by row; any number of processes are somewhere  *)
(* in that sequence at once. One call on the table is one step: a window   *)
(* of rows is read within one table lock.                                  *)
(***************************************************************************)
EXTENDS FeedWindow

CONSTANT Writers   \* the processes that post

VARIABLES
  table,   \* agora_feed: the posts in the table
  at,      \* where each writer is in post/1
  drop     \* Drop: the rows each writer has still to delete

vars == <<table, at, drop>>

Places == {"idle", "inserted", "full", "dropping"}

Init ==
  /\ table = {}
  /\ at = [w \in Writers |-> "idle"]
  /\ drop = [w \in Writers |-> {}]

\* A post already there replaces itself.
Insert(w, p) ==
  /\ at[w] = "idle"
  /\ table' = table \cup {p}
  /\ at' = [at EXCEPT ![w] = "inserted"]
  /\ UNCHANGED drop

Count(w) ==
  /\ at[w] = "inserted"
  /\ at' = [at EXCEPT ![w] = IF Cardinality(table) > Window THEN "full" ELSE "idle"]
  /\ UNCHANGED <<table, drop>>

\* Mutated forms of Choose: a window one short, one row for one insert, the
\* list sorted the other way round.
ChooseShort(w) ==
  /\ at[w] = "full"
  /\ at' = [at EXCEPT ![w] = "dropping"]
  /\ drop' = [drop EXCEPT ![w] = {p \in table : Cardinality(Newer(p, table)) + 1 >= Window}]
  /\ UNCHANGED table

ChooseOldest(w) ==
  /\ at[w] = "full"
  /\ at' = [at EXCEPT ![w] = "dropping"]
  /\ drop' = [drop EXCEPT ![w] = {p \in table : \A q \in table : PostedAt[p] <= PostedAt[q]}]
  /\ UNCHANGED table

ChooseNewest(w) ==
  /\ at[w] = "full"
  /\ at' = [at EXCEPT ![w] = "dropping"]
  /\ drop' = [drop EXCEPT ![w] =
                {p \in table : Cardinality({q \in table : PostedAt[q] < PostedAt[p]}) >= Window}]
  /\ UNCHANGED table

\* tab2list, the sort and the tail beyond the window.
Choose(w) ==
  /\ at[w] = "full"
  /\ at' = [at EXCEPT ![w] = "dropping"]
  /\ drop' = [drop EXCEPT ![w] = table \ Newest(table)]
  /\ UNCHANGED table

\* The newest of them first; a row another writer has deleted is no error.
Delete(w, p) ==
  /\ at[w] = "dropping"
  /\ p \in drop[w]
  /\ Newer(p, drop[w]) = {}
  /\ table' = table \ {p}
  /\ drop' = [drop EXCEPT ![w] = @ \ {p}]
  /\ UNCHANGED at

\* A mutated form of Return: only the first row of the tail is deleted.
ReturnEarly(w) ==
  /\ at[w] = "dropping"
  /\ at' = [at EXCEPT ![w] = "idle"]
  /\ UNCHANGED <<table, drop>>

Return(w) ==
  /\ at[w] = "dropping"
  /\ drop[w] = {}
  /\ at' = [at EXCEPT ![w] = "idle"]
  /\ UNCHANGED <<table, drop>>

Step(w) ==
  \/ Count(w)
  \/ Choose(w)
  \/ \E p \in Posts : Insert(w, p) \/ Delete(w, p)
  \/ Return(w)

Next == \E w \in Writers : Step(w)

Spec == Init /\ [][Next]_vars

-----------------------------------------------------------------------------
(* Properties                                                              *)

\* The table holds posts, every writer is at a step of post/1, and only a
\* deleting writer has rows to delete.
TypeOK ==
  /\ table \subseteq Posts
  /\ at \in [Writers -> Places]
  /\ drop \in [Writers -> SUBSET Posts]
  /\ \A w \in Writers : at[w] # "dropping" => drop[w] = {}

\* prune/1 takes the tail of its list beyond the window, which fails on a list
\* shorter than the window: whatever other writers deleted since the count,
\* the table still has a full window when it is read.
TailExists ==
  \A w \in Writers : at[w] = "full" => Cardinality(table) >= Window

\* No race between prunes leaves the table above its window: once every writer
\* has returned, at most Window posts are left.
BoundedAtRest ==
  (\A w \in Writers : at[w] = "idle") => Cardinality(table) <= Window

\* What recent/1 shows of the table is the window Feed promises: an insert is
\* one Post, and no prune, however stale the list it deletes from, takes a
\* post out of the window.
F == INSTANCE Feed WITH feed <- Newest(table)
KeepsTheFeed == F!Spec

=============================================================================
