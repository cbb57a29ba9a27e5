-------------------------- MODULE FeedTableProofs --------------------------
(***************************************************************************)
(* The races of the square's table are harmless, whatever the posts, the   *)
(* window and the number of processes writing: FeedTable keeps its         *)
(* invariants and implements Feed.                                         *)
(***************************************************************************)
EXTENDS FeedTable, FiniteSetTheorems, WellFoundedInduction, TLAPS

\* Every row a writer is about to delete is beyond the window, still.
Stale ==
  \A w \in Writers : \A p \in drop[w] : Cardinality(Newer(p, table)) >= Window

\* Every row beyond the window is some writer's to delete: one that has not
\* read the table yet, or one that has it on its list.
Charged ==
  \A p \in table \ Newest(table) :
     \E w \in Writers : at[w] \in {"inserted", "full"} \/ p \in drop[w]

IInv == TypeOK /\ IsFiniteSet(table) /\ Stale /\ Charged /\ TailExists

-----------------------------------------------------------------------------
(* The window.                                                             *)

\* Some posts have an oldest among them.
LEMMA OldestPost ==
  ASSUME NEW S \in SUBSET Posts, S # {}
  PROVE  \E p \in S : \A q \in S : PostedAt[p] <= PostedAt[q]
<1> USE WindowAssumption
<1> DEFINE T == {PostedAt[p] : p \in S}
<1>1. T \subseteq Nat /\ T # {}
  OBVIOUS
<1>2. PICK n \in T : \A k \in T : <<k, n>> \notin OpToRel(<, Nat)
  <2> HIDE DEF T
  <2> QED BY <1>1, WFMin, NatLessThanWellFounded
<1>3. ASSUME NEW k \in T PROVE n <= k
  <2>1. k \in Nat /\ n \in Nat
    BY <1>1
  <2>2. k < n => <<k, n>> \in OpToRel(<, Nat)
    BY <2>1 DEF OpToRel
  <2>3. <<k, n>> \notin OpToRel(<, Nat)
    BY <1>2
  <2>4. ~(k < n)
    BY <2>2, <2>3
  <2> QED BY <2>1, <2>4
<1> QED BY <1>3

\* Finitely many posts have a newest among them: a smallest subset without one
\* would have one once an element is put back.
LEMMA NewestPost ==
  ASSUME NEW S \in SUBSET Posts, IsFiniteSet(S), S # {}
  PROVE  \E p \in S : \A q \in S : PostedAt[p] >= PostedAt[q]
<1> DEFINE Topped(X) == \E p \in X : \A q \in X : PostedAt[p] >= PostedAt[q]
           T == {X \in FiniteSubsetsOf(S) : X # {} /\ ~Topped(X)}
<1> SUFFICES ASSUME ~Topped(S) PROVE FALSE
  OBVIOUS
<1>1. T # {} /\ T \subseteq FiniteSubsetsOf(S)
  BY DEF FiniteSubsetsOf
<1>2. PICK X \in T : \A Y \in T : <<Y, X>> \notin StrictSubsetOrdering(S)
  BY <1>1, WFMin, FS_StrictSubsetOrderingWellFounded
<1>3. X \in SUBSET S /\ IsFiniteSet(X) /\ X # {} /\ ~Topped(X)
  BY DEF FiniteSubsetsOf
<1>4. PICK x \in X : TRUE
  BY <1>3
<1>5. IsFiniteSet(X \ {x})
  BY <1>3, FS_RemoveElement
<1>6. <<X \ {x}, X>> \in StrictSubsetOrdering(S)
  BY <1>3, <1>4 DEF StrictSubsetOrdering
<1>7. X \ {x} = {} \/ Topped(X \ {x})
  BY <1>2, <1>3, <1>5, <1>6 DEF FiniteSubsetsOf
<1>8. \A p, q \in X : PostedAt[p] \in Nat /\ PostedAt[q] \in Nat
  BY <1>3, WindowAssumption
<1>9. Topped(X)
  <2>1. CASE X \ {x} = {}
    <3>1. X = {x}
      BY <1>4, <2>1
    <3> QED BY <1>4, <1>8, <3>1
  <2>2. CASE Topped(X \ {x})
    <3>1. PICK p \in X \ {x} : \A q \in X \ {x} : PostedAt[p] >= PostedAt[q]
      BY <2>2
    <3>2. CASE PostedAt[p] >= PostedAt[x]
      BY <3>1, <3>2
    <3>3. CASE ~(PostedAt[p] >= PostedAt[x])
      <4>1. \A q \in X : PostedAt[x] >= PostedAt[q]
        BY <1>4, <1>8, <3>1, <3>3
      <4> QED BY <1>4, <4>1
    <3> QED BY <3>2, <3>3
  <2> QED BY <1>7, <2>1, <2>2
<1> QED BY <1>3, <1>9

\* Newer(p, S) grows with S.
LEMMA NewerGrows ==
  ASSUME NEW p, NEW T, IsFiniteSet(T), NEW S \in SUBSET T
  PROVE  /\ IsFiniteSet(Newer(p, S)) /\ Cardinality(Newer(p, S)) \in Nat
         /\ Cardinality(Newer(p, T)) \in Nat
         /\ Cardinality(Newer(p, S)) <= Cardinality(Newer(p, T))
<1>1. Newer(p, T) \in SUBSET T /\ Newer(p, S) \in SUBSET Newer(p, T)
  BY DEF Newer
<1>2. IsFiniteSet(Newer(p, T))
  BY <1>1, FS_Subset
<1>3. IsFiniteSet(Newer(p, S)) /\ Cardinality(Newer(p, S)) <= Cardinality(Newer(p, T))
  BY <1>1, <1>2, FS_Subset
<1> QED BY <1>2, <1>3, FS_CardinalityType

\* prune keeps at most a window.
LEMMA WindowBounds ==
  ASSUME NEW S \in SUBSET Posts, IsFiniteSet(S)
  PROVE  IsFiniteSet(Newest(S)) /\ Cardinality(Newest(S)) <= Window
<1> USE WindowAssumption
<1> DEFINE N == Newest(S)
<1>1. N \in SUBSET S
  BY DEF Newest
<1>2. IsFiniteSet(N)
  BY <1>1, FS_Subset
<1>3. CASE N = {}
  BY <1>3, FS_EmptySet DEF N
<1>4. CASE N # {}
  <2>1. PICK p \in N : \A q \in N : PostedAt[p] <= PostedAt[q]
    <3> HIDE DEF N
    <3> QED BY <1>1, <1>4, OldestPost
  <2>2. N \ {p} \in SUBSET Newer(p, S)
    <3>1. \A q \in N \ {p} : q \in Posts /\ p \in Posts /\ PostedAt[q] # PostedAt[p]
      BY <1>1, <2>1
    <3>2. \A q \in N \ {p} : PostedAt[q] > PostedAt[p]
      BY <2>1, <3>1
    <3> QED BY <1>1, <3>2 DEF Newer
  <2>3. IsFiniteSet(Newer(p, S)) /\ Cardinality(Newer(p, S)) \in Nat
    BY NewerGrows
  <2>4. Cardinality(Newer(p, S)) < Window
    BY <2>1 DEF Newest
  <2>5. Cardinality(N \ {p}) <= Cardinality(Newer(p, S))
    BY <2>2, <2>3, FS_Subset
  <2>6. Cardinality(N \ {p}) = Cardinality(N) - 1 /\ Cardinality(N) \in Nat
    BY <1>2, <2>1, FS_RemoveElement, FS_CardinalityType
  <2> QED BY <1>2, <2>3, <2>4, <2>5, <2>6
<1> QED BY <1>3, <1>4

\* A table of at most a window of rows loses none of them.
LEMMA SmallTable ==
  ASSUME NEW S \in SUBSET Posts, IsFiniteSet(S), Cardinality(S) <= Window
  PROVE  Newest(S) = S
<1> USE WindowAssumption
<1>1. ASSUME NEW p \in S PROVE Cardinality(Newer(p, S)) < Window
  <2>1. Newer(p, S) \in SUBSET (S \ {p})
    BY <1>1 DEF Newer
  <2>2. IsFiniteSet(S \ {p}) /\ Cardinality(S \ {p}) = Cardinality(S) - 1
    BY <1>1, FS_RemoveElement
  <2>3. Cardinality(Newer(p, S)) <= Cardinality(S \ {p})
    BY <2>1, <2>2, FS_Subset
  <2>4. Cardinality(S) \in Nat /\ Cardinality(Newer(p, S)) \in Nat
    BY NewerGrows, FS_CardinalityType
  <2> QED BY <2>2, <2>3, <2>4
<1> QED BY <1>1 DEF Newest

\* When a row is beyond the window, the window is full, of newer rows: the
\* newest row beyond it has only rows of the window before it.
LEMMA FullWindow ==
  ASSUME NEW S \in SUBSET Posts, IsFiniteSet(S), NEW r \in S \ Newest(S)
  PROVE  /\ Cardinality(Newest(S)) >= Window
         /\ \A t \in Newest(S) : PostedAt[t] > PostedAt[r]
<1> USE WindowAssumption
<1> DEFINE Old == S \ Newest(S)
<1>1. IsFiniteSet(Old) /\ Old \in SUBSET Posts /\ Old # {}
  BY FS_Subset
<1>2. PICK p \in Old : \A q \in Old : PostedAt[p] >= PostedAt[q]
  <2> HIDE DEF Old
  <2> QED BY <1>1, NewestPost
<1>3. \A q \in Old : PostedAt[q] \in Nat
  BY <1>1
<1>4. Newer(p, S) \in SUBSET Newest(S)
  BY <1>2, <1>3 DEF Newer
<1>5. Cardinality(Newer(p, S)) \in Nat /\ ~(Cardinality(Newer(p, S)) < Window)
  BY <1>2, NewerGrows DEF Newest
<1>6. IsFiniteSet(Newest(S)) /\ Cardinality(Newest(S)) \in Nat
  BY WindowBounds, FS_CardinalityType
<1>7. Cardinality(Newer(p, S)) <= Cardinality(Newest(S))
  BY <1>4, <1>6, FS_Subset
<1>8. ASSUME NEW t \in Newest(S), ~(PostedAt[t] > PostedAt[r]) PROVE FALSE
  <2>1. t \in S /\ PostedAt[t] \in Nat /\ PostedAt[r] \in Nat
    BY DEF Newest
  <2>2. Newer(r, S) \in SUBSET Newer(t, S)
    <3>1. \A q \in S : PostedAt[q] \in Nat
      OBVIOUS
    <3> QED BY <1>8, <2>1, <3>1 DEF Newer
  <2>3. IsFiniteSet(Newer(t, S)) /\ Cardinality(Newer(t, S)) \in Nat /\ Cardinality(Newer(r, S)) \in Nat
    BY NewerGrows
  <2>4. Cardinality(Newer(r, S)) <= Cardinality(Newer(t, S))
    BY <2>2, <2>3, FS_Subset
  <2>5. Cardinality(Newer(t, S)) < Window /\ ~(Cardinality(Newer(r, S)) < Window)
    BY DEF Newest
  <2> QED BY <2>3, <2>4, <2>5
<1> QED BY <1>5, <1>6, <1>7, <1>8

\* Deleting a row that is beyond the window leaves the window as it is.
LEMMA DropKeepsWindow ==
  ASSUME NEW S \in SUBSET Posts, IsFiniteSet(S), NEW p \in Posts,
         Cardinality(Newer(p, S)) >= Window
  PROVE  Newest(S \ {p}) = Newest(S)
<1> USE WindowAssumption
<1> DEFINE R == S \ {p}
<1>1. R \in SUBSET S /\ IsFiniteSet(R) /\ \A q \in S : PostedAt[q] \in Nat
  BY FS_Subset
<1>2. p \notin Newest(S)
  <2>1. Cardinality(Newer(p, S)) \in Nat
    BY NewerGrows
  <2> QED BY <2>1 DEF Newest
<1>3. ASSUME NEW q \in Newest(S) PROVE q \in Newest(R)
  <2>1. Cardinality(Newer(q, R)) \in Nat /\ Cardinality(Newer(q, S)) \in Nat
        /\ Cardinality(Newer(q, R)) <= Cardinality(Newer(q, S))
    BY <1>1, NewerGrows
  <2>2. q \in R /\ Cardinality(Newer(q, S)) < Window
    BY <1>2 DEF Newest
  <2>3. Cardinality(Newer(q, R)) < Window
    BY <2>1, <2>2
  <2> QED BY <2>2, <2>3 DEF Newest
<1>4. ASSUME NEW q \in Newest(R) PROVE q \in Newest(S)
  <2>1. q \in R /\ q \in S /\ Cardinality(Newer(q, R)) < Window
    BY DEF Newest
  <2>2. CASE PostedAt[p] > PostedAt[q]
    <3>1. Newer(p, S) \in SUBSET Newer(q, R)
      BY <1>1, <2>1, <2>2 DEF Newer
    <3>2. IsFiniteSet(Newer(q, R)) /\ Cardinality(Newer(q, R)) \in Nat /\ Cardinality(Newer(p, S)) \in Nat
      BY <1>1, NewerGrows
    <3>3. Cardinality(Newer(p, S)) <= Cardinality(Newer(q, R))
      BY <3>1, <3>2, FS_Subset
    <3> QED BY <2>1, <3>2, <3>3
  <2>3. CASE ~(PostedAt[p] > PostedAt[q])
    <3>1. Newer(q, S) = Newer(q, R)
      BY <2>3 DEF Newer
    <3> QED BY <2>1, <3>1 DEF Newest
  <2> QED BY <2>2, <2>3
<1> QED BY <1>3, <1>4

\* The window after an insert is the window of the window and the new post:
\* what prune dropped before cannot come back.
LEMMA InsertIsPost ==
  ASSUME NEW S \in SUBSET Posts, IsFiniteSet(S), NEW p \in Posts
  PROVE  Newest(S \cup {p}) = Newest(Newest(S) \cup {p})
<1> USE WindowAssumption
<1> DEFINE A == S \cup {p}
           B == Newest(S) \cup {p}
<1>1. /\ IsFiniteSet(A) /\ A \in SUBSET Posts /\ S \in SUBSET A
      /\ B \in SUBSET A /\ IsFiniteSet(B) /\ \A q \in A : PostedAt[q] \in Nat
  <2>1. IsFiniteSet(A)
    BY FS_AddElement
  <2>2. B \in SUBSET A
    BY DEF Newest
  <2> QED BY <2>1, <2>2, FS_Subset
<1>2. ASSUME NEW q \in Newest(A) PROVE q \in Newest(B)
  <2>1. q \in A /\ Cardinality(Newer(q, A)) < Window
    BY DEF Newest
  <2>2. /\ Cardinality(Newer(q, S)) <= Cardinality(Newer(q, A))
        /\ Cardinality(Newer(q, B)) <= Cardinality(Newer(q, A))
        /\ Cardinality(Newer(q, A)) \in Nat /\ Cardinality(Newer(q, B)) \in Nat
        /\ Cardinality(Newer(q, S)) \in Nat
    <3> HIDE DEF A, B
    <3> QED BY <1>1, NewerGrows
  <2>3. Cardinality(Newer(q, S)) < Window /\ Cardinality(Newer(q, B)) < Window
    BY <2>1, <2>2
  <2>4. q \in B
    BY <2>1, <2>3 DEF Newest
  <2> QED BY <2>3, <2>4 DEF Newest
<1>3. ASSUME NEW q \in Newest(B) PROVE q \in Newest(A)
  <2>1. q \in A /\ Cardinality(Newer(q, B)) < Window
    BY <1>1 DEF Newest
  <2>2. CASE \E r \in S \ Newest(S) : PostedAt[r] > PostedAt[q]
    <3>1. PICK r \in S \ Newest(S) : PostedAt[r] > PostedAt[q]
      BY <2>2
    <3>2. Cardinality(Newest(S)) >= Window /\ \A t \in Newest(S) : PostedAt[t] > PostedAt[r]
      BY FullWindow
    <3>3. Newest(S) \in SUBSET Newer(q, B)
      <4>1. \A t \in Newest(S) : t \in A /\ PostedAt[t] > PostedAt[q]
        <5>1. \A t \in Newest(S) : t \in S /\ PostedAt[t] > PostedAt[r]
          BY <3>2 DEF Newest
        <5> QED BY <1>1, <2>1, <3>1, <5>1
      <4> QED BY <4>1 DEF Newer
    <3>4. IsFiniteSet(Newer(q, B)) /\ Cardinality(Newer(q, B)) \in Nat
      <4> HIDE DEF B
      <4> QED BY <1>1, NewerGrows
    <3>5. Cardinality(Newest(S)) <= Cardinality(Newer(q, B)) /\ Cardinality(Newest(S)) \in Nat
      BY <3>3, <3>4, WindowBounds, FS_Subset, FS_CardinalityType
    <3> QED BY <2>1, <3>2, <3>4, <3>5
  <2>3. CASE ~\E r \in S \ Newest(S) : PostedAt[r] > PostedAt[q]
    <3>1. Newer(q, A) = Newer(q, B)
      <4>1. Newer(q, A) \in SUBSET Newer(q, B)
        BY <2>3 DEF Newer
      <4>2. Newer(q, B) \in SUBSET Newer(q, A)
        BY <1>1 DEF Newer
      <4> QED BY <4>1, <4>2
    <3> QED BY <2>1, <3>1 DEF Newest
  <2> QED BY <2>2, <2>3
<1> QED BY <1>2, <1>3

-----------------------------------------------------------------------------
(* The invariant. Stale says that no prune can hurt, Charged that no row   *)
(* beyond the window is forgotten, TailExists that the tail is there.      *)

\* An empty table and no writer inside post/1.
LEMMA InitIInv == Init => IInv
<1> SUFFICES ASSUME Init PROVE IInv
  OBVIOUS
<1>1. TypeOK /\ IsFiniteSet(table)
  BY FS_EmptySet DEF Init, TypeOK, Places
<1> QED BY <1>1 DEF Init, IInv, Stale, Charged, TailExists, Newest

\* A new row makes no other row newer, and its writer answers for it.
LEMMA InsertIInv ==
  ASSUME IInv, NEW w \in Writers, NEW p \in Posts, Insert(w, p)
  PROVE  IInv'
<1> USE DEF IInv
<1>1. TypeOK' /\ IsFiniteSet(table')
  BY FS_AddElement DEF TypeOK, Insert, Places
<1>2. Stale'
  <2> SUFFICES ASSUME NEW v \in Writers, NEW q \in drop[v]
               PROVE  Cardinality(Newer(q, table \cup {p})) >= Window
    BY DEF Stale, Insert, Newer
  <2>1. Cardinality(Newer(q, table)) >= Window
    BY DEF Stale
  <2>2. /\ Cardinality(Newer(q, table)) <= Cardinality(Newer(q, table \cup {p}))
        /\ Cardinality(Newer(q, table)) \in Nat /\ Cardinality(Newer(q, table \cup {p})) \in Nat
    BY FS_AddElement, NewerGrows
  <2> QED BY <2>1, <2>2, WindowAssumption
<1>3. Charged'
  BY DEF Charged, Insert, TypeOK
<1>4. TailExists'
  <2> SUFFICES ASSUME NEW v \in Writers, at[v] = "full"
               PROVE  Cardinality(table \cup {p}) >= Window
    BY DEF TailExists, Insert, TypeOK
  <2>1. Cardinality(table) >= Window /\ Cardinality(table) \in Nat
    BY FS_CardinalityType DEF TailExists
  <2>2. Cardinality(table \cup {p}) = IF p \in table THEN Cardinality(table) ELSE Cardinality(table) + 1
    BY FS_AddElement
  <2> QED BY <2>1, <2>2, WindowAssumption
<1> QED BY <1>1, <1>2, <1>3, <1>4

\* A writer that returns on the count leaves a table with nothing beyond it.
LEMMA CountIInv ==
  ASSUME IInv, NEW w \in Writers, Count(w)
  PROVE  IInv'
<1> USE DEF IInv
<1>1. TypeOK' /\ IsFiniteSet(table')
  BY DEF TypeOK, Count, Places
<1>2. Stale'
  BY DEF Stale, Count, Newer
<1>3. Cardinality(table) \in Nat
  BY FS_CardinalityType
<1>4. CASE Cardinality(table) > Window
  <2>1. at' = [at EXCEPT ![w] = "full"]
    BY <1>4 DEF Count
  <2>2. Charged'
    BY <2>1 DEF Charged, Count, TypeOK, Newest, Newer
  <2>3. TailExists'
    BY <1>3, <1>4, WindowAssumption DEF TailExists, Count
  <2> QED BY <1>1, <1>2, <2>2, <2>3
<1>5. CASE ~(Cardinality(table) > Window)
  <2>1. at' = [at EXCEPT ![w] = "idle"]
    BY <1>5 DEF Count
  <2>2. Newest(table) = table
    BY <1>3, <1>5, SmallTable, WindowAssumption DEF TypeOK
  <2>3. Charged'
    BY <2>2 DEF Charged, Count, Newest, Newer
  <2>4. TailExists'
    BY <2>1 DEF TailExists, Count, TypeOK
  <2> QED BY <1>1, <1>2, <2>3, <2>4
<1> QED BY <1>4, <1>5

\* What a writer lists is all there is beyond the window.
LEMMA ChooseIInv ==
  ASSUME IInv, NEW w \in Writers, Choose(w)
  PROVE  IInv'
<1> USE DEF IInv
<1>1. TypeOK' /\ IsFiniteSet(table')
  BY DEF TypeOK, Choose, Places
<1>2. Stale'
  <2>1. \A q \in table \ Newest(table) : Cardinality(Newer(q, table)) >= Window
    <3> SUFFICES ASSUME NEW q \in table \ Newest(table)
                 PROVE  Cardinality(Newer(q, table)) >= Window
      OBVIOUS
    <3>1. Cardinality(Newer(q, table)) \in Nat /\ ~(Cardinality(Newer(q, table)) < Window)
      BY NewerGrows DEF Newest
    <3> QED BY <3>1, WindowAssumption
  <2> SUFFICES ASSUME NEW v \in Writers, NEW q \in drop'[v]
               PROVE  Cardinality(Newer(q, table)) >= Window
    BY DEF Stale, Choose, Newer
  <2> QED BY <2>1 DEF Stale, Choose, TypeOK
<1>3. Charged'
  <2> SUFFICES ASSUME NEW q \in table \ Newest(table)
               PROVE  \E v \in Writers : at'[v] \in {"inserted", "full"} \/ q \in drop'[v]
    BY DEF Charged, Choose, Newest, Newer
  <2>1. q \in drop'[w]
    BY DEF Choose, TypeOK
  <2> QED BY <2>1
<1>4. TailExists'
  BY DEF TailExists, Choose, TypeOK
<1> QED BY <1>1, <1>2, <1>3, <1>4

\* A listed row is still beyond the window when it is deleted: what is newer
\* than it outlives every delete.
LEMMA DeleteIInv ==
  ASSUME IInv, NEW w \in Writers, NEW p \in Posts, Delete(w, p)
  PROVE  IInv' /\ Newest(table') = Newest(table)
<1> USE DEF IInv
<1>1. TypeOK' /\ IsFiniteSet(table')
  BY FS_RemoveElement DEF TypeOK, Delete, Places
<1>2. Cardinality(Newer(p, table)) >= Window /\ table' = table \ {p} /\ table \in SUBSET Posts
  BY DEF Stale, Delete, TypeOK
<1>3. Newest(table') = Newest(table)
  BY <1>2, DropKeepsWindow
<1>4. Stale'
  <2> SUFFICES ASSUME NEW v \in Writers, NEW q \in drop'[v]
               PROVE  Cardinality(Newer(q, table \ {p})) >= Window
    BY <1>2 DEF Stale, Newer
  <2>1. q \in drop[v] /\ q \in Posts
    BY DEF Delete, TypeOK
  <2>2. Cardinality(Newer(q, table)) >= Window
    BY <2>1 DEF Stale
  <2>3. CASE PostedAt[p] > PostedAt[q]
    <3>1. Newer(p, table) \in SUBSET Newer(q, table \ {p})
      BY <1>2, <2>1, <2>3, WindowAssumption DEF Newer
    <3>2. /\ IsFiniteSet(Newer(q, table \ {p}))
          /\ Cardinality(Newer(q, table \ {p})) \in Nat /\ Cardinality(Newer(p, table)) \in Nat
      BY NewerGrows, FS_RemoveElement
    <3>3. Cardinality(Newer(p, table)) <= Cardinality(Newer(q, table \ {p}))
      BY <3>1, <3>2, FS_Subset
    <3> QED BY <1>2, <3>2, <3>3, WindowAssumption
  <2>4. CASE ~(PostedAt[p] > PostedAt[q])
    <3>1. Newer(q, table \ {p}) = Newer(q, table)
      BY <2>4 DEF Newer
    <3> QED BY <2>2, <3>1
  <2> QED BY <2>3, <2>4
<1>5. Charged'
  <2> SUFFICES ASSUME NEW q \in table' \ Newest(table)
               PROVE  \E v \in Writers : at'[v] \in {"inserted", "full"} \/ q \in drop'[v]
    BY <1>3 DEF Charged
  <2>1. q \in table /\ q # p
    BY <1>2
  <2>2. PICK v \in Writers : at[v] \in {"inserted", "full"} \/ q \in drop[v]
    BY <2>1 DEF Charged
  <2>3. at' = at /\ (q \in drop[v] => q \in drop'[v])
    BY <2>1 DEF Delete, TypeOK
  <2> QED BY <2>2, <2>3
<1>6. TailExists'
  <2>1. Newer(p, table) \in SUBSET table'
    BY <1>2, WindowAssumption DEF Newer, Delete
  <2>2. Cardinality(Newer(p, table)) <= Cardinality(table')
    BY <1>1, <2>1, FS_Subset
  <2>3. Cardinality(Newer(p, table)) \in Nat /\ Cardinality(table') \in Nat
    BY <1>1, NewerGrows, FS_CardinalityType
  <2>4. Cardinality(table') >= Window
    BY <1>2, <2>2, <2>3, WindowAssumption
  <2> QED BY <2>4 DEF TailExists
<1> QED BY <1>1, <1>3, <1>4, <1>5, <1>6

\* A writer returns with nothing left on its list.
LEMMA ReturnIInv ==
  ASSUME IInv, NEW w \in Writers, Return(w)
  PROVE  IInv'
<1> USE DEF IInv
<1>1. TypeOK' /\ IsFiniteSet(table')
  BY DEF TypeOK, Return, Places
<1>2. Stale'
  BY DEF Stale, Return, Newer
<1>3. Charged'
  <2> SUFFICES ASSUME NEW q \in table \ Newest(table)
               PROVE  \E v \in Writers : at'[v] \in {"inserted", "full"} \/ q \in drop'[v]
    BY DEF Charged, Return, Newest, Newer
  <2>1. PICK v \in Writers : at[v] \in {"inserted", "full"} \/ q \in drop[v]
    BY DEF Charged
  <2>2. v # w
    BY <2>1 DEF Return
  <2> QED BY <2>1, <2>2 DEF Return, TypeOK
<1>4. TailExists'
  BY DEF TailExists, Return, TypeOK
<1> QED BY <1>1, <1>2, <1>3, <1>4

\* A step keeps the invariant, and shows in the window as one post or not at
\* all.
LEMMA StepRefines ==
  ASSUME IInv, [Next]_vars
  PROVE  /\ IInv'
         /\ \/ \E p \in Posts : Newest(table') = Newest(Newest(table) \cup {p})
            \/ Newest(table') = Newest(table)
<1>1. ASSUME NEW w \in Writers, NEW p \in Posts, Insert(w, p)
      PROVE  IInv' /\ Newest(table') = Newest(Newest(table) \cup {p})
  <2>1. table' = table \cup {p} /\ table \in SUBSET Posts /\ IsFiniteSet(table)
    BY <1>1 DEF Insert, IInv, TypeOK
  <2> QED BY <1>1, <2>1, InsertIInv, InsertIsPost
<1>2. ASSUME NEW w \in Writers, Count(w) PROVE IInv' /\ Newest(table') = Newest(table)
  BY <1>2, CountIInv DEF Count
<1>3. ASSUME NEW w \in Writers, Choose(w) PROVE IInv' /\ Newest(table') = Newest(table)
  BY <1>3, ChooseIInv DEF Choose
<1>4. ASSUME NEW w \in Writers, NEW p \in Posts, Delete(w, p)
      PROVE  IInv' /\ Newest(table') = Newest(table)
  BY <1>4, DeleteIInv
<1>5. ASSUME NEW w \in Writers, Return(w) PROVE IInv' /\ Newest(table') = Newest(table)
  BY <1>5, ReturnIInv DEF Return
<1>6. CASE UNCHANGED vars
  BY <1>6 DEF vars, IInv, TypeOK, Stale, Charged, TailExists, Newest, Newer
<1> QED BY <1>1, <1>2, <1>3, <1>4, <1>5, <1>6 DEF Next, Step

\* The inductive invariant holds throughout.
THEOREM Invariance == Spec => []IInv
<1>1. IInv /\ [Next]_vars => IInv'
  BY StepRefines
<1> QED BY <1>1, InitIInv, PTL DEF Spec

\* The table, the writers and their lists are always well formed.
THEOREM TypeCorrect == Spec => []TypeOK
<1>1. IInv => TypeOK
  BY DEF IInv
<1> QED BY <1>1, Invariance, PTL

\* However many processes prune at once, the list prune takes the tail of is
\* never shorter than the window.
THEOREM TailExistsHolds == Spec => []TailExists
<1>1. IInv => TailExists
  BY DEF IInv
<1> QED BY <1>1, Invariance, PTL

\* However the prunes raced, the table is within its window once all of them
\* have returned: a row beyond it would be charged to nobody.
THEOREM BoundedAtRestHolds == Spec => []BoundedAtRest
<1>1. IInv => BoundedAtRest
  <2> SUFFICES ASSUME IInv, \A w \in Writers : at[w] = "idle"
               PROVE  Cardinality(table) <= Window
    BY DEF BoundedAtRest
  <2>1. table \in SUBSET Posts /\ IsFiniteSet(table) /\ \A w \in Writers : drop[w] = {}
    BY DEF IInv, TypeOK
  <2>2. table \ Newest(table) = {}
    BY <2>1 DEF IInv, Charged
  <2>3. Newest(table) = table
    BY <2>2 DEF Newest
  <2> QED BY <2>1, <2>3, WindowBounds
<1> QED BY <1>1, Invariance, PTL

\* FeedTable implements Feed: what is read as the window of the table starts
\* empty and takes each post in one step, and no other step changes it.
THEOREM KeepsTheFeedHolds == Spec => KeepsTheFeed
<1>1. Init => F!Init
  BY DEF Init, F!Init, Newest
<1>2. IInv /\ [Next]_vars => [F!Next]_(Newest(table))
  <2> SUFFICES ASSUME IInv, [Next]_vars PROVE [F!Next]_(Newest(table))
    OBVIOUS
  <2>1. \/ \E p \in Posts : Newest(table') = Newest(Newest(table) \cup {p})
        \/ Newest(table') = Newest(table)
    BY StepRefines
  <2>2. Newest(table)' = Newest(table')
    BY DEF Newest, Newer
  <2> QED BY <2>1, <2>2 DEF F!Next, F!Post
<1> QED BY <1>1, <1>2, Invariance, PTL DEF Spec, KeepsTheFeed, F!Spec
=============================================================================
