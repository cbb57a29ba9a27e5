--------------------------- MODULE RegistryProofs ---------------------------
(***************************************************************************)
(* Who holds a name in a directory, for any nodes, entities, names, times, *)
(* registrations and faults. While claims on a name have not met at a node *)
(* there is one writer of it there at most, and what that writer read of   *)
(* the rows is still so; the invariant says this, and the two properties   *)
(* of the rows follow. Met or not, claims never leave a name that had a    *)
(* holder at a node without one.                                           *)
(***************************************************************************)
EXTENDS Registry, TLAPS

Claims == [did : Dids, at : 1..MaxAt, rivals : SUBSET Dids]

\* The writer w is about to write the name of d at n.
Writing(w, n, d) == w \in Writers /\ ~Idle(w) /\ NodeOf(w) = n /\ NameOf[claim[w].did] = NameOf[d]

Undisturbed(n, d) == <<n, NameOf[d]>> \notin crossed

\* Who writes a name that was not disturbed is alone in it.
Alone ==
  \A n \in Nodes, d \in Dids, v, w \in Writers :
    Undisturbed(n, d) /\ Writing(v, n, d) /\ Writing(w, n, d) => v = w

\* It is still to delete every row of another DID, none of them newer.
Knows ==
  \A n \in Nodes, d \in Dids, w \in Writers :
    Undisturbed(n, d) /\ Writing(w, n, d) =>
      /\ d # claim[w].did /\ dir[n][d] > 0 => d \in claim[w].rivals
      /\ d \in claim[w].rivals => d # claim[w].did /\ dir[n][d] <= claim[w].at

\* A claim deletes only rows of its own name.
OfItsName ==
  \A w \in Writers : \A e \in claim[w].rivals : ~Idle(w) /\ NameOf[e] = NameOf[claim[w].did]

IInv == TypeOK /\ OneHolder /\ Alone /\ Knows /\ OfItsName

-----------------------------------------------------------------------------
LEMMA NodeOfType == \A w \in Writers : NodeOf(w) \in Nodes
BY RegistryAssumption DEF NodeOf, Writers

LEMMA NoClaimIsNone == \A c \in Claims : c # NoClaim
<1> SUFFICES ASSUME NEW c \in Claims PROVE c # NoClaim
  OBVIOUS
<1>1. c.did \in Nat \ {0}
  BY RegistryAssumption DEF Claims
<1>2. NoClaim.did = 0
  BY DEF NoClaim
<1> QED BY <1>1, <1>2

LEMMA Initially == Init => IInv
<1> SUFFICES ASSUME Init PROVE IInv
  OBVIOUS
<1>1. TypeOK
  BY RegistryAssumption DEF Init, TypeOK
<1>2. \A n \in Nodes, d \in Dids : dir[n][d] = 0
  BY DEF Init
<1>3. OneHolder
  BY <1>2 DEF OneHolder
<1>4. \A w \in Writers : Idle(w) /\ claim[w].rivals = {}
  BY DEF Init, Idle, NoClaim
<1> QED BY <1>1, <1>3, <1>4 DEF IInv, Alone, Knows, OfItsName, Writing

LEMMA Announced ==
  ASSUME TypeOK, NEW n \in Nodes, NEW to, NEW facts \in SUBSET Facts,
         Announce(n, to, facts)
  PROVE  mail' \in [Nodes -> SUBSET Facts]
BY DEF Announce, TypeOK

LEMMA OwnType == ASSUME TypeOK, NEW n \in Nodes PROVE Own(n) \in SUBSET Facts
<1> SUFFICES ASSUME NEW d \in Dids, local[d] > 0 PROVE [did |-> d, at |-> local[d]] \in Facts
  BY DEF Own
<1>1. local[d] \in 1..MaxAt
  BY RegistryAssumption DEF TypeOK
<1> QED BY <1>1 DEF Facts

-----------------------------------------------------------------------------
(* Reading the table.                                                      *)

LEMMA ReadKeeps ==
  ASSUME IInv, NEW w \in Writers, NEW d \in Dids, NEW at \in 1..MaxAt,
         Idle(w), ~Stands(w, d, at), Read(w, d, at), UNCHANGED dir
  PROVE  /\ claim' \in [Writers -> Claims \cup {NoClaim}]
         /\ crossed' \subseteq Nodes \X {NameOf[e] : e \in Dids}
         /\ OneHolder' /\ Alone' /\ Knows' /\ OfItsName'
<1> DEFINE n == NodeOf(w)
           c == [did |-> d, at |-> at, rivals |-> Rivals(n, d)]
<1>0. n \in Nodes /\ c \in Claims /\ c # NoClaim
  BY NodeOfType, NoClaimIsNone DEF Claims, Rivals
<1>1. claim \in [Writers -> Claims \cup {NoClaim}] /\ crossed \subseteq Nodes \X {NameOf[e] : e \in Dids}
  BY DEF IInv, TypeOK, Claims
<1>2. claim' = [claim EXCEPT ![w] = c]
  BY DEF Read
<1>3. claim'[w] = c /\ \A v \in Writers \ {w} : claim'[v] = claim[v]
  BY <1>1, <1>2
<1>4. claim' \in [Writers -> Claims \cup {NoClaim}]
  BY <1>0, <1>1, <1>2
<1>5. crossed' \subseteq Nodes \X {NameOf[e] : e \in Dids}
  BY <1>0, <1>1 DEF Read
<1>6. crossed \subseteq crossed'
  BY DEF Read
<1>7. OneHolder'
  BY <1>6 DEF IInv, OneHolder
<1>8. Alone'
  <2> SUFFICES ASSUME NEW m \in Nodes, NEW e \in Dids, NEW u \in Writers, NEW v \in Writers,
                      Undisturbed(m, e)', Writing(u, m, e)', Writing(v, m, e)', u # v
               PROVE  FALSE
    BY DEF Alone
  <2>1. Undisturbed(m, e)
    BY <1>6 DEF Undisturbed
  <2>2. \A x \in Writers \ {w} : Writing(x, m, e)' => Writing(x, m, e)
    BY <1>3 DEF Writing, Idle
  <2>3. CASE u # w /\ v # w
    BY <2>1, <2>2, <2>3 DEF IInv, Alone
  <2>4. ASSUME NEW x \in Writers \ {w}, Writing(x, m, e)', Writing(w, m, e)' PROVE FALSE
    <3>1. m = n /\ NameOf[e] = NameOf[d]
      BY <1>3, <2>4 DEF Writing
    <3>2. Writing(x, m, e)
      BY <2>2, <2>4
    <3>3. Meets(w, d)
      BY <3>1, <3>2 DEF Meets, Writing
    <3>4. <<m, NameOf[e]>> \in crossed'
      BY <3>1, <3>3 DEF Read
    <3> QED BY <3>4 DEF Undisturbed
  <2> QED BY <2>3, <2>4
<1>9. Knows'
  <2> SUFFICES ASSUME NEW m \in Nodes, NEW e \in Dids, NEW v \in Writers,
                      Undisturbed(m, e)', Writing(v, m, e)'
               PROVE  /\ e # claim'[v].did /\ dir[m][e] > 0 => e \in claim'[v].rivals
                      /\ e \in claim'[v].rivals => e # claim'[v].did /\ dir[m][e] <= claim'[v].at
    BY DEF Knows
  <2>1. Undisturbed(m, e)
    BY <1>6 DEF Undisturbed
  <2>2. CASE v # w
    <3>1. Writing(v, m, e) /\ claim'[v] = claim[v]
      BY <1>3, <2>2 DEF Writing, Idle
    <3> QED BY <2>1, <3>1 DEF IInv, Knows
  <2>3. CASE v = w
    <3>1. m = n /\ NameOf[e] = NameOf[d] /\ claim'[v].did = d /\ claim'[v].at = at
          /\ claim'[v].rivals = Rivals(n, d)
      BY <1>3, <2>3 DEF Writing
    <3>2. e \in Rivals(n, d) <=> e # d /\ dir[n][e] > 0
      BY <3>1 DEF Rivals
    <3>3. e \in Rivals(n, d) => ~(dir[n][e] > at)
      BY DEF Stands
    <3>4. dir[n][e] \in Int /\ at \in Int
      BY <1>0 DEF IInv, TypeOK
    <3> QED BY <3>1, <3>2, <3>3, <3>4
  <2> QED BY <2>2, <2>3
<1>10. OfItsName'
  <2>1. \A e \in c.rivals : NameOf[e] = NameOf[c.did]
    BY DEF Rivals
  <2>2. \A v \in Writers \ {w} : Idle(v)' <=> Idle(v)
    BY <1>3 DEF Idle
  <2>3. ~Idle(w)'
    BY <1>0, <1>3 DEF Idle
  <2> QED BY <1>3, <2>1, <2>2, <2>3 DEF IInv, OfItsName
<1> QED BY <1>4, <1>5, <1>7, <1>8, <1>9, <1>10

-----------------------------------------------------------------------------
(* Deleting a rival.                                                       *)

LEMMA DropKeeps == ASSUME IInv, NEW w \in Writers, Drop(w) PROVE IInv'
<1> DEFINE n == NodeOf(w)
<1>0. PICK e \in claim[w].rivals : /\ dir' = [dir EXCEPT ![n][e] = 0]
                                  /\ claim' = [claim EXCEPT ![w].rivals = @ \ {e}]
  BY DEF Drop
<1>1. TypeOK /\ n \in Nodes /\ ~Idle(w)
  BY NodeOfType DEF IInv, OfItsName
<1>2. claim[w] \in Claims /\ claim \in [Writers -> Claims \cup {NoClaim}]
  BY <1>1 DEF TypeOK, Claims, Idle
<1>3. e \in Dids /\ claim[w].rivals \in SUBSET Dids
  BY <1>2 DEF Claims
<1>4. /\ claim'[w] = [claim[w] EXCEPT !.rivals = @ \ {e}]
      /\ \A v \in Writers \ {w} : claim'[v] = claim[v]
  BY <1>0, <1>2
<1>5. /\ claim'[w].did = claim[w].did /\ claim'[w].at = claim[w].at
      /\ claim'[w].rivals = claim[w].rivals \ {e} /\ claim'[w] \in Claims
  BY <1>2, <1>4 DEF Claims
<1>6. claim' \in [Writers -> Claims \cup {NoClaim}]
  BY <1>0, <1>2, <1>4, <1>5
<1>7. /\ dir' \in [Nodes -> [Dids -> 0..MaxAt]] /\ dir'[n][e] = 0
      /\ \A m \in Nodes, d \in Dids : m # n \/ d # e => dir'[m][d] = dir[m][d]
  BY <1>0, <1>1, <1>3, RegistryAssumption DEF TypeOK
<1>8. TypeOK'
  BY <1>1, <1>6, <1>7 DEF TypeOK, Drop, Claims, history
<1>9. UNCHANGED crossed /\ \A v \in Writers : Idle(v)' <=> Idle(v)
  <2>1. ~Idle(w)'
    BY <1>5, NoClaimIsNone DEF Idle
  <2> QED BY <1>1, <1>4, <2>1 DEF Drop, Idle, history
<1>10. \A v \in Writers, m \in Nodes, d \in Dids :
         /\ Writing(v, m, d)' <=> Writing(v, m, d)
         /\ Undisturbed(m, d)' <=> Undisturbed(m, d)
  BY <1>4, <1>5, <1>9 DEF Writing, Undisturbed
<1>11. \A m \in Nodes, d \in Dids : dir'[m][d] > 0 => (m # n \/ d # e) /\ dir[m][d] > 0
  <2>1. ~(dir'[n][e] > 0)
    BY <1>7
  <2> QED BY <1>7, <2>1
<1>12. OneHolder'
  BY <1>9, <1>11 DEF IInv, OneHolder
<1>13. Alone'
  BY <1>10 DEF IInv, Alone
<1>14. Knows'
  <2> SUFFICES ASSUME NEW m \in Nodes, NEW d \in Dids, NEW v \in Writers,
                      Undisturbed(m, d), Writing(v, m, d)
               PROVE  /\ d # claim'[v].did /\ dir'[m][d] > 0 => d \in claim'[v].rivals
                      /\ d \in claim'[v].rivals => d # claim'[v].did /\ dir'[m][d] <= claim'[v].at
    BY <1>10 DEF Knows
  <2>1. /\ d # claim[v].did /\ dir[m][d] > 0 => d \in claim[v].rivals
        /\ d \in claim[v].rivals => d # claim[v].did /\ dir[m][d] <= claim[v].at
    BY DEF IInv, Knows
  <2>2. claim'[v].did = claim[v].did /\ claim'[v].at = claim[v].at
        /\ claim'[v].rivals \subseteq claim[v].rivals
    BY <1>4, <1>5
  <2>3. CASE m = n /\ d = e
    <3>1. v = w
      <4>1. Writing(w, m, d)
        BY <1>1, <1>3, <2>3 DEF IInv, OfItsName, Writing
      <4> QED BY <4>1 DEF IInv, Alone
    <3> QED BY <1>5, <1>11, <2>3, <3>1
  <2>4. CASE m # n \/ d # e
    <3>1. dir'[m][d] = dir[m][d]
      BY <1>7, <2>4
    <3>2. d \in claim[v].rivals => d \in claim'[v].rivals
      BY <1>4, <1>5, <2>4 DEF Writing
    <3> QED BY <2>1, <2>2, <3>1, <3>2
  <2> QED BY <2>3, <2>4
<1>15. OfItsName'
  <2> SUFFICES ASSUME NEW v \in Writers, NEW d \in claim'[v].rivals
               PROVE  ~Idle(v)' /\ NameOf[d] = NameOf[claim'[v].did]
    BY DEF OfItsName
  <2>1. d \in claim[v].rivals /\ claim'[v].did = claim[v].did
    BY <1>4, <1>5
  <2>2. ~Idle(v) /\ NameOf[d] = NameOf[claim[v].did]
    BY <2>1 DEF IInv, OfItsName
  <2> QED BY <1>9, <2>1, <2>2
<1> QED BY <1>8, <1>12, <1>13, <1>14, <1>15 DEF IInv

-----------------------------------------------------------------------------
(* Writing the row.                                                        *)

LEMMA InsertKeeps == ASSUME IInv, NEW w \in Writers, Insert(w) PROVE IInv'
<1> DEFINE n == NodeOf(w)
           c == claim[w]
<1>1. TypeOK /\ n \in Nodes /\ ~Idle(w) /\ c.rivals = {}
  BY NodeOfType DEF IInv, Insert
<1>2. c \in Claims /\ claim \in [Writers -> Claims \cup {NoClaim}]
  BY <1>1 DEF TypeOK, Claims, Idle
<1>3. c.did \in Dids /\ c.at \in 1..MaxAt
  BY <1>2 DEF Claims
<1>4. /\ dir' = [dir EXCEPT ![n][c.did] = c.at] /\ claim' = [claim EXCEPT ![w] = NoClaim]
      /\ aged' = IF dir[n][c.did] > c.at THEN aged \cup {<<n, NameOf[c.did]>>} ELSE aged
      /\ UNCHANGED <<local, subscribed, claims, faults, crossed>>
  BY DEF Insert
<1>5. mail' \in [Nodes -> SUBSET Facts]
  <2>1. [did |-> c.did, at |-> c.at] \in Facts
    BY <1>3 DEF Facts
  <2>2. CASE UNCHANGED mail
    BY <1>1, <2>2 DEF TypeOK
  <2>3. CASE Announce(n, subscribed, {[did |-> c.did, at |-> c.at]})
    BY <1>1, <2>1, <2>3, Announced
  <2> QED BY <2>2, <2>3 DEF Insert
<1>6. claim'[w] = NoClaim /\ \A v \in Writers \ {w} : claim'[v] = claim[v]
  BY <1>2, <1>4
<1>7. claim' \in [Writers -> Claims \cup {NoClaim}]
  BY <1>2, <1>4
<1>8. /\ dir' \in [Nodes -> [Dids -> 0..MaxAt]]
      /\ \A m \in Nodes, d \in Dids : m # n \/ d # c.did => dir'[m][d] = dir[m][d]
  BY <1>1, <1>3, <1>4, RegistryAssumption DEF TypeOK
<1>9. TypeOK'
  BY <1>1, <1>3, <1>4, <1>5, <1>7, <1>8 DEF TypeOK, Claims
<1>10. \A m \in Nodes, d \in Dids : Undisturbed(m, d)' => Undisturbed(m, d)
  BY <1>4 DEF Undisturbed
<1>11. \A v \in Writers, m \in Nodes, d \in Dids :
         Writing(v, m, d)' => v # w /\ Writing(v, m, d) /\ claim'[v] = claim[v]
  BY <1>6 DEF Writing, Idle
\* While the name is undisturbed there is no row of another DID.
<1>12. \A d \in Dids :
         Undisturbed(n, d) /\ NameOf[d] = NameOf[c.did] /\ d # c.did => ~(dir[n][d] > 0)
  BY <1>1, <1>3 DEF IInv, Knows, Writing
<1>13. OneHolder'
  <2> SUFFICES ASSUME NEW m \in Nodes, NEW d \in Dids, NEW e \in Dids, d # e,
                      NameOf[d] = NameOf[e], dir'[m][d] > 0, dir'[m][e] > 0, Undisturbed(m, d)'
               PROVE  FALSE
    BY DEF OneHolder, Undisturbed
  <2>1. Undisturbed(m, d) /\ Undisturbed(m, e)
    BY <1>10 DEF Undisturbed
  <2>2. CASE m = n /\ d = c.did
    BY <1>8, <1>12, <2>1, <2>2
  <2>3. CASE m = n /\ e = c.did
    BY <1>8, <1>12, <2>1, <2>3
  <2>4. CASE m # n \/ (d # c.did /\ e # c.did)
    BY <1>8, <2>1, <2>4 DEF IInv, OneHolder, Undisturbed
  <2> QED BY <2>2, <2>3, <2>4
<1>14. Alone'
  BY <1>10, <1>11 DEF IInv, Alone
<1>15. Knows'
  <2> SUFFICES ASSUME NEW m \in Nodes, NEW d \in Dids, NEW v \in Writers,
                      Undisturbed(m, d)', Writing(v, m, d)'
               PROVE  /\ d # claim'[v].did /\ dir'[m][d] > 0 => d \in claim'[v].rivals
                      /\ d \in claim'[v].rivals => d # claim'[v].did /\ dir'[m][d] <= claim'[v].at
    BY DEF Knows
  <2>1. Undisturbed(m, d) /\ Writing(v, m, d) /\ claim'[v] = claim[v] /\ v # w
    BY <1>10, <1>11
  <2>2. CASE m = n /\ d = c.did
    <3>1. Writing(w, m, d)
      BY <1>1, <2>2 DEF Writing
    <3> QED BY <2>1, <3>1 DEF IInv, Alone
  <2>3. CASE m # n \/ d # c.did
    BY <1>8, <2>1, <2>3 DEF IInv, Knows
  <2> QED BY <2>2, <2>3
<1>16. OfItsName'
  BY <1>6 DEF IInv, OfItsName, Idle, NoClaim
<1> QED BY <1>9, <1>13, <1>14, <1>15, <1>16 DEF IInv

-----------------------------------------------------------------------------
(* The other steps.                                                        *)

\* Steps that leave the directory and the claims alone.
LEMMA ElsewhereKeeps ==
  ASSUME IInv, UNCHANGED <<dir, claim, crossed>>, TypeOK' PROVE IInv'
BY DEF IInv, OneHolder, Alone, Knows, OfItsName, Writing, Undisturbed, Idle

LEMMA RegisterKeeps == ASSUME IInv, NEW d \in Dids, Register(d) PROVE IInv'
<1>0. claims' \in 1..MaxClaims
  BY RegistryAssumption DEF IInv, TypeOK, Register
<1>1. PICK at \in 1..MaxAt :
        /\ local' = [local EXCEPT ![d] = at]
        /\ \/ /\ Stands(d, d, at) /\ Announce(HomeOf[d], subscribed, {[did |-> d, at |-> at]})
              /\ UNCHANGED <<claim, crossed>>
           \/ ~Stands(d, d, at) /\ Read(d, d, at) /\ UNCHANGED mail
  BY <1>0, RegistryAssumption DEF Register
<1>2. TypeOK /\ d \in Writers /\ Idle(d) /\ UNCHANGED <<dir, subscribed, faults, aged>>
  BY DEF IInv, Writers, Register
<1>3. /\ local' \in [Dids -> 0..MaxAt] /\ dir' \in [Nodes -> [Dids -> 0..MaxAt]]
      /\ subscribed' \subseteq Nodes /\ faults' \in 0..MaxFaults
  BY <1>1, <1>2, RegistryAssumption DEF TypeOK
<1>4. claims' \in 0..MaxClaims
  BY <1>2, RegistryAssumption DEF TypeOK, Register
<1>5. CASE Announce(HomeOf[d], subscribed, {[did |-> d, at |-> at]}) /\ UNCHANGED <<claim, crossed>>
  <2>1. mail' \in [Nodes -> SUBSET Facts]
    <3>1. {[did |-> d, at |-> at]} \in SUBSET Facts /\ HomeOf[d] \in Nodes
      BY RegistryAssumption DEF Facts
    <3> QED BY <1>2, <1>5, <3>1, Announced
  <2>2. TypeOK'
    BY <1>2, <1>3, <1>4, <1>5, <2>1 DEF TypeOK
  <2> QED BY <1>2, <1>5, <2>2, ElsewhereKeeps
<1>6. CASE ~Stands(d, d, at) /\ Read(d, d, at) /\ UNCHANGED mail
  <2>1. /\ claim' \in [Writers -> Claims \cup {NoClaim}]
        /\ crossed' \subseteq Nodes \X {NameOf[e] : e \in Dids}
        /\ OneHolder' /\ Alone' /\ Knows' /\ OfItsName'
    BY <1>2, <1>6, ReadKeeps
  <2>2. TypeOK'
    BY <1>2, <1>3, <1>4, <1>6, <2>1 DEF TypeOK, Claims
  <2> QED BY <2>1, <2>2 DEF IInv
<1> QED BY <1>1, <1>5, <1>6

LEMMA HearKeeps == ASSUME IInv, NEW n \in Nodes, NEW d \in Dids, Hear(n, d) PROVE IInv'
<1>1. PICK f \in mail[n] :
        /\ mail' = [mail EXCEPT ![n] = @ \ {f}]
        /\ \/ UNCHANGED <<claim, crossed>>
           \/ ~Stands(n, f.did, f.at) /\ Read(n, f.did, f.at)
  BY DEF Hear
<1>2. TypeOK /\ n \in Writers /\ Idle(n) /\ UNCHANGED <<local, dir, subscribed, claims, faults, aged>>
  BY DEF IInv, Writers, Hear
<1>3. f.did \in Dids /\ f.at \in 1..MaxAt /\ mail' \in [Nodes -> SUBSET Facts]
  BY <1>1, <1>2 DEF TypeOK, Facts
<1>4. CASE UNCHANGED <<claim, crossed>>
  <2>1. TypeOK'
    BY <1>2, <1>3, <1>4 DEF TypeOK
  <2> QED BY <1>2, <1>4, <2>1, ElsewhereKeeps
<1>5. CASE ~Stands(n, f.did, f.at) /\ Read(n, f.did, f.at)
  <2>1. /\ claim' \in [Writers -> Claims \cup {NoClaim}]
        /\ crossed' \subseteq Nodes \X {NameOf[e] : e \in Dids}
        /\ OneHolder' /\ Alone' /\ Knows' /\ OfItsName'
    BY <1>2, <1>3, <1>5, ReadKeeps
  <2>2. TypeOK'
    BY <1>2, <1>3, <2>1 DEF TypeOK, Claims
  <2> QED BY <2>1, <2>2 DEF IInv
<1> QED BY <1>1, <1>4, <1>5

LEMMA SaidKeeps ==
  ASSUME IInv, NEW n \in Nodes, Subscribe(n) \/ Reannounce(n) PROVE IInv'
<1>1. /\ TypeOK /\ UNCHANGED <<local, dir, claim, claims, faults, history>>
      /\ Announce(n, subscribed', Own(n))
  BY DEF IInv, Subscribe, Reannounce
<1>2. mail' \in [Nodes -> SUBSET Facts] /\ subscribed' \subseteq Nodes
  BY <1>1, OwnType, Announced DEF TypeOK, Subscribe, Reannounce
<1>3. TypeOK'
  BY <1>1, <1>2 DEF TypeOK, history
<1> QED BY <1>1, <1>3, ElsewhereKeeps DEF history

LEMMA FaultType == ASSUME TypeOK, Fault PROVE faults' \in 0..MaxFaults
BY RegistryAssumption DEF TypeOK, Fault

LEMMA LostKeeps == ASSUME IInv, NEW n \in Nodes, Gone(n) \/ Lost(n) PROVE IInv'
<1>1. TypeOK /\ faults' \in 0..MaxFaults /\ UNCHANGED <<local, dir, claim, claims, history>>
  BY FaultType DEF IInv, Gone, Lost
<1>2. mail' \in [Nodes -> SUBSET Facts] /\ subscribed' \subseteq Nodes
  BY <1>1 DEF TypeOK, Gone, Lost
<1>3. TypeOK'
  BY <1>1, <1>2 DEF TypeOK, history
<1> QED BY <1>1, <1>3, ElsewhereKeeps DEF history

\* The node has neither rows nor claims then, so it starts undisturbed.
LEMMA RestartKeeps == ASSUME IInv, NEW n \in Nodes, Restart(n) PROVE IInv'
<1>1. TypeOK /\ faults' \in 0..MaxFaults /\ claims' = claims
  BY FaultType DEF IInv, Restart
<1>2. claim \in [Writers -> Claims \cup {NoClaim}]
  BY <1>1 DEF TypeOK, Claims
<1>3. claim' = [w \in Writers |-> IF NodeOf(w) = n THEN NoClaim ELSE claim[w]]
  BY DEF Restart
<1>4. claim' \in [Writers -> Claims \cup {NoClaim}]
  BY <1>2, <1>3
<1>5. /\ dir' = [dir EXCEPT ![n] = [d \in Dids |-> 0]]
      /\ mail' = [mail EXCEPT ![n] = {}] /\ subscribed' = subscribed \ {n}
      /\ crossed' = {s \in crossed : s[1] # n} /\ aged' = {s \in aged : s[1] # n}
      /\ local' = [d \in Dids |-> IF HomeOf[d] = n THEN 0 ELSE local[d]]
  BY DEF Restart
<1>6. dir' \in [Nodes -> [Dids -> 0..MaxAt]]
  BY <1>1, <1>5, RegistryAssumption DEF TypeOK
<1>7. local' \in [Dids -> 0..MaxAt]
  BY <1>1, <1>5, RegistryAssumption DEF TypeOK
<1>8. TypeOK'
  BY <1>1, <1>4, <1>5, <1>6, <1>7 DEF TypeOK, Claims
<1>9. \A d \in Dids : ~(dir'[n][d] > 0)
  BY <1>1, <1>5 DEF TypeOK
<1>10. \A m \in Nodes \ {n}, d \in Dids :
         dir'[m][d] = dir[m][d] /\ (Undisturbed(m, d)' => Undisturbed(m, d))
  BY <1>1, <1>5 DEF TypeOK, Undisturbed
<1>11. \A v \in Writers, m \in Nodes, d \in Dids :
         Writing(v, m, d)' => m # n /\ Writing(v, m, d) /\ claim'[v] = claim[v]
  BY <1>3 DEF Writing, Idle
<1>12. OneHolder'
  BY <1>9, <1>10 DEF IInv, OneHolder, Undisturbed
<1>13. Alone'
  BY <1>10, <1>11 DEF IInv, Alone
<1>14. Knows'
  BY <1>10, <1>11 DEF IInv, Knows
<1>15. OfItsName'
  BY <1>3 DEF IInv, OfItsName, Idle, NoClaim
<1> QED BY <1>8, <1>12, <1>13, <1>14, <1>15 DEF IInv

-----------------------------------------------------------------------------
LEMMA NextKeeps == IInv /\ [Next]_vars => IInv'
<1> SUFFICES ASSUME IInv, [Next]_vars PROVE IInv'
  OBVIOUS
<1>1. ASSUME NEW w \in Writers, Upsert(w) PROVE IInv'
  BY <1>1, DropKeeps, InsertKeeps DEF Upsert
<1>2. ASSUME NEW d \in Dids, Register(d) PROVE IInv'
  BY <1>2, RegisterKeeps
<1>3. ASSUME NEW n \in Nodes, Subscribe(n) \/ Reannounce(n) PROVE IInv'
  BY <1>3, SaidKeeps
<1>4. ASSUME NEW n \in Nodes, NEW d \in Dids, Hear(n, d) PROVE IInv'
  BY <1>4, HearKeeps
<1>5. ASSUME NEW n \in Nodes, Gone(n) \/ Lost(n) PROVE IInv'
  BY <1>5, LostKeeps
<1>6. ASSUME NEW n \in Nodes, Restart(n) PROVE IInv'
  BY <1>6, RestartKeeps
<1>7. CASE UNCHANGED vars
  <2>1. TypeOK'
    BY <1>7 DEF IInv, TypeOK, vars
  <2> QED BY <1>7, <2>1, ElsewhereKeeps DEF vars
<1> QED BY <1>1, <1>2, <1>3, <1>4, <1>5, <1>6, <1>7 DEF Next

\* The invariant behind the properties holds in every state.
THEOREM Invariance == Spec => []IInv
BY Initially, NextKeeps, PTL DEF Spec

\* Every variable keeps its type (the tables, mailboxes and claims of
\* hecate_spartan_mesh_entities, federation_registry and maybe_register_entity).
THEOREM TypeCorrect == Spec => []TypeOK
BY Invariance, PTL DEF IInv

\* A name has one row in a directory unless two claims on it met there
\* (supersede and do_supersede, hecate_spartan_mesh_entities).
THEOREM OneHolderHolds == Spec => []OneHolder
BY Invariance, PTL DEF IInv

\* Only a drop takes a row, short of a restart.
LEMMA OnlyDropsTake ==
  ASSUME IInv, Next, NEW n \in Nodes, NEW d \in Dids,
         dir[n][d] > 0, dir'[n][d] = 0, faults' = faults
  PROVE  \E w \in Writers : NodeOf(w) = n /\ d \in claim[w].rivals
<1>1. TypeOK
  BY DEF IInv
<1>2. ASSUME NEW w \in Writers, Drop(w)
      PROVE  \E v \in Writers : NodeOf(v) = n /\ d \in claim[v].rivals
  <2>1. PICK e \in claim[w].rivals : dir' = [dir EXCEPT ![NodeOf(w)][e] = 0]
    BY <1>2 DEF Drop
  <2>2. NodeOf(w) = n /\ e = d
    <3>1. NodeOf(w) # n \/ e # d => dir'[n][d] = dir[n][d]
      BY <1>1, <2>1, NodeOfType DEF TypeOK
    <3> QED BY <3>1
  <2> QED BY <2>1, <2>2
<1>3. ASSUME NEW w \in Writers, Insert(w) PROVE FALSE
  <2>1. claim[w].at \in 1..MaxAt /\ NodeOf(w) \in Nodes
    BY <1>1, <1>3, NodeOfType DEF TypeOK, Insert, Idle
  <2>2. dir' = [dir EXCEPT ![NodeOf(w)][claim[w].did] = claim[w].at]
    BY <1>3 DEF Insert
  <2>3. dir'[n][d] = dir[n][d] \/ dir'[n][d] = claim[w].at
    BY <1>1, <2>1, <2>2 DEF TypeOK
  <2> QED BY <2>1, <2>3
<1>4. ASSUME UNCHANGED dir PROVE FALSE
  BY <1>4
<1>5. ASSUME Fault PROVE FALSE
  BY <1>1, <1>5 DEF Fault, TypeOK
<1> QED BY <1>2, <1>3, <1>4, <1>5
      DEF Next, Upsert, Register, Subscribe, Reannounce, Hear, Gone, Lost, Restart

\* Short of a restart and of claims that met, a row goes only for a claim on its
\* name that is not older (supersede, hecate_spartan_mesh_entities).
THEOREM NewerUnseats == Spec => UnseatedByNewer
<1> DEFINE A == \A n \in Nodes, d \in Dids :
                  dir[n][d] > 0 /\ dir'[n][d] = 0 /\ faults' = faults /\ Undisturbed(n, d) =>
                    \E w \in Writers : /\ NodeOf(w) = n /\ d \in claim[w].rivals
                                       /\ claim[w].at >= dir[n][d]
<1>1. ASSUME IInv, Next PROVE A
  <2> SUFFICES ASSUME NEW n \in Nodes, NEW d \in Dids, dir[n][d] > 0, dir'[n][d] = 0,
                      faults' = faults, Undisturbed(n, d)
               PROVE  \E w \in Writers : /\ NodeOf(w) = n /\ d \in claim[w].rivals
                                         /\ claim[w].at >= dir[n][d]
    OBVIOUS
  <2>1. PICK w \in Writers : NodeOf(w) = n /\ d \in claim[w].rivals
    BY <1>1, OnlyDropsTake
  <2>2. Writing(w, n, d)
    BY <1>1, <2>1 DEF IInv, OfItsName, Writing
  <2>3. dir[n][d] <= claim[w].at
    BY <1>1, <2>1, <2>2 DEF IInv, Knows
  <2>4. claim[w].at \in Int /\ dir[n][d] \in Int
    BY <1>1, <2>2 DEF IInv, TypeOK, Writing, Idle
  <2> QED BY <2>1, <2>3, <2>4
<1>2. ASSUME IInv, [Next]_vars PROVE [A]_vars
  BY <1>1, <1>2
<1> QED BY <1>2, Invariance, PTL DEF Spec, UnseatedByNewer, Undisturbed

-----------------------------------------------------------------------------
(* A row is deleted only for a claim that is yet to insert its own; so no  *)
(* order in which claims are worked off leaves without a row a name that   *)
(* had one, and no claim on it underway.                                   *)

\* At n a row holds the name of d, or a claim is about to.
Held(n, d) ==
  \/ \E e \in Dids : NameOf[e] = NameOf[d] /\ dir[n][e] > 0
  \/ \E w \in Writers : Writing(w, n, d)

\* Who is registered at its home has its name held there, by itself or by another.
HeldAtHome == \A d \in Dids : local[d] > 0 => Held(HomeOf[d], d)

\* Only a restart of the node ends it.
StaysHeld == [][\A n \in Nodes, d \in Dids : Held(n, d) => Held(n, d)' \/ Restart(n)]_vars

LEMMA HeldStays ==
  ASSUME IInv, Next, NEW n \in Nodes, ~Restart(n), NEW d \in Dids, Held(n, d)
  PROVE  Held(n, d)'
<1>1. TypeOK
  BY DEF IInv
\* A row that goes leaves the claim it goes for.
<1>2. ASSUME NEW w \in Writers, Drop(w) PROVE Held(n, d)'
  <2>1. PICK e \in claim[w].rivals : /\ dir' = [dir EXCEPT ![NodeOf(w)][e] = 0]
                                    /\ claim' = [claim EXCEPT ![w].rivals = @ \ {e}]
    BY <1>2 DEF Drop
  <2>2. ~Idle(w) /\ NameOf[e] = NameOf[claim[w].did]
    BY <2>1 DEF IInv, OfItsName
  <2>3. claim[w] \in Claims /\ claim \in [Writers -> Claims \cup {NoClaim}]
    BY <1>1, <2>2 DEF TypeOK, Claims, Idle
  <2>4. /\ claim'[w].did = claim[w].did /\ claim'[w] \in Claims
        /\ \A v \in Writers \ {w} : claim'[v] = claim[v]
    BY <2>1, <2>3 DEF Claims
  <2>5. \A v \in Writers : Writing(v, n, d) => Writing(v, n, d)'
    BY <2>4, NoClaimIsNone DEF Writing, Idle
  <2>6. ASSUME NEW x \in Dids, NameOf[x] = NameOf[d], dir[n][x] > 0 PROVE Held(n, d)'
    <3>1. CASE n = NodeOf(w) /\ x = e
      <4>1. Writing(w, n, d)
        BY <2>2, <2>6, <3>1 DEF Writing
      <4> QED BY <2>5, <4>1 DEF Held
    <3>2. CASE n # NodeOf(w) \/ x # e
      <4>1. dir'[n][x] = dir[n][x]
        BY <1>1, <2>1, <3>2, NodeOfType DEF TypeOK
      <4> QED BY <2>6, <4>1 DEF Held
    <3> QED BY <3>1, <3>2
  <2> QED BY <2>5, <2>6 DEF Held
\* A claim that goes leaves its row.
<1>3. ASSUME NEW w \in Writers, Insert(w) PROVE Held(n, d)'
  <2>1. /\ claim[w].did \in Dids /\ claim[w].at \in 1..MaxAt /\ NodeOf(w) \in Nodes
        /\ claim \in [Writers -> Claims \cup {NoClaim}]
    BY <1>1, <1>3, NodeOfType DEF TypeOK, Insert, Idle, Claims
  <2>2. /\ dir' = [dir EXCEPT ![NodeOf(w)][claim[w].did] = claim[w].at]
        /\ claim' = [claim EXCEPT ![w] = NoClaim]
    BY <1>3 DEF Insert
  <2>3. dir'[NodeOf(w)][claim[w].did] > 0
    BY <1>1, <2>1, <2>2 DEF TypeOK
  <2>4. \A x \in Dids : dir[n][x] > 0 => dir'[n][x] > 0
    <3> SUFFICES ASSUME NEW x \in Dids, dir[n][x] > 0 PROVE dir'[n][x] > 0
      OBVIOUS
    <3>1. n # NodeOf(w) \/ x # claim[w].did => dir'[n][x] = dir[n][x]
      BY <1>1, <2>1, <2>2 DEF TypeOK
    <3> QED BY <2>3, <3>1
  <2>5. ASSUME NEW v \in Writers, Writing(v, n, d) PROVE Held(n, d)'
    <3>1. CASE v = w
      BY <2>1, <2>3, <2>5, <3>1 DEF Writing, Held
    <3>2. CASE v # w
      <4>1. claim'[v] = claim[v]
        BY <2>1, <2>2, <3>2
      <4> QED BY <2>5, <4>1 DEF Writing, Idle, Held
    <3> QED BY <3>1, <3>2
  <2> QED BY <2>4, <2>5 DEF Held
<1>4. ASSUME NEW w \in Writers, Idle(w), UNCHANGED dir,
             UNCHANGED claim \/ \E x \in Dids, at \in 1..MaxAt : Read(w, x, at)
      PROVE  Held(n, d)'
  <2>1. \A v \in Writers \ {w} : claim'[v] = claim[v]
    BY <1>1, <1>4 DEF Read, TypeOK
  <2>2. \A v \in Writers : Writing(v, n, d) => Writing(v, n, d)'
    BY <1>4, <2>1 DEF Writing, Idle
  <2> QED BY <1>4, <2>2 DEF Held
<1>5. ASSUME NEW x \in Dids, Register(x) PROVE Held(n, d)'
  <2>1. claims' \in 1..MaxClaims
    BY <1>1, <1>5, RegistryAssumption DEF TypeOK, Register
  <2>2. PICK at \in 1..MaxAt : UNCHANGED claim \/ Read(x, x, at)
    BY <1>5, <2>1, RegistryAssumption DEF Register
  <2> QED BY <1>4, <1>5, <2>2 DEF Register, Writers
<1>6. ASSUME NEW m \in Nodes, NEW x \in Dids, Hear(m, x) PROVE Held(n, d)'
  <2>1. PICK f \in mail[m] : UNCHANGED claim \/ Read(m, f.did, f.at)
    BY <1>6 DEF Hear
  <2>2. f.did \in Dids /\ f.at \in 1..MaxAt
    BY <1>1, <2>1 DEF TypeOK, Facts
  <2> QED BY <1>4, <1>6, <2>1, <2>2 DEF Hear, Writers
<1>7. ASSUME UNCHANGED <<dir, claim>> PROVE Held(n, d)'
  BY <1>7 DEF Held, Writing, Idle
<1>8. ASSUME NEW m \in Nodes \ {n}, Restart(m) PROVE Held(n, d)'
  <2>1. /\ dir' = [dir EXCEPT ![m] = [x \in Dids |-> 0]]
        /\ claim' = [w \in Writers |-> IF NodeOf(w) = m THEN NoClaim ELSE claim[w]]
    BY <1>8 DEF Restart
  <2>2. dir'[n] = dir[n]
    BY <1>1, <1>8, <2>1 DEF TypeOK
  <2>3. \A v \in Writers : Writing(v, n, d) => Writing(v, n, d)'
    BY <1>8, <2>1 DEF Writing, Idle
  <2> QED BY <2>2, <2>3 DEF Held
<1> QED BY <1>2, <1>3, <1>5, <1>6, <1>7, <1>8
      DEF Next, Upsert, Subscribe, Reannounce, Gone, Lost

\* A registration that gives way finds the newer row there; one that does not is
\* itself underway.
LEMMA HeldOnceRegistered ==
  ASSUME IInv, NEW d \in Dids, Register(d) PROVE Held(HomeOf[d], d)'
<1>1. TypeOK /\ d \in Writers /\ NodeOf(d) = HomeOf[d] /\ UNCHANGED dir
  BY RegistryAssumption DEF IInv, Register, Writers, NodeOf
<1>2. claims' \in 1..MaxClaims
  BY <1>1, RegistryAssumption DEF TypeOK, Register
<1>3. PICK at \in 1..MaxAt : Stands(d, d, at) \/ Read(d, d, at)
  BY <1>2, RegistryAssumption DEF Register
<1>4. CASE Stands(d, d, at)
  BY <1>1, <1>4 DEF Stands, Rivals, Held
<1>5. CASE Read(d, d, at)
  <2>1. claim'[d] = [did |-> d, at |-> at, rivals |-> Rivals(HomeOf[d], d)]
    BY <1>1, <1>5 DEF Read, TypeOK
  <2>2. claim'[d] \in Claims
    BY <2>1 DEF Claims, Rivals
  <2>3. Writing(d, HomeOf[d], d)'
    BY <1>1, <2>1, <2>2, NoClaimIsNone DEF Writing, Idle
  <2> QED BY <1>1, <2>3 DEF Held
<1> QED BY <1>3, <1>4, <1>5

LEMMA HomeKeeps == IInv /\ HeldAtHome /\ [Next]_vars => HeldAtHome'
<1> SUFFICES ASSUME IInv, HeldAtHome, [Next]_vars, NEW d \in Dids, local'[d] > 0
             PROVE  Held(HomeOf[d], d)'
  BY DEF HeldAtHome
<1>1. TypeOK /\ HomeOf[d] \in Nodes
  BY RegistryAssumption DEF IInv
<1>2. CASE UNCHANGED vars
  BY <1>2 DEF vars, HeldAtHome, Held, Writing, Idle
<1>3. CASE Register(d)
  BY <1>3, HeldOnceRegistered
<1>4. ~Restart(HomeOf[d])
  <2> SUFFICES ASSUME Restart(HomeOf[d]) PROVE FALSE
    OBVIOUS
  <2>1. local'[d] = 0
    BY DEF Restart
  <2> QED BY <2>1
<1>5. CASE Next /\ ~Register(d)
  <2>1. local'[d] = local[d]
    <3>1. ASSUME NEW e \in Dids \ {d}, Register(e) PROVE local'[d] = local[d]
      BY <1>1, <3>1 DEF Register, TypeOK
    <3>2. ASSUME NEW n \in Nodes, Restart(n) PROVE local'[d] = local[d]
      BY <1>4, <3>2 DEF Restart
    <3> QED BY <1>5, <3>1, <3>2
          DEF Next, Upsert, Drop, Insert, Subscribe, Reannounce, Hear, Gone, Lost
  <2>2. Held(HomeOf[d], d)
    BY <2>1 DEF HeldAtHome
  <2> QED BY <1>1, <1>4, <1>5, <2>2, HeldStays
<1> QED BY <1>2, <1>3, <1>5

\* A name once held at a node stays held, by a row or by a claim underway, until
\* the node restarts: however claims cross, drop each other's rows and give way,
\* they never leave a name without one (supersede and do_supersede,
\* hecate_spartan_mesh_entities).
THEOREM NeverUnheld == Spec => StaysHeld
<1> DEFINE A == \A n \in Nodes, d \in Dids : Held(n, d) => Held(n, d)' \/ Restart(n)
<1>1. ASSUME IInv, Next PROVE A
  BY <1>1, HeldStays
<1>2. ASSUME IInv, [Next]_vars PROVE [A]_vars
  BY <1>1, <1>2
<1> QED BY <1>2, Invariance, PTL DEF Spec, StaysHeld

\* Whoever its home has registered finds its name held in that home's directory
\* (maybe_register_entity, with the upsert it makes).
THEOREM HomeHolds == Spec => []HeldAtHome
<1>1. Init => HeldAtHome
  BY DEF Init, HeldAtHome
<1> QED BY <1>1, HomeKeeps, Invariance, PTL DEF Spec
=============================================================================
