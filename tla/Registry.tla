------------------------------ MODULE Registry ------------------------------
(***************************************************************************)
(* The directories of the nodes: who is registered where, and which DID    *)
(* holds a name. A registration is announced to the other nodes and said   *)
(* again every minute; each node keeps rows for all it heard of, in a      *)
(* public table that its registration handlers and its mesh subscriber     *)
(* write. A name goes to its newest registration: a claim reads its        *)
(* rivals, gives way to a newer one, deletes the others and inserts its    *)
(* own row, and these are steps of their own. Nothing here is on disk.     *)
(***************************************************************************)
EXTENDS Integers, FiniteSets

CONSTANTS
  Nodes,
  Dids,       \* entities: a new key is a new DID, maybe of an old name
  NameOf,     \* the name each goes by
  HomeOf,     \* the node each is homed on
  Loops,      \* the nodes to which what they publish comes back
  MaxAt,      \* bound: times of registration
  MaxClaims,  \* bound: registrations
  Times,      \* bound: the times that each of these may be of
  MaxFaults   \* bound: restarts, lost messages, lost subscriptions

ASSUME RegistryAssumption ==
  /\ Dids \subseteq Nat \ {0} /\ Nodes \cap Dids = {} /\ HomeOf \in [Dids -> Nodes]
  /\ Loops \subseteq Nodes
  /\ MaxAt \in Nat \ {0} /\ MaxClaims \in Nat /\ MaxFaults \in Nat
  /\ Times \in [1..MaxClaims -> SUBSET (1..MaxAt)]

\* What an announcement says: whose registration, and of when.
Facts == [did : Dids, at : 1..MaxAt]

\* Who writes directories: the subscriber of a node, the handler of an entity.
Writers == Nodes \cup Dids
NodeOf(w) == IF w \in Nodes THEN w ELSE HomeOf[w]

\* A claim that has read the table: its row, and the rivals it is to delete.
NoClaim == [did |-> 0, at |-> 0, rivals |-> {}]

VARIABLES
  local,      \* the time of registration of each entity at its home; 0 if it has none
  dir,        \* the directory of each node: the time in the row of a DID, 0 if it has none
  claim,      \* what each writer is about to write
  mail,       \* announcements on their way to each node, in no order
  subscribed, \* the nodes that listen
  claims, faults,
  crossed,    \* history: names at a node where two claims on them have met
  aged        \* history: names at a node where a row gave way to an older one of its DID

history == <<crossed, aged>>
vars == <<local, dir, claim, mail, subscribed, claims, faults, crossed, aged>>

TypeOK ==
  /\ local \in [Dids -> 0..MaxAt] /\ dir \in [Nodes -> [Dids -> 0..MaxAt]]
  /\ claim \in [Writers -> [did : Dids, at : 1..MaxAt, rivals : SUBSET Dids] \cup {NoClaim}]
  /\ mail \in [Nodes -> SUBSET Facts] /\ subscribed \subseteq Nodes
  /\ claims \in 0..MaxClaims /\ faults \in 0..MaxFaults
  /\ crossed \subseteq Nodes \X {NameOf[d] : d \in Dids}
  /\ aged \subseteq Nodes \X {NameOf[d] : d \in Dids}

Init ==
  /\ local = [d \in Dids |-> 0] /\ dir = [n \in Nodes |-> [d \in Dids |-> 0]]
  /\ claim = [w \in Writers |-> NoClaim] /\ mail = [n \in Nodes |-> {}]
  /\ subscribed = {} /\ claims = 0 /\ faults = 0 /\ crossed = {} /\ aged = {}

Fault == faults < MaxFaults /\ faults' = faults + 1
Idle(w) == claim[w] = NoClaim

-----------------------------------------------------------------------------
(* Announcing: to everyone who listens.                                    *)

Announce(n, listening, facts) ==
  mail' = [m \in Nodes |-> IF m \in listening /\ (m # n \/ n \in Loops)
                          THEN mail[m] \cup facts ELSE mail[m]]

Own(n) == {[did |-> d, at |-> local[d]] : d \in {e \in Dids : HomeOf[e] = n /\ local[e] > 0}}

-----------------------------------------------------------------------------
(* A claim on a name (hecate_spartan_mesh_entities:upsert).                *)

Rivals(n, d) == {e \in Dids \ {d} : NameOf[e] = NameOf[d] /\ dir[n][e] > 0}

\* Other writers that have read the rivals of the same name and are yet to write.
Meets(w, d) ==
  \E v \in Writers \ {w} : /\ ~Idle(v) /\ NodeOf(v) = NodeOf(w)
                           /\ NameOf[claim[v].did] = NameOf[d]

\* Mistake: an older claim stands.
StandsOlder(w, d, at) == \E e \in Rivals(NodeOf(w), d) : dir[NodeOf(w)][e] < at

\* A newer claim stands, at the moment w reads the table.
Stands(w, d, at) == \E e \in Rivals(NodeOf(w), d) : dir[NodeOf(w)][e] > at

\* Mistake: the rivals are left where they are.
ReadLoosely(w, d, at) ==
  /\ claim' = [claim EXCEPT ![w] = [did |-> d, at |-> at, rivals |-> {}]]
  /\ crossed' = IF Meets(w, d) THEN crossed \cup {<<NodeOf(w), NameOf[d]>>} ELSE crossed

Read(w, d, at) ==
  /\ claim' = [claim EXCEPT ![w] = [did |-> d, at |-> at, rivals |-> Rivals(NodeOf(w), d)]]
  /\ crossed' = IF Meets(w, d) THEN crossed \cup {<<NodeOf(w), NameOf[d]>>} ELSE crossed

\* Deleted by their keys, whatever is in the rows by now.
Drop(w) ==
  /\ \E e \in claim[w].rivals :
       /\ dir' = [dir EXCEPT ![NodeOf(w)][e] = 0]
       /\ claim' = [claim EXCEPT ![w].rivals = @ \ {e}]
  /\ UNCHANGED <<local, mail, subscribed, claims, faults, history>>

\* The row is put over any row of the same DID, an older or a newer one; a
\* handler then announces its registration.
Insert(w) ==
  LET c == claim[w]  n == NodeOf(w)
  IN  /\ ~Idle(w) /\ c.rivals = {}
      /\ dir' = [dir EXCEPT ![n][c.did] = c.at]
      /\ aged' = IF dir[n][c.did] > c.at THEN aged \cup {<<n, NameOf[c.did]>>} ELSE aged
      /\ claim' = [claim EXCEPT ![w] = NoClaim]
      /\ IF w \in Nodes THEN UNCHANGED mail
         ELSE Announce(n, subscribed, {[did |-> c.did, at |-> c.at]})
  /\ UNCHANGED <<local, subscribed, claims, faults, crossed>>

-----------------------------------------------------------------------------
(* The registration handler of an entity its home does not have. Clocks of *)
(* nodes differ: the time is any. If a newer claim stands it is announced  *)
(* all the same.                                                           *)
Register(d) ==
  /\ claims < MaxClaims /\ claims' = claims + 1
  /\ local[d] = 0 /\ Idle(d)
  /\ \E at \in Times[claims'] :
       /\ local' = [local EXCEPT ![d] = at]
       /\ IF Stands(d, d, at)
          THEN /\ Announce(HomeOf[d], subscribed, {[did |-> d, at |-> at]})
               /\ UNCHANGED <<claim, crossed>>
          ELSE Read(d, d, at) /\ UNCHANGED mail
  /\ UNCHANGED <<dir, subscribed, faults, aged>>

-----------------------------------------------------------------------------
(* The subscriber of a node (federation_registry), one message at a time.  *)

\* On a fresh subscription all is said at once.
Subscribe(n) ==
  /\ n \notin subscribed /\ Idle(n)
  /\ subscribed' = subscribed \cup {n} /\ Announce(n, subscribed', Own(n))
  /\ UNCHANGED <<local, dir, claim, claims, faults, history>>

\* The timer of a minute.
Reannounce(n) ==
  /\ Idle(n) /\ Announce(n, subscribed, Own(n))
  /\ UNCHANGED <<local, dir, claim, subscribed, claims, faults, history>>

\* Mistake: only what is new is taken in.
HearFirst(n, d) ==
  /\ Idle(n)
  /\ \E f \in mail[n] :
       /\ f.did = d
       /\ mail' = [mail EXCEPT ![n] = @ \ {f}]
       /\ IF Stands(n, f.did, f.at) \/ dir[n][d] > 0
          THEN UNCHANGED <<claim, crossed>> ELSE Read(n, f.did, f.at)
  /\ UNCHANGED <<local, dir, subscribed, claims, faults, aged>>

Hear(n, d) ==
  /\ Idle(n)
  /\ \E f \in mail[n] :
       /\ f.did = d
       /\ mail' = [mail EXCEPT ![n] = @ \ {f}]
       /\ IF Stands(n, f.did, f.at) THEN UNCHANGED <<claim, crossed>> ELSE Read(n, f.did, f.at)
  /\ UNCHANGED <<local, dir, subscribed, claims, faults, aged>>

-----------------------------------------------------------------------------
(* What goes wrong.                                                        *)

Gone(n) ==
  /\ Fault /\ n \in subscribed
  /\ subscribed' = subscribed \ {n}
  /\ UNCHANGED <<local, dir, claim, mail, claims, history>>

Lost(n) ==
  /\ Fault
  /\ \E f \in mail[n] : mail' = [mail EXCEPT ![n] = @ \ {f}]
  /\ UNCHANGED <<local, dir, claim, subscribed, claims, history>>

Restart(n) ==
  /\ Fault
  /\ local' = [d \in Dids |-> IF HomeOf[d] = n THEN 0 ELSE local[d]]
  /\ dir' = [dir EXCEPT ![n] = [d \in Dids |-> 0]]
  /\ claim' = [w \in Writers |-> IF NodeOf(w) = n THEN NoClaim ELSE claim[w]]
  /\ mail' = [mail EXCEPT ![n] = {}] /\ subscribed' = subscribed \ {n}
  /\ crossed' = {s \in crossed : s[1] # n} /\ aged' = {s \in aged : s[1] # n}
  /\ UNCHANGED claims

-----------------------------------------------------------------------------
Upsert(w) == Drop(w) \/ Insert(w)

Next ==
  \/ \E w \in Writers : Upsert(w)
  \/ \E d \in Dids : Register(d)
  \/ \E n \in Nodes : \/ Subscribe(n) \/ Reannounce(n) \/ (\E d \in Dids : Hear(n, d))
                      \/ Gone(n) \/ Lost(n) \/ Restart(n)

Spec == Init /\ [][Next]_vars

\* Handlers and subscribers go on; a mailbox is worked off in its order, so that
\* nothing in it waits for ever behind what keeps coming; the timers come back.
FairSpec ==
  /\ Spec
  /\ \A w \in Writers : WF_vars(Upsert(w))
  /\ \A n \in Nodes : WF_vars(Subscribe(n)) /\ SF_vars(Reannounce(n))
  /\ \A n \in Nodes, d \in Dids : SF_vars(Hear(n, d))

-----------------------------------------------------------------------------
(* Properties.                                                             *)

\* A name has one row in a directory, unless two claims on it met there: the
\* promise of mesh_entities:claim, as far as reads and writes of its own keep it.
OneHolder ==
  \A n \in Nodes, d, e \in Dids :
    d # e /\ NameOf[d] = NameOf[e] /\ dir[n][d] > 0 /\ dir[n][e] > 0
      => <<n, NameOf[d]>> \in crossed

\* Short of a restart and of claims that met, a row goes only for a claim on its
\* name that is not older, however late or often that was announced.
UnseatedByNewer ==
  [][\A n \in Nodes, d \in Dids :
       dir[n][d] > 0 /\ dir'[n][d] = 0 /\ faults' = faults /\ <<n, NameOf[d]>> \notin crossed =>
         \E w \in Writers : /\ NodeOf(w) = n /\ d \in claim[w].rivals
                            /\ claim[w].at >= dir[n][d]]_vars

\* The registration of d is the newest of its name that is in force.
Newest(d) ==
  local[d] > 0 /\ \A e \in Dids \ {d} : NameOf[e] = NameOf[d] => local[e] < local[d]

\* The name of d is held at n by d's registration, or by one that is not older.
Settled(n, d) ==
  LET its == {e \in Dids : NameOf[e] = NameOf[d] /\ dir[n][e] > 0}
  IN  /\ its # {}
      /\ \A e \in its : IF e = d THEN dir[n][d] = local[d] ELSE dir[n][e] >= local[d]

\* Announcing again mends what was lost or mixed up: in the end every directory
\* gives a name to its newest registration, or to one not older that its home
\* has forgotten. Only the home of the newest cannot mend its own directory
\* where claims have met, or an older one took a row, if it does not hear itself.
Agree ==
  <>[](\A n \in Nodes, d \in Dids :
         Newest(d) => \/ Settled(n, d)
                      \/ /\ HomeOf[d] = n /\ n \notin Loops
                         /\ <<n, NameOf[d]>> \in crossed \cup aged)

=============================================================================
