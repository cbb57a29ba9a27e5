----------------------------- MODULE ToolsProofs ------------------------------
(***************************************************************************)
(* Proofs about Tools, for any invocations, jobs and bounds. A step is the *)
(* step of one call, whose record alone it changes; what the step does to  *)
(* that record and to what the calls share is said once per action         *)
(* (Changes and the lemmas after it), and the invariants use it: what was  *)
(* accepted of a call (Counted), who has the file open (Saving), which key *)
(* is in use (Keyed), whose each key is (Numbered) and how old a UCAN is   *)
(* (Dated).                                                                *)
(***************************************************************************)
EXTENDS Tools, SequenceTheorems, FiniteSetTheorems, TLAPS

-----------------------------------------------------------------------------
(* Jobs.                                                                   *)

USE DEF node

Requests == {"upload", "resolve", "post", "cc", "read", "register"}

\* Nothing but the copy comes after the post.
InOrder(j) == \A i, k \in DOMAIN j : i < k /\ j[i] = "post" => j[k] = "cc"

Free(s) == \A i \in DOMAIN s : s[i] # "post"

\* A request that may be there is a sequence, in which there is no post.
LEMMA MaybeFree ==
  ASSUME NEW request \in Requests \ {"post"}, NEW s \in Maybe(request)
  PROVE  s \in Seq(Requests) /\ Free(s)
<1>1. CASE s = << >> BY <1>1 DEF Free
<1>2. CASE s = <<request>>
  <2>1. s \in Seq(Requests) /\ DOMAIN s = 1..1 /\ s[1] = request BY <1>2
  <2> QED BY <2>1 DEF Free
<1> QED BY <1>1, <1>2 DEF Maybe

\* So two of them one after the other.
LEMMA BothFree ==
  ASSUME NEW s \in Seq(Requests), NEW t \in Seq(Requests), Free(s), Free(t)
  PROVE  s \o t \in Seq(Requests) /\ Free(s \o t)
<1>1. /\ s \o t \in Seq(Requests) /\ Len(s \o t) = Len(s) + Len(t)
      /\ \A i \in 1..Len(s) : (s \o t)[i] = s[i]
      /\ \A i \in (Len(s) + 1)..(Len(s) + Len(t)) : (s \o t)[i] = t[i - Len(s)]
  BY ConcatProperties
<1>2. /\ Len(s) \in Nat /\ DOMAIN s = 1..Len(s) /\ Len(t) \in Nat /\ DOMAIN t = 1..Len(t)
      /\ DOMAIN (s \o t) = 1..(Len(s) + Len(t))
  BY <1>1, LenProperties
<1>3. ASSUME NEW i \in 1..(Len(s) + Len(t)) PROVE (s \o t)[i] # "post"
  <2>1. CASE i \in 1..Len(s) BY <1>1, <1>2, <2>1 DEF Free
  <2>2. CASE i \in (Len(s) + 1)..(Len(s) + Len(t))
    <3>1. i - Len(s) \in 1..Len(t) BY <1>2, <2>2
    <3> QED BY <1>1, <1>2, <2>2, <3>1 DEF Free
  <2> QED BY <1>2, <2>1, <2>2
<1> QED BY <1>1, <1>2, <1>3 DEF Free

\* The post, after what is no post and before what is the copy if anything.
LEMMA PostInOrder ==
  ASSUME NEW s \in Seq(Requests), Free(s), NEW c \in Maybe("cc")
  PROVE  /\ s \o <<"post">> \o c \in Seq(Requests) /\ InOrder(s \o <<"post">> \o c)
         /\ Len(s \o <<"post">> \o c) >= 1
<1> DEFINE q == s \o <<"post">>
           j == q \o c
<1>1. <<"post">> \in Seq(Requests) /\ Len(<<"post">>) = 1 BY DEF Requests
<1>2. c \in Seq(Requests) /\ \A i \in DOMAIN c : c[i] = "cc"
  <2>1. CASE c = << >> BY <2>1
  <2>2. CASE c = <<"cc">> BY <2>2 DEF Requests
  <2> QED BY <2>1, <2>2 DEF Maybe
<1>3. /\ q \in Seq(Requests) /\ Len(q) = Len(s) + 1
      /\ \A i \in 1..Len(s) : q[i] = s[i]
  BY <1>1, ConcatProperties
<1>4. /\ j \in Seq(Requests) /\ Len(j) = Len(q) + Len(c)
      /\ \A i \in 1..Len(q) : j[i] = q[i]
      /\ \A i \in (Len(q) + 1)..(Len(q) + Len(c)) : j[i] = c[i - Len(q)]
  BY <1>2, <1>3, ConcatProperties
<1>5. /\ Len(s) \in Nat /\ DOMAIN s = 1..Len(s) /\ Len(c) \in Nat /\ DOMAIN c = 1..Len(c)
      /\ Len(q) \in Nat /\ DOMAIN j = 1..Len(j)
  BY <1>2, <1>3, <1>4, LenProperties
<1>6. ASSUME NEW i \in DOMAIN j, NEW k \in DOMAIN j, i < k, j[i] = "post" PROVE j[k] = "cc"
  <2> HIDE DEF q, j
  <2>1. i \notin 1..Len(s) BY <1>3, <1>4, <1>5, <1>6 DEF Free
  <2>2. k \in (Len(q) + 1)..(Len(q) + Len(c)) /\ k - Len(q) \in 1..Len(c)
    BY <1>3, <1>4, <1>5, <1>6, <2>1
  <2> QED BY <1>2, <1>4, <1>5, <2>2
<1>7. Len(j) >= 1
  <2> HIDE DEF q, j
  <2> QED BY <1>3, <1>4, <1>5
<1> QED BY <1>4, <1>6, <1>7 DEF InOrder

\* Every job is a sequence of requests with nothing but the copy after its post.
LEMMA JobsInOrder ==
  ASSUME NEW j \in RadioJobs \cup CliJobs
  PROVE  j \in Seq(Requests) /\ Len(j) >= 1 /\ InOrder(j)
<1> USE DEF Requests
<1>1. CASE j = <<"register">> BY <1>1 DEF InOrder
<1>2. CASE j = <<"read", "resolve">> BY <1>2 DEF InOrder
<1>3. << >> \in Maybe("cc") BY DEF Maybe
<1>4. ASSUME NEW u \in Maybe("upload"), NEW r \in Maybe("resolve")
      PROVE  u \o r \in Seq(Requests) /\ Free(u \o r)
  BY MaybeFree, BothFree
<1>5. CASE j \in RadioJobs
  <2>1. PICK u \in Maybe("upload"), r \in Maybe("resolve"), c \in Maybe("cc") :
          j = u \o r \o <<"post">> \o c
    BY <1>5 DEF RadioJobs
  <2> QED BY <1>4, <2>1, PostInOrder
<1>6. CASE \E u \in Maybe("upload"), r \in Maybe("resolve") : j = u \o r \o <<"post">>
  <2>1. PICK u \in Maybe("upload"), r \in Maybe("resolve") : j = u \o r \o <<"post">>
    BY <1>6
  <2>2. u \o r \o <<"post">> \in Seq(Requests)
    BY <1>4, ConcatProperties
  <2>3. u \o r \o <<"post">> \o << >> = u \o r \o <<"post">> BY <2>2, ConcatEmptySeq
  <2> QED BY <1>3, <1>4, <2>1, <2>3, PostInOrder
<1> QED BY <1>1, <1>2, <1>5, <1>6 DEF CliJobs

-----------------------------------------------------------------------------
(* The state, and the kinds of steps.                                      *)

Call == [at : Places, job : Seq(Requests), step : Nat, did : Nat, issued : Nat,
         realm : BOOLEAN, again : BOOLEAN, accepted : Nat, report : Reports]
Files == [text : {"absent", "foreign", "broken", "whole"}, did : Nat, issued : Nat, size : 0..4]

Ground ==
  /\ tool \in [Calls -> Call] /\ file \in Files
  /\ minted \in Nat /\ day \in Nat
  /\ overlapped \in BOOLEAN /\ cut \in BOOLEAN /\ clashed \in BOOLEAN

\* The record of c, and no other, is as it was but for these fields.
Only(c, at, job, step, did, again, accepted, report) ==
  /\ tool' \in [Calls -> Call]
  /\ \A d \in Calls \ {c} : tool'[d] = tool[d]
  /\ tool'[c].at = at /\ tool'[c].job = job /\ tool'[c].step = step /\ tool'[c].did = did
  /\ tool'[c].again = again /\ tool'[c].accepted = accepted /\ tool'[c].report = report

\* A record put in the place of another is the only one that changes.
LEMMA Changes ==
  ASSUME Ground, NEW c \in Calls, NEW r \in Call, tool' = [tool EXCEPT ![c] = r]
  PROVE  Only(c, r.at, r.job, r.step, r.did, r.again, r.accepted, r.report)
BY DEF Ground, Only

\* A record is the record of its fields.
LEMMA Fields ==
  ASSUME NEW t \in Call
  PROVE  /\ t = [at |-> t.at, job |-> t.job, step |-> t.step, did |-> t.did, issued |-> t.issued,
                 realm |-> t.realm, again |-> t.again, accepted |-> t.accepted, report |-> t.report]
         /\ t.at \in Places /\ t.job \in Seq(Requests) /\ t.step \in Nat /\ t.did \in Nat
         /\ t.issued \in Nat /\ t.realm \in BOOLEAN /\ t.again \in BOOLEAN /\ t.accepted \in Nat /\ t.report \in Reports
BY DEF Call

Keys == UNCHANGED <<node, overlapped>>
Disk == UNCHANGED <<file, clashed>>

\* A call begins with the key of the file, to make one, or fails.
Loads(c) ==
  /\ tool[c].at = "start" /\ file.text = "whole"
  /\ \E j \in Jobs[c] :
       Only(c, "call", j, tool[c].step, file.did, tool[c].again, tool[c].accepted, tool[c].report)
  /\ Started(c) /\ UNCHANGED node /\ Disk /\ UNCHANGED cut
Prepares(c) ==
  /\ tool[c].at = "start"
  /\ \E j \in Jobs[c] :
       Only(c, "mint", j, tool[c].step, tool[c].did, tool[c].again, tool[c].accepted, tool[c].report)
  /\ Started(c) \/ UNCHANGED overlapped
  /\ UNCHANGED node /\ Disk /\ UNCHANGED cut
Fails(c) ==
  /\ tool[c].at = "start"
  /\ \E j \in Jobs[c], p \in {"refused", "raised"} :
       Only(c, "end", j, tool[c].step, tool[c].did, tool[c].again, tool[c].accepted, p)
  /\ Started(c) \/ UNCHANGED overlapped
  /\ UNCHANGED node /\ Disk /\ UNCHANGED cut

\* It makes a key, and may not live to know of it.
Mints(c) ==
  /\ tool[c].at = "mint" /\ NewKey(c) /\ UNCHANGED strays
  /\ Only(c, "open", tool[c].job, tool[c].step, minted + 1, tool[c].again, tool[c].accepted, tool[c].report)
  /\ Disk /\ UNCHANGED cut
Loses(c) ==
  /\ tool[c].at = "mint" /\ NewKey(c) /\ strays' = strays \cup {minted'}
  /\ Only(c, "end", tool[c].job, tool[c].step, minted + 1, tool[c].again, tool[c].accepted, "raised")
  /\ Disk /\ UNCHANGED cut

\* Its UCAN is refused; it renews it, which the node may do without its knowing; and
\* it saves.
Expires(c) ==
  /\ tool[c].at = "call"
  /\ Only(c, "refresh", tool[c].job, tool[c].step, tool[c].did, tool[c].again, tool[c].accepted, tool[c].report)
  /\ Keys /\ Disk /\ UNCHANGED cut
Renews(c) ==
  /\ tool[c].at = "refresh"
  /\ \/ Only(c, "open", tool[c].job, tool[c].step, tool[c].did, TRUE, tool[c].accepted, tool[c].report)
     \/ Only(c, "end", tool[c].job, tool[c].step, tool[c].did, tool[c].again, tool[c].accepted, "raised")
  /\ SameKey(c) /\ UNCHANGED strays /\ Disk /\ UNCHANGED cut
Opens(c) ==
  /\ tool[c].at = "open" /\ tool'[c].realm = tool[c].realm
  /\ Only(c, "write", tool[c].job, tool[c].step, tool[c].did, tool[c].again, tool[c].accepted, tool[c].report)
  /\ file' = Emptied
  /\ clashed' = (clashed \/ \E d \in Calls : tool[d].at = "write" /\ SizeOf(d) # SizeOf(c))
  /\ Keys /\ UNCHANGED cut
Writes(c) ==
  /\ tool[c].at = "write"
  /\ \/ /\ tool[c].job = <<"register">>
        /\ Only(c, "end", tool[c].job, tool[c].step, tool[c].did, tool[c].again, tool[c].accepted, "done")
     \/ Only(c, "call", tool[c].job, tool[c].step, tool[c].did, tool[c].again, tool[c].accepted, tool[c].report)
  /\ file' = IF SizeOf(c) >= file.size
             THEN Whole(tool[c].did, tool[c].issued, SizeOf(c)) ELSE Mixed(file.size)
  /\ Keys /\ UNCHANGED <<clashed, cut>>

\* A request is answered, and the call goes on or is done.
Answered(c) ==
  LET n == IF Request(c) = "post" THEN 1 ELSE 0
      last == tool[c].step + 1 = Len(tool[c].job)
  IN  /\ tool[c].at = "call"
      /\ Only(c, IF last THEN "end" ELSE "call", tool[c].job, tool[c].step + 1, tool[c].did, FALSE,
              tool[c].accepted + n, IF last THEN "done" ELSE "none")
      /\ Keys /\ Disk /\ UNCHANGED cut

\* Its key is new, and not in the file yet.
Unsaved(c) == tool[c].at \in {"open", "write"} /\ ~tool[c].again

\* It ends before it is done: refused before its post, cut short, or cut short
\* in its post.
Stops(c) ==
  /\ tool[c].at \in {"mint", "refresh", "open", "write", "call"}
  /\ \/ /\ tool[c].at = "call" /\ Request(c) \in {"post", "resolve"}
        /\ Only(c, "end", tool[c].job, tool[c].step, tool[c].did, tool[c].again, tool[c].accepted, "refused")
     \/ \E p \in {"raised", "killed"} :
          Only(c, "end", tool[c].job, tool[c].step, tool[c].did, tool[c].again, tool[c].accepted, p)
     \/ /\ tool[c].at = "call" /\ Request(c) = "post"
        /\ Only(c, "end", tool[c].job, tool[c].step, tool[c].did, tool[c].again, tool[c].accepted + 1, "raised")
  /\ cut' \in BOOLEAN /\ (cut => cut') /\ (tool[c].at = "write" => cut')
  /\ Unsaved(c) => tool[c].did \in strays'
  /\ strays \subseteq strays' /\ strays' \subseteq strays \cup {tool[c].did}
  /\ UNCHANGED <<minted, enrolled, holder, overlapped>> /\ Disk

Kinds(c) ==
  \/ Loads(c) \/ Prepares(c) \/ Fails(c) \/ Mints(c) \/ Loses(c) \/ Expires(c)
  \/ Renews(c) \/ Opens(c) \/ Writes(c) \/ Answered(c) \/ Stops(c)

\* What happens without a call: a day, or what becomes of the name at the node.
Elsewhere ==
  /\ UNCHANGED <<tool, file, minted, overlapped, cut, clashed>>
  /\ day' = day \/ day' = day + 1
  /\ enrolled' \in {enrolled, {}} /\ holder' \in {holder, 0, Other} \cup strays'
  /\ strays \subseteq strays' /\ strays' \subseteq strays \cup 1..minted

-----------------------------------------------------------------------------
(* Every step of a call is of one of these kinds.                          *)

\* Moving on.
LEMMA PutAt ==
  ASSUME Ground, NEW c \in Calls, NEW a \in Places,
         tool' = [tool EXCEPT ![c] = [tool[c] EXCEPT !.at = a]]
  PROVE  Only(c, a, tool[c].job, tool[c].step, tool[c].did, tool[c].again, tool[c].accepted, tool[c].report)
<1> DEFINE r == [tool[c] EXCEPT !.at = a]
<1>1. tool[c] \in Call BY DEF Ground
<1>2. /\ r \in Call /\ r.at = a /\ r.job = tool[c].job /\ r.step = tool[c].step /\ r.did = tool[c].did
      /\ r.again = tool[c].again /\ r.accepted = tool[c].accepted /\ r.report = tool[c].report
  BY <1>1 DEF Call
<1>3. Only(c, r.at, r.job, r.step, r.did, r.again, r.accepted, r.report) BY <1>2, Changes
<1> QED BY <1>2, <1>3

\* Ending with a report, and with one more post accepted or not.
LEMMA PutReport ==
  ASSUME Ground, NEW c \in Calls, NEW p \in Reports, NEW n \in Nat,
         \/ n = 0 /\ tool' = [tool EXCEPT ![c] = [tool[c] EXCEPT !.at = "end", !.report = p]]
         \/ tool' = [tool EXCEPT ![c] = [tool[c] EXCEPT !.at = "end", !.report = p, !.accepted = tool[c].accepted + n]]
  PROVE  Only(c, "end", tool[c].job, tool[c].step, tool[c].did, tool[c].again, tool[c].accepted + n, p)
<1> DEFINE r == [tool[c] EXCEPT !.at = "end", !.report = p]
           q == [tool[c] EXCEPT !.at = "end", !.report = p, !.accepted = tool[c].accepted + n]
<1>1. tool[c] \in Call /\ "end" \in Places BY DEF Ground, Places
<1>2. /\ r \in Call /\ r.at = "end" /\ r.job = tool[c].job /\ r.step = tool[c].step /\ r.did = tool[c].did
      /\ r.again = tool[c].again /\ r.accepted = tool[c].accepted /\ r.report = p
      /\ tool[c].accepted \in Nat
  BY <1>1 DEF Call
<1>3. /\ q \in Call /\ q.at = "end" /\ q.job = tool[c].job /\ q.step = tool[c].step /\ q.did = tool[c].did
      /\ q.again = tool[c].again /\ q.accepted = tool[c].accepted + n /\ q.report = p
  <2>1. tool[c].accepted + n \in Nat BY <1>2
  <2> QED BY <1>1, <2>1 DEF Call
<1>4. CASE n = 0 /\ tool' = [tool EXCEPT ![c] = r]
  <2>1. Only(c, r.at, r.job, r.step, r.did, r.again, r.accepted, r.report) BY <1>2, <1>4, Changes
  <2>2. tool[c].accepted + n = tool[c].accepted BY <1>2, <1>4
  <2> QED BY <1>2, <2>1, <2>2
<1>5. CASE tool' = [tool EXCEPT ![c] = q]
  <2>1. Only(c, q.at, q.job, q.step, q.did, q.again, q.accepted, q.report) BY <1>3, <1>5, Changes
  <2> QED BY <1>3, <2>1
<1> QED BY <1>4, <1>5

\* A job in the record is one of the call's, and a sequence of requests.
LEMMA JobsTyped ==
  ASSUME NEW c \in Calls, NEW j \in Jobs[c]
  PROVE  j \in Seq(Requests) /\ Len(j) >= 1 /\ InOrder(j)
<1>1. j \in RadioJobs \cup CliJobs BY ToolsAssumption
<1> QED BY <1>1, JobsInOrder

\* Beginning a job, in any of the ways there are.
LEMMA PutJob ==
  ASSUME Ground, NEW c \in Calls, NEW j \in Jobs[c], NEW a \in Places, NEW p \in Reports,
         \/ p = tool[c].report /\ tool' = [tool EXCEPT ![c] = [tool[c] EXCEPT !.at = a, !.job = j]]
         \/ tool' = [tool EXCEPT ![c] = [tool[c] EXCEPT !.at = a, !.job = j, !.report = p]]
  PROVE  Only(c, a, j, tool[c].step, tool[c].did, tool[c].again, tool[c].accepted, p)
<1> DEFINE r == [tool[c] EXCEPT !.at = a, !.job = j]
           q == [tool[c] EXCEPT !.at = a, !.job = j, !.report = p]
<1>1. tool[c] \in Call /\ j \in Seq(Requests) BY JobsTyped DEF Ground
<1>2. /\ r \in Call /\ r.at = a /\ r.job = j /\ r.step = tool[c].step /\ r.did = tool[c].did
      /\ r.again = tool[c].again /\ r.accepted = tool[c].accepted /\ r.report = tool[c].report
  BY <1>1 DEF Call
<1>3. /\ q \in Call /\ q.at = a /\ q.job = j /\ q.step = tool[c].step /\ q.did = tool[c].did
      /\ q.again = tool[c].again /\ q.accepted = tool[c].accepted /\ q.report = p
  BY <1>1 DEF Call
<1>4. CASE p = tool[c].report /\ tool' = [tool EXCEPT ![c] = r]
  <2>1. Only(c, r.at, r.job, r.step, r.did, r.again, r.accepted, r.report) BY <1>2, <1>4, Changes
  <2> QED BY <1>2, <1>4, <2>1
<1>5. CASE tool' = [tool EXCEPT ![c] = q]
  <2>1. Only(c, q.at, q.job, q.step, q.did, q.again, q.accepted, q.report) BY <1>3, <1>5, Changes
  <2> QED BY <1>3, <2>1
<1> QED BY <1>4, <1>5

\* Beginning it with the key of the file.
LEMMA PutLoaded ==
  ASSUME Ground, NEW c \in Calls, NEW j \in Jobs[c],
         tool' = [tool EXCEPT ![c] = [tool[c] EXCEPT !.at = "call", !.job = j,
                                                     !.did = file.did, !.issued = file.issued,
                                                     !.realm = HasRealm]]
  PROVE  Only(c, "call", j, tool[c].step, file.did, tool[c].again, tool[c].accepted, tool[c].report)
<1> DEFINE r == [tool[c] EXCEPT !.at = "call", !.job = j, !.did = file.did, !.issued = file.issued,
                            !.realm = HasRealm]
<1>1. /\ HasRealm \in BOOLEAN /\ tool[c] \in Call /\ j \in Seq(Requests) /\ "call" \in Places
      /\ file.did \in Nat /\ file.issued \in Nat
  BY JobsTyped DEF Ground, Places, Files, HasRealm
<1>2. /\ r \in Call /\ r.at = "call" /\ r.job = j /\ r.step = tool[c].step /\ r.did = file.did
      /\ r.again = tool[c].again /\ r.accepted = tool[c].accepted /\ r.report = tool[c].report
  BY <1>1 DEF Call
<1>3. Only(c, r.at, r.job, r.step, r.did, r.again, r.accepted, r.report) BY <1>2, Changes
<1> QED BY <1>2, <1>3

\* The four ways to begin.
LEMMA BeginKinds ==
  ASSUME Ground, NEW c \in Calls,
         RadioLoads(c) \/ RadioMints(c) \/ CliLoads(c) \/ LoadFails(c)
  PROVE  Kinds(c)
<1> USE DEF Disk
<1>0. "mint" \in Places /\ "end" \in Places /\ "call" \in Places
      /\ "refused" \in Reports /\ "raised" \in Reports /\ tool[c].report \in Reports
  BY DEF Ground, Call, Places, Reports
<1>1. CASE RadioLoads(c)
  <2>1. PICK j \in Jobs[c] :
          tool' = [tool EXCEPT ![c] = [tool[c] EXCEPT !.at = "call", !.job = j,
                                                     !.did = file.did, !.issued = file.issued,
                                                     !.realm = HasRealm]]
    BY <1>1 DEF RadioLoads
  <2>2. Only(c, "call", j, tool[c].step, file.did, tool[c].again, tool[c].accepted, tool[c].report)
    BY <2>1, PutLoaded
  <2> QED BY <1>1, <2>2 DEF RadioLoads, Loads, Kinds
<1>2. CASE RadioMints(c)
  <2>1. PICK j \in Jobs[c] : tool' = [tool EXCEPT ![c] = [tool[c] EXCEPT !.at = "mint", !.job = j]]
    BY <1>2 DEF RadioMints
  <2>2. Only(c, "mint", j, tool[c].step, tool[c].did, tool[c].again, tool[c].accepted, tool[c].report)
    BY <1>0, <2>1, PutJob
  <2> QED BY <1>2, <2>2 DEF RadioMints, Prepares, Kinds
<1>3. CASE CliLoads(c)
  <2>1. PICK j \in Jobs[c] :
          \/ tool' = [tool EXCEPT ![c] = [tool[c] EXCEPT !.at = "mint", !.job = j]]
          \/ tool' = [tool EXCEPT ![c] = [tool[c] EXCEPT !.at = "end", !.job = j, !.report = "refused"]]
          \/ /\ file.text # "absent"
             /\ tool' = [tool EXCEPT ![c] = [tool[c] EXCEPT !.at = "call", !.job = j,
                                                     !.did = file.did, !.issued = file.issued,
                                                     !.realm = HasRealm]]
    BY <1>3 DEF CliLoads
  <2>2. CASE tool' = [tool EXCEPT ![c] = [tool[c] EXCEPT !.at = "mint", !.job = j]]
    <3>1. Only(c, "mint", j, tool[c].step, tool[c].did, tool[c].again, tool[c].accepted, tool[c].report)
      BY <1>0, <2>2, PutJob
    <3> QED BY <1>3, <3>1 DEF CliLoads, Prepares, Kinds
  <2>3. CASE tool' = [tool EXCEPT ![c] = [tool[c] EXCEPT !.at = "end", !.job = j, !.report = "refused"]]
    <3>1. Only(c, "end", j, tool[c].step, tool[c].did, tool[c].again, tool[c].accepted, "refused")
      BY <1>0, <2>3, PutJob
    <3> QED BY <1>3, <3>1 DEF CliLoads, Fails, Kinds
  <2>4. CASE /\ file.text # "absent"
             /\ tool' = [tool EXCEPT ![c] = [tool[c] EXCEPT !.at = "call", !.job = j,
                                                     !.did = file.did, !.issued = file.issued,
                                                     !.realm = HasRealm]]
    <3>1. Only(c, "call", j, tool[c].step, file.did, tool[c].again, tool[c].accepted, tool[c].report)
      BY <2>4, PutLoaded
    <3>2. file.text = "whole" BY <1>3, <2>4 DEF CliLoads
    <3> QED BY <1>3, <3>1, <3>2 DEF CliLoads, Loads, Kinds
  <2> QED BY <2>1, <2>2, <2>3, <2>4
<1>4. CASE LoadFails(c)
  <2>1. PICK j \in Jobs[c] :
          \/ tool' = [tool EXCEPT ![c] = [tool[c] EXCEPT !.at = "mint", !.job = j]]
          \/ tool' = [tool EXCEPT ![c] = [tool[c] EXCEPT !.at = "end", !.job = j, !.report = "raised"]]
    BY <1>4 DEF LoadFails
  <2>2. CASE tool' = [tool EXCEPT ![c] = [tool[c] EXCEPT !.at = "mint", !.job = j]]
    <3>1. Only(c, "mint", j, tool[c].step, tool[c].did, tool[c].again, tool[c].accepted, tool[c].report)
      BY <1>0, <2>2, PutJob
    <3> QED BY <1>4, <3>1 DEF LoadFails, Prepares, Kinds
  <2>3. CASE tool' = [tool EXCEPT ![c] = [tool[c] EXCEPT !.at = "end", !.job = j, !.report = "raised"]]
    <3>1. Only(c, "end", j, tool[c].step, tool[c].did, tool[c].again, tool[c].accepted, "raised")
      BY <1>0, <2>3, PutJob
    <3> QED BY <1>4, <3>1 DEF LoadFails, Fails, Kinds
  <2> QED BY <2>1, <2>2, <2>3
<1> QED BY <1>1, <1>2, <1>3, <1>4

\* A record with a key, or a UCAN, that is fresh.
LEMMA PutFresh ==
  ASSUME Ground, NEW c \in Calls, NEW n \in Nat, NEW b \in BOOLEAN,
         \/ n = tool[c].did /\ tool' = [tool EXCEPT ![c] = [tool[c] EXCEPT !.at = "open", !.issued = day, !.again = b]]
         \/ b = tool[c].again /\ tool' = [tool EXCEPT ![c] = [tool[c] EXCEPT !.at = "open", !.did = n, !.issued = day,
                                                                         !.realm = c \notin Radios]]
  PROVE  Only(c, "open", tool[c].job, tool[c].step, n, b, tool[c].accepted, tool[c].report)
<1> DEFINE r == [tool[c] EXCEPT !.at = "open", !.issued = day, !.again = b]
           q == [tool[c] EXCEPT !.at = "open", !.did = n, !.issued = day, !.realm = c \notin Radios]
<1>1. tool[c] \in Call /\ "open" \in Places /\ day \in Nat /\ (c \notin Radios) \in BOOLEAN BY DEF Ground, Places
<1>2. /\ r \in Call /\ r.at = "open" /\ r.job = tool[c].job /\ r.step = tool[c].step /\ r.did = tool[c].did
      /\ r.again = b /\ r.accepted = tool[c].accepted /\ r.report = tool[c].report
  BY <1>1 DEF Call
<1>3. /\ q \in Call /\ q.at = "open" /\ q.job = tool[c].job /\ q.step = tool[c].step /\ q.did = n
      /\ q.again = tool[c].again /\ q.accepted = tool[c].accepted /\ q.report = tool[c].report
  BY <1>1 DEF Call
<1>4. CASE n = tool[c].did /\ tool' = [tool EXCEPT ![c] = r]
  <2>1. Only(c, r.at, r.job, r.step, r.did, r.again, r.accepted, r.report) BY <1>2, <1>4, Changes
  <2> QED BY <1>2, <1>4, <2>1
<1>5. CASE b = tool[c].again /\ tool' = [tool EXCEPT ![c] = q]
  <2>1. Only(c, q.at, q.job, q.step, q.did, q.again, q.accepted, q.report) BY <1>3, <1>5, Changes
  <2> QED BY <1>3, <1>5, <2>1
<1> QED BY <1>4, <1>5

\* Keys, UCANs and the file.
LEMMA SaveKinds ==
  ASSUME Ground, NEW c \in Calls, Mint(c) \/ Refresh(c) \/ Open(c) \/ Write(c)
  PROVE  Kinds(c)
<1> USE DEF Disk, Keys
<1>0. /\ {"refresh", "write", "call", "end", "open"} \subseteq Places /\ "done" \in Reports
      /\ minted + 1 \in Nat /\ tool[c].did \in Nat /\ tool[c].accepted \in Nat
      /\ tool[c].again \in BOOLEAN
  BY DEF Ground, Call, Places, Reports
<1>1. CASE Mint(c)
  <2>1. tool' = [tool EXCEPT ![c] = [tool[c] EXCEPT !.at = "open", !.did = minted + 1, !.issued = day,
                                                     !.realm = c \notin Radios]]
    BY <1>1 DEF Mint, NewKey
  <2>2. Only(c, "open", tool[c].job, tool[c].step, minted + 1, tool[c].again, tool[c].accepted, tool[c].report)
    BY <1>0, <2>1, PutFresh
  <2> QED BY <1>1, <2>2 DEF Mint, Mints, Kinds
<1>2. CASE Refresh(c)
  <2>1. tool' = [tool EXCEPT ![c] = [tool[c] EXCEPT !.at = "open", !.issued = day, !.again = TRUE]]
    BY <1>2 DEF Refresh
  <2>2. Only(c, "open", tool[c].job, tool[c].step, tool[c].did, TRUE, tool[c].accepted, tool[c].report)
    BY <1>0, <2>1, PutFresh
  <2> QED BY <1>2, <2>2 DEF Refresh, Renews, Kinds
<1>3. CASE Open(c)
  <2>1. tool' = [tool EXCEPT ![c] = [tool[c] EXCEPT !.at = "write"]] BY <1>3 DEF Open
  <2>2. Only(c, "write", tool[c].job, tool[c].step, tool[c].did, tool[c].again, tool[c].accepted, tool[c].report)
    BY <1>0, <2>1, PutAt
  <2>3. tool'[c].realm = tool[c].realm BY <2>1 DEF Ground, Call
  <2> QED BY <1>3, <2>2, <2>3 DEF Open, Opens, Kinds
<1>4. CASE Write(c)
  <2>1. CASE tool[c].job = <<"register">>
    <3>1. tool' = [tool EXCEPT ![c] = [tool[c] EXCEPT !.at = "end", !.report = "done"]]
      BY <1>4, <2>1 DEF Write
    <3>2. Only(c, "end", tool[c].job, tool[c].step, tool[c].did, tool[c].again, tool[c].accepted + 0, "done")
      BY <1>0, <3>1, PutReport
    <3>3. tool[c].accepted + 0 = tool[c].accepted BY <1>0
    <3> QED BY <1>4, <2>1, <3>2, <3>3 DEF Write, Writes, Kinds
  <2>2. CASE tool[c].job # <<"register">>
    <3>1. tool' = [tool EXCEPT ![c] = [tool[c] EXCEPT !.at = "call"]] BY <1>4, <2>2 DEF Write
    <3>2. Only(c, "call", tool[c].job, tool[c].step, tool[c].did, tool[c].again, tool[c].accepted, tool[c].report)
      BY <1>0, <3>1, PutAt
    <3> QED BY <1>4, <3>2 DEF Write, Writes, Kinds
  <2> QED BY <2>1, <2>2
<1> QED BY <1>1, <1>2, <1>3, <1>4

\* Going on counts what was accepted.
LEMMA PutAnswer ==
  ASSUME Ground, NEW c \in Calls, NEW n \in Nat, GoesOn(c, n)
  PROVE  LET last == tool[c].step + 1 = Len(tool[c].job)
         IN  Only(c, IF last THEN "end" ELSE "call", tool[c].job, tool[c].step + 1, tool[c].did, FALSE,
                  tool[c].accepted + n, IF last THEN "done" ELSE "none")
<1> DEFINE last == tool[c].step + 1 = Len(tool[c].job)
           a == IF last THEN "end" ELSE "call"
           p == IF last THEN "done" ELSE "none"
           r == [tool[c] EXCEPT !.step = tool[c].step + 1, !.again = FALSE, !.accepted = tool[c].accepted + n,
                                !.at = a, !.report = p]
<1>1. tool' = [tool EXCEPT ![c] = r] BY Zenon DEF GoesOn
<1>2. a \in Places /\ p \in Reports BY DEF Places, Reports
<1> HIDE DEF last, a, p
<1>3. tool[c] \in Call /\ tool[c].step \in Nat /\ tool[c].accepted \in Nat BY DEF Ground, Call
<1>4. tool[c].step + 1 \in Nat /\ tool[c].accepted + n \in Nat BY <1>3
<1>5. /\ r \in Call /\ r.at = a /\ r.job = tool[c].job /\ r.step = tool[c].step + 1 /\ r.did = tool[c].did
      /\ r.again = FALSE /\ r.accepted = tool[c].accepted + n /\ r.report = p
  BY <1>2, <1>3, <1>4 DEF Call
<1>6. Only(c, r.at, r.job, r.step, r.did, r.again, r.accepted, r.report) BY <1>1, <1>5, Changes
<1>7. Only(c, a, tool[c].job, tool[c].step + 1, tool[c].did, FALSE, tool[c].accepted + n, p)
  BY <1>5, <1>6
<1> QED BY <1>7 DEF last, a, p

\* Stopping with a report.
LEMMA PutStop ==
  ASSUME Ground, NEW c \in Calls, NEW p \in {"refused", "raised", "killed"}, Ends(c, p)
  PROVE  Only(c, "end", tool[c].job, tool[c].step, tool[c].did, tool[c].again, tool[c].accepted, p)
<1>1. tool' = [tool EXCEPT ![c] = [tool[c] EXCEPT !.at = "end", !.report = p]] BY DEF Ends
<1>2. p \in Reports /\ tool[c].accepted + 0 = tool[c].accepted BY DEF Reports, Ground, Call
<1>3. Only(c, "end", tool[c].job, tool[c].step, tool[c].did, tool[c].again, tool[c].accepted + 0, p)
  BY <1>1, <1>2, PutReport
<1> QED BY <1>2, <1>3

\* What the node answers to a request.
LEMMA RequestKinds ==
  ASSUME Ground, NEW c \in Calls,
         Served(c) \/ CliUpload(c) \/ Unauthorised(c) \/ TurnedDown(c)
  PROVE  Kinds(c)
<1>1. tool[c].at = "call" /\ Keys /\ Disk /\ UNCHANGED cut
  BY DEF Served, CliUpload, Unauthorised, TurnedDown, Asks, Keys, Disk
<1>2. /\ cut' \in BOOLEAN /\ (cut => cut') /\ (tool[c].at = "write" => cut')
      /\ Unsaved(c) => tool[c].did \in strays'
      /\ strays \subseteq strays' /\ strays' \subseteq strays \cup {tool[c].did}
      /\ UNCHANGED <<minted, enrolled, holder, overlapped>>
  BY <1>1 DEF Ground, Unsaved, Keys
<1>3. ASSUME GoesOn(c, IF Request(c) = "post" THEN 1 ELSE 0) PROVE Kinds(c)
  <2>1. (IF Request(c) = "post" THEN 1 ELSE 0) \in Nat OBVIOUS
  <2> QED BY <1>1, <1>3, <2>1, PutAnswer DEF Answered, Kinds
<1>4. ASSUME NEW p \in {"raised", "killed"}, Ends(c, p) PROVE Kinds(c)
  <2>1. Only(c, "end", tool[c].job, tool[c].step, tool[c].did, tool[c].again, tool[c].accepted, p)
    BY <1>4, PutStop
  <2> QED BY <1>1, <1>2, <2>1 DEF Stops, Kinds
<1>5. ASSUME Request(c) \in {"post", "resolve"}, Ends(c, "refused") PROVE Kinds(c)
  <2>1. Only(c, "end", tool[c].job, tool[c].step, tool[c].did, tool[c].again, tool[c].accepted, "refused")
    BY <1>5, PutStop
  <2> QED BY <1>1, <1>2, <1>5, <2>1 DEF Stops, Kinds
<1>6. CASE Served(c)
  <2>1. GoesOn(c, IF Request(c) = "post" THEN 1 ELSE 0) BY <1>1, <1>6 DEF Served, Asks
  <2> QED BY <1>3, <2>1
<1>7. CASE CliUpload(c) BY <1>4, <1>7 DEF CliUpload
<1>8. CASE Unauthorised(c)
  <2>1. CASE tool' = [tool EXCEPT ![c] = [tool[c] EXCEPT !.at = "refresh"]]
    <3>1. Only(c, "refresh", tool[c].job, tool[c].step, tool[c].did, tool[c].again, tool[c].accepted, tool[c].report)
      BY <2>1, PutAt DEF Places
    <3> QED BY <1>1, <3>1 DEF Expires, Kinds
  <2>2. CASE Request(c) = "post" /\ Ends(c, "refused") BY <1>5, <2>2
  <2>3. CASE Request(c) = "cc" /\ GoesOn(c, 0) BY <1>3, <2>3
  <2>4. CASE Ends(c, "raised") BY <1>4, <2>4
  <2> QED BY <1>8, <2>1, <2>2, <2>3, <2>4 DEF Unauthorised, Asks
<1>9. CASE TurnedDown(c)
  <2>1. CASE Request(c) \in {"post", "resolve"} /\ Ends(c, "refused") BY <1>5, <2>1
  <2>2. CASE Request(c) = "cc" /\ GoesOn(c, 0) BY <1>3, <2>2
  <2>3. CASE Ends(c, "raised") BY <1>4, <2>3
  <2> QED BY <1>9, <2>1, <2>2, <2>3 DEF TurnedDown, Asks
<1> QED BY <1>6, <1>7, <1>8, <1>9

\* What fails.
LEMMA FailureKinds ==
  ASSUME Ground, NEW c \in Calls, Silence(c) \/ Kill(c)
  PROVE  Kinds(c)
<1>1. CASE Kill(c)
  <2>1. Only(c, "end", tool[c].job, tool[c].step, tool[c].did, tool[c].again, tool[c].accepted, "killed")
    BY <1>1, PutStop DEF Kill
  <2>2. tool[c].at \in {"mint", "refresh", "open", "write", "call"}
    BY <1>1 DEF Kill, Running, Ground, Call, Places
  <2>3. /\ cut' \in BOOLEAN /\ (cut => cut') /\ (tool[c].at = "write" => cut')
        /\ Unsaved(c) => tool[c].did \in strays'
        /\ strays \subseteq strays' /\ strays' \subseteq strays \cup {tool[c].did}
    BY <1>1 DEF Kill, Ground, Making, Unsaved
  <2> QED BY <1>1, <2>1, <2>2, <2>3 DEF Kill, Stops, Kinds, Disk
<1>2. CASE Silence(c)
  <2>1. tool[c].at \in {"mint", "refresh", "call"} /\ Disk /\ UNCHANGED cut
    BY <1>2 DEF Silence, Disk
  <2>2. /\ cut' \in BOOLEAN /\ (cut => cut') /\ (tool[c].at = "write" => cut')
        /\ ~Unsaved(c)
    BY <2>1 DEF Ground, Unsaved
  <2>3. CASE Ends(c, "raised") /\ Keys
    <3>1. Only(c, "end", tool[c].job, tool[c].step, tool[c].did, tool[c].again, tool[c].accepted, "raised")
      BY <2>3, PutStop
    <3> QED BY <2>1, <2>2, <2>3, <3>1 DEF Stops, Kinds, Keys
  <2>4. CASE /\ Asks(c, "post") /\ Keys
             /\ tool' = [tool EXCEPT ![c] = [tool[c] EXCEPT !.at = "end", !.report = "raised",
                                                            !.accepted = tool[c].accepted + 1]]
    <3>1. Only(c, "end", tool[c].job, tool[c].step, tool[c].did, tool[c].again, tool[c].accepted + 1, "raised")
      BY <2>4, PutReport DEF Reports
    <3> QED BY <2>1, <2>2, <2>4, <3>1 DEF Stops, Kinds, Asks, Keys
  <2>5. CASE /\ tool[c].at = "mint" /\ NewKey(c) /\ strays' = strays \cup {minted'}
             /\ tool' = [tool EXCEPT ![c] = [tool[c] EXCEPT !.at = "end", !.report = "raised",
                                                            !.did = minted']]
    <3> DEFINE r == [tool[c] EXCEPT !.at = "end", !.report = "raised", !.did = minted + 1]
    <3>1. tool[c] \in Call /\ minted + 1 \in Nat /\ "end" \in Places /\ "raised" \in Reports
      BY DEF Ground, Places, Reports
    <3>2. /\ r \in Call /\ r.at = "end" /\ r.job = tool[c].job /\ r.step = tool[c].step /\ r.did = minted + 1
          /\ r.again = tool[c].again /\ r.accepted = tool[c].accepted /\ r.report = "raised"
      BY <3>1 DEF Call
    <3>3. tool' = [tool EXCEPT ![c] = r] BY <2>5 DEF NewKey
    <3>5. Only(c, r.at, r.job, r.step, r.did, r.again, r.accepted, r.report) BY <3>2, <3>3, Changes
    <3>4. Only(c, "end", tool[c].job, tool[c].step, minted + 1, tool[c].again, tool[c].accepted, "raised")
      BY <3>2, <3>5
    <3> QED BY <2>1, <2>5, <3>4 DEF Loses, Kinds
  <2>6. CASE tool[c].at = "refresh" /\ SameKey(c) /\ UNCHANGED strays /\ Ends(c, "raised")
    <3>1. Only(c, "end", tool[c].job, tool[c].step, tool[c].did, tool[c].again, tool[c].accepted, "raised")
      BY <2>6, PutStop
    <3> QED BY <2>1, <2>6, <3>1 DEF Renews, Kinds
  <2>7. \/ Ends(c, "raised") /\ Keys
        \/ tool[c].at = "refresh" /\ SameKey(c) /\ UNCHANGED strays /\ Ends(c, "raised")
        \/ /\ Asks(c, "post") /\ Keys
           /\ tool' = [tool EXCEPT ![c] = [tool[c] EXCEPT !.at = "end", !.report = "raised",
                                                          !.accepted = tool[c].accepted + 1]]
        \/ /\ tool[c].at = "mint" /\ NewKey(c) /\ strays' = strays \cup {minted'}
           /\ tool' = [tool EXCEPT ![c] = [tool[c] EXCEPT !.at = "end", !.report = "raised",
                                                          !.did = minted']]
    BY <1>2, Zenon DEF Silence, Ends, Keys
  <2> QED BY <2>3, <2>4, <2>5, <2>6, <2>7
<1> QED BY <1>1, <1>2

\* So a step is a step of one call, or of none.
LEMMA StepKinds ==
  ASSUME Ground, [Next]_vars
  PROVE  (\E c \in Calls : Kinds(c)) \/ Elsewhere
<1>1. CASE DayPasses BY <1>1 DEF DayPasses, Elsewhere
<1>2. CASE UNCHANGED vars BY <1>2 DEF vars, Elsewhere
<1>3. ASSUME NEW c \in Calls, Steps(c) PROVE Kinds(c)
  BY <1>3, SaveKinds, RequestKinds DEF Steps
<1>4. CASE NodeForgets BY <1>4 DEF NodeForgets, Elsewhere
<1>5. CASE NameTaken BY <1>5 DEF NameTaken, Elsewhere
<1>6. CASE ComesBack BY <1>6 DEF ComesBack, Elsewhere
<1> QED BY <1>1, <1>2, <1>3, <1>4, <1>5, <1>6, BeginKinds, FailureKinds DEF Next

-----------------------------------------------------------------------------
(* The ground holds.                                                       *)

\* The date stays a date.
LEMMA DayStep == ASSUME Ground, [Next]_vars PROVE day' \in Nat
<1>1. CASE UNCHANGED day BY <1>1 DEF Ground
<1>2. CASE DayPasses BY <1>2 DEF DayPasses, Ground
<1>3. CASE UNCHANGED vars BY <1>1, <1>3 DEF vars
<1>4. ASSUME NEW c \in Calls,
             RadioLoads(c) \/ RadioMints(c) \/ CliLoads(c) \/ LoadFails(c) \/ Silence(c) \/ Kill(c)
      PROVE  UNCHANGED day
  BY <1>4 DEF RadioLoads, RadioMints, CliLoads, LoadFails, Silence, Kill
<1>5. ASSUME NEW c \in Calls, Steps(c) PROVE UNCHANGED day
  BY <1>5 DEF Steps, Open, Write, Mint, Refresh, Served, CliUpload, Unauthorised, TurnedDown
<1>6. ASSUME NodeForgets \/ NameTaken \/ ComesBack PROVE UNCHANGED day
  BY <1>6 DEF NodeForgets, NameTaken, ComesBack
<1> QED BY <1>1, <1>2, <1>3, <1>4, <1>5, <1>6 DEF Next

\* Every variable keeps its type.
LEMMA GroundStep ==
  ASSUME Ground, [Next]_vars
  PROVE  Ground'
<1>1. CASE Elsewhere BY <1>1 DEF Ground, Elsewhere
<1>2. ASSUME NEW c \in Calls, Kinds(c) PROVE Ground'
  <2>1. tool' \in [Calls -> Call]
    BY <1>2 DEF Kinds, Loads, Prepares, Fails, Mints, Loses, Expires, Renews, Opens, Writes, Answered,
                Stops, Only
  <2>2. file' \in Files
    <3>1. /\ Emptied \in Files /\ Mixed(file.size) \in Files
          /\ Whole(tool[c].did, tool[c].issued, SizeOf(c)) \in Files
      BY DEF Ground, Call, Files, Emptied, Mixed, Whole, SizeOf
    <3>2. CASE Opens(c) BY <3>1, <3>2 DEF Opens
    <3>3. CASE Writes(c) BY <3>1, <3>3 DEF Writes
    <3>4. CASE file' = file BY <3>4 DEF Ground
    <3> QED BY <1>2, <3>2, <3>3, <3>4
        DEF Kinds, Loads, Prepares, Fails, Mints, Loses, Expires, Renews, Answered, Stops, Disk
  <2>3. minted' \in Nat
    <3>1. CASE NewKey(c) BY <3>1 DEF Ground, NewKey
    <3>2. CASE UNCHANGED minted BY <3>2 DEF Ground
    <3> QED BY <1>2, <3>1, <3>2 DEF Kinds, Loads, Prepares, Fails, Mints, Loses, Expires, Renews, Opens,
                                    Writes, Answered, Stops, Keys, SameKey
  <2>4. overlapped' \in BOOLEAN
    BY <1>2 DEF Ground, Kinds, Loads, Prepares, Fails, Mints, Loses, Expires, Renews, Opens, Writes, Answered,
                Stops, NewKey, SameKey, Keys, Started
  <2>5. cut' \in BOOLEAN /\ clashed' \in BOOLEAN
    BY <1>2 DEF Ground, Kinds, Loads, Prepares, Fails, Mints, Loses, Expires, Renews, Opens, Writes, Answered,
                Stops, Disk
  <2>6. day' \in Nat BY DayStep
  <2> QED BY <2>1, <2>2, <2>3, <2>4, <2>5, <2>6 DEF Ground
<1> QED BY <1>1, <1>2, StepKinds

-----------------------------------------------------------------------------
(* What was accepted.                                                      *)

\* How many posts there are among the first n requests of a job.
Sent(j, n) == IF \E i \in 1..n : j[i] = "post" THEN 1 ELSE 0

\* The record of a call counts the posts it has made, and of one that ended it
\* says what became of them.
Counts(c, t) ==
  /\ t.at = "start" => t.step = 0 /\ t.accepted = 0 /\ t.report = "none" /\ ~t.again
  /\ t.at # "start" => t.job \in Jobs[c]
  /\ t.at \notin {"start", "end"} =>
       t.step < Len(t.job) /\ t.report = "none" /\ t.accepted = Sent(t.job, t.step)
  /\ t.at = "mint" => ~t.again
  /\ t.accepted <= 1
  /\ t.report = "refused" => t.accepted = 0
  /\ t.report = "done" => t.job = <<"register">> \/ t.accepted = Sent(t.job, Len(t.job))

Counted == \A c \in Calls : Counts(c, tool[c])

\* The next request is a post only if there was none, and then it counts.
LEMMA SentNext ==
  ASSUME NEW j \in Seq(Requests), InOrder(j), NEW n \in Nat, n < Len(j)
  PROVE  /\ Sent(j, n) \in {0, 1} /\ Sent(j, 0) = 0
         /\ Sent(j, n) = 1 => j[n + 1] = "cc"
         /\ Sent(j, n + 1) = Sent(j, n) + (IF j[n + 1] = "post" THEN 1 ELSE 0)
<1>1. DOMAIN j = 1..Len(j) /\ Len(j) \in Nat BY LenProperties
<1>2. Sent(j, n) \in {0, 1} /\ Sent(j, 0) = 0 BY DEF Sent
<1>3. ASSUME Sent(j, n) = 1 PROVE j[n + 1] = "cc"
  <2>1. PICK i \in 1..n : j[i] = "post" BY <1>3 DEF Sent
  <2>2. i \in DOMAIN j /\ n + 1 \in DOMAIN j /\ i < n + 1 BY <1>1
  <2> QED BY <2>1, <2>2 DEF InOrder
<1>4. 1..(n + 1) = 1..n \cup {n + 1} OBVIOUS
<1>5. Sent(j, n + 1) = IF (\E i \in 1..n : j[i] = "post") \/ j[n + 1] = "post" THEN 1 ELSE 0
  BY <1>4 DEF Sent
<1>6. CASE Sent(j, n) = 1
  <2>1. j[n + 1] # "post" BY <1>3, <1>6
  <2>2. \E i \in 1..n : j[i] = "post" BY <1>6 DEF Sent
  <2> QED BY <1>2, <1>3, <1>5, <1>6, <2>1, <2>2
<1>7. CASE Sent(j, n) = 0
  <2>1. ~\E i \in 1..n : j[i] = "post" BY <1>7 DEF Sent
  <2> QED BY <1>2, <1>5, <1>7, <2>1
<1> QED BY <1>2, <1>3, <1>6, <1>7

\* The count is right after every step.
LEMMA CountedStep ==
  ASSUME Ground, Counted, NEW c \in Calls, Kinds(c)
  PROVE  Counted'
<1> DEFINE t == tool[c]
           u == tool'[c]
<1>0. \A d \in Calls \ {c} : tool'[d] = tool[d]
  BY DEF Kinds, Loads, Prepares, Fails, Mints, Loses, Expires, Renews, Opens, Writes, Answered, Stops, Only
<1> SUFFICES Counts(c, u) BY <1>0 DEF Counted
<1>1. /\ t.step \in Nat /\ t.accepted \in Nat /\ t.job \in Seq(Requests) /\ Len(t.job) \in Nat
      /\ Counts(c, t)
  BY LenProperties DEF Ground, Call, Counted
<1>2. \A j \in Jobs[c] : j \in Seq(Requests) /\ Len(j) >= 1 /\ Len(j) \in Nat /\ Sent(j, 0) = 0
  BY JobsTyped, LenProperties DEF Sent
<1>3. t.at \notin {"start", "end"} =>
        /\ Sent(t.job, t.step) \in {0, 1}
        /\ Sent(t.job, t.step) = 1 => Request(c) = "cc"
        /\ Sent(t.job, t.step + 1) = Sent(t.job, t.step) + (IF Request(c) = "post" THEN 1 ELSE 0)
  <2> SUFFICES ASSUME t.at \notin {"start", "end"} PROVE
        /\ Sent(t.job, t.step) \in {0, 1}
        /\ Sent(t.job, t.step) = 1 => Request(c) = "cc"
        /\ Sent(t.job, t.step + 1) = Sent(t.job, t.step) + (IF Request(c) = "post" THEN 1 ELSE 0)
    OBVIOUS
  <2>1. t.job \in Jobs[c] /\ t.step < Len(t.job) BY <1>1 DEF Counts
  <2>2. InOrder(t.job) BY <2>1, JobsTyped
  <2> QED BY <1>1, <2>1, <2>2, SentNext DEF Request
<1>4. CASE Loads(c) \/ Prepares(c) \/ Fails(c)
  <2>1. /\ t.at = "start" /\ u.at \in {"call", "mint", "end"} /\ u.job \in Jobs[c]
        /\ u.step = t.step /\ u.again = t.again /\ u.accepted = t.accepted
        /\ u.at # "end" => u.report = t.report
        /\ u.at = "end" => u.report \in {"refused", "raised"}
    BY <1>4 DEF Loads, Prepares, Fails, Only
  <2> HIDE DEF t, u
  <2> QED BY <1>1, <1>2, <2>1 DEF Counts
<1>5. CASE Mints(c) \/ Expires(c) \/ (Renews(c) /\ u.at = "open") \/ Opens(c)
  <2>1. /\ t.at \notin {"start", "end"} /\ u.at \notin {"start", "end", "mint"} /\ u.job = t.job
        /\ u.step = t.step /\ u.accepted = t.accepted /\ u.report = t.report
    BY <1>5 DEF Mints, Expires, Renews, Opens, Only
  <2> HIDE DEF t, u
  <2> QED BY <1>1, <2>1 DEF Counts
<1>6. CASE Writes(c)
  <2>1. /\ t.at = "write" /\ u.job = t.job /\ u.step = t.step /\ u.accepted = t.accepted
        /\ \/ u.at = "end" /\ u.report = "done" /\ t.job = <<"register">>
           \/ u.at = "call" /\ u.report = t.report
    BY <1>6 DEF Writes, Only
  <2> HIDE DEF t, u
  <2> QED BY <1>1, <2>1 DEF Counts
<1>7. CASE Answered(c)
  <2>1. /\ t.at = "call" /\ u.job = t.job /\ u.step = t.step + 1
        /\ u.accepted = t.accepted + (IF Request(c) = "post" THEN 1 ELSE 0)
        /\ IF t.step + 1 = Len(t.job) THEN u.at = "end" /\ u.report = "done"
                                      ELSE u.at = "call" /\ u.report = "none"
    BY <1>7 DEF Answered, Only
  <2>2. /\ t.job \in Jobs[c] /\ t.step < Len(t.job) /\ t.accepted = Sent(t.job, t.step)
    BY <1>1, <2>1 DEF Counts
  <2>3. u.accepted = Sent(u.job, u.step) /\ u.accepted <= 1
    BY <1>1, <1>3, <2>1, <2>2
  <2>4. u.at = "call" => u.step < Len(u.job)
    BY <1>1, <2>1, <2>2
  <2>5. u.at = "end" => u.step = Len(u.job) BY <2>1
  <2> HIDE DEF t, u
  <2> QED BY <2>1, <2>2, <2>3, <2>4, <2>5 DEF Counts
<1>8. CASE Loses(c) \/ (Renews(c) /\ u.at = "end") \/ Stops(c)
  <2>1. /\ t.at \notin {"start", "end"} /\ u.at = "end" /\ u.job = t.job /\ u.step = t.step
        /\ \/ u.accepted = t.accepted /\ u.report \in {"raised", "killed"}
           \/ /\ Request(c) \in {"post", "resolve"}
              /\ u.accepted = t.accepted /\ u.report = "refused"
           \/ /\ Request(c) = "post"
              /\ u.accepted = t.accepted + 1 /\ u.report = "raised"
    BY <1>8 DEF Loses, Renews, Stops, Only
  <2>2. t.job \in Jobs[c] /\ t.accepted = Sent(t.job, t.step)
    BY <1>1, <2>1 DEF Counts
  <2>3. Request(c) \in {"post", "resolve"} => t.accepted = 0
    BY <1>3, <2>1, <2>2
  <2>4. t.accepted \in {0, 1} BY <1>3, <2>1, <2>2
  <2> HIDE DEF t, u
  <2> QED BY <2>1, <2>2, <2>3, <2>4 DEF Counts
<1>9. Renews(c) => u.at \in {"open", "end"} BY DEF Renews, Only
<1> QED BY <1>4, <1>5, <1>6, <1>7, <1>8, <1>9 DEF Kinds

-----------------------------------------------------------------------------
(* The file.                                                               *)

\* Those that have the file open write texts of one length, over none that is
\* longer, and it is not broken for good but for a kill or a clash.
Saving ==
  /\ ~clashed => \A c, d \in Calls :
       tool[c].at = "write" /\ tool[d].at = "write" => SizeOf(c) = SizeOf(d)
  /\ ~clashed => \A c \in Calls : tool[c].at = "write" => file.size <= SizeOf(c)
  /\ file.text = "broken" => cut \/ clashed \/ ~AtRest

\* They still do after every step.
LEMMA SavingStep ==
  ASSUME Ground, Saving, NEW c \in Calls, Kinds(c)
  PROVE  Saving'
<1>0. \A d \in Calls \ {c} : tool'[d] = tool[d]
  BY DEF Kinds, Loads, Prepares, Fails, Mints, Loses, Expires, Renews, Opens, Writes, Answered, Stops, Only
<1>1. clashed => clashed' BY DEF Kinds, Loads, Prepares, Fails, Mints, Loses, Expires, Renews, Opens, Writes,
                                 Answered, Stops, Disk
<1>2. cut => cut' BY DEF Kinds, Loads, Prepares, Fails, Mints, Loses, Expires, Renews, Opens, Writes,
                         Answered, Stops
<1>3. \A d \in Calls : SizeOf(d) \in 1..4 BY DEF SizeOf
<1>4. \A d \in Calls : tool'[d].at = "write" => SizeOf(d)' = SizeOf(d)
  <2>1. Opens(c) \/ tool'[c].at # "write"
    BY DEF Kinds, Loads, Prepares, Fails, Mints, Loses, Expires, Renews, Writes, Answered, Stops, Only
  <2>2. \A d \in Calls : tool'[d].at = "write" => tool'[d].realm = tool[d].realm
    BY <1>0, <2>1 DEF Opens
  <2> QED BY <2>2 DEF SizeOf
<1>5. CASE Opens(c)
  <2>1. /\ tool'[c].at = "write" /\ file'.size = 0 /\ file'.text = "broken"
        /\ clashed' = (clashed \/ \E d \in Calls : tool[d].at = "write" /\ SizeOf(d) # SizeOf(c))
    BY <1>5 DEF Opens, Only, Emptied
  <2>2. ~AtRest' BY <2>1 DEF AtRest
  <2>3. \A d \in Calls : file'.size <= SizeOf(d) BY <1>3, <2>1
  <2>4. ~clashed' => \A d, e \in Calls :
          tool'[d].at = "write" /\ tool'[e].at = "write" => SizeOf(d) = SizeOf(e)
    BY <1>0, <2>1 DEF Saving
  <2> QED BY <1>4, <2>2, <2>3, <2>4 DEF Saving
<1>6. CASE Writes(c)
  <2>1. /\ tool[c].at = "write" /\ tool'[c].at # "write" /\ clashed' = clashed
        /\ file' = IF SizeOf(c) >= file.size
                   THEN Whole(tool[c].did, tool[c].issued, SizeOf(c)) ELSE Mixed(file.size)
    BY <1>6 DEF Writes, Only
  <2>2. ~clashed => file' = Whole(tool[c].did, tool[c].issued, SizeOf(c))
    <3>1. SizeOf(c) \in Nat /\ file.size \in Nat BY <1>3 DEF Ground, Files
    <3> QED BY <2>1, <3>1 DEF Saving
  <2>3. ~clashed => file'.size = SizeOf(c) /\ file'.text = "whole" BY <2>2 DEF Whole
  <2>4. SizeOf(c) <= SizeOf(c) BY <1>3
  <2>5. ~clashed' => \A d \in Calls : tool'[d].at = "write" => file'.size <= SizeOf(d)
    BY <1>0, <2>1, <2>3, <2>4 DEF Saving
  <2>6. ~clashed' => \A d, e \in Calls :
          tool'[d].at = "write" /\ tool'[e].at = "write" => SizeOf(d) = SizeOf(e)
    BY <1>0, <2>1 DEF Saving
  <2> QED BY <1>4, <2>1, <2>3, <2>5, <2>6 DEF Saving
<1>7. CASE ~Opens(c) /\ ~Writes(c)
  <2>1. file' = file /\ clashed' = clashed /\ tool'[c].at # "write"
    BY <1>7 DEF Kinds, Loads, Prepares, Fails, Mints, Loses, Expires, Renews, Answered, Stops, Only, Disk
  <2>2. tool[c].at = "write" => cut'
    BY <1>7 DEF Kinds, Loads, Prepares, Fails, Mints, Loses, Expires, Renews, Answered, Stops
  <2>3. ~AtRest => cut' \/ ~AtRest' BY <1>0, <2>2 DEF AtRest
  <2>4. \A d \in Calls : tool'[d].at = "write" => tool[d].at = "write" BY <1>0, <2>1
  <2> QED BY <1>2, <1>4, <2>1, <2>3, <2>4 DEF Saving
<1> QED BY <1>5, <1>6, <1>7

-----------------------------------------------------------------------------
(* Keys and dates.                                                         *)

Holds == {"open", "write", "call", "refresh"}

\* The calls that have made their key, if they make one.
Made == {c \in Calls : tool[c].at \notin {"start", "mint"}}

\* Every key there is was made by a call, which made no other. A key in use is
\* one of them.
Numbered ==
  /\ \A c \in Calls :
       /\ tool[c].did <= minted /\ (tool[c].at \in Holds => tool[c].did >= 1)
       /\ tool[c].at = "start" => tool[c].job = << >>
       /\ tool[c].step <= Len(tool[c].job)
  /\ minted <= Cardinality(Made) /\ holder \in 0..minted \cup {Other}
  /\ enrolled \subseteq 1..minted /\ strays \subseteq 0..minted
  /\ file \in {Absent, Foreign, Emptied} \cup {Mixed(n) : n \in 2..4}
              \cup {Whole(d, t, n) : d \in 1..minted, t \in Nat, n \in 1..4}

\* No UCAN is from tomorrow.
Dated ==
  /\ \A c \in Calls : tool[c].issued <= day
  /\ file.text = "whole" => file.issued <= day
  /\ day <= LastDay /\ faults \in 0..MaxFaults

\* Who has made a key is one more when there is a key more.
LEMMA MadeStep ==
  ASSUME Ground, Numbered, NEW c \in Calls, Kinds(c)
  PROVE  minted' \in Nat /\ minted' <= Cardinality(Made)' /\ minted <= minted'
<1>0. \A d \in Calls \ {c} : tool'[d] = tool[d]
  BY DEF Kinds, Loads, Prepares, Fails, Mints, Loses, Expires, Renews, Opens, Writes, Answered, Stops, Only
<1>1. /\ IsFiniteSet(Made) /\ IsFiniteSet(Made') /\ Cardinality(Made) \in Nat /\ Cardinality(Made') \in Nat
  <2>1. Made \subseteq Calls /\ Made' \subseteq Calls BY DEF Made
  <2>2. IsFiniteSet(Made) /\ IsFiniteSet(Made') BY <2>1, FS_Subset, ToolsAssumption
  <2> QED BY <2>2, FS_CardinalityType
<1>2. minted \in Nat /\ minted <= Cardinality(Made) BY DEF Ground, Numbered
<1>3. CASE Mints(c) \/ Loses(c)
  <2>1. tool[c].at = "mint" /\ tool'[c].at \in {"open", "end"} /\ minted' = minted + 1
    BY <1>3 DEF Mints, Loses, Only, NewKey
  <2>2. Made' = Made \cup {c} /\ c \notin Made BY <1>0, <2>1 DEF Made
  <2>3. Cardinality(Made') = Cardinality(Made) + 1 BY <1>1, <2>2, FS_AddElement
  <2> QED BY <1>1, <1>2, <2>1, <2>3
<1>4. CASE ~Mints(c) /\ ~Loses(c)
  <2>1. minted' = minted /\ (tool[c].at \notin {"start", "mint"} => tool'[c].at \notin {"start", "mint"})
    BY <1>4 DEF Kinds, Loads, Prepares, Fails, Expires, Renews, Opens, Writes, Answered, Stops, Only, Keys, SameKey
  <2>2. Made \subseteq Made' BY <1>0, <2>1 DEF Made
  <2>3. Cardinality(Made) <= Cardinality(Made') BY <1>1, <2>2, FS_Subset
  <2> QED BY <1>1, <1>2, <2>1, <2>3
<1> QED BY <1>3, <1>4

\* The keys stay numbered.
LEMMA NumberedStep ==
  ASSUME Ground, Counted, Numbered, NEW c \in Calls, Kinds(c)
  PROVE  Numbered'
<1> DEFINE t == tool[c]
           u == tool'[c]
<1>0. \A d \in Calls \ {c} : tool'[d] = tool[d]
  BY DEF Kinds, Loads, Prepares, Fails, Mints, Loses, Expires, Renews, Opens, Writes, Answered, Stops, Only
<1>1. minted \in Nat /\ minted' \in Nat /\ minted <= minted' /\ minted' <= Cardinality(Made)'
  BY MadeStep DEF Ground
<1>2. /\ t.did \in Nat /\ t.did <= minted /\ (t.at \in Holds => t.did >= 1)
      /\ t.step \in Nat /\ t.job \in Seq(Requests) /\ t.step <= Len(t.job) /\ Len(t.job) \in Nat
      /\ t.issued \in Nat
  BY LenProperties DEF Ground, Call, Numbered
<1>3. holder' \in 0..minted' \cup {Other} /\ enrolled' \subseteq 1..minted' /\ strays' \subseteq 0..minted'
  <2>1. holder \in 0..minted \cup {Other} /\ enrolled \subseteq 1..minted /\ strays \subseteq 0..minted
    BY DEF Numbered
  <2>2. 0..minted \subseteq 0..minted' /\ 1..minted \subseteq 1..minted' BY <1>1
  <2>3. CASE Mints(c) \/ Loses(c)
    <3>1. /\ minted' = minted + 1 /\ enrolled' = enrolled \cup {minted'} /\ holder' \in {minted', Other}
          /\ strays' \subseteq strays \cup {minted'}
      BY <2>3 DEF Mints, Loses, NewKey, Claims
    <3> QED BY <1>1, <2>1, <2>2, <3>1
  <2>4. CASE Renews(c)
    <3>1. t.did \in 1..minted /\ t.did \in 0..minted BY <1>1, <1>2, <2>4 DEF Renews, Holds
    <3>2. enrolled' = enrolled \cup {t.did} /\ holder' \in {t.did, holder} /\ strays' = strays
      BY <2>4 DEF Renews, SameKey, Claims
    <3> QED BY <2>1, <2>2, <3>1, <3>2
  <2>5. CASE ~Mints(c) /\ ~Loses(c) /\ ~Renews(c)
    <3>1. t.did \in 0..minted BY <1>1, <1>2
    <3>2. enrolled' = enrolled /\ holder' = holder /\ strays' \subseteq strays \cup {t.did}
      BY <2>5 DEF Kinds, Loads, Prepares, Fails, Expires, Opens, Writes, Answered, Stops, Keys
    <3> QED BY <2>1, <2>2, <3>1, <3>2
  <2> QED BY <2>3, <2>4, <2>5
<1>4. /\ t.at = "start" => t.step = 0
      /\ t.at \notin {"start", "end"} => t.step < Len(t.job)
  BY DEF Counted, Counts
<1>5. file.text = "whole" => file.did \in 1..minted
  BY DEF Numbered, Absent, Foreign, Emptied, Mixed, Whole
<1>6. /\ u.did \in Nat /\ u.did <= minted' /\ (u.at \in Holds => u.did >= 1) /\ u.at # "start"
      /\ u.step <= Len(u.job)
  <2> HIDE DEF t, u
  <2>1. CASE Loads(c)
    <3>1. PICK j \in Jobs[c] : u.at = "call" /\ u.job = j /\ u.step = t.step /\ u.did = file.did
      BY <2>1 DEF Loads, Only, t, u
    <3>2. t.at = "start" /\ file.text = "whole" BY <2>1 DEF Loads, t
    <3>3. Len(j) >= 1 BY JobsTyped
    <3> QED BY <1>1, <1>4, <1>5, <3>1, <3>2, <3>3
  <2>2. CASE Prepares(c) \/ Fails(c)
    <3>1. PICK j \in Jobs[c] : u.at \in {"mint", "end"} /\ u.job = j /\ u.step = t.step /\ u.did = t.did
      BY <2>2 DEF Prepares, Fails, Only, t, u
    <3>2. t.at = "start" BY <2>2 DEF Prepares, Fails, t
    <3>3. Len(j) >= 1 BY JobsTyped
    <3> QED BY <1>1, <1>2, <1>4, <3>1, <3>2, <3>3 DEF Holds
  <2>3. CASE Mints(c) \/ Loses(c)
    <3>1. /\ u.at \in {"open", "end"} /\ u.job = t.job /\ u.step = t.step /\ u.did = minted + 1
          /\ minted' = minted + 1
      BY <2>3 DEF Mints, Loses, Only, NewKey, t, u
    <3> QED BY <1>1, <1>2, <3>1
  <2>4. CASE Expires(c) \/ Renews(c) \/ Opens(c) \/ Writes(c)
    <3>1. /\ t.at \in Holds /\ u.at # "start" /\ u.job = t.job /\ u.step = t.step /\ u.did = t.did
      BY <2>4 DEF Expires, Renews, Opens, Writes, Only, Holds, t, u
    <3> QED BY <1>1, <1>2, <3>1
  <2>5. CASE Answered(c)
    <3>1. /\ t.at = "call" /\ u.at # "start" /\ u.job = t.job /\ u.step = t.step + 1 /\ u.did = t.did
      BY <2>5 DEF Answered, Only, t, u
    <3> QED BY <1>1, <1>2, <1>4, <3>1 DEF Holds
  <2>6. CASE Stops(c)
    <3>1. u.at = "end" /\ u.job = t.job /\ u.step = t.step /\ u.did = t.did
      BY <2>6 DEF Stops, Only, t, u
    <3> QED BY <1>1, <1>2, <3>1 DEF Holds
  <2> QED BY <2>1, <2>2, <2>3, <2>4, <2>5, <2>6 DEF Kinds
<1>7. file' \in {Absent, Foreign, Emptied} \cup {Mixed(n) : n \in 2..4}
               \cup {Whole(d, i, n) : d \in 1..minted', i \in Nat, n \in 1..4}
  <2>1. CASE Opens(c) BY <2>1 DEF Opens
  <2>2. CASE Writes(c)
    <3>1. t.did \in 1..minted' /\ SizeOf(c) \in 1..4
      <4>1. t.at \in Holds BY <2>2 DEF Writes, Holds
      <4> QED BY <1>1, <1>2, <4>1 DEF SizeOf
    <3>2. \/ file' = Whole(t.did, t.issued, SizeOf(c))
          \/ file' = Mixed(file.size) /\ ~(SizeOf(c) >= file.size)
      BY <2>2 DEF Writes
    <3>3. file.size \in 0..4 /\ SizeOf(c) \in 1..4 BY DEF Ground, Files, SizeOf
    <3> QED BY <1>2, <3>1, <3>2, <3>3
  <2>3. CASE file' = file
    <3>1. 1..minted \subseteq 1..minted' BY <1>1
    <3> QED BY <2>3, <3>1 DEF Numbered
  <2>4. Opens(c) \/ Writes(c) \/ file' = file
    BY DEF Kinds, Loads, Prepares, Fails, Mints, Loses, Expires, Renews, Answered, Stops, Disk
  <2> QED BY <2>1, <2>2, <2>3, <2>4
<1>8. ASSUME NEW d \in Calls
      PROVE  /\ tool'[d].did <= minted' /\ (tool'[d].at \in Holds => tool'[d].did >= 1)
             /\ tool'[d].at = "start" => tool'[d].job = << >>
             /\ tool'[d].step <= Len(tool'[d].job)
  <2>1. CASE d = c BY <1>6, <2>1
  <2>2. CASE d # c
    <3>1. tool'[d] = tool[d] BY <1>0, <2>2
    <3>2. tool[d].did \in Nat /\ tool[d].did <= minted /\ (tool[d].at \in Holds => tool[d].did >= 1)
          /\ (tool[d].at = "start" => tool[d].job = << >>) /\ tool[d].step <= Len(tool[d].job)
      BY DEF Numbered, Ground, Call
    <3> QED BY <1>1, <3>1, <3>2
  <2> QED BY <2>1, <2>2
<1> QED BY <1>1, <1>3, <1>7, <1>8 DEF Numbered, Made

\* Also when no call takes a step.
LEMMA NumberedElsewhere ==
  ASSUME Ground, Numbered, Elsewhere
  PROVE  Numbered'
<1>1. strays' \subseteq 0..minted /\ 1..minted \subseteq 0..minted BY DEF Numbered, Elsewhere, Ground
<1>2. holder' \in 0..minted \cup {Other} BY <1>1 DEF Numbered, Elsewhere, Ground
<1>3. enrolled' \subseteq 1..minted BY DEF Numbered, Elsewhere
<1>4. UNCHANGED <<tool, minted, file>> BY DEF Elsewhere
<1> QED BY <1>1, <1>2, <1>3, <1>4 DEF Numbered, Made

\* The UCAN of c is what it was, the file's, or of today; the file's is what it
\* was, or the one of c.
Dating(c) ==
  /\ \A d \in Calls \ {c} : tool'[d] = tool[d]
  /\ \/ tool'[c].issued = tool[c].issued
     \/ tool'[c].issued = day
     \/ file.text = "whole" /\ tool'[c].issued = file.issued
  /\ \/ file' = file
     \/ file'.text # "whole"
     \/ file'.issued = tool[c].issued

\* That is all a call does with dates.
LEMMA CallDates ==
  ASSUME Ground, NEW c \in Calls,
         \/ RadioLoads(c) \/ RadioMints(c) \/ CliLoads(c) \/ LoadFails(c)
         \/ Steps(c) \/ Silence(c) \/ Kill(c)
  PROVE  Dating(c)
<1>0. /\ tool[c] \in Call /\ tool \in [Calls -> Call]
      /\ tool[c] = [at |-> tool[c].at, job |-> tool[c].job, step |-> tool[c].step, did |-> tool[c].did,
                    issued |-> tool[c].issued, realm |-> tool[c].realm, again |-> tool[c].again,
                    accepted |-> tool[c].accepted, report |-> tool[c].report]
  BY Fields DEF Ground
<1> DEFINE Keeps == \E r : r.issued = tool[c].issued /\ tool' = [tool EXCEPT ![c] = r]
           Takes == \E r : r.issued = file.issued /\ tool' = [tool EXCEPT ![c] = r]
           Renewed == \E r : r.issued = day /\ tool' = [tool EXCEPT ![c] = r]
<1>1. ASSUME Keeps \/ Renewed \/ (Takes /\ file.text = "whole"),
             file' = file \/ file'.text # "whole" \/ file'.issued = tool[c].issued
      PROVE  Dating(c)
  <2>1. PICK r : /\ tool' = [tool EXCEPT ![c] = r]
                 /\ r.issued \in {tool[c].issued, day} \/ (file.text = "whole" /\ r.issued = file.issued)
    BY <1>1
  <2>2. tool'[c] = r /\ \A d \in Calls \ {c} : tool'[d] = tool[d] BY <1>0, <2>1
  <2> QED BY <1>1, <2>1, <2>2 DEF Dating
<1>2. CASE RadioLoads(c)
  <2>1. PICK j \in Jobs[c] :
          tool' = [tool EXCEPT ![c] = [tool[c] EXCEPT !.at = "call", !.job = j,
                                                     !.did = file.did, !.issued = file.issued,
                                                     !.realm = HasRealm]]
    BY <1>2 DEF RadioLoads
  <2>2. Takes BY <1>0, <2>1
  <2> QED BY <1>1, <1>2, <2>2 DEF RadioLoads
<1>3. CASE RadioMints(c)
  <2>1. PICK j \in Jobs[c] : tool' = [tool EXCEPT ![c] = [tool[c] EXCEPT !.at = "mint", !.job = j]]
    BY <1>3 DEF RadioMints
  <2>2. Keeps BY <1>0, <2>1
  <2> QED BY <1>1, <1>3, <2>2 DEF RadioMints
<1>4. CASE CliLoads(c)
  <2>1. PICK j \in Jobs[c] :
          \/ tool' = [tool EXCEPT ![c] = [tool[c] EXCEPT !.at = "mint", !.job = j]]
          \/ tool' = [tool EXCEPT ![c] = [tool[c] EXCEPT !.at = "end", !.job = j, !.report = "refused"]]
          \/ /\ file.text # "absent"
             /\ tool' = [tool EXCEPT ![c] = [tool[c] EXCEPT !.at = "call", !.job = j,
                                                     !.did = file.did, !.issued = file.issued,
                                                     !.realm = HasRealm]]
    BY <1>4 DEF CliLoads
  <2>2. Keeps \/ (Takes /\ file.text # "absent") BY <1>0, <2>1
  <2> QED BY <1>1, <1>4, <2>2 DEF CliLoads
<1>5. CASE LoadFails(c)
  <2>1. PICK j \in Jobs[c] :
          \/ tool' = [tool EXCEPT ![c] = [tool[c] EXCEPT !.at = "mint", !.job = j]]
          \/ tool' = [tool EXCEPT ![c] = [tool[c] EXCEPT !.at = "end", !.job = j, !.report = "raised"]]
    BY <1>5 DEF LoadFails
  <2>2. Keeps BY <1>0, <2>1
  <2> QED BY <1>1, <1>5, <2>2 DEF LoadFails
<1>6. CASE Open(c)
  <2>1. Keeps BY <1>0, <1>6 DEF Open
  <2> QED BY <1>1, <1>6, <2>1 DEF Open, Emptied
<1>7. CASE Write(c)
  <2>1. Keeps
    <3>1. \/ tool' = [tool EXCEPT ![c] = [tool[c] EXCEPT !.at = "end", !.report = "done"]]
          \/ tool' = [tool EXCEPT ![c] = [tool[c] EXCEPT !.at = "call"]]
      BY <1>7 DEF Write
    <3> QED BY <1>0, <3>1
  <2>2. file'.text # "whole" \/ file'.issued = tool[c].issued BY <1>7 DEF Write, Whole, Mixed
  <2> QED BY <1>1, <2>1, <2>2
<1>8. CASE Mint(c) \/ Refresh(c)
  <2>1. Renewed BY <1>0, <1>8 DEF Mint, Refresh
  <2> QED BY <1>1, <1>8, <2>1 DEF Mint, Refresh
<1>9. ASSUME NEW p, Ends(c, p) PROVE Keeps BY <1>0, <1>9 DEF Ends
<1>10. ASSUME NEW n, GoesOn(c, n) PROVE Keeps
  <2> DEFINE last == tool[c].step + 1 = Len(tool[c].job)
             a == IF last THEN "end" ELSE "call"
             p == IF last THEN "done" ELSE "none"
             r == [tool[c] EXCEPT !.step = tool[c].step + 1, !.again = FALSE, !.accepted = tool[c].accepted + n,
                                  !.at = a, !.report = p]
  <2>1. tool' = [tool EXCEPT ![c] = r] BY <1>10, Zenon DEF GoesOn
  <2> HIDE DEF last, a, p
  <2>2. r.issued = tool[c].issued BY <1>0
  <2> QED BY <2>1, <2>2
<1>11. CASE Served(c) \/ CliUpload(c) \/ TurnedDown(c)
  <2>1. Keeps BY <1>9, <1>10, <1>11 DEF Served, CliUpload, TurnedDown
  <2>2. file' = file BY <1>11 DEF Served, CliUpload, TurnedDown
  <2> QED BY <1>1, <2>1, <2>2
<1>12. CASE Unauthorised(c)
  <2>1. CASE tool' = [tool EXCEPT ![c] = [tool[c] EXCEPT !.at = "refresh"]]
    <3>1. Keeps BY <1>0, <2>1
    <3> QED BY <1>1, <1>12, <3>1 DEF Unauthorised
  <2>2. CASE Ends(c, "refused") \/ Ends(c, "raised") \/ GoesOn(c, 0)
    <3>1. Keeps BY <1>9, <1>10, <2>2
    <3> QED BY <1>1, <1>12, <3>1 DEF Unauthorised
  <2> QED BY <1>12, <2>1, <2>2 DEF Unauthorised
<1>13. CASE Silence(c)
  <2>1. \/ tool' = [tool EXCEPT ![c] = [tool[c] EXCEPT !.at = "end", !.report = "raised"]]
        \/ tool' = [tool EXCEPT ![c] = [tool[c] EXCEPT !.at = "end", !.report = "raised",
                                                       !.accepted = tool[c].accepted + 1]]
        \/ tool' = [tool EXCEPT ![c] = [tool[c] EXCEPT !.at = "end", !.report = "raised", !.did = minted']]
    BY <1>13, Zenon DEF Silence
  <2>2. Keeps BY <1>0, <2>1
  <2> QED BY <1>1, <1>13, <2>2 DEF Silence
<1>14. CASE Kill(c)
  <2>1. Keeps BY <1>9, <1>14 DEF Kill
  <2> QED BY <1>1, <1>14, <2>1 DEF Kill
<1> QED BY <1>2, <1>3, <1>4, <1>5, <1>6, <1>7, <1>8, <1>11, <1>12, <1>13, <1>14 DEF Steps

\* Dates go on by a day, failures by one, and no UCAN is from tomorrow.
LEMMA DatedStep ==
  ASSUME Ground, Dated, [Next]_vars
  PROVE  Dated'
<1>0. /\ day \in Nat /\ day <= LastDay /\ LastDay \in Nat /\ MaxFaults \in Nat /\ faults \in 0..MaxFaults
      /\ \A c \in Calls : tool[c].issued \in Nat /\ tool[c].issued <= day
  BY ToolsAssumption DEF Ground, Call, Dated
<1>1. faults < MaxFaults /\ faults' = faults + 1 => faults' \in 0..MaxFaults BY <1>0
<1>2. ASSUME NEW c \in Calls,
             \/ RadioLoads(c) \/ RadioMints(c) \/ CliLoads(c) \/ LoadFails(c)
             \/ Steps(c) \/ Silence(c) \/ Kill(c)
      PROVE  Dated'
  <2>1. Dating(c) BY <1>2, CallDates
  <2>2. day' = day
    BY <1>2 DEF RadioLoads, RadioMints, CliLoads, LoadFails, Silence, Kill, Steps, Open, Write, Mint,
                Refresh, Served, CliUpload, Unauthorised, TurnedDown
  <2>3. faults' \in 0..MaxFaults
    <3>1. CASE faults' = faults BY <1>0, <3>1
    <3>2. CASE Fault BY <1>1, <3>2 DEF Fault
    <3> QED BY <1>2, <3>1, <3>2
        DEF RadioLoads, RadioMints, CliLoads, LoadFails, Silence, Kill, Steps, Open, Write, Mint,
            Refresh, Served, CliUpload, Unauthorised, TurnedDown
  <2>4. tool'[c].issued <= day BY <1>0, <2>1 DEF Dating, Dated
  <2>5. \A d \in Calls : tool'[d].issued <= day BY <1>0, <2>1, <2>4 DEF Dating
  <2>6. file'.text = "whole" => file'.issued <= day BY <1>0, <2>1 DEF Dating, Dated
  <2> QED BY <1>0, <2>2, <2>3, <2>5, <2>6 DEF Dated
<1>3. CASE DayPasses
  <2>1. day' = day + 1 /\ day < LastDay /\ UNCHANGED <<tool, file, faults>> BY <1>3 DEF DayPasses
  <2>2. day' <= LastDay /\ day <= day' BY <1>0, <2>1
  <2>3. \A c \in Calls : tool'[c].issued <= day' BY <1>0, <2>1
  <2>4. file'.text = "whole" => file'.issued <= day' BY <1>0, <2>1 DEF Ground, Files, Dated
  <2> QED BY <1>0, <2>1, <2>2, <2>3, <2>4 DEF Dated
<1>4. CASE UNCHANGED vars BY <1>4 DEF Dated, vars
<1>5. CASE NodeForgets \/ NameTaken \/ ComesBack
  <2>1. UNCHANGED <<tool, file, day>> /\ (faults' = faults \/ Fault)
    BY <1>5 DEF NodeForgets, NameTaken, ComesBack
  <2>2. faults' \in 0..MaxFaults BY <1>0, <1>1, <2>1 DEF Fault
  <2> QED BY <2>1, <2>2 DEF Dated
<1> QED BY <1>2, <1>3, <1>4, <1>5 DEF Next

-----------------------------------------------------------------------------
(* The key.                                                                *)

\* A new key is on its way to the file.
Coming == \E c \in Calls : Unsaved(c)

\* Unless a key was made while another call ran, one key is in use: all that hold a
\* key hold the same, which is the file's, or is new and its maker alone has it.
\* The name is that key's, if it is not one of those that the tools cannot help.
Keyed ==
  ~overlapped =>
    /\ \A d, e \in Calls : tool[d].at \in Holds /\ tool[e].at \in Holds => tool[d].did = tool[e].did
    /\ \A d, e \in Calls : Unsaved(d) /\ tool[e].at \in Holds => e = d
    /\ file.text = "whole" /\ ~Coming => \A d \in Calls : tool[d].at \in Holds => tool[d].did = file.did
    /\ holder \notin {0, Other} \cup strays =>
         /\ \A d \in Calls : tool[d].at \in Holds => tool[d].did = holder
         /\ file.text = "whole" /\ ~Coming => file.did = holder

\* A step of a call that keeps its key, or lets go of it, and does not save it. The
\* name may go to the key.
LEMMA KeyedQuietly ==
  ASSUME Keyed, NEW c \in Calls, ~overlapped,
         \A d \in Calls \ {c} : tool'[d] = tool[d],
         tool'[c].at \in Holds => tool[c].at \in Holds /\ tool'[c].did = tool[c].did,
         Unsaved(c)' => Unsaved(c),
         Unsaved(c) => Unsaved(c)' \/ (tool'[c].at \notin Holds /\ tool[c].did \in strays'),
         file' = file \/ file'.text # "whole", strays \subseteq strays',
         holder' = holder \/ (tool[c].at = "refresh" /\ holder' = tool[c].did)
  PROVE  Keyed'
<1>0. /\ \A d, e \in Calls : tool[d].at \in Holds /\ tool[e].at \in Holds => tool[d].did = tool[e].did
      /\ \A d, e \in Calls : Unsaved(d) /\ tool[e].at \in Holds => e = d
      /\ file.text = "whole" /\ ~Coming => \A d \in Calls : tool[d].at \in Holds => tool[d].did = file.did
      /\ holder \notin {0, Other} \cup strays =>
           /\ \A d \in Calls : tool[d].at \in Holds => tool[d].did = holder
           /\ file.text = "whole" /\ ~Coming => file.did = holder
  BY DEF Keyed
<1>1. \A d \in Calls : tool'[d].at \in Holds => tool[d].at \in Holds /\ tool'[d].did = tool[d].did
  OBVIOUS
<1>2. \A d \in Calls : Unsaved(d)' => Unsaved(d)
  <2>1. \A d \in Calls \ {c} : Unsaved(d)' <=> Unsaved(d) BY DEF Unsaved
  <2> QED BY <2>1
<1>3. /\ \A d, e \in Calls : tool'[d].at \in Holds /\ tool'[e].at \in Holds => tool'[d].did = tool'[e].did
      /\ \A d, e \in Calls : Unsaved(d)' /\ tool'[e].at \in Holds => e = d
  BY <1>0, <1>1, <1>2
<1>4. CASE Unsaved(c) => Unsaved(c)'
  <2>1. Coming => Coming'
    <3>1. \A d \in Calls \ {c} : Unsaved(d)' <=> Unsaved(d) BY DEF Unsaved
    <3> QED BY <1>4, <3>1 DEF Coming
  <2>2. /\ file'.text = "whole" /\ ~Coming' => \A d \in Calls : tool'[d].at \in Holds => tool'[d].did = file'.did
    BY <1>0, <1>1, <2>1
  <2>3. CASE holder' = holder
    <3>1. holder' \notin {0, Other} \cup strays' =>
            /\ \A d \in Calls : tool'[d].at \in Holds => tool'[d].did = holder'
            /\ file'.text = "whole" /\ ~Coming' => file'.did = holder'
      BY <1>0, <1>1, <2>1, <2>3
    <3> QED BY <1>3, <2>2, <3>1 DEF Keyed
  <2>4. CASE tool[c].at = "refresh" /\ holder' = tool[c].did
    <3>1. tool[c].at \in Holds BY <2>4 DEF Holds
    <3>2. /\ \A d \in Calls : tool'[d].at \in Holds => tool'[d].did = holder'
          /\ file'.text = "whole" /\ ~Coming' => file'.did = holder'
      BY <1>0, <1>1, <2>1, <2>4, <3>1
    <3> QED BY <1>3, <2>2, <3>2 DEF Keyed
  <2> QED BY <2>3, <2>4
<1>5. CASE Unsaved(c) /\ ~Unsaved(c)'
  <2>1. tool[c].at \in Holds /\ tool[c].at # "refresh" BY <1>5 DEF Unsaved, Holds
  <2>2. \A d \in Calls : tool'[d].at \notin Holds BY <1>0, <1>1, <1>5
  <2>3. holder' \in {0, Other} \cup strays' BY <1>0, <1>5, <2>1
  <2> QED BY <2>2, <2>3 DEF Keyed
<1> QED BY <1>4, <1>5

\* So it is after every step of a call.
LEMMA KeyedStep ==
  ASSUME Ground, Counted, Keyed, NEW c \in Calls, Kinds(c)
  PROVE  Keyed'
<1>0. \A d \in Calls \ {c} : tool'[d] = tool[d]
  BY DEF Kinds, Loads, Prepares, Fails, Mints, Loses, Expires, Renews, Opens, Writes, Answered, Stops, Only
<1>1. overlapped => overlapped'
  BY DEF Kinds, Loads, Prepares, Fails, Mints, Loses, Expires, Renews, Opens, Writes, Answered, Stops, Keys,
         NewKey, SameKey, Started
<1> SUFFICES ASSUME ~overlapped' PROVE Keyed' BY DEF Keyed
<1>2. /\ ~overlapped
      /\ \A d, e \in Calls : tool[d].at \in Holds /\ tool[e].at \in Holds => tool[d].did = tool[e].did
      /\ \A d, e \in Calls : Unsaved(d) /\ tool[e].at \in Holds => e = d
      /\ file.text = "whole" /\ ~Coming => \A d \in Calls : tool[d].at \in Holds => tool[d].did = file.did
      /\ holder \notin {0, Other} \cup strays =>
           /\ \A d \in Calls : tool[d].at \in Holds => tool[d].did = holder
           /\ file.text = "whole" /\ ~Coming => file.did = holder
  BY <1>1 DEF Keyed
<1>3. tool[c].at \in {"start", "mint"} => ~tool[c].again BY DEF Counted, Counts
<1>4. \A d \in Calls \ {c} : Unsaved(d)' <=> Unsaved(d) BY <1>0 DEF Unsaved
<1>5. CASE Loads(c)
  <2>1. /\ tool[c].at = "start" /\ file.text = "whole" /\ tool'[c].did = file.did /\ tool'[c].at = "call"
        /\ UNCHANGED <<holder, strays>> /\ file' = file /\ Started(c)
    BY <1>5 DEF Loads, Only, Disk
  <2>2. ~Coming /\ ~Coming'
    <3>1. \A d \in Calls \ {c} : ~Unsaved(d) BY <2>1 DEF Started, Making, Unsaved
    <3>2. ~Unsaved(c) /\ ~Unsaved(c)' BY <2>1 DEF Unsaved
    <3> QED BY <1>4, <3>1, <3>2 DEF Coming
  <2>3. \A d \in Calls : tool'[d].at \in Holds => tool'[d].did = file.did BY <1>0, <1>2, <2>1, <2>2
  <2>4. \A d \in Calls : ~Unsaved(d)' BY <2>2 DEF Coming
  <2>5. holder' \notin {0, Other} \cup strays' => file.did = holder' BY <1>2, <2>1, <2>2
  <2> QED BY <2>1, <2>3, <2>4, <2>5 DEF Keyed
<1>6. CASE Mints(c) \/ Loses(c)
  <2>1. tool[c].at = "mint" /\ NewKey(c) /\ tool'[c].did = minted'
    BY <1>6 DEF Mints, Loses, Only, NewKey
  <2>2. \A d \in Calls \ {c} : tool'[d].at \notin Holds
    BY <1>0, <2>1 DEF NewKey, Running, Holds
  <2>3. holder' \in {minted', Other} BY <2>1 DEF NewKey, Claims
  <2>4. CASE Mints(c)
    <3>1. Unsaved(c)' BY <1>3, <2>1, <2>4 DEF Mints, Only, Unsaved
    <3>2. Coming' BY <3>1 DEF Coming
    <3>3. \A d \in Calls : tool'[d].at \in Holds => tool'[d].did = minted' BY <2>1, <2>2
    <3>4. \A d \in Calls : tool'[d].at \in Holds => d = c BY <2>2
    <3>5. \A d \in Calls : Unsaved(d)' => tool'[d].at \in Holds BY DEF Unsaved, Holds
    <3> QED BY <2>3, <3>2, <3>3, <3>4, <3>5 DEF Keyed
  <2>5. CASE Loses(c)
    <3>1. tool'[c].at = "end" /\ minted' \in strays' BY <2>5 DEF Loses, Only
    <3>2. \A d \in Calls : tool'[d].at \notin Holds BY <2>2, <3>1 DEF Holds
    <3>3. holder' \in {0, Other} \cup strays' BY <2>3, <3>1
    <3> QED BY <3>2, <3>3 DEF Keyed
  <2> QED BY <1>6, <2>4, <2>5
<1>7. CASE Prepares(c) \/ Fails(c) \/ Expires(c) \/ Answered(c)
  <2>1. /\ tool[c].at \in {"start", "call"} /\ tool'[c].at \in {"mint", "refresh", "call", "end"}
        /\ tool'[c].at \in {"refresh", "call"} => tool[c].at = "call"
        /\ tool'[c].at \in Holds => tool'[c].did = tool[c].did
        /\ UNCHANGED <<holder, strays, file>>
    BY <1>7 DEF Prepares, Fails, Expires, Answered, Only, Disk, Keys, Holds
  <2>2. ~Unsaved(c) /\ ~Unsaved(c)' BY <2>1 DEF Unsaved
  <2>3. tool'[c].at \in Holds => tool[c].at \in Holds BY <2>1 DEF Holds
  <2> QED BY <1>0, <1>2, <2>1, <2>2, <2>3, KeyedQuietly
<1>8. CASE Renews(c)
  <2>1. /\ tool[c].at = "refresh" /\ tool'[c].did = tool[c].did
        /\ tool'[c].at = "end" \/ (tool'[c].at = "open" /\ tool'[c].again)
        /\ UNCHANGED <<strays, file>> /\ holder' \in {holder, tool[c].did}
    BY <1>8 DEF Renews, Only, Disk, SameKey, Claims
  <2>2. ~Unsaved(c) /\ ~Unsaved(c)' BY <2>1 DEF Unsaved
  <2>3. tool'[c].at \in Holds => tool[c].at \in Holds BY <2>1 DEF Holds
  <2> QED BY <1>0, <1>2, <2>1, <2>2, <2>3, KeyedQuietly
<1>9. CASE Opens(c)
  <2>1. /\ tool[c].at = "open" /\ tool'[c].at = "write" /\ tool'[c].did = tool[c].did
        /\ tool'[c].again = tool[c].again
        /\ UNCHANGED <<holder, strays>> /\ file'.text # "whole"
    BY <1>9 DEF Opens, Only, Keys, Emptied
  <2>2. Unsaved(c)' <=> Unsaved(c) BY <2>1 DEF Unsaved
  <2>3. tool'[c].at \in Holds => tool[c].at \in Holds BY <2>1 DEF Holds
  <2> QED BY <1>0, <1>2, <2>1, <2>2, <2>3, KeyedQuietly
<1>10. CASE Writes(c)
  <2>1. /\ tool[c].at = "write" /\ tool'[c].did = tool[c].did /\ tool'[c].at \in {"call", "end"}
        /\ UNCHANGED <<holder, strays>>
        /\ file'.text = "whole" => file'.did = tool[c].did
    BY <1>10 DEF Writes, Only, Keys, Mixed, Whole
  <2>2. tool[c].at \in Holds /\ ~Unsaved(c)' BY <2>1 DEF Holds, Unsaved
  <2>3. \A d \in Calls : Unsaved(d)' => Unsaved(d) BY <1>4, <2>2
  <2>4. \A d \in Calls : tool'[d].at \in Holds => tool[d].at \in Holds /\ tool'[d].did = tool[c].did
    BY <1>0, <1>2, <2>1, <2>2
  <2>5. \A d, e \in Calls : Unsaved(d)' /\ tool'[e].at \in Holds => e = d BY <1>2, <2>3, <2>4
  <2>6. holder' \notin {0, Other} \cup strays' => tool[c].did = holder' BY <1>2, <2>1, <2>2
  <2> QED BY <2>1, <2>4, <2>5, <2>6 DEF Keyed
<1>11. CASE Stops(c)
  <2>1. /\ tool'[c].at = "end" /\ UNCHANGED <<holder, file>> /\ strays \subseteq strays'
        /\ Unsaved(c) => tool[c].did \in strays'
    BY <1>11 DEF Stops, Only, Disk
  <2>2. ~Unsaved(c)' /\ tool'[c].at \notin Holds BY <2>1 DEF Unsaved, Holds
  <2> QED BY <1>0, <1>2, <2>1, <2>2, KeyedQuietly
<1> QED BY <1>5, <1>6, <1>7, <1>8, <1>9, <1>10, <1>11 DEF Kinds

\* And when no call takes a step.
LEMMA KeyedElsewhere ==
  ASSUME Keyed, Elsewhere
  PROVE  Keyed'
<1>1. /\ UNCHANGED <<tool, file, overlapped>> /\ strays \subseteq strays'
      /\ holder' \notin {0, Other} \cup strays' => holder' = holder
  BY DEF Elsewhere
<1>2. Coming' <=> Coming BY <1>1 DEF Coming, Unsaved
<1> QED BY <1>1, <1>2 DEF Keyed, Unsaved

-----------------------------------------------------------------------------
(* The theorems.                                                           *)

\* The inductive invariant.
IInv == Ground /\ Counted /\ Saving /\ Keyed /\ Numbered /\ Dated

\* The ground, the count, the file, the key and the dates hold of every state of
\* Tools.
THEOREM Invariance == Spec => []IInv
<1>1. Init => IInv
  <2> SUFFICES ASSUME Init PROVE IInv OBVIOUS
  <2> DEFINE r == [at |-> "start", job |-> << >>, step |-> 0, did |-> 0, issued |-> 0,
                   realm |-> FALSE, again |-> FALSE, accepted |-> 0, report |-> "none"]
  <2>1. /\ \A c \in Calls : tool[c] = r
        /\ tool \in [Calls -> {r}]
    BY DEF Init
  <2>2. r \in Call BY DEF Call, Places, Reports
  <2>3. Ground
    <3>1. file \in Files BY DEF Init, Files, Absent, Foreign
    <3>2. tool \in [Calls -> Call] BY <2>1, <2>2
    <3> QED BY <3>1, <3>2 DEF Init, Ground
  <2>4. \A c \in Calls : Counts(c, r) BY DEF Counts
  <2>5. file.text # "broken" /\ file.text # "whole" BY DEF Init, Absent, Foreign
  <2> HIDE DEF r
  <2>6. \A c \in Calls : tool[c].at = "start" BY <2>1 DEF r
  <2>7. Numbered
    <3>1. Made = {} /\ Cardinality({}) = 0 BY <2>6, FS_EmptySet DEF Made
    <3>2. \A c \in Calls : tool[c].did = 0 /\ tool[c].job = << >> /\ tool[c].step = 0 BY <2>1 DEF r
    <3>3. /\ file \in {Absent, Foreign} /\ minted = 0 /\ holder = 0
         /\ enrolled = {} /\ strays = {}
      BY DEF Init
    <3>4. Len(<< >>) = 0 OBVIOUS
    <3> QED BY <2>6, <3>1, <3>2, <3>3, <3>4 DEF Numbered, Holds
  <2>8. Dated
    <3>1. \A c \in Calls : tool[c].issued = 0 BY <2>1 DEF r
    <3>2. day = 0 /\ faults = 0 BY DEF Init
    <3> QED BY <2>5, <3>1, <3>2, ToolsAssumption DEF Dated
  <2>9. Keyed
    <3>1. \A c \in Calls : tool[c].at \notin Holds /\ ~Unsaved(c) BY <2>6 DEF Holds, Unsaved
    <3> QED BY <2>5, <3>1 DEF Keyed, Init
  <2> QED BY <2>1, <2>3, <2>4, <2>5, <2>6, <2>7, <2>8, <2>9 DEF IInv, Counted, Saving
<1>2. IInv /\ [Next]_vars => IInv'
  <2> SUFFICES ASSUME IInv, [Next]_vars PROVE IInv' OBVIOUS
  <2>1. CASE \E c \in Calls : Kinds(c)
    BY <2>1, GroundStep, CountedStep, SavingStep, KeyedStep, NumberedStep, DatedStep DEF IInv
  <2>2. CASE Elsewhere
    <3>1. Ground' /\ Keyed' /\ Numbered' /\ Dated'
      BY <2>2, GroundStep, KeyedElsewhere, NumberedElsewhere, DatedStep DEF IInv
    <3>2. Counted' /\ Saving' BY <2>2 DEF IInv, Counted, Saving, AtRest, SizeOf, Elsewhere
    <3> QED BY <3>1, <3>2 DEF IInv
  <2> QED BY <2>1, <2>2, StepKinds DEF IInv
<1> QED BY <1>1, <1>2, PTL DEF Spec

\* Every variable has its type: no UCAN is from tomorrow, no key from nowhere, and
\* there are no more keys than calls.
THEOREM TypeCorrect == Spec => []TypeOK
<1>1. IInv => TypeOK
  <2> SUFFICES ASSUME IInv PROVE TypeOK OBVIOUS
  <2>1. ASSUME NEW c \in Calls
        PROVE  /\ tool[c].at \in Places /\ tool[c].report \in Reports
               /\ tool[c].did \in 0..minted /\ tool[c].issued \in 0..day
               /\ tool[c].accepted \in Nat /\ tool[c].again \in BOOLEAN /\ tool[c].realm \in BOOLEAN
               /\ tool[c].job \in Jobs[c] \cup {<< >>} /\ tool[c].step \in 0..Len(tool[c].job)
    <3>1. /\ tool[c].at \in Places /\ tool[c].report \in Reports /\ tool[c].again \in BOOLEAN
          /\ tool[c].realm \in BOOLEAN /\ tool[c].did \in Nat /\ tool[c].issued \in Nat /\ tool[c].accepted \in Nat
          /\ tool[c].step \in Nat /\ Len(tool[c].job) \in Nat /\ minted \in Nat /\ day \in Nat
      BY LenProperties DEF IInv, Ground, Call
    <3>2. /\ tool[c].did <= minted /\ tool[c].step <= Len(tool[c].job) /\ tool[c].issued <= day
          /\ tool[c].job \in Jobs[c] \cup {<< >>}
      BY DEF IInv, Numbered, Dated, Counted, Counts
    <3> QED BY <3>1, <3>2
  <2>2. file \in {Absent, Foreign, Emptied} \cup {Mixed(n) : n \in 2..4}
                \cup {Whole(d, t, n) : d \in 1..minted, t \in 0..day, n \in 1..4}
    <3>1. CASE file \in {Absent, Foreign, Emptied} \cup {Mixed(n) : n \in 2..4} BY <3>1
    <3>2. ASSUME NEW d \in 1..minted, NEW t \in Nat, NEW n \in 1..4, file = Whole(d, t, n)
          PROVE  file \in {Whole(e, s, m) : e \in 1..minted, s \in 0..day, m \in 1..4}
      <4>1. t <= day BY <3>2 DEF IInv, Dated, Whole
      <4>2. t \in 0..day BY <4>1 DEF IInv, Ground
      <4> QED BY <3>2, <4>2
    <3> QED BY <3>1, <3>2 DEF IInv, Numbered
  <2>3. /\ minted \in 0..Cardinality(Calls) /\ holder \in 0..minted \cup {Other}
        /\ enrolled \subseteq 1..minted /\ strays \subseteq 0..minted
    <3>1. Made \subseteq Calls BY DEF Made
    <3>2. /\ Cardinality(Made) <= Cardinality(Calls) /\ IsFiniteSet(Made)
          /\ Cardinality(Calls) \in Nat
      BY <3>1, FS_Subset, FS_CardinalityType, ToolsAssumption
    <3>3. Cardinality(Made) \in Nat BY <3>2, FS_CardinalityType
    <3>4. /\ minted \in Nat /\ minted <= Cardinality(Made) /\ holder \in 0..minted \cup {Other}
          /\ enrolled \subseteq 1..minted /\ strays \subseteq 0..minted
      BY DEF IInv, Ground, Numbered
    <3> QED BY <3>2, <3>3, <3>4
  <2>4. day \in 0..LastDay /\ faults \in 0..MaxFaults
    BY ToolsAssumption DEF IInv, Ground, Dated
  <2> QED BY <2>1, <2>2, <2>3, <2>4 DEF TypeOK
<1> QED BY <1>1, Invariance, PTL

\* A report is true of the message: "done" means it was accepted, a refusal that
\* it was not.
THEOREM ReportsAreTrue == Spec => []Truthful
<1>1. IInv => Truthful
  <2> SUFFICES ASSUME IInv, NEW c \in Calls
      PROVE  /\ tool[c].report = "refused" => tool[c].accepted = 0
             /\ tool[c].report = "done" /\ (\E i \in DOMAIN tool[c].job : tool[c].job[i] = "post")
                  => tool[c].accepted = 1
    BY DEF Truthful
  <2>1. Counts(c, tool[c]) /\ tool[c].job \in Seq(Requests) BY DEF IInv, Counted, Ground, Call
  <2>2. tool[c].report = "refused" => tool[c].accepted = 0 BY <2>1 DEF Counts
  <2>3. ASSUME tool[c].report = "done", NEW i \in DOMAIN tool[c].job, tool[c].job[i] = "post"
        PROVE  tool[c].accepted = 1
    <3>1. tool[c].job # <<"register">> BY <2>3
    <3>2. tool[c].accepted = Sent(tool[c].job, Len(tool[c].job)) BY <2>1, <2>3, <3>1 DEF Counts
    <3>3. i \in 1..Len(tool[c].job) BY <2>1, LenProperties
    <3> QED BY <2>3, <3>2, <3>3 DEF Sent
  <2> QED BY <2>2, <2>3
<1> QED BY <1>1, Invariance, PTL

\* No call has its message accepted twice.
THEOREM NeverTwice == Spec => []AtMostOnce
<1>1. IInv => AtMostOnce BY DEF IInv, Counted, Counts, AtMostOnce
<1> QED BY <1>1, Invariance, PTL

\* Between saves the file is whole, but for a kill in a save or a clash of two of
\* unlike length.
THEOREM FileStaysWhole == Spec => []FileIsWhole
<1>1. IInv => FileIsWhole BY DEF IInv, Saving, FileIsWhole
<1> QED BY <1>1, Invariance, PTL

\* The name is the key's in the file, but for overlapping calls, keys that were not
\* saved, and what becomes of the name at the node.
THEOREM NameStaysHeld == Spec => []NameIsHeld
<1>1. IInv => NameIsHeld
  <2>1. (\A c \in Calls : ~Running(c)) => ~Coming BY DEF Running, Coming, Unsaved
  <2> QED BY <2>1 DEF IInv, Keyed, NameIsHeld
<1> QED BY <1>1, Invariance, PTL

=============================================================================
