------------------------------- MODULE Tools --------------------------------
(***************************************************************************)
(* The command-line tools of one entity: SpartanRadio.py, which makes its  *)
(* own identity, and macula_radio.py with --config, pointed at the same    *)
(* file, as client/spartan/README.md has it. Every invocation is a process *)
(* that loads the file, makes a few requests of the node, renews the UCAN  *)
(* when it is refused, and reports. They run side by side and are killed   *)
(* by whoever runs them. The file is written as Python writes it: opened,  *)
(* which empties it, and filled when it is closed, from its first byte.    *)
(* The entity's name is the directory's to give, at the node: to the       *)
(* newest claim on it, which need not be this entity's, and to nobody when *)
(* the node has restarted.                                                 *)
(***************************************************************************)
EXTENDS Naturals, Sequences, FiniteSets

CONSTANTS
  Calls,      \* invocations
  Radios,     \* those of SpartanRadio.py; the others are of macula_radio.py
  Jobs,       \* what each may be asked to do
  Other,      \* an entity elsewhere that goes by the same name
  TtlDays,    \* how long a UCAN is good for
  LastDay,    \* bound: days that pass
  MaxFaults   \* bound: requests, processes and nodes that fail

\* A job is the requests it makes. Sending, with an attachment or not, to a
\* name or a DID, with a copy for the collaborator or not; a broadcast and an
\* update are a post alone.
Maybe(request) == {<< >>, <<request>>}
RadioJobs == {u \o r \o <<"post">> \o c :
                u \in Maybe("upload"), r \in Maybe("resolve"), c \in Maybe("cc")}
CliJobs == {u \o r \o <<"post">> : u \in Maybe("upload"), r \in Maybe("resolve")}
             \cup {<<"read", "resolve">>, <<"register">>}

ASSUME ToolsAssumption ==
  /\ IsFiniteSet(Calls) /\ Radios \subseteq Calls /\ TtlDays \in Nat \ {0} /\ LastDay \in Nat /\ MaxFaults \in Nat
  /\ Jobs \in [Calls -> SUBSET (RadioJobs \cup CliJobs)]
  /\ \A c \in Calls : Jobs[c] \subseteq (IF c \in Radios THEN RadioJobs ELSE CliJobs)
  /\ Other \notin Nat

VARIABLES
  tool,        \* the process of each invocation
  file,        \* the config file
  minted,      \* how many keys there are; the n-th key is the DID n
  enrolled,    \* the DIDs of the entity in the node's registry
  holder,      \* the DID the directory has for the entity's name, 0 for none
  day,         \* the node's date
  faults,      \* how much has failed so far
  overlapped,  \* history: another call ran while a key was made and saved
  cut,         \* history: a process was killed between opening the file and closing it
  clashed,     \* history: two had the file open for writing, with texts of unlike length
  strays       \* history: DIDs that were made and never saved, or announced again

node == <<minted, enrolled, holder, strays>>
vars == <<tool, file, node, day, faults, overlapped, cut, clashed>>

Places == {"start", "mint", "open", "write", "call", "refresh", "end"}
Reports == {"none", "done", "refused", "raised", "killed"}

\* json.dump(cfg) or json.dump(cfg, indent=2): the second is the longer text, by
\* less than the entry "realm" is long, which a config of macula_radio.py's
\* `register' has and one of SpartanRadio.py has not. Who loads one saves the same.
SizeOf(c) == (IF c \in Radios THEN 1 ELSE 2) + (IF tool[c].realm THEN 2 ELSE 0)
HasRealm == file.size > 2
Absent == [text |-> "absent", did |-> 0, issued |-> 0, size |-> 0]
Foreign == [text |-> "foreign", did |-> 0, issued |-> 0, size |-> 1]
Emptied == [text |-> "broken", did |-> 0, issued |-> 0, size |-> 0]
Mixed(n) == [text |-> "broken", did |-> 0, issued |-> 0, size |-> n]
Whole(d, t, n) == [text |-> "whole", did |-> d, issued |-> t, size |-> n]

TypeOK ==
  /\ \A c \in Calls :
       /\ tool[c].at \in Places /\ tool[c].report \in Reports
       /\ tool[c].did \in 0..minted /\ tool[c].issued \in 0..day
       /\ tool[c].accepted \in Nat /\ tool[c].again \in BOOLEAN /\ tool[c].realm \in BOOLEAN
       /\ tool[c].job \in Jobs[c] \cup {<< >>} /\ tool[c].step \in 0..Len(tool[c].job)
  /\ file \in {Absent, Foreign, Emptied} \cup {Mixed(n) : n \in 2..4}
              \cup {Whole(d, t, n) : d \in 1..minted, t \in 0..day, n \in 1..4}
  /\ minted \in 0..Cardinality(Calls) /\ holder \in 0..minted \cup {Other}
  /\ enrolled \subseteq 1..minted /\ strays \subseteq 0..minted
  /\ day \in 0..LastDay /\ faults \in 0..MaxFaults

Init ==
  /\ tool \in [Calls -> {[at |-> "start", job |-> << >>, step |-> 0, did |-> 0,
                          issued |-> 0, realm |-> FALSE, again |-> FALSE, accepted |-> 0,
                          report |-> "none"]}]
  /\ file \in {Absent, Foreign} /\ day = 0 /\ faults = 0
  /\ minted = 0 /\ enrolled = {} /\ holder = 0 /\ strays = {}
  /\ overlapped = FALSE /\ cut = FALSE /\ clashed = FALSE

Expired(c) == day >= tool[c].issued + TtlDays
Running(c) == tool[c].at \notin {"start", "end"}

-----------------------------------------------------------------------------
(* The config file.                                                        *)

\* A key is being made, or is not in the file yet.
Making(c) == tool[c].at \in {"mint", "open", "write"} /\ ~tool[c].again
Started(c) == overlapped' = (overlapped \/ \E d \in Calls \ {c} : Making(d))

\* _load_or_register finds the entity's own config.
RadioLoads(c) ==
  /\ c \in Radios /\ tool[c].at = "start" /\ file.text = "whole"
  /\ \E j \in Jobs[c] :
       tool' = [tool EXCEPT ![c] = [@ EXCEPT !.at = "call", !.job = j,
                                             !.did = file.did, !.issued = file.issued,
                                             !.realm = HasRealm]]
  /\ Started(c)
  /\ UNCHANGED <<file, node, day, faults, cut, clashed>>

\* Or none, or one for another name or node: it makes a key.
RadioMints(c) ==
  /\ c \in Radios /\ tool[c].at = "start" /\ file.text \in {"absent", "foreign"}
  /\ \E j \in Jobs[c] : tool' = [tool EXCEPT ![c] = [@ EXCEPT !.at = "mint", !.job = j]]
  /\ UNCHANGED <<file, node, day, faults, overlapped, cut, clashed>>

\* load_config; nobody runs macula_radio.py with the config of someone else.
CliLoads(c) ==
  /\ c \notin Radios /\ tool[c].at = "start" /\ file.text \in {"whole", "absent"}
  /\ \E j \in Jobs[c] :
       tool' = [tool EXCEPT ![c] =
         IF j = <<"register">> THEN [@ EXCEPT !.at = "mint", !.job = j]
         ELSE IF file.text = "absent" THEN [@ EXCEPT !.at = "end", !.job = j, !.report = "refused"]
         ELSE [@ EXCEPT !.at = "call", !.job = j, !.did = file.did, !.issued = file.issued,
                        !.realm = HasRealm]]
  /\ Started(c)
  /\ UNCHANGED <<file, node, day, faults, cut, clashed>>

\* A broken file is an exception for both, and stays one; only `register' does
\* not look.
LoadFails(c) ==
  /\ tool[c].at = "start" /\ file.text = "broken"
  /\ \E j \in Jobs[c] :
       tool' = [tool EXCEPT ![c] =
         IF j = <<"register">> THEN [@ EXCEPT !.at = "mint", !.job = j]
         ELSE [@ EXCEPT !.at = "end", !.job = j, !.report = "raised"]]
  /\ UNCHANGED <<file, node, day, faults, overlapped, cut, clashed>>

\* Mistake: the file is written over without being emptied.
OpenInPlace(c) ==
  /\ tool[c].at = "open"
  /\ tool' = [tool EXCEPT ![c].at = "write"]
  /\ UNCHANGED <<file, node, day, faults, overlapped, cut, clashed>>

\* open(path, "w")
Open(c) ==
  /\ tool[c].at = "open"
  /\ file' = Emptied
  /\ clashed' = (clashed \/ \E d \in Calls : tool[d].at = "write" /\ SizeOf(d) # SizeOf(c))
  /\ tool' = [tool EXCEPT ![c].at = "write"]
  /\ UNCHANGED <<node, day, faults, overlapped, cut>>

\* The text goes over what is there: all of it, or the end of a longer one stays.
\* Then the call goes on with the request that was refused, or is a `register'.
Write(c) ==
  /\ tool[c].at = "write"
  /\ file' = IF SizeOf(c) >= file.size
             THEN Whole(tool[c].did, tool[c].issued, SizeOf(c)) ELSE Mixed(file.size)
  /\ tool' = [tool EXCEPT ![c] =
       IF @.job = <<"register">> THEN [@ EXCEPT !.at = "end", !.report = "done"]
                                 ELSE [@ EXCEPT !.at = "call"]]
  /\ UNCHANGED <<node, day, faults, overlapped, cut, clashed>>

-----------------------------------------------------------------------------
(* Registration.                                                           *)

\* The name goes to a claim of now, unless another entity's is of a later time,
\* by the clock of another node.
Claims(k) == holder' = k \/ (holder = Other /\ UNCHANGED holder)

\* A new key, which the node registers.
NewKey(c) ==
  /\ minted' = minted + 1 /\ enrolled' = enrolled \cup {minted'} /\ Claims(minted')
  /\ overlapped' = (overlapped \/ \E d \in Calls \ {c} : Running(d))

\* The same key again: it changes nothing, unless the node has forgotten it.
SameKey(c) ==
  /\ enrolled' = enrolled \cup {tool[c].did}
  /\ IF tool[c].did \in enrolled THEN UNCHANGED holder ELSE Claims(tool[c].did)
  /\ UNCHANGED <<minted, overlapped>>

Mint(c) ==
  /\ tool[c].at = "mint"
  /\ NewKey(c)
  /\ tool' = [tool EXCEPT ![c] = [@ EXCEPT !.at = "open", !.did = minted', !.issued = day,
                                           !.realm = c \notin Radios]]
  /\ UNCHANGED <<file, strays, day, faults, cut, clashed>>

\* Mistake: a refreshed UCAN is for a new key, and only the UCAN is kept.
RefreshAsNew(c) ==
  /\ tool[c].at = "refresh"
  /\ minted' = minted + 1 /\ enrolled' = enrolled \cup {minted'} /\ Claims(minted')
  /\ tool' = [tool EXCEPT ![c] = [@ EXCEPT !.at = "open", !.issued = day]]
  /\ UNCHANGED <<file, strays, day, faults, overlapped, cut, clashed>>

Refresh(c) ==
  /\ tool[c].at = "refresh"
  /\ SameKey(c)
  /\ tool' = [tool EXCEPT ![c] = [@ EXCEPT !.at = "open", !.issued = day, !.again = TRUE]]
  /\ UNCHANGED <<file, strays, day, faults, cut, clashed>>

-----------------------------------------------------------------------------
(* Requests.                                                               *)

Renewing == {"post", "cc", "read"}   \* those that register again on a 401
Request(c) == tool[c].job[tool[c].step + 1]
Asks(c, r) == tool[c].at = "call" /\ Request(c) = r
Ends(c, report) == tool' = [tool EXCEPT ![c] = [@ EXCEPT !.at = "end", !.report = report]]
\* The request was answered: the next one, or the report.
GoesOn(c, n) ==
  LET last == tool[c].step + 1 = Len(tool[c].job)
  IN  tool' = [tool EXCEPT ![c] =
        [@ EXCEPT !.step = tool[c].step + 1, !.again = FALSE,
                  !.accepted = tool[c].accepted + n,
                  !.at = IF last THEN "end" ELSE "call",
                  !.report = IF last THEN "done" ELSE "none"]]

Served(c) ==
  /\ \E r \in Renewing \cup {"upload", "resolve"} : Asks(c, r)
  /\ ~Expired(c) /\ ~(Asks(c, "upload") /\ c \notin Radios)
  /\ GoesOn(c, IF Asks(c, "post") THEN 1 ELSE 0)
  /\ UNCHANGED <<file, node, day, faults, overlapped, cut, clashed>>

\* upload_attachment hands post_authed a second `headers': TypeError, always.
CliUpload(c) ==
  /\ c \notin Radios /\ Asks(c, "upload")
  /\ Ends(c, "raised")
  /\ UNCHANGED <<file, node, day, faults, overlapped, cut, clashed>>

\* A 401. One refresh for each post; _upload and the lookups of a name have none.
Unauthorised(c) ==
  /\ tool[c].at = "call" /\ Expired(c) /\ ~(Asks(c, "upload") /\ c \notin Radios)
  /\ IF Request(c) \in Renewing /\ ~tool[c].again
     THEN tool' = [tool EXCEPT ![c].at = "refresh"]
     ELSE \/ Asks(c, "post") /\ Ends(c, "refused")
          \/ Asks(c, "cc") /\ GoesOn(c, 0)
          \/ (Asks(c, "read") \/ Asks(c, "upload") \/ Asks(c, "resolve")) /\ Ends(c, "raised")
  /\ UNCHANGED <<file, node, day, faults, overlapped, cut, clashed>>

\* Mistake: what became of the copy is reported for the message.
TurnedDownCopy(c) ==
  /\ tool[c].at = "call" /\ ~Expired(c)
  /\ Asks(c, "post") \/ Asks(c, "cc") \/ Asks(c, "resolve")
  /\ Ends(c, "refused")
  /\ UNCHANGED <<file, node, day, faults, overlapped, cut, clashed>>

\* Another status, or a name the directory does not have. That the copy was
\* turned down goes unnoticed.
TurnedDown(c) ==
  /\ tool[c].at = "call" /\ ~Expired(c) /\ ~(Asks(c, "upload") /\ c \notin Radios)
  /\ \/ (Asks(c, "post") \/ Asks(c, "resolve")) /\ Ends(c, "refused")
     \/ Asks(c, "cc") /\ GoesOn(c, 0)
     \/ \E r \in {"read", "upload", "resolve"} : Asks(c, r) /\ Ends(c, "raised")
  /\ UNCHANGED <<file, node, day, faults, overlapped, cut, clashed>>

-----------------------------------------------------------------------------
(* What fails.                                                             *)

Fault == faults < MaxFaults /\ faults' = faults + 1

\* Mistake: a post that is not answered is made again.
SilenceRetried(c) ==
  /\ Fault /\ Asks(c, "post") /\ ~Expired(c)
  /\ \E n \in 0..1 : tool' = [tool EXCEPT ![c].accepted = @ + n]
  /\ UNCHANGED <<file, node, day, overlapped, cut, clashed>>

\* No answer in time: an exception nothing catches. The node may have done its part.
Silence(c) ==
  /\ Fault /\ tool[c].at \in {"mint", "refresh", "call"}
  /\ \/ /\ tool' = [tool EXCEPT ![c] = [@ EXCEPT !.at = "end", !.report = "raised"]]
        /\ UNCHANGED <<node, overlapped>>
     \/ /\ Asks(c, "post") /\ ~Expired(c)
        /\ tool' = [tool EXCEPT ![c] = [@ EXCEPT !.at = "end", !.report = "raised",
                                                 !.accepted = tool[c].accepted + 1]]
        /\ UNCHANGED <<node, overlapped>>
     \/ /\ tool[c].at = "refresh" /\ SameKey(c) /\ UNCHANGED strays
        /\ tool' = [tool EXCEPT ![c] = [@ EXCEPT !.at = "end", !.report = "raised"]]
     \/ /\ tool[c].at = "mint" /\ NewKey(c) /\ strays' = strays \cup {minted'}
        /\ tool' = [tool EXCEPT ![c] = [@ EXCEPT !.at = "end", !.report = "raised",
                                                 !.did = minted']]
  /\ UNCHANGED <<file, day, cut, clashed>>

\* The key it may have made is in no file. (What the node does for a process that
\* is gone by then is what it does in Silence.)
Kill(c) ==
  /\ Fault /\ Running(c)
  /\ Ends(c, "killed")
  /\ cut' = (cut \/ tool[c].at = "write")
  /\ strays' = IF Making(c) THEN strays \cup {tool[c].did} ELSE strays
  /\ UNCHANGED <<file, minted, enrolled, holder, day, overlapped, clashed>>

\* The node restarts, or its registry or its directory does; each is in memory.
NodeForgets ==
  /\ Fault
  /\ enrolled' \in {enrolled, {}} /\ holder' \in {holder, 0}
  /\ UNCHANGED <<tool, file, minted, day, overlapped, cut, clashed, strays>>

\* The other entity registers, anywhere, and its claim is the newer one.
NameTaken ==
  /\ holder # Other /\ holder' = Other
  /\ UNCHANGED <<tool, file, minted, enrolled, day, faults, overlapped, cut, clashed, strays>>

\* An announcement that the node made, or makes again, comes back to it when it
\* has forgotten who had the name. It may be of any key there was.
ComesBack ==
  /\ holder \in {0} \cup strays
  /\ \E k \in 1..minted : holder' = k /\ strays' = strays \cup {k}
  /\ UNCHANGED <<tool, file, minted, enrolled, day, faults, overlapped, cut, clashed>>

DayPasses ==
  /\ day < LastDay
  /\ day' = day + 1
  /\ UNCHANGED <<tool, file, node, faults, overlapped, cut, clashed>>

-----------------------------------------------------------------------------
Steps(c) ==
  \/ Open(c) \/ Write(c) \/ Mint(c) \/ Refresh(c)
  \/ Served(c) \/ CliUpload(c) \/ Unauthorised(c) \/ TurnedDown(c)

Next ==
  \/ \E c \in Calls : \/ RadioLoads(c) \/ RadioMints(c) \/ CliLoads(c) \/ LoadFails(c)
                      \/ Steps(c) \/ Silence(c) \/ Kill(c)
  \/ DayPasses \/ NodeForgets \/ NameTaken \/ ComesBack

Spec == Init /\ [][Next]_vars

-----------------------------------------------------------------------------
(* Properties.                                                             *)

\* What a call reports of its message is so: "done" means accepted and a
\* refusal means it was not, whatever became of the upload, the renewed UCAN and
\* the copy for the collaborator. (An exception leaves it open.)
Truthful ==
  \A c \in Calls :
     LET t == tool[c]
     IN  /\ t.report = "refused" => t.accepted = 0
         /\ t.report = "done" /\ (\E i \in DOMAIN t.job : t.job[i] = "post") => t.accepted = 1

\* No call sends its message twice, though it may post twice.
AtMostOnce == \A c \in Calls : tool[c].accepted <= 1

AtRest == \A c \in Calls : tool[c].at # "write"

\* Between saves the config, and the only copy of the key, is whole, unless a
\* process was killed in a save, or two saved at the same time what is not of one
\* length: the two tools, or one of them a config with a realm and one without.
FileIsWhole == AtRest /\ file.text = "broken" => cut \/ clashed

\* The name is nobody's but the key's in the file, as far as it is up to the
\* tools: unless a key was made while another call ran, or was not saved, or the
\* directory has forgotten the name, given it to another entity, or heard an old
\* announcement.
NameIsHeld ==
  (\A c \in Calls : ~Running(c)) /\ file.text = "whole" =>
     overlapped \/ holder \in {file.did, 0, Other} \cup strays

=============================================================================
