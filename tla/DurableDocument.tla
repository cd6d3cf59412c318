--------------------------- MODULE DurableDocument ---------------------------
(***************************************************************************)
(* What the store promises its callers (docs/PLAN.md, "Non-functional      *)
(* decisions": concurrency and durability): one document on disk, which a  *)
(* write changes as a whole and at one instant.  The answer is "ok" only   *)
(* after the change is there, and "error" only if it never will be.        *)
(*                                                                         *)
(* There are two limits to the promise.  A careless request changes the    *)
(* live document before it is known whether it can be saved: if it is      *)
(* refused, a part of it may stay, and the next save writes it too.  And a *)
(* power loss may bring back the document before the last save, whole.     *)
(***************************************************************************)

CONSTANTS
    Requests,    \* write requests; each is sent once
    Careless,    \* those that work on the live document
    Readers,     \* read requests
    EditsOf(_)   \* the edits a write makes to the document

VARIABLES
    live,        \* the document that readers are given, as a set of edits
    saved,       \* the document on disk
    older,       \* the one a power loss may bring back instead
    answer,      \* answer[r]: what the caller of r was told so far
    seen         \* seen[c]: the document reader c was last given

docVars == <<live, saved, older, answer, seen>>

DocInit ==
    /\ live = {} /\ saved = {} /\ older = {}
    /\ answer = [r \in Requests |-> "none"]
    /\ seen = [c \in Readers |-> {}]

Commit(r) ==
    /\ r \notin Careless
    /\ answer[r] = "none"
    /\ EditsOf(r) \cap live = {}
    /\ live' = live \cup EditsOf(r)
    /\ saved' = live'
    /\ UNCHANGED <<older, answer, seen>>

Touch(r) ==
    /\ r \in Careless
    /\ answer[r] = "none"
    /\ live' = live \cup EditsOf(r)
    /\ UNCHANGED <<saved, older, answer, seen>>

Save(r) ==
    /\ r \in Careless
    /\ answer[r] = "none"
    /\ EditsOf(r) \subseteq live
    /\ saved' = live
    /\ UNCHANGED <<live, older, answer, seen>>

Accept(r) ==
    /\ answer[r] = "none"
    /\ EditsOf(r) \subseteq saved
    /\ answer' = [answer EXCEPT ![r] = "ok"]
    /\ UNCHANGED <<live, saved, older, seen>>

Refuse(r) ==
    /\ answer[r] = "none"
    /\ EditsOf(r) \cap (saved \cup older) = {}
    /\ answer' = [answer EXCEPT ![r] = "error"]
    /\ IF r \in Careless
       THEN \E part \in SUBSET EditsOf(r) : live' = live \cup part
       ELSE EditsOf(r) \cap live = {} /\ UNCHANGED live
    /\ UNCHANGED <<saved, older, seen>>

Look(c) ==
    /\ seen' = [seen EXCEPT ![c] = live]
    /\ UNCHANGED <<live, saved, older, answer>>

\* The program is killed and starts again.
Restart ==
    /\ live' = saved
    /\ UNCHANGED <<saved, older, answer, seen>>

\* From now on, not even a power loss takes the saved document back.
Flush ==
    /\ older' = saved
    /\ UNCHANGED <<live, saved, answer, seen>>

PowerFails ==
    /\ saved' \in {saved, older}
    /\ live' = saved' /\ older' = saved'
    /\ UNCHANGED <<answer, seen>>

DocNext ==
    \/ \E r \in Requests : Commit(r) \/ Touch(r) \/ Save(r) \/ Accept(r) \/ Refuse(r)
    \/ \E c \in Readers : Look(c)
    \/ Restart \/ Flush \/ PowerFails

DocSpec == DocInit /\ [][DocNext]_docVars

=============================================================================
