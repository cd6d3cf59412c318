----------------------------- MODULE SyncEntries -----------------------------
(***************************************************************************)
(* The loop of handleSyncEntries (internal/api/handlers.go) over a batch:  *)
(* it edits the list of entries in place, finds entries through an index   *)
(* of positions, and removes deleted ones only at the end, so that no      *)
(* position moves while the index is in use.  The batch may name a day and *)
(* project several times.                                                  *)
(***************************************************************************)

EXTENDS Integers, Sequences, FiniteSets

CONSTANTS
    Keys,        \* <<date, project>> of existing projects
    Unknown,     \* keys with a project that does not exist
    Hours,       \* hours of items; a negative number is not valid
    MaxBatch,    \* bound: items of a batch
    MaxEntries   \* bound: entries of the document before

ASSUME SyncAssumption ==
    /\ Keys \cap Unknown = {}
    /\ Hours \subseteq Int
    /\ MaxBatch \in Nat /\ MaxEntries \in Nat

VARIABLES
    batch,
    pos,        \* how many items were handled
    entries,    \* d.Entries
    idx,        \* key -> position
    toDelete,   \* positions to leave out at the end
    finished

syncVars == <<batch, pos, entries, idx, toDelete, finished>>

Item == [key : Keys \cup Unknown, hours : Hours]
Entry == [key : Keys, hours : Hours \ {0}]

\* A valid date is part of a key being a key; the other two tests are these.
Usable(item) == item.hours >= 0 /\ item.key \in Keys

Positions == DOMAIN entries
Live == Positions \ toDelete
KeysAt(S) == {entries[j].key : j \in S}

SyncTypeOK ==
    /\ batch \in Seq(Item)
    /\ pos \in 0 .. Len(batch)
    /\ entries \in Seq(Entry)
    /\ DOMAIN idx \subseteq Keys /\ \A k \in DOMAIN idx : idx[k] \in Positions
    /\ toDelete \subseteq Positions
    /\ finished \in BOOLEAN

BatchesUpTo(n) == UNION {[1 .. l -> Item] : l \in 0 .. n}

\* mergeEntries leaves one entry per day and project, with positive hours.
Lists == {s \in UNION {[1 .. l -> {e \in Entry : e.hours > 0}] : l \in 0 .. MaxEntries} :
            \A i, j \in DOMAIN s : s[i].key = s[j].key => i = j}

\* An empty batch is refused before the loop.
SyncInit ==
    /\ batch \in BatchesUpTo(MaxBatch) \ {<<>>}
    /\ entries \in Lists
    /\ pos = 0
    /\ idx = [k \in KeysAt(Positions) |-> CHOOSE j \in Positions : entries[j].key = k]
    /\ toDelete = {}
    /\ finished = FALSE

-----------------------------------------------------------------------------
Current == batch[pos + 1]

Handles == pos < Len(batch) /\ pos' = pos + 1 /\ UNCHANGED <<batch, finished>>

Skip ==
    /\ Handles
    /\ ~Usable(Current)
    /\ UNCHANGED <<entries, idx, toDelete>>

\* Bug: the index still finds an entry that will be removed.
KeptInIndex(k) == idx
Forgotten(k) == [x \in DOMAIN idx \ {k} |-> idx[x]]

Delete ==
    /\ Handles
    /\ Usable(Current) /\ Current.hours = 0
    /\ IF Current.key \in DOMAIN idx
       THEN /\ toDelete' = toDelete \cup {idx[Current.key]}
            /\ idx' = Forgotten(Current.key)
       ELSE UNCHANGED <<toDelete, idx>>
    /\ UNCHANGED entries

Overwrite ==
    /\ Handles
    /\ Usable(Current) /\ Current.hours # 0
    /\ Current.key \in DOMAIN idx
    /\ entries' = [entries EXCEPT ![idx[Current.key]].hours = Current.hours]
    /\ toDelete' = toDelete \ {idx[Current.key]}
    /\ UNCHANGED idx

\* Bug: a new entry is not put into the index.
NotIndexed(k) == idx
Indexed(k) == [x \in DOMAIN idx \cup {k} |-> IF x = k THEN Len(entries) + 1 ELSE idx[x]]

Add ==
    /\ Handles
    /\ Usable(Current) /\ Current.hours # 0
    /\ Current.key \notin DOMAIN idx
    /\ entries' = Append(entries, Current)
    /\ idx' = Indexed(Current.key)
    /\ UNCHANGED toDelete

\* Where the entry at position j ends up: entries keep their order.
Place(j) == Cardinality({l \in Live : l <= j})

\* The entries at the positions left.
Remaining == [i \in 1 .. Cardinality(Live) |-> entries[CHOOSE j \in Live : Place(j) = i]]

Compact ==
    /\ pos = Len(batch) /\ ~finished
    /\ finished' = TRUE
    /\ entries' = Remaining
    /\ toDelete' = {}
    /\ idx' = <<>>
    /\ UNCHANGED <<batch, pos>>

SyncNext == Skip \/ Delete \/ Overwrite \/ Add \/ Compact

SyncSpec == SyncInit /\ [][SyncNext]_syncVars

-----------------------------------------------------------------------------
\* During the loop the index finds exactly the entries that stay, each at its
\* position, and no two of them share a day and project: normalize would sum
\* them.
IndexFindsLiveEntries ==
    ~finished =>
        /\ DOMAIN idx = KeysAt(Live)
        /\ \A j \in Live : idx[entries[j].key] = j

\* Whatever the batch repeats, deletes or adds again, the loop does what
\* applying the items one by one does.
Book == INSTANCE EntryBook WITH
    Usable <- Usable,
    book <- [k \in KeysAt(Live) |->
                entries[CHOOSE j \in Live : entries[j].key = k].hours]

ImplementsEntryBook == Book!BookSpec

=============================================================================
