------------------------------ MODULE EntryBook ------------------------------
(***************************************************************************)
(* What the batch endpoint promises (docs/API.md): the items of a batch    *)
(* are applied one after the other; each sets the hours of one day and     *)
(* project, 0 deletes them, and an item that is not valid is skipped.      *)
(***************************************************************************)

EXTENDS Integers, Sequences

CONSTANTS Usable(_)   \* which items may be applied

VARIABLES
    batch,   \* the items: records of a key and hours
    pos,     \* how many of them were handled
    book     \* key -> hours

Put(b, k, h) == [x \in DOMAIN b \cup {k} |-> IF x = k THEN h ELSE b[x]]
Remove(b, k) == [x \in DOMAIN b \ {k} |-> b[x]]

Applied(b, item) ==
    IF ~Usable(item) THEN b
    ELSE IF item.hours = 0 THEN Remove(b, item.key)
    ELSE Put(b, item.key, item.hours)

NextItem ==
    /\ pos < Len(batch)
    /\ pos' = pos + 1
    /\ book' = Applied(book, batch[pos + 1])
    /\ UNCHANGED batch

BookSpec == pos = 0 /\ [][NextItem]_<<batch, pos, book>>

=============================================================================
