---------------------------- MODULE MCSyncEntries ----------------------------
(***************************************************************************)
(* Two days or projects, one unknown, and batches long enough to delete an *)
(* entry, add it again and delete it once more.                            *)
(***************************************************************************)

EXTENDS SyncEntries

ItemHours == {-1, 0, 1, 2}

=============================================================================
