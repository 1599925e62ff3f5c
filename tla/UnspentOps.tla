----------------------------- MODULE UnspentOps -----------------------------
(***************************************************************************)
(* The pure part of core/qdb: what a BlockChangeEvent does to the set of   *)
(* unspent outputs, what its unwind record gives back, and the key/value   *)
(* table of unwind records.                                                *)
(*                                                                         *)
(* An output is represented by its outpoint: the value and the script of   *)
(* an outpoint are fixed by the transaction id inside it, so a table from  *)
(* outpoints to outputs is a set of outpoints.                             *)
(***************************************************************************)
EXTENDS Integers

(* unspentDB.commit: every added output is put, then every deleted one is  *)
(* removed, so an output in both sets is gone at the end.                  *)
CommitChanges(utxo, rec) == (utxo \cup rec.added) \ rec.deleted

(* unwindFromReader: the record lists the added outputs first (each is     *)
(* removed), then the deleted ones (each is put back), so an output in     *)
(* both sets is there at the end.                                          *)
UndoChanges(utxo, rec) == (utxo \ rec.added) \cup rec.deleted

(* Two wrong records: the spent outputs forgotten, the two lists mixed up. *)
UnwindRecordOfAdded(hash, added, deleted) ==
  [hash |-> hash, added |-> added, deleted |-> {}]
UnwindRecordSwapped(hash, added, deleted) ==
  [hash |-> hash, added |-> deleted, deleted |-> added]

(* The value unwindDB.commit writes for a block.                           *)
UnwindRecord(hash, added, deleted) ==
  [hash |-> hash, added |-> added, deleted |-> deleted]

(* Wrong on purpose: the key of the block below. *)
PutRecordBelow(db, height, rec) ==
  [h \in DOMAIN db \cup {height - 1} |-> IF h = height - 1 THEN rec ELSE db[h]]

(* Put and Del of the external qdb library, on a table of unwind records.  *)
PutRecord(db, height, rec) ==
  [h \in DOMAIN db \cup {height} |-> IF h = height THEN rec ELSE db[h]]

DelRecord(db, height) == [h \in DOMAIN db \ {height} |-> db[h]]

EmptyDB == [h \in {} |-> {}]

(* Wrong on purpose: the lowest key. *)
IsBottomRecord(db, height) ==
  /\ height \in DOMAIN db
  /\ \A h \in DOMAIN db : height <= h

(* newUnwindDB: height is the highest key of the table.                         *)
IsTopRecord(db, height) ==
  /\ height \in DOMAIN db
  /\ \A h \in DOMAIN db : h <= height
=============================================================================
