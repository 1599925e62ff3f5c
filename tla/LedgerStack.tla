---------------------------- MODULE LedgerStack -----------------------------
(***************************************************************************)
(* What core/qdb promises its caller (core.UnspentDBInf): the set of       *)
(* unspent outputs changes one whole block at a time.  A committed block   *)
(* replaces the ledger, an undone block brings back exactly the ledger it  *)
(* was committed on, and nothing in between is ever to be seen, whatever   *)
(* crashes happen on the way.                                              *)
(***************************************************************************)
EXTENDS Naturals, Sequences

CONSTANT Coin       \* what the ledger holds

VARIABLES
  ledger,           \* the unspent outputs now
  past              \* the ledgers below it, one for each block, oldest first

lsvars == <<ledger, past>>

LSTypeOK ==
  /\ ledger \in SUBSET Coin
  /\ past \in Seq(SUBSET Coin)

LSInit == ledger = {} /\ past = <<>>

(* A block is applied. *)
Apply ==
  /\ ledger' \in SUBSET Coin
  /\ past' = Append(past, ledger)

(* The last block is taken back. *)
Revert ==
  /\ past # <<>>
  /\ ledger' = past[Len(past)]
  /\ past' = SubSeq(past, 1, Len(past) - 1)

(* The data is thrown away for a rescan. *)
Rescan == ledger' = {} /\ past' = <<>>

(* Every unwind record is gone: no block can be taken back any more. *)
Forget == past' = <<>> /\ UNCHANGED ledger

LSNext == Apply \/ Revert \/ Rescan \/ Forget

LSSpec == LSInit /\ [][LSNext]_lsvars
=============================================================================
