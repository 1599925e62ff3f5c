---------------------------- MODULE UnspentStore ----------------------------
(***************************************************************************)
(* core/qdb: the database of unspent outputs and its unwind records, one   *)
(* Put or Del of the qdb library at a time, with a crash possible between  *)
(* any two of them, and the start-up of NewChain that takes the newest     *)
(* blocks back after every restart.                                        *)
(*                                                                         *)
(* The two databases are files: their Put and Del are durable when they    *)
(* return (the mode without sync is another matter, see README).  The last *)
(* height and hash are fields of unwindDB, in memory only.                 *)
(***************************************************************************)
EXTENDS UnspentOps

CONSTANTS
  OutPoint,     \* the outpoints transactions can create or spend
  Irregular,    \* those a block may spend itself, or create a second time
  BlockHash,    \* hashes of blocks
  NoHash,       \* 32 zero bytes, the hash of no block
  MaxHistory,   \* UnwindBufferMaxHistory, 1008 in the code
  StartupUndo,  \* the blocks NewChain takes back when it starts, 3 in the code
  MaxHeight     \* bound: the height of the highest block

ASSUME StoreAssumption ==
  /\ Irregular \subseteq OutPoint
  /\ BlockHash # {}
  /\ NoHash \notin BlockHash
  /\ MaxHistory \in Nat \ {0}
  /\ StartupUndo \in Nat \ {0}
  /\ MaxHeight \in Nat

Height == 0..MaxHeight
UnwindRec == [hash : BlockHash, added : SUBSET OutPoint, deleted : SUBSET OutPoint]

VARIABLES
  (* on disk *)
  utxo,              \* keys of the unspent database
  minedAt,           \* BlockHeight field of its values
  unwind,            \* the unwind database: height -> record
  (* in memory *)
  lastBlockHeight,
  lastBlockHash,
  phase,             \* where the running call stands
  puts,              \* outpoints it has still to Put
  dels,              \* outpoints it has still to Del
  left,              \* iterations left of NewChain's loop
  panicked,          \* the message of the panic that ended the process
  (* history variables, read by no action of the code *)
  dirty,             \* the unspent database is between two blocks
  depth,             \* number of blocks applied in full
  hist               \* the unspent outputs after each of them

diskVars == <<utxo, minedAt, unwind>>
memVars  == <<lastBlockHeight, lastBlockHash, phase, puts, dels, left, panicked>>
histVars == <<dirty, depth, hist>>
vars     == <<diskVars, memVars, histVars>>

Phases == {"down", "idle", "prune", "apply", "revert"}
Panics == {"", "Unwind data not found", "Parent data not found"}

Running == phase # "down"
Tip     == IF dirty THEN depth + 1 ELSE depth   \* the newest block with a record
Eq(s, t) == s \ Irregular = t \ Irregular       \* equal up to irregular outpoints
-----------------------------------------------------------------------------
TypeOK ==
  /\ utxo \in SUBSET OutPoint
  /\ minedAt \in [OutPoint -> Height]
  /\ DOMAIN unwind \subseteq Height \ {0}
  /\ unwind \in [DOMAIN unwind -> UnwindRec]
  /\ lastBlockHeight \in Height
  /\ lastBlockHash \in BlockHash \cup {NoHash}
  /\ phase \in Phases
  /\ puts \in SUBSET OutPoint
  /\ dels \in SUBSET OutPoint
  /\ left \in Nat
  /\ panicked \in Panics
  /\ dirty \in BOOLEAN
  /\ depth \in Height
  /\ hist \in [Height -> SUBSET OutPoint]

Init ==
  /\ utxo = {}
  /\ minedAt = [o \in OutPoint |-> 0]
  /\ unwind = EmptyDB
  /\ lastBlockHeight = 0
  /\ lastBlockHash = NoHash
  /\ phase = "idle"
  /\ puts = {}
  /\ dels = {}
  /\ left = 0
  /\ panicked = ""
  /\ dirty = FALSE
  /\ depth = 0
  /\ hist = [h \in Height |-> {}]
-----------------------------------------------------------------------------
(* CommitBlockTxs                                                          *)

(* The changes ProcessBlockTransactions can ask for (see TxCommit): what a *)
(* block deletes is there, what it adds is new and stays; all three up to  *)
(* the irregular outpoints.                                                *)
PossibleChanges(added, deleted) ==
  /\ deleted \subseteq utxo \cup Irregular
  /\ added \cap deleted \subseteq Irregular
  /\ added \cap utxo \subseteq Irregular

(* unwindDB.commit up to the Put of the record. *)
CommitBegin(hash, added, deleted) ==
  /\ phase = "idle" /\ left = 0
  /\ lastBlockHeight < MaxHeight
  /\ PossibleChanges(added, deleted)
  /\ lastBlockHeight' = lastBlockHeight + 1
  /\ lastBlockHash' = hash
  /\ unwind' = PutRecord(unwind, lastBlockHeight + 1,
                         UnwindRecord(hash, added, deleted))
  /\ puts' = added
  /\ dels' = deleted
  /\ phase' = "prune"
  /\ dirty' = TRUE
  /\ UNCHANGED <<utxo, minedAt, left, panicked, depth, hist>>

(* Wrong on purpose: nothing is ever pruned. *)
NothingPruned(db, height) == db

(* Wrong on purpose: the oldest record stays, the next one goes. *)
PrunedOffByOne(db, height) ==
  IF height > MaxHistory THEN DelRecord(db, height - MaxHistory + 1) ELSE db

(* The record that falls out of the window. *)
Pruned(db, height) ==
  IF height >= MaxHistory THEN DelRecord(db, height - MaxHistory) ELSE db

CommitPrune ==
  /\ phase = "prune"
  /\ unwind' = Pruned(unwind, lastBlockHeight)
  /\ phase' = "apply"
  /\ UNCHANGED <<utxo, minedAt, lastBlockHeight, lastBlockHash, puts, dels,
                 left, panicked, histVars>>

(* unspentDB.commit: the added outputs, in the order of a Go map, ... *)
CommitPut(o) ==
  /\ phase = "apply" /\ o \in puts
  /\ utxo' = utxo \cup {o}
  /\ minedAt' = [minedAt EXCEPT ![o] = lastBlockHeight]
  /\ puts' = puts \ {o}
  /\ UNCHANGED <<unwind, lastBlockHeight, lastBlockHash, phase, dels, left,
                 panicked, histVars>>

(* ... and then the deleted ones. *)
CommitDel(o) ==
  /\ phase = "apply" /\ puts = {} /\ o \in dels
  /\ utxo' = utxo \ {o}
  /\ minedAt' = [minedAt EXCEPT ![o] = 0]
  /\ dels' = dels \ {o}
  /\ UNCHANGED <<unwind, lastBlockHeight, lastBlockHash, phase, puts, left,
                 panicked, histVars>>

CommitEnd ==
  /\ phase = "apply" /\ puts = {} /\ dels = {}
  /\ phase' = "idle"
  /\ dirty' = FALSE
  /\ depth' = depth + 1
  /\ hist' = [hist EXCEPT ![depth + 1] = utxo]
  /\ UNCHANGED <<diskVars, lastBlockHeight, lastBlockHash, puts, dels, left,
                 panicked>>
-----------------------------------------------------------------------------
(* UndoBlockTransactions, called by MoveToBlock and by NewChain's loop     *)

UndoBegin ==
  /\ phase = "idle" /\ lastBlockHeight > 0
  /\ left' = IF left > 0 THEN left - 1 ELSE 0
  /\ IF lastBlockHeight \in DOMAIN unwind
       THEN /\ phase' = "revert"
            /\ dels' = unwind[lastBlockHeight].added
            /\ puts' = unwind[lastBlockHeight].deleted
            /\ dirty' = TRUE
            /\ depth' = IF dirty THEN depth ELSE depth - 1
            /\ hist' = IF dirty THEN hist ELSE [hist EXCEPT ![depth] = {}]
            /\ UNCHANGED panicked
       ELSE /\ phase' = "down"
            /\ panicked' = "Unwind data not found"
            /\ UNCHANGED <<puts, dels, histVars>>
  /\ UNCHANGED <<diskVars, lastBlockHeight, lastBlockHash>>

(* unwindFromReader, in the order the record was written. *)
UndoDel(o) ==
  /\ phase = "revert" /\ o \in dels
  /\ utxo' = utxo \ {o}
  /\ minedAt' = [minedAt EXCEPT ![o] = 0]
  /\ dels' = dels \ {o}
  /\ UNCHANGED <<unwind, lastBlockHeight, lastBlockHash, phase, puts, left,
                 panicked, histVars>>

(* Wrong on purpose: the height of the block that is undone. *)
RestoredHeightNow(height) == lastBlockHeight

(* writeSpent does not store BlockHeight, so readSpent returns 0 for it. *)
RestoredHeight(height) == 0

UndoPut(o) ==
  /\ phase = "revert" /\ dels = {} /\ o \in puts
  /\ utxo' = utxo \cup {o}
  /\ minedAt' = [minedAt EXCEPT ![o] = RestoredHeight(minedAt[o])]
  /\ puts' = puts \ {o}
  /\ UNCHANGED <<unwind, lastBlockHeight, lastBlockHash, phase, dels, left,
                 panicked, histVars>>

(* The record goes last; then the parent's record must give the hash. *)
UndoEnd ==
  /\ phase = "revert" /\ puts = {} /\ dels = {}
  /\ unwind' = DelRecord(unwind, lastBlockHeight)
  /\ lastBlockHeight' = lastBlockHeight - 1
  /\ dirty' = FALSE
  /\ IF lastBlockHeight - 1 \in DOMAIN unwind
       THEN /\ lastBlockHash' = unwind[lastBlockHeight - 1].hash
            /\ phase' = "idle"
            /\ UNCHANGED panicked
       ELSE /\ panicked' = "Parent data not found"
            /\ phase' = "down"
            /\ UNCHANGED lastBlockHash
  /\ UNCHANGED <<utxo, minedAt, puts, dels, left, depth, hist>>
-----------------------------------------------------------------------------
(* The process                                                             *)

Crash ==
  /\ Running
  /\ phase' = "down"
  /\ lastBlockHeight' = 0
  /\ lastBlockHash' = NoHash
  /\ puts' = {}
  /\ dels' = {}
  /\ left' = 0
  /\ UNCHANGED <<diskVars, panicked, histVars>>

(* Wrong on purpose: NewChain without its loop. *)
NoLoop(height) == 0

(* How often NewChain's loop calls UndoBlockTransactions. *)
LoopLength(height) == IF height < StartupUndo THEN height ELSE StartupUndo

(* newUnwindDB: the last block is the one with the highest record.         *)
OpenNonEmpty ==
  /\ phase = "down"
  /\ \E h \in DOMAIN unwind :
       /\ IsTopRecord(unwind, h)
       /\ lastBlockHeight' = h
       /\ lastBlockHash' = unwind[h].hash
       /\ left' = LoopLength(h)
  /\ UNCHANGED <<dirty, depth, hist>>

(* No record, no last block: loadBlockIndex goes on from the root of the   *)
(* tree, whatever the unspent database holds.                              *)
OpenEmpty ==
  /\ phase = "down"
  /\ DOMAIN unwind = {}
  /\ lastBlockHeight' = 0
  /\ lastBlockHash' = NoHash
  /\ left' = 0
  /\ depth' = 0
  /\ hist' = [h \in Height |-> IF h = 0 THEN utxo ELSE {}]
  /\ UNCHANGED dirty

Open ==
  /\ OpenNonEmpty \/ OpenEmpty
  /\ phase' = "idle"
  /\ puts' = {}
  /\ dels' = {}
  /\ panicked' = ""
  /\ UNCHANGED diskVars

(* NewDb(dir, init = true): both directories are removed. *)
OpenRescan ==
  /\ phase = "down"
  /\ utxo' = {}
  /\ minedAt' = [o \in OutPoint |-> 0]
  /\ unwind' = EmptyDB
  /\ lastBlockHeight' = 0
  /\ lastBlockHash' = NoHash
  /\ phase' = "idle"
  /\ puts' = {}
  /\ dels' = {}
  /\ left' = 0
  /\ panicked' = ""
  /\ dirty' = FALSE
  /\ depth' = 0
  /\ hist' = [h \in Height |-> {}]

Next ==
  \/ \E hash \in BlockHash, added, deleted \in SUBSET OutPoint :
       CommitBegin(hash, added, deleted)
  \/ CommitPrune
  \/ \E o \in OutPoint : CommitPut(o)
  \/ \E o \in OutPoint : CommitDel(o)
  \/ CommitEnd
  \/ UndoBegin
  \/ \E o \in OutPoint : UndoDel(o)
  \/ \E o \in OutPoint : UndoPut(o)
  \/ UndoEnd
  \/ Crash
  \/ Open
  \/ OpenRescan

Spec == Init /\ [][Next]_vars
-----------------------------------------------------------------------------
(* Properties                                                              *)

(* Between two calls, once the start-up loop is over, the unspent database *)
(* holds exactly what the applied blocks left, whatever crashes hit the    *)
(* commits and undos before: CommitBlockTxs writes the record first, so    *)
(* the loop in NewChain can always repair a block that was cut short.      *)
UtxoMatchesTip ==
  (phase = "idle" /\ left = 0) => ~dirty /\ Eq(utxo, hist[depth])

(* Every record still kept turns the outputs after its block into the      *)
(* outputs before it, and the record of a half applied block does so from  *)
(* any of the states a crash can leave.                                    *)
RecordsUndoBlocks ==
  /\ \A h \in DOMAIN unwind :
       h <= depth => Eq(UndoChanges(hist[h], unwind[h]), hist[h - 1])
  /\ dirty => Eq(UndoChanges(utxo, unwind[Tip]), hist[depth])

(* The records kept are those of an unbroken run of blocks that ends at    *)
(* the tip and is never longer than the window (by one, while the commit   *)
(* that prunes it is under way).                                           *)
UnwindWindow ==
  \A h \in DOMAIN unwind :
    /\ h..Tip \subseteq DOMAIN unwind
    /\ h <= Tip
    /\ h + MaxHistory > depth

(* In memory, the last block is the one of the newest record, so neither   *)
(* "Unexpected height" nor "Unwind data not found" can be raised for it.   *)
LastBlockMatches ==
  /\ Running =>
       /\ lastBlockHeight = Tip
       /\ lastBlockHeight > 0 =>
            /\ lastBlockHeight \in DOMAIN unwind
            /\ lastBlockHash = unwind[lastBlockHeight].hash
  /\ panicked # "Unwind data not found"

(* An undo that finds no record of the parent (the panic "Parent data not  *)
(* found") was the undo of the only record there was: until then every     *)
(* block whose record is kept can be taken back.                           *)
UndoneToTheEnd == panicked = "Parent data not found" => DOMAIN unwind = {}

(* The height an output is said to be mined at may be missing, if an undo  *)
(* brought the output back, but is never wrong: it is that of the block    *)
(* that created it, as far as the applied blocks are known.                *)
MinedAtIsRight ==
  (phase = "idle" /\ left = 0) =>
    \A o \in utxo \ (Irregular \cup hist[0]) :
      minedAt[o] # 0 =>
        minedAt[o] <= depth /\ o \in hist[minedAt[o]] \ hist[minedAt[o] - 1]

(* What the running call has still to do is part of what its record lists; *)
(* what an undo no longer has to do is done.                               *)
CallInProgress ==
  /\ phase \in {"prune", "apply", "revert"} => dirty
  /\ (phase = "idle" /\ dirty) => left > 0
  /\ dirty => Tip \in DOMAIN unwind
  /\ phase \in {"prune", "apply"} =>
       puts \subseteq unwind[Tip].added /\ dels \subseteq unwind[Tip].deleted
  /\ phase = "apply" => \A h \in DOMAIN unwind : h + MaxHistory > Tip
  /\ phase = "revert" =>
       /\ dels \subseteq unwind[Tip].added /\ puts \subseteq unwind[Tip].deleted
       /\ unwind[Tip].added \cap utxo \subseteq dels \cup Irregular
       /\ unwind[Tip].deleted \subseteq utxo \cup puts \cup Irregular
  /\ \A h \in DOMAIN unwind :
       unwind[h].added \cap unwind[h].deleted \subseteq Irregular
  /\ ~dirty => Eq(utxo, hist[depth])

(* The inductive invariant. *)
StoreInv ==
  /\ TypeOK
  /\ RecordsUndoBlocks
  /\ UnwindWindow
  /\ LastBlockMatches
  /\ CallInProgress

(* The two databases together are one ledger that moves by whole blocks.   *)
Ledger == INSTANCE LedgerStack WITH
  Coin   <- OutPoint \ Irregular,
  ledger <- (IF dirty THEN UndoChanges(utxo, unwind[Tip]) ELSE utxo) \ Irregular,
  past   <- [i \in 1..depth |-> hist[i - 1] \ Irregular]

(* core/qdb implements that ledger: commits and undos are atomic.          *)
AtomicBlocks == Ledger!LSSpec
=============================================================================
