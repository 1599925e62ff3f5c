----------------------------- MODULE BlockStore ------------------------------
(***************************************************************************)
(* core/blockdb.go: the file of blocks, the index file of fixed records    *)
(* with their flags, the map of the index in memory, and what the two      *)
(* files give back at the next start.  Restart makes its steps of these.   *)
(*                                                                         *)
(* A position in the index file is a number of records, one in the block   *)
(* file a number of blocks; both count from 1.  The write of one record is *)
(* one step.  The two files are written to the disk apart: what a power    *)
(* failure leaves of one says nothing of the other.                        *)
(***************************************************************************)
EXTENDS Integers, Sequences, FiniteSets

CONSTANTS
  Block,            \* blocks, without the genesis block
  Genesis,
  Zeros             \* what DeserializeBlock makes of zero bytes: a block without
                    \* transactions, its hash that of 80 zero bytes

ASSUME BlockAssumption == Genesis \notin Block /\ Zeros \notin Block \cup {Genesis}

VARIABLES
  dataFile,         \* raw blocks
  idxFile,          \* records of flags, hash and position of the block
  dataDisk,         \* what of dataFile is on the disk for certain
  idxDisk,          \* what of idxFile is
  blockIdxMap,      \* in memory: hash -> fPos, iPos, trusted
  cursor,           \* in memory: where the next index record is written
  verified,         \* history: blocks that were processed and found good
  failed,           \* history: blocks found bad and not stored again since
  misplaced,        \* history: a record was written over another, or a flag
                    \* into the record of another block
  orphaned          \* history: blocks a power failure took while it left a record

files     == <<dataFile, idxFile>>
disk      == <<dataDisk, idxDisk>>
mapVars   == <<blockIdxMap, cursor>>
blockHist == <<verified, failed, misplaced, orphaned>>
blockVars == <<files, disk, mapVars, blockHist>>

NoMap == [b \in {} |-> 0]

BlocksInit ==
  /\ dataFile = <<>> /\ idxFile = <<>> /\ dataDisk = <<>> /\ idxDisk = <<>>
  /\ blockIdxMap = NoMap /\ cursor = 1
  /\ verified = {} /\ failed = {} /\ misplaced = FALSE /\ orphaned = {}
-----------------------------------------------------------------------------
(* AddBlock appends the block, ... *)
AppendBlock(b) ==
  /\ dataFile' = Append(dataFile, b)
  /\ UNCHANGED <<idxFile, disk, mapVars, blockHist>>

(* Wrong on purpose: the position at which the file was opened. *)
FirstPos == 1

(* Where the block went. *)
BlockPos == Len(dataFile)

(* The flags of a new record: a trusted block gets BLOCK_INVALID. *)
NewFlags(isTrusted) == IF isTrusted THEN {"BLOCK_INVALID"} ELSE {}

(* ... then writes its record at the cursor and enters it in the map. *)
WriteRecord(b, isTrusted) ==
  /\ LET rec == [flags |-> NewFlags(isTrusted), hash |-> b, pos |-> BlockPos]
     IN  idxFile' = IF cursor > Len(idxFile) THEN Append(idxFile, rec)
                                             ELSE [idxFile EXCEPT ![cursor] = rec]
  /\ blockIdxMap' = [x \in DOMAIN blockIdxMap \cup {b} |->
                       IF x = b THEN [fPos |-> BlockPos, iPos |-> cursor, trusted |-> isTrusted]
                                ELSE blockIdxMap[x]]
  /\ cursor' = cursor + 1
  /\ verified' = IF isTrusted THEN verified \cup {b} ELSE verified
  /\ failed' = failed \ {b}
  /\ misplaced' = (misplaced \/ cursor <= Len(idxFile))
  /\ UNCHANGED <<dataFile, disk, orphaned>>

(* setBlockFlag: into the record at iPos, whichever it is. *)
SetBlockFlag(b, flag) ==
  LET iPos == blockIdxMap[b].iPos IN
  /\ idxFile' = [idxFile EXCEPT ![iPos].flags = @ \cup {flag}]
  /\ misplaced' = (misplaced \/ idxFile[iPos].hash # b)

(* The block was parsed and found good, maybe not for the first time. *)
TrustBlock(b) ==
  /\ IF blockIdxMap[b].trusted THEN UNCHANGED <<idxFile, misplaced>>
                               ELSE SetBlockFlag(b, "BLOCK_TRUSTED")
  /\ blockIdxMap' = [blockIdxMap EXCEPT ![b].trusted = TRUE]
  /\ verified' = verified \cup {b}
  /\ UNCHANGED <<dataFile, disk, cursor, failed, orphaned>>

(* Of a block that is not trusted: a trusted one ends the program. *)
InvalidBlock(b) ==
  /\ SetBlockFlag(b, "BLOCK_INVALID")
  /\ blockIdxMap' = [x \in DOMAIN blockIdxMap \ {b} |-> blockIdxMap[x]]
  /\ failed' = failed \cup {b}
  /\ UNCHANGED <<dataFile, disk, cursor, verified, orphaned>>

(* GetBlock does not look at the error of Read: past the end of the file   *)
(* the buffer keeps its zeros.                                             *)
GetBlock(b) ==
  IF blockIdxMap[b].fPos \in DOMAIN dataFile THEN dataFile[blockIdxMap[b].fPos] ELSE Zeros

(* Sync: first the index file, ... *)
SyncIndex == idxDisk' = idxFile /\ UNCHANGED <<files, dataDisk, mapVars, blockHist>>

(* ... then the block file. *)
SyncData == dataDisk' = dataFile /\ UNCHANGED <<files, idxDisk, mapVars, blockHist>>

(* What is left of a file when the power fails: of the writes into what was *)
(* on the disk any, of those at its end the first ones.                     *)
Surviving(onDisk, file) ==
  {[i \in 1..n |-> IF i \in old THEN onDisk[i] ELSE file[i]] :
     n \in Len(onDisk)..Len(file),
     old \in SUBSET {i \in DOMAIN onDisk : onDisk[i] # file[i]}}

LoseWrites ==
  /\ dataFile' \in Surviving(dataDisk, dataFile)
  /\ idxFile' \in Surviving(idxDisk, idxFile)
  /\ dataDisk' = dataFile' /\ idxDisk' = idxFile'
  /\ orphaned' = orphaned \cup {idxFile'[i].hash : i \in
                      {j \in DOMAIN idxFile' : idxFile'[j].pos \notin DOMAIN dataFile'}}
-----------------------------------------------------------------------------
(* InitBlockIdxMap                                                         *)

(* Wrong on purpose: an invalid record is loaded like any other. *)
EveryRecord == DOMAIN idxFile

(* The records that are loaded. *)
Loadable == {i \in DOMAIN idxFile : "BLOCK_INVALID" \notin idxFile[i].flags}

Loaded == {idxFile[i].hash : i \in Loadable}

(* The last record of a block counts. *)
RecordOf(b) ==
  CHOOSE i \in Loadable : /\ idxFile[i].hash = b
                          /\ \A j \in Loadable : idxFile[j].hash = b => j <= i

(* tPos at record i: an invalid record is skipped, and with it its step.   *)
TPos(i) == Cardinality({j \in Loadable : j < i}) + 1

LoadIndex ==
  /\ blockIdxMap' = [b \in Loaded |->
                       [fPos    |-> idxFile[RecordOf(b)].pos,
                        iPos    |-> TPos(RecordOf(b)),
                        trusted |-> "BLOCK_TRUSTED" \in idxFile[RecordOf(b)].flags]]
  /\ cursor' = Cardinality(Loadable) + 1
  /\ UNCHANGED <<files, disk, blockHist>>
=============================================================================
