------------------------------ MODULE Restart -------------------------------
(***************************************************************************)
(* The block database and the unspent database under one chain that is     *)
(* stopped and started again: AcceptBlock with the order of its writes,    *)
(* the reorganisations, crashes, power failures, and NewChain with         *)
(* loadBlockIndex, the undoing of the newest blocks, and the parsing up to *)
(* the farthest one.                                                       *)
(*                                                                         *)
(* The unspent database is the list of its unwind records: UnspentStore    *)
(* shows that one determines the other.  Chain looks at the tree with its  *)
(* nodes, this module at what becomes of it at the next start.             *)
(***************************************************************************)
EXTENDS BlockStore, FiniteSetsExt, SequencesExt

CONSTANTS
  ParentOf,         \* the parents of the blocks
  Bad,              \* blocks that fail when they are processed
  UndoAtStart,      \* 3: blocks NewChain undoes
  MaxBlocks,        \* bound: blocks appended to the block file
  MaxFailures       \* bound: crashes and power failures; panics come on top

(* A block names its parent by its hash: no block is its own ancestor. *)
ASSUME RestartAssumption ==
  /\ ParentOf \in [Block -> Block \cup {Genesis}]
  /\ \A S \in SUBSET Block : S # {} => \E b \in S : ParentOf[b] \notin S
  /\ Bad \subseteq Block
  /\ UndoAtStart \in Nat /\ MaxBlocks \in Nat /\ MaxFailures \in Nat

VARIABLES
  applied,          \* the blocks of the unwind records, from height 1 on
  durable,          \* applied at the last Sync of the unspent database
  tip,              \* BlockTreeEnd
  pc,               \* the next step, or "idle", or "down"
  cur,              \* the block that is accepted, or moved to
  left,             \* blocks still to be undone by NewChain
  panicked,         \* the message of the panic that ended the process
  failures,         \* how often the program was ended from outside
  startTip,         \* history: the tip the last start began with
  lost              \* history: a power failure took blocks or records

chainVars == <<applied, durable, tip, pc, cur, left, panicked, failures,
               startTip, lost>>
vars      == <<blockVars, chainVars>>
-----------------------------------------------------------------------------
(* The tree                                                                *)

(* The blocks from height 1 to b. *)
Branch ==
  LET branch[b \in Block \cup {Genesis}] ==
        IF b = Genesis THEN <<>> ELSE Append(branch[ParentOf[b]], b)
  IN  branch

Height(b)      == Len(Branch[b])
Below(b, to)   == b = Genesis \/ b \in ToSet(Branch[to])
Parent(b)      == IF b = Genesis THEN Genesis ELSE ParentOf[b]

Known(b) == b \in DOMAIN blockIdxMap \cup {Genesis}
Children(b) == {c \in DOMAIN blockIdxMap : ParentOf[c] = b}

(* The blocks that Children leads to from the root: DeleteBranch leaves the *)
(* ones below a deleted block out of it.                                    *)
Attached == {b \in Block \cup {Genesis} : \A a \in ToSet(Branch[b]) : Known(a)}

(* Wrong on purpose: any leaf will do. *)
AnyLeaf == {b \in Attached : Children(b) = {}}

(* What FindFarthestNode may return: the first one, in an order which after *)
(* a start is random.                                                       *)
FarthestNodes == {b \in Attached : \A c \in Attached : Height(c) <= Height(b)}

(* FindNextNodePathTo, from the tip *)
NextPanic ==
  IF Height(cur) <= Height(tip)         THEN "End block is not higher then current"
  ELSE IF Children(tip) = {}            THEN "Unknown path to block"
  ELSE IF Cardinality(Children(tip)) > 1 /\ ~Below(tip, cur) THEN "nil pointer"
  ELSE ""

PathPanics == {"End block is not higher then current", "Unknown path to block", "nil pointer"}

Nxt == IF Cardinality(Children(tip)) = 1 THEN CHOOSE c \in Children(tip) : TRUE
                                         ELSE Branch[cur][Height(tip) + 1]
-----------------------------------------------------------------------------
Init ==
  /\ BlocksInit
  /\ applied = <<>> /\ durable = <<>>
  /\ tip = Genesis /\ pc = "idle" /\ cur = Genesis /\ left = 0
  /\ panicked = "" /\ failures = 0 /\ startTip = Genesis /\ lost = FALSE

GoOn(step) == pc' = step /\ UNCHANGED <<panicked, failures, startTip, lost>>

Panic(message) ==
  pc' = "down" /\ panicked' = message /\ UNCHANGED <<failures, startTip, lost>>
-----------------------------------------------------------------------------
(* AcceptBlock                                                             *)

(* A block of a known parent; on the tip it has been processed already, so *)
(* that a bad one leaves no trace.  (A block that DeleteBranch took does   *)
(* not come again before the next start while others hang below it.)       *)
AddBlock(b) ==
  /\ pc = "idle"
  /\ ~Known(b) /\ Known(ParentOf[b])
  /\ Children(b) = {}
  /\ b \in Bad => ParentOf[b] # tip
  /\ Len(dataFile) < MaxBlocks
  /\ AppendBlock(b)
  /\ cur' = b
  /\ GoOn("record")
  /\ UNCHANGED <<applied, durable, tip, left>>

AddRecord ==
  /\ pc = "record"
  /\ WriteRecord(cur, ParentOf[cur] = tip)
  /\ GoOn(IF ParentOf[cur] = tip THEN "commit"
          ELSE IF Height(cur) > Height(tip) THEN "undo" ELSE "idle")
  /\ UNCHANGED <<applied, durable, tip, cur, left>>

(* The changes of the block read become those of node b, the new tip. *)
CommitBlockTxs(read, b, step) ==
  IF Len(applied) + 1 # Height(b)
    THEN Panic("Unexpected height") /\ UNCHANGED <<applied, tip>>
    ELSE applied' = Append(applied, read) /\ tip' = b /\ GoOn(step)

CommitTip ==
  /\ pc = "commit"
  /\ CommitBlockTxs(cur, cur, "sync")
  /\ UNCHANGED <<blockVars, durable, cur, left>>

(* After the tip was extended or when the client asks: the two files of    *)
(* the block database one after the other, then the unspent database.      *)
Sync ==
  /\ pc \in {"sync", "idle"}
  /\ SyncIndex
  /\ GoOn("syncData")
  /\ UNCHANGED <<applied, durable, tip, cur, left>>

SyncBlocks ==
  /\ pc = "syncData"
  /\ SyncData
  /\ GoOn("syncUnspent")
  /\ UNCHANGED <<applied, durable, tip, cur, left>>

SyncUnspent ==
  /\ pc = "syncUnspent"
  /\ durable' = applied
  /\ GoOn("idle")
  /\ UNCHANGED <<blockVars, applied, tip, cur, left>>
-----------------------------------------------------------------------------
(* MoveToBlock and ParseTillBlock                                          *)

(* Undoing block 1 deletes its record and then misses that of its parent.  *)
UndoTip(step) ==
  /\ IF Len(applied) # Height(tip)
       THEN Panic("Unexpected height") /\ UNCHANGED <<applied, tip>>
     ELSE IF Len(applied) = 1
       THEN Panic("Parent data not found") /\ applied' = <<>> /\ UNCHANGED tip
     ELSE GoOn(step) /\ applied' = Front(applied) /\ tip' = Parent(tip)
  /\ UNCHANGED <<blockVars, durable, cur>>

MoveUndo == pc = "undo" /\ ~Below(tip, cur) /\ UndoTip("undo") /\ UNCHANGED left

MoveParse ==
  /\ pc = "undo" /\ Below(tip, cur)
  /\ GoOn("parse")
  /\ UNCHANGED <<blockVars, applied, durable, tip, cur, left>>

(* The next node on the way has a block in the block database.             *)
Parsing == pc = "parse" /\ tip # cur
Fetched == Parsing /\ NextPanic = "" /\ Known(Nxt)

(* What ProcessBlockTransactions may say of the block that is read: zeros  *)
(* have no transactions to fail, and another block than the one asked for  *)
(* is processed in its place.                                              *)
Passes(read) == read = Nxt => Nxt \notin Bad
Fails(read)  == read # Zeros /\ (read = Nxt => Nxt \in Bad)

(* Without a sync of the block database: DoNotSync is set.  TrustBlock has *)
(* the hash of the block that was read.                                    *)
ParseBlock ==
  /\ Fetched /\ Passes(GetBlock(Nxt))
  /\ IF GetBlock(Nxt) \in DOMAIN blockIdxMap THEN TrustBlock(GetBlock(Nxt))
                                             ELSE UNCHANGED blockVars
  /\ CommitBlockTxs(GetBlock(Nxt), Nxt, "parse")
  /\ UNCHANGED <<durable, cur, left>>

DeleteBranch ==
  /\ Fetched /\ Fails(GetBlock(Nxt))
  /\ ~blockIdxMap[Nxt].trusted
  /\ InvalidBlock(Nxt)
  /\ GoOn("retarget")
  /\ UNCHANGED <<applied, durable, tip, cur, left>>

Retarget ==
  /\ pc = "retarget"
  /\ durable' = applied
  /\ cur' \in FarthestNodes
  /\ GoOn("undo")
  /\ UNCHANGED <<blockVars, applied, tip, left>>

ParseReturns ==
  /\ pc = "parse" /\ tip = cur
  /\ durable' = applied
  /\ GoOn("idle")
  /\ UNCHANGED <<blockVars, applied, tip, cur, left>>

ParsePanic ==
  IF NextPanic # ""       THEN NextPanic
  ELSE IF ~Known(Nxt)     THEN "Db.BlockGet"
  ELSE IF Fails(GetBlock(Nxt)) /\ blockIdxMap[Nxt].trusted
    THEN "if block is trusted, how can be invalid"
  ELSE ""

ParsePanics ==
  /\ Parsing /\ ParsePanic # ""
  /\ Panic(ParsePanic)
  /\ UNCHANGED <<blockVars, applied, durable, tip, cur, left>>
-----------------------------------------------------------------------------
GoDown ==
  /\ pc # "down" /\ failures < MaxFailures
  /\ pc' = "down" /\ panicked' = ""
  /\ failures' = failures + 1
  /\ tip' = Genesis /\ cur' = Genesis /\ left' = 0
  /\ blockIdxMap' = NoMap /\ cursor' = 1
  /\ UNCHANGED <<verified, failed, misplaced, startTip>>

(* The process ends: what it wrote is there. *)
Crash == GoDown /\ UNCHANGED <<files, disk, orphaned, applied, durable, lost>>

(* What was not synced may be there afterwards or not, for each of the two *)
(* files and for the unspent database.                                     *)
PowerFailure ==
  /\ GoDown
  /\ LoseWrites
  /\ applied' \in {applied, durable} /\ durable' = applied'
  /\ lost' = (lost \/ files' # files)
-----------------------------------------------------------------------------
(* NewChain                                                                *)

LastBlock == IF applied = <<>> THEN Genesis ELSE Last(applied)

(* loadBlockIndex *)
LoadPanic ==
  IF \E b \in Loaded : ParentOf[b] \notin Loaded \cup {Genesis} THEN "has no Parent"
  ELSE IF LastBlock \notin Loaded \cup {Genesis} THEN "Last Block Hash not found"
  ELSE ""

(* Wrong on purpose: nothing is undone. *)
NoLoop == 0

(* The blocks that NewChain undoes before it parses. *)
LoopLength == UndoAtStart

Start ==
  /\ pc = "down"
  /\ LoadIndex
  /\ tip' = LastBlock /\ cur' = Genesis /\ left' = LoopLength
  /\ panicked' = LoadPanic
  /\ pc' = IF LoadPanic = "" THEN "start" ELSE "down"
  /\ startTip' = LastBlock
  /\ UNCHANGED <<applied, durable, failures, lost>>

StartUndo ==
  /\ pc = "start" /\ left > 0 /\ Height(tip) > 0
  /\ UndoTip("start")
  /\ left' = left - 1

StartParse ==
  /\ pc = "start" /\ (left = 0 \/ Height(tip) = 0)
  /\ \E end \in FarthestNodes :
       IF Height(end) > Height(tip) THEN cur' = end /\ GoOn("parse")
                                    ELSE UNCHANGED cur /\ GoOn("idle")
  /\ UNCHANGED <<blockVars, applied, durable, tip, left>>
-----------------------------------------------------------------------------
Next ==
  \/ \E b \in Block : AddBlock(b)
  \/ AddRecord \/ CommitTip \/ Sync \/ SyncBlocks \/ SyncUnspent
  \/ MoveUndo \/ MoveParse
  \/ ParseBlock \/ DeleteBranch \/ Retarget \/ ParseReturns \/ ParsePanics
  \/ Crash \/ PowerFailure
  \/ Start \/ StartUndo \/ StartParse

Spec == Init /\ [][Next]_vars
-----------------------------------------------------------------------------
(* Properties                                                              *)

(* GetBlock: whatever was overwritten in the index file or lost from either *)
(* file, and however often the program was restarted, it reads the block it *)
(* was asked for, unless a power failure took this block and left a record  *)
(* of it.                                                                   *)
GetBlockGivesTheBlock ==
  \A b \in DOMAIN blockIdxMap \ orphaned : GetBlock(b) = b

(* As long as no record was overwritten, no flag went into another record  *)
(* and no power failed, restarts included, a block is trusted in memory    *)
(* only if it was verified, and one found bad does not come back.          *)
FlagsTellTheTruth ==
  ~misplaced /\ ~lost =>
    /\ \A b \in DOMAIN blockIdxMap : blockIdxMap[b].trusted => b \in verified
    /\ failed \cap DOMAIN blockIdxMap = {}

(* Whatever ended the program and at whichever write, once it has started  *)
(* again no branch is longer than that of the tip, and it is what the      *)
(* unspent database holds, unless a power failure left a record without    *)
(* its block.                                                              *)
StartsAtTheHighest ==
  /\ pc \notin {"down", "start"} /\ orphaned = {} => applied = Branch[tip]
  /\ pc = "idle" => tip \in FarthestNodes

WrittenInvalid(b) ==
  \E i \in DOMAIN idxFile : idxFile[i].hash = b /\ "BLOCK_INVALID" \in idxFile[i].flags

Fork(a, b) == Max({h \in 0..Min({Height(a), Height(b)}) :
                     SubSeq(Branch[a], 1, h) = SubSeq(Branch[b], 1, h)})

(* A crash at any write is no reason for the next start to panic.  The     *)
(* reasons are: a power failure or a misplaced record; a record that is    *)
(* dropped for its flag while the unspent database or another record needs *)
(* it; a record without its block; and a farthest block that leaves the    *)
(* branch of the tip below what is undone at the start.                    *)
StartPanicsHaveCauses ==
  /\ panicked = "Last Block Hash not found" =>
       lost \/ misplaced \/ WrittenInvalid(startTip)
  /\ panicked = "has no Parent" =>
       lost \/ misplaced \/ \E b \in DOMAIN blockIdxMap : WrittenInvalid(ParentOf[b])
  /\ panicked = "Unexpected height" => orphaned # {}
  /\ panicked \in PathPanics =>
       cur \notin Attached \/ Height(startTip) - Fork(startTip, cur) > UndoAtStart
-----------------------------------------------------------------------------
(* What the source says of itself and does not do                          *)

(* chain_load.go:60: the last block of the unspent database is in the      *)
(* index of the block database.                                            *)
LastBlockFound == panicked # "Last Block Hash not found"
=============================================================================
