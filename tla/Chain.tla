------------------------------- MODULE Chain --------------------------------
(***************************************************************************)
(* core/chain*.go: the tree of blocks, the tip of the active chain, and    *)
(* what AcceptBlock does to them: extend the tip, keep a side block, or    *)
(* reorganise (MoveToBlock and ParseTillBlock, which call each other), one *)
(* step for each block undone or applied.                                  *)
(*                                                                         *)
(* The unspent database is taken as the ledger of whole blocks that        *)
(* UnspentStore shows it to be; the block database as its map in memory.   *)
(* Blocks that fail CheckBlock never come here, except that a block may    *)
(* not be in the index already and its parent must be.                     *)
(***************************************************************************)
EXTENDS TxCommit, UnspentOps

CONSTANTS
  Block,            \* blocks that may arrive, and Genesis
  Genesis,
  ParentOf,         \* PreBlockHash of each block but Genesis
  BlockTxs,         \* the transactions of each block, coinbase first
  MaxHistory,       \* UnwindBufferMaxHistory
  NoSyncDistance,   \* 100: the distance from which ParseTillBlock stops syncing
  MaxRejected,      \* bound: how often one block may be deleted from the tree
  StartNoSync       \* the settings of the -nosync flag to look at

ASSUME ChainAssumption ==
  /\ Genesis \in Block
  /\ ParentOf \in [Block \ {Genesis} -> Block]
  \* A block names its parent by the hash of it: no branch leads back to itself.
  /\ \A S \in SUBSET (Block \ {Genesis}) : S # {} => \E b \in S : ParentOf[b] \notin S
  /\ BlockTxs \in [Block -> Seq(TxId)]
  /\ MaxHistory \in Nat \ {0}
  /\ NoSyncDistance \in Nat
  /\ MaxRejected \in Nat
  /\ StartNoSync \subseteq BOOLEAN

(* A BlockTreeNode is an object: a block deleted from the tree and then    *)
(* accepted again has a new one, while pointers to the old one live on.    *)
NodeId == [block : Block, gen : 0..MaxRejected]
Root   == [block |-> Genesis, gen |-> 0]   \* its Parent, nil, is never followed

VARIABLES
  tree,             \* node -> its Parent, Height and Children, once allocated
  BlockIndex,       \* block hash -> node
  BlockTreeEnd,     \* the tip: the node up to which blocks are applied
  blockIdxMap,      \* BlockDB: block hash -> trusted
  utxo,             \* the unspent outputs
  unwind,           \* height -> unwind record
  lastBlockHeight,  \* of unwindDB
  DoNotSync,
  prvSync,          \* DoNotSync as the calls of ParseTillBlock saved it
  nosync,           \* the unspent database is in its mode without sync
  pc,               \* where AcceptBlock stands
  cur,              \* cur of AcceptBlock, then cur of MoveToBlock
  dst,              \* where MoveToBlock and ParseTillBlock go
  settled,          \* history: the tip and the tree when no call was running
  asked,            \* history: DoNotSync as the client last set it
  astray            \* history: a block was processed that GoesAstray

treeVars   == <<tree, BlockIndex>>
ledgerVars == <<utxo, unwind, lastBlockHeight>>
syncVars   == <<DoNotSync, prvSync, nosync>>
callVars   == <<pc, cur, dst>>
histVars   == <<settled, asked>>
vars == <<treeVars, BlockTreeEnd, blockIdxMap, ledgerVars, syncVars, callVars, histVars,
          astray>>

Panics == {"Unexpected height", "Unwind data not found", "Parent data not found",
           "End block is not higher then current", "Unknown path to block",
           "nil pointer", "Db.BlockGet", "index out of range",
           "if block is trusted, how can be invalid"}
Running == {"extend", "undo", "parse", "retarget"}
-----------------------------------------------------------------------------
(* The tree                                                                *)

Height(n)   == tree[n].height
Parent(n)   == tree[n].parent
Children(n) == tree[n].children

(* The nodes of tree t from the root to n, along the Parent pointers. *)
PathIn(t, n) ==
  LET path[m \in DOMAIN t] ==
        IF m = Root THEN <<m>> ELSE Append(path[t[m].parent], m)
  IN  path[n]

Path(n) == PathIn(tree, n)

AncestorAt(n, height) == Path(n)[height + 1]

(* Wrong on purpose: the first child, however short its branch. *)
FindFirstLeaf ==
  LET leaf[n \in DOMAIN tree] ==
        IF Children(n) = <<>> THEN n ELSE leaf[Children(n)[1]]
  IN  leaf[Root]

(* FindFarthestNode: of several deepest nodes the one found first. *)
FindFarthestNode ==
  LET first(far, kids) ==
        CHOOSE i \in DOMAIN kids : \A j \in DOMAIN kids :
          \/ Height(far[kids[j]]) < Height(far[kids[i]])
          \/ Height(far[kids[j]]) = Height(far[kids[i]]) /\ i <= j
      far[n \in DOMAIN tree] ==
        IF Children(n) = <<>> THEN n
        ELSE far[Children(n)[first([k \in ToSet(Children(n)) |-> far[k]], Children(n))]]
  IN  far[Root]

(* FindNextNodePathTo: the next node on the way from n to dst, or a panic. *)
(* An only child is taken without a look at where it leads.                *)
NextPanic(n, to) ==
  IF Height(to) <= Height(n)            THEN "End block is not higher then current"
  ELSE IF Children(n) = <<>>            THEN "Unknown path to block"
  ELSE IF Len(Children(n)) > 1 /\ AncestorAt(to, Height(n)) # n THEN "nil pointer"
  ELSE ""

FindNextNodePathTo(n, to) ==
  IF Len(Children(n)) = 1 THEN Children(n)[1] ELSE AncestorAt(to, Height(n) + 1)

AddChild(t, n, parent) ==
  LET linked == [t EXCEPT ![parent].children = Append(@, n)]
  IN  [m \in DOMAIN t \cup {n} |->
        IF m = n THEN [parent |-> parent, height |-> t[parent].height + 1, children |-> <<>>]
                 ELSE linked[m]]

(* delChild; the node itself lives on while something points to it.  If n  *)
(* is not among the children, its copy of them runs out of its slice.      *)
DelChild(t, n) ==
  LET kids == t[t[n].parent].children
      at   == CHOOSE i \in DOMAIN kids : kids[i] = n
  IN  [t EXCEPT ![t[n].parent].children = RemoveAt(kids, at)]

IsChild(n) == n \in ToSet(Children(Parent(n)))

DropBlock(map, b) == [x \in DOMAIN map \ {b} |-> map[x]]
SetBlock(map, b, v) == [x \in DOMAIN map \cup {b} |-> IF x = b THEN v ELSE map[x]]

NewId(b) == [block |-> b, gen |-> CHOOSE g \in 0..MaxRejected :
                                    /\ [block |-> b, gen |-> g] \notin DOMAIN tree
                                    /\ \A k \in 0..(g - 1) :
                                         [block |-> b, gen |-> k] \in DOMAIN tree]
Fresh(b) == \E g \in 0..MaxRejected : [block |-> b, gen |-> g] \notin DOMAIN tree

(* The nodes Children leads to from the root. *)
Attached(t) ==
  {n \in DOMAIN t : \A m \in ToSet(PathIn(t, n)) \ {Root} :
                      m \in ToSet(t[t[m].parent].children)}

Snapshot(t, tip) == [tip |-> tip.block, known |-> {n.block : n \in Attached(t)}]
-----------------------------------------------------------------------------
Init ==
  /\ tree = [n \in {Root} |-> [parent |-> Root, height |-> 0, children |-> <<>>]]
  /\ BlockIndex = [b \in {Genesis} |-> Root]
  /\ BlockTreeEnd = Root
  /\ blockIdxMap = [b \in {} |-> FALSE]
  /\ utxo = {}
  /\ unwind = EmptyDB
  /\ lastBlockHeight = 0
  /\ DoNotSync \in StartNoSync
  /\ prvSync = <<>>
  /\ nosync = FALSE
  /\ pc = "idle"
  /\ cur = Root
  /\ dst = Root
  /\ settled = Snapshot(tree, Root)
  /\ asked = DoNotSync
  /\ astray = FALSE
-----------------------------------------------------------------------------
(* What leads the ledger astray                                            *)

(* The chain seen by its client, between calls.                            *)
Best == INSTANCE BestChain WITH known <- settled.known, tip <- settled.tip,
                                   failing <- astray

(* A block applied to a ledger, every script checked. *)
Applied(u, b) ==
  CommitChanges(u, CommitTxs(u, BlockTxs[b], FALSE, Best!HeightOf[b]))

(* The unspent outputs after a block that follows those of its branch.     *)
LedgerAfter ==
  LET after[b \in Block] ==
        IF b = Genesis THEN {} ELSE Applied(after[ParentOf[b]], b)
  IN  after

FullCheck(b) == CommitTxs(LedgerAfter[ParentOf[b]], BlockTxs[b], FALSE, Best!HeightOf[b])

(* Outputs a block spends that none of its transactions before created.    *)
FromOutside(txs) ==
  UNION {{o \in ToSet(Ins[txs[i]]) : \A k \in 1..(i - 1) : o.tx # txs[k]} : i \in 2..Len(txs)}

(* The transactions of a block that left their outputs in its changes, if  *)
(* one before them did not spend them.                                     *)
TakenOf(txs, changes) ==
  {t \in Txs(txs) : TxOuts(t) \subseteq changes.added \cup changes.deleted \cup FromOutside(txs)}
TakenTxs(b) == TakenOf(BlockTxs[b], FullCheck(b))

(* Those of the blocks of a branch. *)
BranchBlocks ==
  LET blocks[b \in Block] == IF b = Genesis THEN {} ELSE blocks[ParentOf[b]] \cup {b}
  IN  blocks
BranchTxs(b) == UNION {TakenTxs(a) : a \in BranchBlocks[b]}

(* A transaction is in the block twice, or in a valid one on top of a      *)
(* branch that has it.                                                     *)
BringsAgain(b) ==
  \/ ~IsInjective(BlockTxs[b])
  \/ FullCheck(b).err = NoError /\ Txs(BlockTxs[b]) \cap BranchTxs(ParentOf[b]) # {}

(* The block finds an output that is in the database but not of its        *)
(* branch: another block that was undone left it behind.                   *)
FindsLeftover(b) ==
  FromOutside(BlockTxs[b]) \cap (utxo \ LedgerAfter[ParentOf[b]]) # {}

(* commitTxs looks for neither.  Nothing else makes what it says of a      *)
(* block, or what the block changes, depend on more than its branch.       *)
GoesAstray(b) == BringsAgain(b) \/ FindsLeftover(b)

Processed(n) == astray' = (astray \/ GoesAstray(n.block))
-----------------------------------------------------------------------------
(* The unspent database, whole blocks at a time                            *)

Pruned(db, height) ==
  IF height >= MaxHistory THEN DelRecord(db, height - MaxHistory) ELSE db

CommitBlockTxs(changes, n) ==
  /\ utxo' = CommitChanges(utxo, changes)
  /\ unwind' = Pruned(PutRecord(unwind, Height(n),
                        UnwindRecord(n.block, changes.added, changes.deleted)), Height(n))
  /\ lastBlockHeight' = lastBlockHeight + 1

CommitPanics(n) == lastBlockHeight + 1 # Height(n)

(* Three wrong ones: spent outputs are not given back, the record stays,   *)
(* the height stays.                                                       *)
UndoAddedOnly ==
  /\ utxo' = utxo \ unwind[lastBlockHeight].added
  /\ unwind' = DelRecord(unwind, lastBlockHeight)
  /\ lastBlockHeight' = lastBlockHeight - 1
UndoKeepsRecord ==
  /\ utxo' = UndoChanges(utxo, unwind[lastBlockHeight])
  /\ UNCHANGED unwind
  /\ lastBlockHeight' = lastBlockHeight - 1
UndoKeepsHeight ==
  /\ utxo' = UndoChanges(utxo, unwind[lastBlockHeight])
  /\ unwind' = DelRecord(unwind, lastBlockHeight)
  /\ UNCHANGED lastBlockHeight

UndoBlockTransactions ==
  /\ utxo' = UndoChanges(utxo, unwind[lastBlockHeight])
  /\ unwind' = DelRecord(unwind, lastBlockHeight)
  /\ lastBlockHeight' = lastBlockHeight - 1

UndoPanic(n) ==
  IF Height(n) # lastBlockHeight               THEN "Unexpected height"
  ELSE IF lastBlockHeight \notin DOMAIN unwind THEN "Unwind data not found"
  ELSE IF lastBlockHeight - 1 \notin DOMAIN unwind THEN "Parent data not found"
  ELSE ""

(* Wrong on purpose: no script is ever checked. *)
TrustedChanges(n, trusted) == CommitTxs(utxo, BlockTxs[n.block], TRUE, Height(n))

(* ProcessBlockTransactions *)
Changes(n, trusted) == CommitTxs(utxo, BlockTxs[n.block], trusted, Height(n))
-----------------------------------------------------------------------------
(* AcceptBlock                                                             *)

(* Where MoveToBlock(to) starts to walk: the ancestor of to at the height  *)
(* of the tip.                                                             *)
MoveStart(to) ==
  IF Height(to) > Height(BlockTreeEnd) THEN AncestorAt(to, Height(BlockTreeEnd)) ELSE to

(* The call ends with this tree and this tip. *)
Return(t, tip) ==
  /\ pc' = "idle" /\ cur' = Root /\ dst' = Root
  /\ settled' = Snapshot(t, tip)
  /\ UNCHANGED asked

Panic(msg) == pc' = msg /\ UNCHANGED <<cur, dst, histVars>>

(* A block that passes CheckBlock gets a node under its parent.  On the    *)
(* tip it is processed next; anywhere else it is stored, and makes the     *)
(* chain move if it is higher than the tip.                                *)
AcceptBlock(b) ==
  /\ pc = "idle"
  /\ b \notin DOMAIN BlockIndex
  /\ ParentOf[b] \in DOMAIN BlockIndex
  /\ Fresh(b)
  /\ UNCHANGED <<BlockTreeEnd, ledgerVars, DoNotSync, prvSync, nosync, astray>>
  /\ LET n      == NewId(b)
         parent == BlockIndex[ParentOf[b]]
         grown  == AddChild(tree, n, parent)
     IN /\ tree' = grown
        /\ BlockIndex' = SetBlock(BlockIndex, b, n)
        /\ IF parent = BlockTreeEnd
             THEN /\ pc' = "extend" /\ cur' = n
                  /\ UNCHANGED <<dst, histVars, blockIdxMap>>
             ELSE /\ blockIdxMap' = SetBlock(blockIdxMap, b, FALSE)
                  /\ IF Height(parent) + 1 > Height(BlockTreeEnd)
                       THEN /\ pc' = "undo" /\ dst' = n
                            /\ cur' = AncestorAt(parent, Height(BlockTreeEnd))
                            /\ UNCHANGED histVars
                       ELSE Return(grown, BlockTreeEnd)

(* The block extends the tip. *)
ExtendTip ==
  /\ pc = "extend"
  /\ LET changes == Changes(cur, FALSE) IN
     /\ changes.err = NoError
     /\ ~CommitPanics(cur)
     /\ CommitBlockTxs(changes, cur)
  /\ blockIdxMap' = SetBlock(blockIdxMap, cur.block, TRUE)
  /\ nosync' = (nosync /\ DoNotSync)
  /\ BlockTreeEnd' = cur
  /\ UNCHANGED <<treeVars, DoNotSync, prvSync>>
  /\ Processed(cur)
  /\ Return(tree, cur)

(* It does not: its node goes away again. *)
RefuseTip ==
  /\ pc = "extend"
  /\ Changes(cur, FALSE).err # NoError
  /\ IsChild(cur)
  /\ LET pruned == DropBlock(DelChild(tree, cur), cur) IN
     tree' = pruned /\ Return(pruned, BlockTreeEnd)
  /\ BlockIndex' = DropBlock(BlockIndex, cur.block)
  /\ Processed(cur)
  /\ UNCHANGED <<BlockTreeEnd, blockIdxMap, ledgerVars, syncVars>>

-----------------------------------------------------------------------------
(* MoveToBlock                                                             *)

(* The tip and cur walk down together, undoing the tip's blocks. *)
UndoBlock ==
  /\ pc = "undo" /\ BlockTreeEnd # cur
  /\ UndoPanic(BlockTreeEnd) = ""
  /\ UndoBlockTransactions
  /\ BlockTreeEnd' = Parent(BlockTreeEnd)
  /\ cur' = Parent(cur)
  /\ UNCHANGED <<treeVars, blockIdxMap, syncVars, pc, dst, histVars, astray>>

(* They met: ParseTillBlock(dst) begins. *)
StartParse ==
  /\ pc = "undo" /\ BlockTreeEnd = cur
  /\ prvSync' = Append(prvSync, DoNotSync)
  /\ DoNotSync' = TRUE
  /\ nosync' = (nosync \/ Height(dst) - Height(BlockTreeEnd) > NoSyncDistance)
  /\ pc' = "parse"
  /\ UNCHANGED <<treeVars, BlockTreeEnd, blockIdxMap, ledgerVars, cur, dst, histVars, astray>>
-----------------------------------------------------------------------------
(* ParseTillBlock                                                          *)

Nxt == FindNextNodePathTo(BlockTreeEnd, dst)

(* The next block can be fetched: neither the path nor GetBlock panics. *)
Fetched ==
  /\ pc = "parse" /\ BlockTreeEnd # dst
  /\ NextPanic(BlockTreeEnd, dst) = ""
  /\ Nxt.block \in DOMAIN blockIdxMap

NextChanges == Changes(Nxt, blockIdxMap[Nxt.block])

(* Wrong on purpose: a block that is trusted already is skipped, and the   *)
(* loop comes back to it for ever.                                         *)
ParseUntrusted ==
  /\ Fetched
  /\ NextChanges.err = NoError /\ ~blockIdxMap[Nxt.block]
  /\ ~CommitPanics(Nxt)
  /\ CommitBlockTxs(NextChanges, Nxt)
  /\ blockIdxMap' = SetBlock(blockIdxMap, Nxt.block, TRUE)
  /\ BlockTreeEnd' = Nxt
  /\ Processed(Nxt)
  /\ UNCHANGED <<treeVars, DoNotSync, prvSync, nosync, callVars, histVars>>

(* One block is applied and trusted from now on. *)
ParseBlock ==
  /\ Fetched
  /\ NextChanges.err = NoError
  /\ ~CommitPanics(Nxt)
  /\ CommitBlockTxs(NextChanges, Nxt)
  /\ blockIdxMap' = SetBlock(blockIdxMap, Nxt.block, TRUE)
  /\ BlockTreeEnd' = Nxt
  /\ Processed(Nxt)
  /\ UNCHANGED <<treeVars, DoNotSync, prvSync, nosync, callVars, histVars>>

(* One block fails: DeleteBranch takes it, and only it, out of the index.  *)
(* Its node stays in memory while nodes below it point to it.              *)
DeleteBranch ==
  /\ Fetched
  /\ NextChanges.err # NoError
  /\ IsChild(Nxt)
  /\ ~blockIdxMap[Nxt.block]
  /\ BlockIndex' = DropBlock(BlockIndex, Nxt.block)
  /\ tree' = IF Children(Nxt) = <<>> THEN DropBlock(DelChild(tree, Nxt), Nxt)
                                       ELSE DelChild(tree, Nxt)
  /\ dst' = IF Nxt = dst THEN Root ELSE dst
  /\ blockIdxMap' = DropBlock(blockIdxMap, Nxt.block)
  /\ pc' = "retarget"
  /\ Processed(Nxt)
  /\ UNCHANGED <<BlockTreeEnd, ledgerVars, DoNotSync, prvSync, nosync, cur, histVars>>

ParsePanic ==
  IF NextPanic(BlockTreeEnd, dst) # ""        THEN NextPanic(BlockTreeEnd, dst)
  ELSE IF Nxt.block \notin DOMAIN blockIdxMap THEN "Db.BlockGet"
  ELSE IF NextChanges.err = NoError
    THEN IF CommitPanics(Nxt) THEN "Unexpected height" ELSE ""
  ELSE IF ~IsChild(Nxt) THEN "index out of range"
  ELSE IF blockIdxMap[Nxt.block] THEN "if block is trusted, how can be invalid"
  ELSE ""

(* After a failure: off to the farthest node there is now. *)
Retarget ==
  /\ pc = "retarget"
  /\ nosync' = FALSE
  /\ dst' = FindFarthestNode
  /\ cur' = MoveStart(FindFarthestNode)
  /\ pc' = "undo"
  /\ UNCHANGED <<treeVars, BlockTreeEnd, blockIdxMap, ledgerVars, DoNotSync, prvSync, histVars,
                 astray>>

(* Wrong on purpose: only the innermost call restores DoNotSync. *)
InnermostReturns ==
  /\ pc = "parse" /\ BlockTreeEnd = dst
  /\ nosync' = FALSE
  /\ DoNotSync' = prvSync[Len(prvSync)]
  /\ prvSync' = <<>>
  /\ UNCHANGED <<treeVars, BlockTreeEnd, blockIdxMap, ledgerVars, astray>>
  /\ Return(tree, BlockTreeEnd)

(* Every pending call of ParseTillBlock returns, the outermost one last. *)
ParseReturns ==
  /\ pc = "parse" /\ BlockTreeEnd = dst
  /\ nosync' = FALSE
  /\ DoNotSync' = Head(prvSync)
  /\ prvSync' = <<>>
  /\ UNCHANGED <<treeVars, BlockTreeEnd, blockIdxMap, ledgerVars, astray>>
  /\ Return(tree, BlockTreeEnd)
-----------------------------------------------------------------------------
(* Any of the panics ends the process.  What is lost with it is in memory; *)
(* of the rest, an undo that does not find the parent has already undone.  *)

ExtendPanic ==
  IF Changes(cur, FALSE).err = NoError
    THEN IF CommitPanics(cur) THEN "Unexpected height" ELSE ""
    ELSE IF IsChild(cur) THEN "" ELSE "index out of range"

CallPanic ==
  CASE pc = "extend"                       -> ExtendPanic
    [] pc = "undo" /\ BlockTreeEnd # cur   -> UndoPanic(BlockTreeEnd)
    [] pc = "parse" /\ BlockTreeEnd # dst  -> ParsePanic
    [] OTHER                               -> ""

CallPanics ==
  /\ CallPanic # ""
  /\ IF CallPanic = "Parent data not found"
       THEN UndoBlockTransactions ELSE UNCHANGED ledgerVars
  /\ IF pc = "extend" THEN Processed(cur)
     ELSE IF Fetched THEN Processed(Nxt) ELSE UNCHANGED astray
  /\ Panic(CallPanic)
  /\ UNCHANGED <<treeVars, BlockTreeEnd, blockIdxMap, syncVars>>
-----------------------------------------------------------------------------
(* Chain.Sync *)
SyncAll ==
  /\ pc = "idle"
  /\ DoNotSync' = FALSE /\ nosync' = FALSE
  /\ asked' = FALSE
  /\ UNCHANGED <<treeVars, BlockTreeEnd, blockIdxMap, ledgerVars, prvSync, callVars, settled,
                 astray>>

CallStep ==
  \/ ExtendTip \/ RefuseTip
  \/ UndoBlock \/ StartParse
  \/ ParseBlock \/ DeleteBranch \/ Retarget \/ ParseReturns
  \/ CallPanics

Next ==
  \/ \E b \in Block \ {Genesis} : AcceptBlock(b)
  \/ CallStep
  \/ SyncAll

Spec == Init /\ [][Next]_vars

(* AcceptBlock runs to its end: one goroutine, nothing to wait for. *)
FairSpec == Spec /\ WF_vars(CallStep)
-----------------------------------------------------------------------------
(* Properties                                                              *)

(* The blocks of the active chain, oldest first, without the genesis.      *)
Active == Tail(Path(BlockTreeEnd))

(* The unwind records are those of the newest blocks of the active chain,  *)
(* also in the middle of a reorganisation: the two databases move as one.  *)
UnwindFollowsTip ==
  pc \notin Panics =>
    /\ lastBlockHeight = Height(BlockTreeEnd)
    /\ \A h \in DOMAIN unwind :
         /\ h \in 1..lastBlockHeight
         /\ unwind[h].hash = AncestorAt(BlockTreeEnd, h).block

(* Outputs some block creates and spends itself: undoing that block leaves *)
(* them behind (see TxLedgerRules), so the ledger is exact but for them.   *)
OwnOutputs ==
  UNION {LET txs == BlockTxs[b] IN
           (UNION {TxOuts(t) : t \in ToSet(txs)}) \cap (UNION {ToSet(Ins[t]) : t \in ToSet(txs)})
         : b \in Block \ {Genesis}}

(* At any step of any reorganisation the unspent outputs are those one     *)
(* gets by applying the active chain from the genesis block, until a block *)
(* brings a transaction again or finds an output left behind.              *)
LedgerIsReplay ==
  pc \notin Panics /\ ~astray =>
    utxo \ OwnOutputs = LedgerAfter[BlockTreeEnd.block] \ OwnOutputs

(* The trusted flag, which makes commitTxs skip the scripts, never lets a  *)
(* block onto the active chain that would fail a full check; and a block   *)
(* that has it passes when it is parsed again (InvalidBlock's assertion,   *)
(* blockdb.go:146).  Until the ledger goes astray: after it a block that   *)
(* found an output left behind is trusted, and fails when it is parsed     *)
(* again and that output is gone.                                          *)
ActiveChainValid ==
  ~astray =>
    /\ pc # "if block is trusted, how can be invalid"
    /\ pc \notin Panics =>
         \A i \in DOMAIN Active :
           FullCheck(Active[i].block).err = NoError /\ blockIdxMap[Active[i].block]

(* The panics of a move that finds no way to its end.                      *)
PathPanics == {"End block is not higher then current", "Unknown path to block",
               "nil pointer", "Db.BlockGet", "index out of range"}

(* What can end the process.  Never the ledger's own assertions: blocks    *)
(* are committed and undone at the height the unwind database is at, the   *)
(* record of the tip is there.  A parent's record is missing only once all *)
(* records are undone, for a fork below the oldest of them; and no way is  *)
(* found only to blocks that hang below one DeleteBranch took out of the   *)
(* tree.                                                                   *)
PanicsHaveCauses ==
  /\ pc \notin {"Unexpected height", "Unwind data not found"}
  /\ pc = "Parent data not found" => DOMAIN unwind = {}
  /\ pc \in PathPanics => dst \notin Attached(tree)

(* Whatever calls of ParseTillBlock were nested, DoNotSync comes back as   *)
(* it was, and the unspent database is in its mode with sync.              *)
SyncModeRestored == pc = "idle" => ~nosync /\ DoNotSync = asked /\ prvSync = <<>>

(* The chain keeps the promise of BestChain, which ends when the ledger    *)
(* goes astray.                                                            *)
TipIsBest == Best!BCSpec

(* MoveToBlock and ParseTillBlock call each other; every call of           *)
(* AcceptBlock ends all the same, if only in a panic.                      *)
EveryCallEnds == pc \in Running ~> pc \notin Running
=============================================================================
