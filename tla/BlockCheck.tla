----------------------------- MODULE BlockCheck -----------------------------
(***************************************************************************)
(* core/block_check.go, core/target.go and CheckTransaction: what a block  *)
(* must be before the chain accepts it, and the target of the next block.  *)
(* One branch is followed, from the root; each step checks one block, lets *)
(* time pass or starts the program again.                                  *)
(***************************************************************************)
EXTENDS Codec

CONSTANTS
  nInterval,             \* 2016 blocks
  nTargetTimespan,       \* the time they should take, two weeks
  MinDifficultyAfter,    \* nTargetSpacing*2, of the testnet
  FutureTime,            \* 2 hours
  Uint32,                \* 2^32, for timestamps
  bnProofOfWorkLimit,    \* the easiest target
  GenesisTime,
  Times,                 \* timestamps of blocks, and times of the clock
  Bodies,                \* size, transactions and Merkle root of the blocks to try
  Testnets,              \* which networks to look at
  MaxHeight              \* bound: height of the branch

MinSize == 81
MaxSize == 1000000
Null    == "null"        \* the input of a coinbase

ASSUME BlockCheckAssumption ==
  /\ nInterval \in Nat \ {0, 1} /\ nTargetTimespan \in Nat \ {0}
  /\ bnProofOfWorkLimit \in Nat /\ GenesisTime \in Nat /\ Times \subseteq Nat
  /\ MinDifficultyAfter \in Nat /\ Uint32 \in Nat \ {0}
  /\ Testnets \subseteq BOOLEAN

(* Lists of transactions are sequences; none but a block's may be empty,   *)
(* and no block has 2^31 of them.                                          *)
ASSUME ListsAssumption ==
  /\ \A txs \in TxLists \cup {body.txs : body \in Bodies} : txs \in Seq(ToSet(txs))
  /\ <<>> \notin TxLists
  /\ \A body \in Bodies : Len(body.txs) < Power[4] \div 2

(* No time is so near to 2^32, in the year 2106, that one which goes back  *)
(* seems to be a span that is not too long.                                *)
ASSUME TimesAssumption ==
  \A t \in Times \cup {GenesisTime} : t + 4 * nTargetTimespan <= Uint32

VARIABLES
  testnet,
  chain,            \* the nodes of the branch, the root first: Timestamp and Bits
                    \* (and txs, which the blocks had)
  now,              \* the clock
  measured          \* history: the root had its Timestamp for the first retarget

vars == <<testnet, chain, now, measured>>
-----------------------------------------------------------------------------
(* GetNextWorkRequired                                                     *)

nProofOfWorkLimit == GetCompact(bnProofOfWorkLimit)

Height(path) == Len(path) - 1

(* Wrong on purpose: nInterval parents up. *)
FirstOfPathBefore(path) == path[Max({1, Len(path) - nInterval})]

(* The block nInterval-1 parents up. *)
FirstOfPeriod(path) == path[Len(path) - (nInterval - 1)]

(* The difference of two unsigned numbers, then between the two bounds.    *)
ActualTimespan(path) ==
  LET span == (Last(path).Timestamp - FirstOfPeriod(path).Timestamp) % Uint32
  IN  Min({nTargetTimespan * 4, Max({nTargetTimespan \div 4, span})})

Retarget(path) ==
  LET bnNew == (SetCompact(FirstOfPeriod(path).Bits) * ActualTimespan(path))
                 \div nTargetTimespan
  IN  GetCompact(Min({bnNew, bnProofOfWorkLimit}))

(* On the testnet a late block may be easy; another one gets the target of *)
(* the newest block that is not, or of the first one of the period.        *)
TestnetWork(path, ts) ==
  IF ts > (Last(path).Timestamp + MinDifficultyAfter) % Uint32 THEN nProofOfWorkLimit
  ELSE path[Max({k \in DOMAIN path : \/ k = 1 \/ (k - 1) % nInterval = 0
                                     \/ path[k].Bits # nProofOfWorkLimit})].Bits

(* path leads from the root to the parent of the block. *)
GetNextWorkRequired(path, ts) ==
  IF Len(path) = 1                              THEN nProofOfWorkLimit
  ELSE IF (Height(path) + 1) % nInterval = 0    THEN Retarget(path)
  ELSE IF testnet                               THEN TestnetWork(path, ts)
  ELSE Last(path).Bits
-----------------------------------------------------------------------------
(* CheckTransaction, without its slow mode, which nothing turns on         *)

isCoinBase(tx) == Len(tx.ins) = 1 /\ tx.ins[1] = Null

CheckTransaction(tx) ==
  IF tx.ins = <<>>                             THEN "vin empty"
  ELSE IF tx.outs = 0                          THEN "vout empty"
  ELSE IF tx.size > MaxSize                    THEN "size limits failed"
  ELSE IF isCoinBase(tx) /\ tx.script \notin 2..100 THEN "coinbase script size"
  ELSE IF ~isCoinBase(tx) /\ \E i \in DOMAIN tx.ins : tx.ins[i] = Null
                                               THEN "prevout is null"
  ELSE ""
-----------------------------------------------------------------------------
(* CheckBlock.  A block is the height of its parent, its time, target and   *)
(* body; it is not Trusted yet.  A list of transactions that does not       *)
(* decode ends the program: DecodeTxListFromRaw returns no error.           *)

Known(b) ==
  /\ b.prev + 1 <= Height(chain)
  /\ LET node == chain[b.prev + 2] IN
     node.Timestamp = b.time /\ node.Bits = b.bits /\ node.txs = b.body.txs

HasParent(b) == b.prev <= Height(chain)

Required(b) == GetNextWorkRequired(SubSeq(chain, 1, b.prev + 1), b.time)

(* Wrong on purpose: the exception of the testnet holds for every block.   *)
WorkErrorMain(b) == ~testnet /\ b.bits # Required(b)

(* A wrong target is let through on the testnet where a period begins. *)
WorkError(b) == b.bits # Required(b) /\ (~testnet \/ (b.prev + 1) % nInterval # 0)

BodyError(body) ==
  LET txs == body.txs IN
  IF txs = <<>> \/ ~isCoinBase(Head(txs))           THEN "first tx is not coinbase"
  ELSE IF \E i \in 2..Len(txs) : isCoinBase(txs[i]) THEN "more than one coinbase"
  ELSE IF getMerkel(txs) # body.MerkleRoot          THEN "Merkle Root mismatch"
  ELSE IF \E i \in DOMAIN txs : CheckTransaction(txs[i]) # ""
                                                    THEN "CheckTransaction failed"
  ELSE ""

(* The error, in the order of the checks. *)
CheckError(b) ==
  IF b.body.size < MinSize \/ b.body.size > MaxSize THEN "size limits failed"
  ELSE IF b.time > now + FutureTime                 THEN "block timestamp too far in the future"
  ELSE IF Known(b)                                  THEN "already in"
  ELSE IF ~HasParent(b)                             THEN "parent not found"
  ELSE IF WorkError(b)                              THEN "incorrect proof of work"
  ELSE BodyError(b.body)

(* Wrong on purpose: an early block is a fake, too. *)
DosIfEarly(error) == error \notin {"", "already in"}

(* dos: the block is a fake; not so if it is known or comes too early. *)
Dos(error) == error \notin {"", "already in", "parent not found"}
-----------------------------------------------------------------------------
(* The root has no Timestamp until CheckBlock meets the genesis block.     *)
Root(timestamp) == [Timestamp |-> timestamp, Bits |-> nProofOfWorkLimit, txs |-> <<>>]

Init ==
  /\ testnet \in Testnets
  /\ chain = <<Root(0)>>
  /\ now = GenesisTime
  /\ measured = FALSE

(* Blocks that are next on the branch, or for whose parent it is too early. *)
NewBlocks(bodies) ==
  [prev : {Height(chain), Height(chain) + 1}, time : Times, body : bodies,
   bits : {nProofOfWorkLimit, Last(chain).Bits}
            \cup {GetNextWorkRequired(chain, t) : t \in Times}]

(* A block that passes is accepted and becomes a node; for the others      *)
(* nothing changes.                                                        *)
CheckBlock ==
  /\ Height(chain) < MaxHeight
  /\ \E b \in NewBlocks(Bodies) :
       /\ CheckError(b) = ""
       /\ chain' = Append(chain, [Timestamp |-> b.time, Bits |-> b.bits, txs |-> b.body.txs])
  /\ measured' = IF Height(chain') = nInterval THEN chain[1].Timestamp = GenesisTime
                                               ELSE measured
  /\ UNCHANGED <<testnet, now>>

(* The genesis block arrives: it sets its node's fields, and is refused.   *)
CheckGenesis ==
  /\ chain' = [chain EXCEPT ![1] = Root(GenesisTime)]
  /\ UNCHANGED <<testnet, now, measured>>

(* loadBlockIndex: the other nodes come back, the root is made anew.       *)
Restart ==
  /\ chain' = [chain EXCEPT ![1] = Root(0)]
  /\ UNCHANGED <<testnet, now, measured>>

TimePasses ==
  /\ \E t \in Times : t > now /\ now' = t
  /\ UNCHANGED <<testnet, chain, measured>>

Next == CheckBlock \/ CheckGenesis \/ Restart \/ TimePasses

Spec == Init /\ [][Next]_vars
-----------------------------------------------------------------------------
(* Properties                                                              *)

(* A block that CheckBlock called a fake, for which its sender is to blame, *)
(* is never one that would pass a moment later: but for one that the clock  *)
(* had not reached, and for the first block with a new target, which is     *)
(* measured against a root without a Timestamp until the genesis block has  *)
(* been seen again.  (A block with a wrong body never passes.)              *)
DosIsFinal ==
  [][\A b \in NewBlocks({body \in Bodies : BodyError(body) = ""}) :
       Dos(CheckError(b)) /\ CheckError(b)' = "" =>
         \/ CheckError(b) = "block timestamp too far in the future"
         \/ b.prev + 1 = nInterval /\ CheckError(b) = "incorrect proof of work"
            /\ chain[1].Timestamp # chain'[1].Timestamp]_vars

PeriodStart(h) == h - (h % nInterval)

(* Between two retargets nothing moves the target: all blocks of a period  *)
(* have the one of its first block, but on the testnet, where those that   *)
(* come late have the easiest, and so may those that follow a time for     *)
(* which the moment it is late wraps around.                               *)
OneTargetPerPeriod ==
  \A h \in 1..Height(chain) :
    \/ chain[h + 1].Bits = chain[PeriodStart(h) + 1].Bits
    \/ /\ testnet /\ chain[h + 1].Bits = nProofOfWorkLimit
       /\ \/ chain[h + 1].Timestamp > chain[h].Timestamp + MinDifficultyAfter
          \/ chain[h].Timestamp + MinDifficultyAfter >= Uint32

(* On the main network the target of a new period is that of the last one  *)
(* in proportion to the time it took, between a quarter and four times,    *)
(* rounded down to what the compact form can hold, and no easier than the  *)
(* limit; except that a period whose time went backwards counts as one     *)
(* that took far too long, and that the first one is as the rule says only *)
(* if the root had its Timestamp by then.                                  *)
RetargetFollowsTheRule ==
  \A h \in 1..Height(chain) : h % nInterval = 0 /\ ~testnet =>
    LET first    == chain[h - nInterval + 1]
        took     == chain[h].Timestamp - (IF h = nInterval THEN GenesisTime ELSE first.Timestamp)
        timespan == IF took > 4 * nTargetTimespan \/ took < 0 THEN 4 * nTargetTimespan
                    ELSE IF 4 * took < nTargetTimespan THEN nTargetTimespan \div 4
                    ELSE took
        exact    == Min({bnProofOfWorkLimit,
                         (SetCompact(first.Bits) * timespan) \div nTargetTimespan})
        bits     == chain[h + 1].Bits
        target   == SetCompact(bits)
    IN  h > nInterval \/ measured =>
          /\ target <= exact
          /\ \A next \in 0..(bits + Power[3]) : SetCompact(next) \notin (target + 1)..exact

(* A length comes back from its encoding, with the number of bytes to skip, *)
(* whichever of the two ways wrote it and whichever of the two reads it,    *)
(* among them the numbers of transactions of the accepted blocks.  The two  *)
(* ways differ, with five bytes instead of three, exactly from 0xfd on to   *)
(* 0xffff.                                                                  *)
LengthsComeBack ==
  \A n \in Lengths \cup {Len(chain[h].txs) : h \in DOMAIN chain} :
    /\ \A bytes \in {StoreVarLen(n), WriteVarLen(n)} :
         ReadVarLen(bytes) = n /\ LoadVarLen(bytes) = [len |-> n, size |-> Len(bytes)]
    /\ (StoreVarLen(n) # WriteVarLen(n)) <=> (xFD <= n /\ n < Power[2])

(* The root in its header tells the list of an accepted block from any      *)
(* other list that repeats no transaction, and so for all such lists.       *)
RootFixesTheList ==
  LET lists  == {s \in TxLists \cup {chain[h].txs : h \in 2..Len(chain)} : IsInjective(s)}
      rooted == {[list |-> s, root |-> getMerkel(s)] : s \in lists}
  IN  \A a, b \in rooted : a.root = b.root => a.list = b.list
=============================================================================
