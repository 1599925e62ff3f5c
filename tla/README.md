# Verification of yoin

yoin is a Bitcoin node in Go. This directory holds TLA+ models of its core,
the TLC configurations that check them on small instances, and TLAPS proofs
of the results that matter most. Line numbers refer to the sources under
`src/`.

## The system

| Component | Source | State | Operations |
|---|---|---|---|
| Chain | `core/chain.go`, `chain_accept.go`, `chain_node.go`, `chain_load.go` | tree of `BlockTreeNode`, `BlockIndex`, `BlockTreeEnd`, `DoNotSync` | `NewChain`, `AcceptBlock`, `MoveToBlock`, `ParseTillBlock`, `DeleteBranch`, `Sync` |
| Transaction processing | `core/chain_accept.go` | `BlockChangeEvent` under construction, `blUnsp` | `ProcessBlockTransactions`, `commitTxs` |
| Goroutine pool | `core/config.go`, `block.go`, `chain_accept.go` | channel `taskDone` | fill, take, answer, drain |
| Block checks | `core/block_check.go`, `target.go` | none (reads the tree) | `CheckBlock`, `GetNextWorkRequired` |
| Block database | `core/blockdb.go` | `blockchain.dat`, `blockchain.idx`, `blockIdxMap`, file cursor | `AddBlock`, `TrustBlock`, `InvalidBlock`, `GetBlock`, `InitBlockIdxMap`, `Sync` |
| Unspent database | `core/qdb/` | 256 key/value tables of outputs, one of unwind records, last height and hash | `CommitBlockTxs`, `UndoBlockTransactions`, `GetLastBlockHash`, `Sync`, `NoSync` |
| Script interpreter | `core/script.go`, `stack.go` | data stack, alternative stack, `vfExec`, counters, all local to a call | `VerifyTxScript`, `evalScript`, `getOpcode` |
| Transactions | `core/tx.go` | none | serialization, `CheckTransaction`, `SignatureHash` |
| Codecs | `core/util.go`, `uint256.go`, `base58.go`, `hash.go` | none | variable length integers, merkle tree, base58 |
| Keys, curve | `core/key.go`, `eck256k1.go`, `addr.go` | none | signatures, addresses |
| Network | `client/net.go`, `bwlimit.go`, `core/netaddr.go` | one `oneConnection` each; limiter counters under `bwMutex` | message framing, handshake, `SockRead`, `SockWrite` |
| Client | `client/main.go`, `ui.go` | flags | start, text commands |
| Wallet | `wallet/wallet.go` | keys; `balance/unspent.txt`, `balance/<id>.tx`, `<id>.txt` | `load_balance`, `make_signed_tx` |

How they interact. A block goes through `CheckBlock` and then `AcceptBlock`.
On the tip it is processed by `commitTxs`, which reads the unspent database
and uses the pool for scripts; the result, a `BlockChangeEvent`, is committed
to the unspent database (unwind record first, outputs then), the block is
appended to the block database and the tip moves. Elsewhere the block is only
stored; if its branch is higher than the tip, `MoveToBlock` undoes blocks with
the unwind records down to the fork and `ParseTillBlock` applies the branch
from the block database. If a block of it is invalid, `DeleteBranch` drops it
and `ParseTillBlock` calls `MoveToBlock` for the farthest node that is left.
A restart reads the index file, takes the newest unwind record for the tip,
undoes three blocks and parses to the farthest node. The wallet is a program
of its own: it shares code and no state with the node.

What is hard: a crash between two writes of a commit or an undo; the two
databases and the tip that must move as one; the mutual recursion of a
reorganisation; flags and pointers that outlive what they describe (trusted
flags, index positions, nodes of deleted branches); answers of goroutines that
arrive in any order in a channel two algorithms share; an interpreter where
sixty opcodes each guard their own access to one stack; a target that is
measured over thousands of blocks whose times may be in any order; a wallet
that rewrites its list of outputs line by line. `PROJECT.json` lists
these hazards one by one, with the properties that cover them.

What makes each component correct: the unspent database changes by whole
blocks, whatever crashes occur; `commitTxs` agrees with the rule of a ledger;
the tip is always a highest block of the tree and the ledger is the replay of
the active chain; the pool neither blocks nor mixes up verdicts; the block
database gives each block back, with flags that are true; the interpreter
ends, stays within its stack and its limits, and passes a multisignature
exactly when the keys match; the target follows the time that was measured,
and a verdict against the sender of a block is final; a payment takes each
output once and pays out what it takes, and the wallet's file is its balance.

## Modules

| Module | Models | Extends |
|---|---|---|
| `UnspentOps` | commit, undo and the table of unwind records as operators | |
| `UnspentStore` | `core/qdb`, one Put or Del a step, crashes, start-up | `UnspentOps` |
| `LedgerStack` | what `core/qdb` promises: a stack of ledgers | |
| `TxCommit` | `commitTxs` as a function | |
| `TxLedgerRules` | the rule of a ledger for a block, and one `commitTxs` | `TxCommit`, `UnspentOps` |
| `Chain` | the block tree, extension and reorganisation | `TxCommit`, `UnspentOps` |
| `BestChain` | what the chain promises: the tip is a highest known block | |
| `ScriptPool` | the goroutines and their token channel | |
| `BlockStore` | the block file, its index, and the map of it, as actions | |
| `Restart` | both databases under one chain that is stopped, by crashes and power failures too, and started again | `BlockStore` |
| `Codec` | lengths, merkle root, compact form of a target | |
| `BlockCheck` | `CheckBlock`, `CheckTransaction`, the target of the next block | `Codec` |
| `Wallet` | `wallet.go -send`, a write to a file a step | |
| `ScriptOps` | elements of the stack and the opcodes that only work on it | |
| `Script` | `VerifyTxScript` and `evalScript`, an instruction a step | `ScriptOps` |
| `UnspentStoreProofs`, `ScriptPoolProofs`, `ScriptProofs`, `RestartProofs`, `BlockCheckProofs`, `WalletProofs`, `ChainProofs`, `TxLedgerProofs` | theorems | their component (the last, `TxLedgerRules`) |
| `MCUnspentStore`, `MCTxCommit`, `MCChain`, `MCRestart`, `MCBlockCheck`, `MCScript`, `MCWallet` | instances for TLC | their component |

Two of the modules are refined: `UnspentStore` by the mapping `Ledger`
implements `LedgerStack`, `Chain` by `Best` implements `BestChain`. `Chain`
uses the unspent database as the atomic ledger that `UnspentStore` shows it to
be, and the changes `CommitTxs` computes; `UnspentStore` in turn commits any
changes `TxLedgerRules` shows `commitTxs` to be able to ask for
(`UndoableUpToOwnOutputs`, `PossibleChanges`).

### UnspentStore

State: `utxo` and `minedAt` are the 256 tables of `unspentDB`, `unwind` is the
table of `unwindDB`; `lastBlockHeight` and `lastBlockHash` are its fields. An
output is its outpoint, since the transaction id in it fixes value and script.
`CommitBegin` is `unwindDB.commit` up to the Put of the record, `CommitPrune`
its Del, `CommitPut` and `CommitDel` the loops of `unspentDB.commit` (in the
order of a Go map, that is, any), `CommitEnd` the return. `UndoBegin`,
`UndoDel`, `UndoPut` and `UndoEnd` are `unwindDB.undo` with
`unwindFromReader`. `Crash` may come between any two of them; `Open` is
`newUnwindDB`, and `left` counts the iterations of the loop in `NewChain`
that follows; `OpenRescan` is the start with `-rescan`.

*Irregular* outpoints are those a block creates and spends itself, or creates
a second time. For them the code's undo is not the inverse of its commit (see
Findings), so the properties speak of the others; nothing is assumed of which
outpoints those are.

### TxCommit, TxLedgerRules

`CommitTx` is one turn of the loop in `commitTxs`, in the order of the code:
inputs, verdict of the scripts, outputs, the comparison of values, and the
exit after a failed input; `err` is what is returned, `e` the error the code
keeps and drops. `TxLedgerRules` states when a block is valid without that
bookkeeping and compares. The code adds amounts up modulo 2^64 and nothing on
the way to `commitTxs` bounds them, so the two properties about amounts have
the premise `NoWrap`: what is in the ledger, the reward and what the block
creates are together less than that. Without it TLC breaks both with the
transaction "huge". A block may hold the same transaction twice.

### Chain

A node of the tree has an identity besides its block (`NodeId`), since a block
that is deleted and accepted again gets a new `BlockTreeNode` while pointers to
the old one may live on. `pc` tells where `AcceptBlock` stands: `extend` on
the tip, `undo` in the loop of `MoveToBlock`, `parse` in that of
`ParseTillBlock`, `retarget` after a branch was deleted. The values of
`DoNotSync` saved by nested calls are the stack `prvSync`. Every panic of the
code is a value of `pc` reached by `CallPanics`, including the two that are
run-time errors (`delChild` on a node that is no child, an empty `Parent`).

The blocks may be any. Two kinds lead the ledger of the code astray, and
`astray` is a history variable that says that one of them was processed
(`GoesAstray`): a block that brings a transaction again, twice in itself or, if
the block is valid, one that its branch has (`BringsAgain`); and a block that
spends an output which is in the database and not in the ledger of its branch,
because an undo left it there (`FindsLeftover`). The code accepts both.
`LedgerIsReplay`, `ActiveChainValid` and `TipIsBest` speak of the time before;
without that premise TLC breaks each of them with the blocks of `MCChain` (see
Findings).

### ScriptPool

A block is one round of hashing (`DecodeTxListFromRaw`) followed by one round
for each transaction (`commitTxs`). `taskDone` holds tokens; `busy` are the
goroutines at work, `owed` the tokens the caller has still to put in or take
out. Scripts answer what they like.

### BlockStore, Restart

`dataFile` is a sequence of blocks, `idxFile` one of records with flags, hash
and position; `dataDisk` and `idxDisk` are what of them is on the disk for
certain. `cursor` is the file position at which the next record is written,
`blockIdxMap` the map in memory. `AppendBlock` and `WriteRecord` are
`AddBlock`, `SyncIndex` and `SyncData` the two halves of `Sync`, the index
first, as in `blockdb.go:195-196`, and `LoadIndex` is `InitBlockIdxMap`.
`GetBlock` has what its source does at the end of the block file: the error of
`Read` is dropped, and `Zeros` is the block that zero bytes parse to.
`LoseWrites` is what a power failure leaves of the two files, of each on its own
(`Surviving`): of the writes into what was on the disk any, of what was appended
since a beginning. `orphaned` is a history variable: the blocks that such a
failure took while it left a record of them.

`Restart` puts these actions in the order of the chain and adds what else a
start depends on: `applied` stands for the unspent database, by the blocks of
its unwind records (that one determines the other is what `UnspentStore`
shows, and that a crash within a commit repairs itself), `durable` for what it
was at its last `Sync`. `AddBlock`, `AddRecord` and `CommitTip` are
`AcceptBlock` on the tip, and the `Sync` after it is three steps (`Sync`,
`SyncBlocks`, `SyncUnspent`) between which the power can fail; `MoveUndo` to
`ParsePanics` are `MoveToBlock` and `ParseTillBlock`, with the panics of
`FindNextNodePathTo`. The block that is parsed is the one `GetBlock` gives,
whether it was asked for or not: zeros pass as a block without transactions,
and what another block in its place does is left open (`Passes`, `Fails`).
`Crash` leaves the files as they are. `PowerFailure` is `LoseWrites` for the
block database and takes the unspent database back, or not, as a whole, to its
last `Sync`. `Start` to `StartParse` are `NewChain`: the loop that undoes is
there, and `FarthestNodes` are all the nodes that `FindFarthestNode` can return,
since `loadBlockIndex` attaches the children in the order of a Go map. That
`TrustBlock` and the commit that follows it are one step, and the write of a
record is one, are the simplifications. The window of unwind records is left to
`UnspentStore` and `Chain`.

### Codec, BlockCheck

A byte has `Byte` values, and the constants of the code are written in terms
of it, so that three bytes of a compact target or four of a length are small
numbers; `Power[k]` is the number of values of k bytes, by which the code
shifts. `getMerkel` hashes symbolically: a hash is the tuple of what was
hashed. `BlockCheck` follows one branch from the root. `CheckError` has the
checks of `CheckBlock` in their order, `Dos` the verdict on the sender;
`GetNextWorkRequired` has the retarget, with its unsigned difference of two
timestamps, and the rules of the testnet. `CheckBlock` offers every block of
a family and accepts one that passes; `CheckGenesis` is the genesis block
coming in, which is what gives the root its `Timestamp`; `Restart` takes it
away again.

What reading them for the model shows: `StoreVarLen` writes the bytes of the
two-byte form and does not return, so a length from 0xfd to 0xffff takes five
bytes, not three; a period whose last block is older than its first one wraps
around and counts as one that took four times as long (`target.go:99-107`);
the root has no `Timestamp` until the genesis block arrives, and the first
retarget is measured from 0 if that did not happen since the start. The
moment after which a block of the testnet is late is a sum of 32 bits
(`TestnetWork`) and wraps around as well: after a time close to 2^32 a block
that is not late may be easy, the exception `OneTargetPerPeriod` makes.

### Wallet

A run reads `unspent.txt` and the transactions it names, chooses outputs in
the order of the file, and then writes: the signed transaction, an empty
`unspent.txt`, its lines one by one, and the new transaction if one of its
outputs comes back. Each write is a step, `Killed` may follow any of them, and
files may fail to be created where the code goes on or returns. Amounts are
sums modulo `Word`; `asked` is a history variable. `publ_addrs` may name a key
twice. What the model has as it is: the address given by `-change` is
overwritten by that of the first input (`wallet.go:404-418`), lines of outputs
that are not the wallet's are dropped with the next payment, and a key that is
listed twice gets its outputs listed twice. Whether the wallet owns enough is
decided on sums modulo 2^64 (`totBtc`), so an amount that is asked for can wrap
to a small one. The transaction then pays out more than it takes, and if it
pays to the wallet itself, later ones spend money that is not there:
`SignedIsBalanced` is about payments none of whose predecessors asked for so
much.

### ScriptOps, Script

An element of a stack is its length and the integer its first four bytes are;
keys, signatures and hashes have fields more. `ScriptOps` gives for each
opcode that works on the data stack alone what it asks for (`Needs`), takes
(`Operands`) and leaves (`Results`), with the operands in the order the code
pops them. `Script` reads an instruction a step. Any opcode of the family of
scripts chosen at the start may come next, and a script may end at any point
(also within a push, `TornPush`), so the runs are all scripts of a family, the
positions of a script being counted in instructions. `Fetch` is the part of
the loop body before the switch, `Operate` an opcode with its guard, `Advance`
the end of the body, `Return` the return of `evalScript` with the passage from
the first script to the second in `VerifyTxScript`. `Take` makes a pop or a
top out of range a verdict of its own, as `End("unmatched")`, `End("torn")`
and `End("exit")` are for the other ways a script can end the process. The
loop of `OP_CHECKMULTISIG` is a step for each key (`MultiSigTry`). `branch` is
a history variable: the outcomes the conditions should have.

What reading the opcodes for the model shows, and the model has as it is:
`OP_EQUALVERIFY`, `OP_NUMEQUALVERIFY`, `OP_CHECKSIG` and `OP_CHECKMULTISIG`
leave `evalScript` with their result, so what follows them in a script is not
evaluated; the stack left in the end is not looked at; `pushBool` writes a zero
for true while `OP_EQUAL` pushes a one; `OP_SUB` and the comparisons have the
top of the stack as their left operand; `OP_ROT` and `OP_TUCK` do not move as
their names say; `OP_BOOLAND` and `OP_BOOLOR` leave an operand on the stack
when the other one decides; the test for `OP_PUSHDATA4` repeats that for
`OP_PUSHDATA2` and never holds.

## What the runs check

| Run | Bounds | Shows |
|---|---|---|
| `unspent_store` | 2 regular and 1 irregular outpoint, window of 2 records, heights up to 3, start-up loop of 1 | Types; `UtxoMatchesTip`; `RecordsUndoBlocks`; `UnwindWindow`; `UndoneToTheEnd`; `MinedAtIsRight`; refinement of `LedgerStack` (`AtomicBlocks`) |
| `tx_commit` | up to 4 transactions of 9 kinds after the coinbase, in any order and also repeated, 5 ledgers, 2 heights, trusted or not, amounts modulo 32 | agreement with the rule of the ledger, no value from nothing, undo |
| `chain` | 14 blocks besides the genesis block, window of 3, up to two nodes for a block in memory (none needs more), with and without `-nosync` | ledger = replay of the active chain until it goes astray, tip and records move together, no unverified block on the active chain, what can end the process (`PanicsHaveCauses`), `SyncModeRestored`, refinement of `BestChain` |
| `chain_live` | 9 blocks, two of them invalid | every call of `AcceptBlock` ends |
| `restart` | 7 blocks in three branches, one of them invalid, 8 stored, 1 crash or power failure at any write besides the panics, each file losing what it may, any number of starts, start-up loop of 1 | positions (`GetBlockGivesTheBlock`), flags (`FlagsTellTheTruth`), the highest block after a start (`StartsAtTheHighest`), what a start can panic from (`StartPanicsHaveCauses`) |
| `script_pool` | 3 goroutines, up to 4 transactions of up to 4 inputs | no answer without room, clean hand-over between rounds, exact verdicts, no deadlock, every block ends |
| `script` | three families: any two instructions and then two more, of 82 opcodes; up to 3 signatures, then up to 6 keys, numbers and `OP_CHECKMULTISIG`; up to 4 and then 6 instructions that run into the limits | `TypeOK`; bounds of the stack (`NoUnderflow`); `LimitsHold`; `MultiSigIsOrderedMatch`; `EvaluationEnds` |
| `block_check` | both networks, 6 blocks in periods of 3, three times far apart in any order, 10 bodies; bytes of 8 values | targets (`OneTargetPerPeriod`, `RetargetFollowsTheRule`), verdicts (`DosIsFinal`), encodings (`LengthsComeBack`, `RootFixesTheList`) |
| `wallet` | 3 payments, each ended at any write, amounts modulo 32, with and without a key listed twice | payments balance, the file is the balance, what a run that was cut can lead to |

The runs `tx_commit_failed_input`, `script_branches` and `restart_lost` are
expected to fail; see Findings.

The bounds are chosen to let each hazard happen. Three heights over a window
of two records give a pruned record and an undo at the edge of the window; one
outpoint of each kind in each of the sets of a change event, in every order,
with a crash at every point, are all the cases the proofs distinguish. Four
transactions are enough for a chain of spends, a double spend and a failed
input between them. In `chain` there are two branches that overtake each
other, a block that spends outputs of its own, an invalid block in the middle
of the longest branch with blocks above it (so that `DeleteBranch` leaves
descendants behind, a nested move follows), a forged script, a fork below
the oldest unwind record, a block that finds an output an undo left behind with
two more on top of it, and one that repeats the coinbase of its parent. `NoSyncDistance` stands for the 100 of
`ParseTillBlock`. In `restart` the eighth stored block is one that comes a
second time, a power failure can come between the syncs of the three files or
after a reorganisation, which syncs only the unspent database, and the panics of
one start lead into the next. In
`block_check` a period of three blocks should take 8 units, so a span of 3, of
36 and a negative one hit both bounds and the wrap; six blocks have two
retargets, one measured from the root. Three payments are enough for one to be
cut, the next to load what it left, and a third to run into it. Three
goroutines for four jobs make the caller wait. In `script` a word has 8 values
for 2^32, an element 8 bytes for 520, a script 4 counted opcodes for 201, the
stacks 8 elements for 1000 and a multisignature 3 keys for 20: small enough to
pass each limit within a family, with negative numbers that come back as large
ones. The families have a number where a key should be, a key where a number
should be and a signature that is a key as well, and signatures that are
right, in the wrong order, or over other code. CHECK_DEADLOCK is off in
`tx_commit` (one step), `chain` and `chain_live` (the blocks run out or the
process has panicked), `script` (the evaluation is over), `wallet` (nothing
left to pay with) and `restart` (the stored blocks run out).

Fairness. `chain_live` assumes weak fairness of the steps of a running call:
`AcceptBlock` is sequential code that waits for nothing. The arrival of blocks
is not fair. `script_pool` assumes weak fairness of the caller and of each
goroutine, which is what Go's scheduler gives, and that scripts terminate (the
interpreter has no jumps, and `script` checks that it ends); the arrival of
blocks is not fair. `script` assumes weak fairness of the next step: the loop
of `evalScript` waits for nothing.

Every property has a mutant in `PROJECT.json`: a definition marked "wrong on
purpose" that, put in the place of the real one, makes TLC report the property.

## Findings

Each is a run that is expected to fail, on a property that states what the
source says.

* `tx_commit_failed_input`: `commitTxs` leaves the loop on a failed input and
  returns nil (`chain_accept.go:254`, 264). The block is accepted.
* `restart_lost`: `AddBlock` sets `BLOCK_INVALID` in the record of a trusted
  block (`blockdb.go:108-110`), which is every block that extended the tip.
  `InitBlockIdxMap` skips such records, so the block that the newest unwind
  record names is not in the index after a start, which panics with "Last
  Block Hash not found" (`chain_load.go:60`), or with "has no Parent" before.
* `script_branches`: the statements of the branch that is not taken are
  executed (`script.go:49`, `stack.go:27`): `fExec` looks for empty strings on
  `vfExec`, and `pushBool` never writes one.

Others can be read off the passing properties. `UndoneToTheEnd`: undo needs
the record of the parent, so block 1 can never be undone, and a chain of up to
three blocks panics when it is opened. `PanicsHaveCauses`: `DeleteBranch`
leaves descendants of an invalid block in the index (`chain_node.go:157-174`),
and a move to a block on top of them ends in "Unknown path to block".
`StartPanicsHaveCauses`: so does a start whose farthest node leaves the branch
of the tip below the three blocks that are undone. `FlagsTellTheTruth` holds
only with the premise it has: once an invalid record was skipped, `tPos` is
short of the end of the index (`blockdb.go:239`, 266), flags go into the
records of other blocks and new records are written over old ones; and after a
reorganisation the unspent database is synced, the block database is not
(`chain_node.go:66-73`), so a power failure can take flags or blocks the other
database counts on. `GetBlockGivesTheBlock` and `StartsAtTheHighest` leave out
blocks that are `orphaned`: `Sync` brings the index file to the disk before
the block file (`blockdb.go:195-196`), and nothing orders what the system writes
by itself, so after a power failure a record can be there without its block.
`GetBlock` drops the error of `Read` (`blockdb.go:216`) and returns zeros, or the
bytes of a block that was appended at that position later; zeros are a block
without transactions, which is applied. `LedgerIsReplay`, `ActiveChainValid` and
`TipIsBest` end with `astray`: a block that spends an output an undo left behind
(`unwind.go:76-80`) passes and is trusted (`chain_node.go:65`). When another
branch that creates that output is applied and undone, the output is gone; the
chain comes back to the trusted block, which now fails, and the program ends in
"if block is trusted, how can be invalid" (`blockdb.go:146`). `DosIsFinal`: a
block from too far in the future is called a fake, though it will pass later,
and so is the right first block of the second period, before the genesis block
was seen.
`SpentTwiceOnlyIfStillListed`: a wallet that is stopped after it wrote the
signed transaction, or cannot rewrite its list, spends the same outputs again.
`UndoableUpToOwnOutputs`: undoing a block that spends its own output puts that
output into the ledger (`unwind.go:76-80`), and undoing one with a transaction
that was mined before takes its outputs away, hence the exception.
`AgreesWithTheRule` and `NoValueFromNothing`: a transaction whose outputs add
up to 2^64 and a little more pays out more than it takes.
`NoUnderflow`: when the loop of `OP_CHECKMULTISIG` has run out of keys
(`script.go:605`) it reads on below them, where strings that parse as keys can
take it past the bottom of the stack; it has set `fSuccess` to false by then,
and the property says that this is the only place and the only time.
`MinedAtIsRight`: an output restored by an undo is mined at height 0.

## Proofs

`UnspentStoreProofs` proves for every set of outpoints and hashes, every
window, start-up loop and height, from `StoreAssumption` alone:
`StoreInvariant`, and from it `TypeCorrect`, `TipIsExact` (`UtxoMatchesTip`),
`RecordsAreInverse` (`RecordsUndoBlocks`), `WindowUnbroken` (`UnwindWindow`),
`KeptRecordsUsable` (`UndoneToTheEnd`) and `LastBlockKnown`, that last height
and hash are those of the newest record, which no run checks again.
`RecordsUndoBlocks` is not inductive by itself: that the record repairs a half
applied block depends on what the running call has still to do. `StoreInv`
adds `CallInProgress`: the puts and deletes left belong to the record of the
tip; during an undo, what is no longer in them is done; between two calls the
database is that of the tip; added and deleted outputs of a record are
disjoint up to irregular ones. `UnwindWindow` gives the record of the tip that
`UndoEnd` and the restart need. There is one lemma per action. The panic for
want of a parent is a second, small invariant (`PanicInv`) on top.

`ScriptPoolProofs` proves for every number of goroutines, transactions and
inputs: `PoolInvariant`, and from it `PoolTypeCorrect`, `RoomForEveryAnswer`,
`NothingLeftOver`, `EveryHashReady` and `VerdictIsExact`. The invariant is a
conservation law: tokens in the channel plus goroutines at work are the tokens
out (`TokensConserved`). `HashProgress` relates the hashes that are set to the
goroutines at work, and `VerdictKept` says that a wrong script has been noticed
or its false is still in the channel; when the channel is drained only the
former is left.

`ScriptProofs` proves for every word size, every limit and all scripts of any
length: `ScriptInvariant`, and from it `ScriptTypeCorrect`, `NeverUnderflows`
(`NoUnderflow`) and `LimitsAlwaysHold` (`LimitsHold`). Neither of the last two
is inductive: what `MultiSigTry` reads depends on what `MultiSigBegin` found,
so `MultiInv` ties the two positions and the two counts of the loop to the
numbers on the stack (`isig` plus the signatures left is the element below
them; `ikey` plus the keys left is the number of signatures; while `fSuccess`
holds there is a key for each signature). `StackOpKeeps` is the lemma about
all the opcodes of `ScriptOps`: each takes no more than it asked for, and what
it leaves is a good stack. The strings on the stacks have no set to be typed
by, hashes being strings made of strings; `Good` asks for some set instead.
`MultiSigMatchesInOrder` (`MultiSigIsOrderedMatch`) follows the loop with
`MatchInv`: as long as `fSuccess` holds, what is matched is an ordered match of
the first signatures with keys among those tried; and whatever match of all the
signatures there is, it has the next signature at a key still to be tried
(`TurnMatches`), so that there are keys enough (`Spreads`) and `fSuccess` holds.

`RestartProofs` proves for every tree of blocks, any number of failures and
any start-up loop: `RestartInvariant`, and from it `PositionsAreRight`
(`GetBlockGivesTheBlock`): the position in the map leads to the block even
after records were misplaced, unless a power failure took that block and
left its record. What is lost of each of the two files is any of `Surviving`, so
the invariant has to speak of three things: every record of `idxFile`, and every
one of `idxDisk`, which a power failure can bring back, of a block that is not
`orphaned` leads to its block; what is on the disk is a part of the files as
they are (`DiskIsPart`), the block file only growing; and the block appended
last is there while its record is not yet written. That the last record of a
block exists, which `RecordOf` chooses, rests on the well-foundedness of the
natural numbers. `StartsHighest` (`StartsAtTheHighest`) rests on
`RestartBranches`, whose `HighInv` says that the records in the unspent
database, and those of its last sync, are a branch, that of the tip; that the
tip's branch is in the tree, and no block without its parent but below a bad
one; and that the tip, or the block the chain is moving to, is a farthest one.
That it is still the highest block of its kind when it is reached follows from
what a deletion takes away, which `NextIs` puts right above the tip.
`StartPanicCauses` (`StartPanicsHaveCauses`) adds `WayOK`, how far below the
tip it began with a start has come, so that a branch which parts above that is
met, and `StoredOK`, that all the blocks of both databases have a record, and
so have their parents. `FlagsAreTrue` (`FlagsTellTheTruth`) joins two
invariants: `TrustInv`, that the flags in the records, which the next start
will believe, are true, and `FlagInv`, that a block found bad has no record
that would be loaded. The second is not inductive by itself. The proof goes
through the first record of the file: it is always one of a block that was
stored on the tip, and such a record is flagged and not loaded. So after any
start that goes on, the cursor is short of the end of the file and every
place in the map is that of another block's record (`Stale`): the next
record or flag would be misplaced, and the property says nothing from then on.
Before that the map leads to the records (`Fresh`), and a flag goes where it
belongs. The proof says more about the code than the property: once the
program was started again on an index that is not empty, every record and
flag it writes goes into the wrong place.
`RestartAssumption` says of the tree only that no set of blocks has all its
parents in itself: a block names its parent by its hash.

`UnspentStoreProofs` also proves that `UnspentStore` implements `LedgerStack`
(`StoreImplementsLedger`, the property `AtomicBlocks`): `CommitBegin` is the
step that pushes a ledger and `UndoBegin` the one that pops it, since what
`LedgerNow` looks at is the ledger as the records would restore it; every
other step, the puts and deletes, a crash, a start, is a stutter, because
`StoreInv` keeps what is left to do within the record. `MinedAtNeverWrong`
(`MinedAtIsRight`) adds `MinedInv`: an output is mined at the height its block
created it, or at the tip while the tip is being committed or taken back, and
then it is one the record lists as added.

`ChainProofs` proves for every tree of blocks with any transactions in them,
for every window and every number of deletions: `ChainInvariant`, and from it
`RecordsFollowTip` (`UnwindFollowsTip`), `SyncModeComesBack`
(`SyncModeRestored`) and `PanicsAreCaused` (`PanicsHaveCauses`). `Good` holds
as long as the process runs. `TreeOK` makes the parent pointers a tree.
`IndexOK` ties `BlockIndex` and the block database to it. `LooseOK` is about
the nodes that `DeleteBranch` leaves behind: they hang below the root, below a
node that is no child itself, or below a trusted block, and trusted blocks
(`ActiveTrusted`) are never deleted, so nothing of the active chain is lost.
`LedgerOK` says that the records are those of the newest blocks without a gap,
which is what an undo needs; `CallOK` that a move is on the way to its end,
unless the end hangs loose, which is the only cause of `PathPanics`; `SyncOK`
that the outermost call saved what the client asked for. The first half of the
module has what the recursive definitions of paths and of the farthest node
return, proved by taking a least height at which they would fail.
`CallsRunDown` (`CallsComeNearer`, stated in this module) is as much of `EveryCallEnds` as can be
proved: a step of a running call takes a block out of `BlockIndex`, which a call
adds none to, or leads to a later stage with the same tree, or moves the tip
down to the fork or up towards `dst`; so no call takes infinitely many steps,
and that it takes one while it runs is left to the run `chain_live`.

The second half is about the outputs. Nothing is assumed of the blocks: they may
be invalid in any way, spend what they create, bring transactions again, and
spend what an undo left behind. Proved are `LedgerReplays` (`LedgerIsReplay`),
`OnlyValidBlocks` (`ActiveChainValid`, with the panic "if block is trusted, how
can be invalid") and `TipStaysBest` (`TipIsBest`, that `Chain` implements
`BestChain`), each up to the step in which the ledger goes astray. That premise
is on what has happened, not on what may come: a tree with such blocks in it
keeps all three as long as none of them was processed on a ledger it spends a
leftover of. That an output is left behind is not enough to end them, only that
a block finds it. A transaction that comes again would need the same inputs to
be unspent again, or be a coinbase, of which nothing in the code makes two
differ.

`LedgerAfter` is the ledger of a branch, a function of its last block;
`Exact` says that the ledger of the program is that of the branch of the tip
but for outputs left behind, and if the block finds none of these (`NoneFound`)
commitTxs gives one answer for both (`SameAnswer`), which is proved by running
it on both in step (`InStep`). A
trusted block gets the answer of the full check as long as no script fails
there (`TrustAgrees`), and trusted blocks are `Sound`, valid and bringing nothing
again (`TrustValid`). The
records are those of the changes (`RecordsExact`), so an undo gives back the
ledger of the parent up to what it leaves. A node that hangs loose was found
invalid (`LooseInvalid`), so the active chain, all valid, is attached. For
`BestChain`, `BestInv` speaks of the tip as it was when the call began (`OldTip`,
trusted up to the root, so that its branch is still there when the call ends)
and of where the call goes (`Moving`): to the block that arrived, higher than
everything else, or, once that one is gone, to the farthest node. Steps in the
middle of a call are stutters; the step that returns is `Receive`.

`BlockCheckProofs` proves for periods of any length and branches of any
height: `TargetHoldsForPeriod` (`OneTargetPerPeriod`) and `VerdictIsFinal`
(`DosIsFinal`). For the first, `TargetInv` adds that the first two nodes have
the easiest target (`StartsEasy`), whatever `Timestamp` the root has, and that
times are natural numbers: on the testnet a block that is not late takes its
target from the newest node that has not the easiest one, which has to lie in
the same period or be the first of it. `VerdictIsFinal` compares the checks of
one block before and after a step: the target required of it depends on the
nodes before it alone (`RequiredStays`), of which only the root can change,
and only in its `Timestamp`.

The other three properties of `BlockCheck` are about numbers and trees, and
hold in each state because of what the operators of `Codec` return.
`RetargetsFollowTheRule` (`RetargetFollowsTheRule`) rests on
`CompactRoundsDown`: what `SetCompact` makes of `GetCompact(n)` is the largest
number up to n that some compact form stands for, a mantissa with its sign bit
set, which moves down by a byte, included (`AnyWord` gives the value of any word
of any size). `ComputedByRule` is what is left of the retarget: the difference of
two times in 32 bits, brought between a quarter and four times the period, is
the span of the rule also when it wraps around (`Wraps`). `LengthsAreRead`
(`LengthsComeBack`) goes digit by digit (`NumberOfLittle`): a sum of the k lowest
digits is the number modulo `Power[k]`. `RootTellsTheList` (`RootFixesTheList`)
goes down from the roots level by level. Above a level that repeats no node is
one that repeats none either, and it tells the level below: a node hashed with
itself is the last of an odd number (`LevelAboveFixes`). So the trees are the
same (`MerkelFixes`) until the leaves of one are reached, which are leaves of
the other as well, for they are no pairs.

`WalletProofs` proves for any number of payments and of failed runs, any
amounts and keys: `WalletInvariant`, and from it `NothingIsSignedTwice`
(`SpentTwiceOnlyIfStillListed`), `StuckAfterLines` (`StuckOnlyAfterLines`),
`FileListsTheUnspent` (`FileIsUnspent`) and `SignedPaysWhatItTakes`
(`SignedIsBalanced`). `Kept` is the list the file would have at the end of the
run; the invariant speaks of it in place of the file, which is empty or half
written in between. `Ordered` says that a transaction spends outputs of older
ones, `Loadable` which lines may be without their file, `NotYetSigned` that a
run cut before its signature left none. As long as no key is listed twice
(`DistinctKeys`), `SpentOnce` keeps apart what is spent and what is listed,
`Complete` says that nothing of the wallet is missing from the list while all
runs end well, and `Conserved` that the list is worth no more than the wallet
was given, so that the sums of the code do not wrap. The loops of the code,
over the lines of the file and over what is still to be paid, are recursive
functions; what they return is proved by induction on their length. The
assumption `MoneyAssumption`, that what the wallet was given first is less
than 2^64, is that of a currency with fewer than 2^51 units; nothing is assumed
of the amounts asked for.

`TxLedgerProofs` proves the three properties of `TxLedgerRules` for any
transactions, any finite ledger of their outputs, blocks of any length, any
height and any word: `CommitTxsAgreesWithTheRule`, `CommitTxsMakesNoValue` and
`CommitTxsIsUndoable`. The system takes one step, so all the work is in what
the loops of `commitTxs` keep. `SetsOK` is about the three places an output can
be in: nobody has what is still in the pool, what a finished transaction created
is in `added` or was taken before, and what was taken without being in the
ledger or in `added` (`Owed`) belongs to transactions whose turn has not come.
`MoneyOK` balances the books: what is left (`Live`), `sumblockin` and the inputs
of the running transaction are worth no more than the reward, the old ledger,
what the block created so far, and what it owes; so with `NoWrap` no sum of the
loop wraps around. `Judges` says that nothing failed so far exactly if the
transactions so far are valid, and that then deleted, added and the sums are
those of the rule (`Follows`). The module begins with lemmas that the others
rest on: that a loop written as a recursive function computes something
(`LoopExists`), induction over its turns (`Induct`), and over the size of a
finite set (`BySize`), that the fold of the library adds up a set in any order
(`SumTakes`).

`ChainAssumption` says, like that of `Restart`, that a block names its parent by
its hash: no set of blocks has all its parents in itself. Else in it, and in
`StoreAssumption`, `BlockCheckAssumption`, `WalletAssumption` and the others, the constants are typed and not restricted
otherwise: a window and a period are not zero, the bounds on counters are
numbers. `LedgerAssumption` says that a ledger holds finitely many outputs,
all of known transactions, and that a block has at least one transaction.

`ListsAssumption` says that lists of transactions are sequences, that the only
empty ones are those of blocks, and that a block has less than 2^31 of them (it
has at most `MAX_BLOCK_SIZE` bytes). `TimesAssumption` says that times end eight
weeks before those of 32 bits do: after that, in 2106, a period that goes back
in time may wrap around to a span that looks right.

Every safety invariant and action property that a passing run checks is the
property of a theorem. Only model-checked is liveness (`BlockEnds`,
`EveryCallEnds`, `EvaluationEnds`), which is out of the reach of the proof system
used; of the second `CallsRunDown` proves the part that is about single steps. The induction theorems of its library cannot be used either; where a
proof has to reach into a recursive function, it takes a least counterexample
(`LeastNat`, `LeastOf`).

## Not modelled

* Power failures that keep some of the later Puts and Dels of the unspent
  database and lose earlier ones, which its mode without sync (`NoSync`) allows:
  in `Restart` that database goes back as a whole to its last `Sync`. The two
  files of the block database do lose their writes apart.
* An index record torn by a crash between its eight writes; keys shared by two
  outputs or blocks (8 and 6 bytes of a hash); defragmentation; statistics.
* In `Restart`, a block found bad that is sent again while others hang below
  it (in `Chain` it may be): its branch would be attached by the next start
  and not before.
* Serialization of transactions, what a signature signs (`SignatureHash`: in
  `Script` a signature is good for one key and the code of one script from one
  position on), base58, keys, the curve: functions on bytes without state. A
  block that reaches `Chain` has passed `CheckBlock`; there a script is right
  or wrong (`BadScript`), and `Script` is not composed with it.
* `CheckProofOfWork` and `GetDifficulty`: nothing calls the first, the second
  is floating point for display. `CheckBlock` itself has no caller in the
  repository; `BlockCheck` calls it as its comments ask for.
* Of the wallet: keys, signatures, the command line.
* The client. The package does not compile: `onePeer` has none of the fields
  `net.go` uses, handlers it calls do not exist, and there is no main loop, so
  which goroutines run and in what order they use the counters of `bwlimit.go`
  cannot be read from it.

## Plan

1. Torn index records: the eight writes of one record as steps, where a start
   reads what the one before left in them.
2. The mode without sync of the unspent database as reordered writes.
