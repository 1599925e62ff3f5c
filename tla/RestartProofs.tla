--------------------------- MODULE RestartProofs ----------------------------
(***************************************************************************)
(* Proofs about Restart, for every tree of blocks, every length of the     *)
(* start-up loop and any number of failures.                               *)
(***************************************************************************)
EXTENDS Restart, SequenceTheorems, FiniteSetTheorems, WellFoundedInduction,
        TLAPS

(* Among finitely many positions there is a last one. *)
LEMMA LastPosition ==
  ASSUME NEW n \in Nat, NEW T, T \subseteq 1..n, T # {}
  PROVE  \E x \in T : \A y \in T : y <= x
<1> DEFINE U == {k \in Nat : n - k \in T}
<1>1. U # {} /\ U \subseteq Nat
  <2>1. PICK x \in T : TRUE
    OBVIOUS
  <2>2. n - x \in Nat /\ n - (n - x) = x
    OBVIOUS
  <2> QED  BY <2>1, <2>2
<1>2. PICK k \in U : \A m \in U : ~ (<<m, k>> \in OpToRel(<, Nat))
  BY <1>1, NatLessThanWellFounded, WFMin, Zenon
<1>3. \A m \in U : ~ (m < k)
  BY <1>1, <1>2 DEF OpToRel
<1>4. \A y \in T : y <= n - k
  <2> TAKE y \in T
  <2>1. n - y \in U
    OBVIOUS
  <2> QED  BY <1>3, <2>1
<1> QED  BY <1>4
-----------------------------------------------------------------------------
(* The inductive invariant                                                 *)

Flags == {"BLOCK_TRUSTED", "BLOCK_INVALID"}

IndexRecord == [flags : SUBSET Flags, hash : Block, pos : Nat]

(* Each record of an index file has the position of its block, unless a    *)
(* power failure took the block, ...                                       *)
Describes(idx, data) ==
  /\ data \in Seq(Block)
  /\ idx \in Seq(IndexRecord)
  /\ \A i \in 1..Len(idx) : idx[i].hash \notin orphaned =>
                              /\ idx[i].pos \in 1..Len(data)
                              /\ data[idx[i].pos] = idx[i].hash

(* ... and so has the map in memory. *)
MapDescribes(data) ==
  \A b \in DOMAIN blockIdxMap \ orphaned :
    /\ "fPos" \in DOMAIN blockIdxMap[b]
    /\ blockIdxMap[b].fPos \in 1..Len(data)
    /\ data[blockIdxMap[b].fPos] = b

(* The block whose record is written next was appended last. *)
CurAppended ==
  pc = "record" => /\ cur \in Block
                   /\ Len(dataFile) > 0 /\ dataFile[Len(dataFile)] = cur

(* The block file is only ever appended to. *)
DiskIsPart ==
  /\ dataDisk \in Seq(Block) /\ Len(dataDisk) <= Len(dataFile)
  /\ \A i \in 1..Len(dataDisk) : dataDisk[i] = dataFile[i]

(* The records on the disk are kept in it, too: a power failure may bring  *)
(* them back, apart from the blocks.                                       *)
PosInv ==
  /\ Describes(idxFile, dataFile)
  /\ Describes(idxDisk, dataFile)
  /\ DiskIsPart
  /\ MapDescribes(dataFile)
  /\ CurAppended
  /\ orphaned # {} => lost
-----------------------------------------------------------------------------
(* What the operations of the block database do to it                      *)

(* Before the first block there is nothing to describe. *)
LEMMA InitHolds == Init => PosInv
<1>0. 0 <= 0
  OBVIOUS
<1>1. \A i \in 1..0 : FALSE
  OBVIOUS
<1>2. Describes(<<>>, <<>>)
  <2>1. <<>> \in Seq(Block) /\ <<>> \in Seq(IndexRecord) /\ Len(<<>>) = 0
    BY EmptySeq
  <2> QED  BY <1>1, <2>1, Zenon DEF Describes
<1> SUFFICES ASSUME Init PROVE PosInv
  OBVIOUS
<1> USE DEF Init, BlocksInit, NoMap, files
<1>3. /\ idxFile = <<>> /\ dataFile = <<>> /\ dataDisk = <<>> /\ idxDisk = <<>>
      /\ orphaned = {}
  OBVIOUS
<1>4. MapDescribes(dataFile) /\ CurAppended
  BY DEF MapDescribes, CurAppended
<1>5. DiskIsPart
  <2>1. <<>> \in Seq(Block) /\ Len(<<>>) = 0
    BY EmptySeq
  <2> QED  BY <1>0, <1>1, <1>3, <2>1, Zenon DEF DiskIsPart
<1> QED  BY <1>2, <1>3, <1>4, <1>5, Zenon DEF PosInv

(* A longer block file changes nothing for what is there. *)
LEMMA DescribesLonger ==
  ASSUME NEW idx, NEW data, Describes(idx, data), NEW b \in Block
  PROVE  Describes(idx, Append(data, b))
<1>1. /\ Append(data, b) \in Seq(Block) /\ Len(data) \in Nat
      /\ Len(Append(data, b)) = Len(data) + 1
      /\ \A i \in 1..Len(data) : Append(data, b)[i] = data[i]
  BY AppendProperties, LenProperties DEF Describes
<1> QED  BY <1>1 DEF Describes

(* A function on 1..n is a sequence of length n. *)
LEMMA SeqOfLen ==
  ASSUME NEW S, NEW n \in Nat, NEW f \in [1..n -> S]
  PROVE  f \in Seq(S) /\ Len(f) = n
OBVIOUS

(* AddBlock first appends the block to the block file. *)
LEMMA AddBlockKeeps ==
  ASSUME PosInv, NEW b \in Block, AddBlock(b)
  PROVE  PosInv'
<1> USE DEF PosInv, AddBlock, AppendBlock, GoOn, mapVars
<1>1. /\ Append(dataFile, b) \in Seq(Block) /\ Len(dataFile) \in Nat
      /\ Len(Append(dataFile, b)) = Len(dataFile) + 1
      /\ \A i \in 1..Len(dataFile) : Append(dataFile, b)[i] = dataFile[i]
      /\ Append(dataFile, b)[Len(dataFile) + 1] = b
  BY AppendProperties, LenProperties DEF Describes
<1>2. Describes(idxFile, dataFile)' /\ Describes(idxDisk, dataFile)'
  <2>1. /\ Describes(idxFile, Append(dataFile, b)) /\ Describes(idxDisk, Append(dataFile, b))
    BY DescribesLonger
  <2>2. /\ dataFile' = Append(dataFile, b)
        /\ UNCHANGED <<idxFile, idxDisk, dataDisk, orphaned, lost>>
    BY DEF disk, blockHist
  <2> QED  BY <2>1, <2>2 DEF Describes
<1>3. MapDescribes(dataFile)'
  BY <1>1 DEF MapDescribes, blockHist
<1>4. CurAppended'
  BY <1>1 DEF CurAppended
<1>5. DiskIsPart'
  BY <1>1, LenProperties DEF DiskIsPart, disk
<1>6. (orphaned # {} => lost)'
  BY DEF blockHist
<1> QED  BY <1>2, <1>3, <1>4, <1>5, <1>6

(* The new record is appended, or written over another one. *)
LEMMA AddRecordKeeps ==
  ASSUME PosInv, AddRecord
  PROVE  PosInv'
<1> DEFINE isTrusted == ParentOf[cur] = tip
           rec == [flags |-> NewFlags(isTrusted), hash |-> cur, pos |-> BlockPos]
<1> USE DEF PosInv, AddRecord
<1>1. /\ cur \in Block /\ Len(dataFile) \in Nat
      /\ Len(dataFile) \in 1..Len(dataFile) /\ dataFile[Len(dataFile)] = cur
  BY LenProperties DEF CurAppended, Describes
<1>2. rec \in IndexRecord /\ rec.pos = Len(dataFile) /\ rec.hash = cur
  <2>1. NewFlags(isTrusted) \in SUBSET Flags
    BY DEF NewFlags, Flags
  <2> QED  BY <1>1, <2>1 DEF IndexRecord, BlockPos
<1>3. idxFile' = IF cursor > Len(idxFile) THEN Append(idxFile, rec)
                                          ELSE [idxFile EXCEPT ![cursor] = rec]
  BY DEF WriteRecord
<1>4. /\ UNCHANGED <<dataFile, dataDisk, idxDisk, orphaned, lost>> /\ pc' # "record"
  BY DEF WriteRecord, GoOn, disk
<1> HIDE DEF rec
<1>5. Describes(idxFile, dataFile)'
  <2>1. CASE cursor > Len(idxFile)
    <3>1. /\ Append(idxFile, rec) \in Seq(IndexRecord) /\ Len(idxFile) \in Nat
          /\ Len(Append(idxFile, rec)) = Len(idxFile) + 1
          /\ \A i \in 1..Len(idxFile) : Append(idxFile, rec)[i] = idxFile[i]
          /\ Append(idxFile, rec)[Len(idxFile) + 1] = rec
      BY <1>2, AppendProperties, LenProperties DEF Describes
    <3> QED  BY <1>1, <1>2, <1>3, <1>4, <2>1, <3>1 DEF Describes
  <2>2. CASE ~ (cursor > Len(idxFile))
    <3>1. /\ idxFile' \in Seq(IndexRecord) /\ Len(idxFile') = Len(idxFile)
          /\ \A i \in 1..Len(idxFile) : idxFile'[i] = idxFile[i] \/ idxFile'[i] = rec
      <4>1. idxFile \in [1..Len(idxFile) -> IndexRecord] /\ Len(idxFile) \in Nat
        BY LenProperties DEF Describes
      <4>2. idxFile' = [idxFile EXCEPT ![cursor] = rec]
        BY <1>3, <2>2
      <4>3. /\ idxFile' \in [1..Len(idxFile) -> IndexRecord]
            /\ \A i \in 1..Len(idxFile) : idxFile'[i] = idxFile[i] \/ idxFile'[i] = rec
        BY <1>2, <4>1, <4>2
      <4> QED  BY <4>1, <4>3, SeqOfLen
    <3> QED  BY <1>1, <1>2, <1>4, <3>1 DEF Describes
  <2> QED  BY <2>1, <2>2
<1>6. MapDescribes(dataFile)'
  BY <1>1, <1>4 DEF MapDescribes, WriteRecord, BlockPos
<1>7. Describes(idxDisk, dataFile)' /\ DiskIsPart'
  BY <1>4 DEF Describes, DiskIsPart
<1> QED  BY <1>4, <1>5, <1>6, <1>7 DEF CurAppended

(* A flag changes neither the hash nor the position of its record. *)
LEMMA FlagKeeps ==
  ASSUME Describes(idxFile, dataFile), NEW iPos, NEW flag \in Flags,
         idxFile' = [idxFile EXCEPT ![iPos].flags = @ \cup {flag}],
         dataFile' = dataFile, orphaned' = orphaned
  PROVE  Describes(idxFile, dataFile)'
<1>1. idxFile \in [1..Len(idxFile) -> IndexRecord] /\ Len(idxFile) \in Nat
  BY LenProperties DEF Describes
<1>2. \A i \in 1..Len(idxFile) :
        /\ idxFile'[i] \in IndexRecord
        /\ idxFile'[i].pos = idxFile[i].pos /\ idxFile'[i].hash = idxFile[i].hash
  BY <1>1 DEF IndexRecord
<1>3. idxFile' \in [1..Len(idxFile) -> IndexRecord]
  BY <1>1, <1>2
<1>4. idxFile' \in Seq(IndexRecord) /\ Len(idxFile') = Len(idxFile)
  BY <1>1, <1>3, SeqOfLen
<1> QED  BY <1>2, <1>4 DEF Describes

(* TrustBlock sets a flag in the file and in the map. *)
LEMMA TrustKeeps ==
  ASSUME PosInv, NEW b, TrustBlock(b), pc' # "record", UNCHANGED lost
  PROVE  PosInv'
<1> USE DEF PosInv, TrustBlock
<1>0. UNCHANGED <<dataFile, dataDisk, idxDisk, orphaned, lost>>
  BY DEF disk
<1>1. Describes(idxFile, dataFile)'
  <2>1. CASE blockIdxMap[b].trusted
    BY <1>0, <2>1 DEF Describes
  <2>2. CASE ~ blockIdxMap[b].trusted
    <3>1. SetBlockFlag(b, "BLOCK_TRUSTED") /\ "BLOCK_TRUSTED" \in Flags
      BY <2>2 DEF Flags
    <3> QED  BY <1>0, <3>1, FlagKeeps DEF SetBlockFlag
  <2> QED  BY <2>1, <2>2
<1>2. MapDescribes(dataFile)'
  BY <1>0 DEF MapDescribes
<1>3. Describes(idxDisk, dataFile)' /\ DiskIsPart'
  BY <1>0 DEF Describes, DiskIsPart
<1> QED  BY <1>0, <1>1, <1>2, <1>3 DEF CurAppended

(* InvalidBlock sets a flag and takes the block out of the map. *)
LEMMA InvalidKeeps ==
  ASSUME PosInv, NEW b, InvalidBlock(b), pc' # "record", UNCHANGED lost
  PROVE  PosInv'
<1> USE DEF PosInv, InvalidBlock
<1>0. UNCHANGED <<dataFile, dataDisk, idxDisk, orphaned, lost>>
  BY DEF disk
<1>1. Describes(idxFile, dataFile)'
  <2>1. SetBlockFlag(b, "BLOCK_INVALID") /\ "BLOCK_INVALID" \in Flags
    BY DEF Flags
  <2> QED  BY <1>0, <2>1, FlagKeeps DEF SetBlockFlag
<1>2. MapDescribes(dataFile)'
  BY <1>0 DEF MapDescribes
<1>3. Describes(idxDisk, dataFile)' /\ DiskIsPart'
  BY <1>0 DEF Describes, DiskIsPart
<1> QED  BY <1>0, <1>1, <1>2, <1>3 DEF CurAppended

(* The record of a block that is loaded is one of its records. *)
LEMMA RecordOfIsLoadable ==
  ASSUME Describes(idxFile, dataFile), NEW b \in Loaded
  PROVE  /\ RecordOf(b) \in 1..Len(idxFile) /\ RecordOf(b) \in Loadable
         /\ idxFile[RecordOf(b)].hash = b
<1> DEFINE T == {i \in Loadable : idxFile[i].hash = b}
<1>1. Len(idxFile) \in Nat /\ T \subseteq 1..Len(idxFile) /\ T # {}
  BY LenProperties DEF Describes, Loaded, Loadable
<1>2. PICK i \in T : \A j \in T : j <= i
  BY <1>1, LastPosition
<1>3. /\ i \in Loadable /\ idxFile[i].hash = b
      /\ \A j \in Loadable : idxFile[j].hash = b => j <= i
  BY <1>2
<1>4. RecordOf(b) \in Loadable /\ idxFile[RecordOf(b)].hash = b
  BY <1>3 DEF RecordOf
<1> QED  BY <1>4, LenProperties DEF Loadable, Describes

(* InitBlockIdxMap makes the map from the records. *)
LEMMA LoadKeeps ==
  ASSUME PosInv, LoadIndex, pc' # "record", UNCHANGED lost
  PROVE  PosInv'
<1> USE DEF PosInv, LoadIndex
<1>0. UNCHANGED <<dataFile, idxFile, dataDisk, idxDisk, orphaned, lost>>
  BY DEF files, disk, blockHist
<1>1. MapDescribes(dataFile)'
  BY <1>0, RecordOfIsLoadable DEF MapDescribes, Describes
<1>2. Describes(idxFile, dataFile)' /\ Describes(idxDisk, dataFile)' /\ DiskIsPart'
  BY <1>0 DEF Describes, DiskIsPart
<1> QED  BY <1>0, <1>1, <1>2 DEF CurAppended

(* What a power failure leaves of a file: as long as the disk at least,    *)
(* and each entry the one written last or the one on the disk.             *)
LEMMA SurvivingIs ==
  ASSUME NEW S, NEW old \in Seq(S), NEW new \in Seq(S), NEW s \in Surviving(old, new)
  PROVE  /\ s \in Seq(S) /\ Len(s) \in Len(old)..Len(new)
         /\ \A i \in 1..Len(s) : \/ i \in 1..Len(new) /\ s[i] = new[i]
                                 \/ i \in 1..Len(old) /\ s[i] = old[i]
<1>1. /\ Len(old) \in Nat /\ Len(new) \in Nat /\ DOMAIN old = 1..Len(old)
      /\ \A i \in 1..Len(old) : old[i] \in S
      /\ \A i \in 1..Len(new) : new[i] \in S
  BY LenProperties
<1>2. PICK n \in Len(old)..Len(new), O \in SUBSET {i \in DOMAIN old : old[i] # new[i]} :
        s = [i \in 1..n |-> IF i \in O THEN old[i] ELSE new[i]]
  BY DEF Surviving
<1>3. \A i \in 1..n : i \in 1..Len(new) /\ (i \in O => i \in 1..Len(old))
  BY <1>1
<1>4. s \in [1..n -> S] /\ n \in Nat
  BY <1>1, <1>2, <1>3
<1>5. s \in Seq(S) /\ Len(s) = n
  BY <1>4, SeqOfLen
<1>6. ASSUME NEW i \in 1..n
      PROVE  \/ i \in 1..Len(new) /\ s[i] = new[i]
             \/ i \in 1..Len(old) /\ s[i] = old[i]
  <2>1. s[i] = IF i \in O THEN old[i] ELSE new[i]
    BY <1>2
  <2> QED  BY <1>3, <2>1
<1>7. n \in Len(old)..Len(new)
  OBVIOUS
<1>8. Len(s) \in Len(old)..Len(new)
  BY <1>5, <1>7
<1>9. \A i \in 1..Len(s) : \/ i \in 1..Len(new) /\ s[i] = new[i]
                           \/ i \in 1..Len(old) /\ s[i] = old[i]
  <2> HIDE <1>2
  <2> QED  BY <1>5, <1>6
<1> QED  BY <1>5, <1>8, <1>9

(* Whatever a power failure keeps of either file, a record has its block,  *)
(* or the block is one the failure took.                                   *)
LEMMA LoseKeeps ==
  ASSUME PosInv, LoseWrites, pc' # "record", DOMAIN blockIdxMap' = {},
         lost' = (lost \/ files' # files)
  PROVE  PosInv'
<1> USE DEF PosInv, LoseWrites
<1>1. /\ dataFile \in Seq(Block) /\ idxFile \in Seq(IndexRecord)
      /\ dataDisk \in Seq(Block) /\ idxDisk \in Seq(IndexRecord)
  BY DEF Describes, DiskIsPart
<1>2. /\ dataFile' \in Seq(Block) /\ Len(dataFile') \in Nat /\ DOMAIN dataFile' = 1..Len(dataFile')
      /\ \A i \in 1..Len(dataFile') : dataFile'[i] = dataFile[i]
  <2>1. /\ dataFile' \in Seq(Block)
        /\ \A i \in 1..Len(dataFile') : \/ dataFile'[i] = dataFile[i]
                                        \/ i \in 1..Len(dataDisk) /\ dataFile'[i] = dataDisk[i]
    BY <1>1, SurvivingIs
  <2>2. \A i \in 1..Len(dataDisk) : dataDisk[i] = dataFile[i]
    BY DEF DiskIsPart
  <2>3. Len(dataFile') \in Nat /\ DOMAIN dataFile' = 1..Len(dataFile')
    BY <2>1, LenProperties
  <2> QED  BY <2>1, <2>2, <2>3
<1>3. /\ idxFile' \in Seq(IndexRecord) /\ DOMAIN idxFile' = 1..Len(idxFile')
      /\ \A i \in 1..Len(idxFile') : \/ i \in 1..Len(idxFile) /\ idxFile'[i] = idxFile[i]
                                     \/ i \in 1..Len(idxDisk) /\ idxFile'[i] = idxDisk[i]
  BY <1>1, SurvivingIs, LenProperties
<1>4. ASSUME NEW i \in 1..Len(idxFile'), idxFile'[i].hash \notin orphaned
      PROVE  idxFile'[i].pos \in 1..Len(dataFile) /\ dataFile[idxFile'[i].pos] = idxFile'[i].hash
  BY <1>3, <1>4 DEF Describes
<1>5. /\ orphaned \subseteq orphaned'
      /\ \A i \in 1..Len(idxFile') : idxFile'[i].pos \notin 1..Len(dataFile') =>
                                       idxFile'[i].hash \in orphaned'
  BY <1>2, <1>3
<1>6. ASSUME NEW i \in 1..Len(idxFile'), idxFile'[i].hash \notin orphaned'
      PROVE  idxFile'[i].pos \in 1..Len(dataFile') /\ dataFile'[idxFile'[i].pos] = idxFile'[i].hash
  BY <1>2, <1>4, <1>5, <1>6
<1>7. /\ dataDisk' = dataFile' /\ idxDisk' = idxFile'
  OBVIOUS
<1>8. DiskIsPart'
  BY <1>2, <1>7 DEF DiskIsPart
<1>9. (orphaned # {} => lost)'
  <2>1. SUFFICES ASSUME orphaned' # {}, orphaned = {}, files' = files PROVE FALSE
    OBVIOUS
  <2>2. idxFile' = idxFile /\ dataFile' = dataFile
    BY <2>1 DEF files
  <2>3. PICK i \in 1..Len(idxFile') : idxFile'[i].pos \notin DOMAIN dataFile'
    BY <1>3, <2>1
  <2> QED  BY <1>2, <1>4, <2>1, <2>2, <2>3
<1>10. MapDescribes(dataFile)' /\ CurAppended'
  BY DEF MapDescribes, CurAppended
<1>11. Describes(idxFile, dataFile)' /\ Describes(idxDisk, dataFile)'
  BY <1>2, <1>3, <1>6, <1>7, Zenon DEF Describes
<1> QED  BY <1>8, <1>9, <1>10, <1>11

(* What does not touch the block database cannot disturb it. *)
LEMMA OthersKeep ==
  ASSUME PosInv, UNCHANGED <<files, dataDisk, idxDisk, orphaned, lost>>,
         UNCHANGED blockIdxMap \/ DOMAIN blockIdxMap' = {},
         pc' # "record" \/ UNCHANGED <<pc, cur>>
  PROVE  PosInv'
<1> USE DEF PosInv, files
<1>1. Describes(idxFile, dataFile)' /\ Describes(idxDisk, dataFile)' /\ DiskIsPart'
  BY DEF Describes, DiskIsPart
<1>2. MapDescribes(dataFile)' /\ CurAppended'
  BY DEF MapDescribes, CurAppended
<1> QED  BY <1>1, <1>2

(* The process or the power ends. *)
LEMMA FilesKeep ==
  ASSUME PosInv, Crash \/ PowerFailure
  PROVE  PosInv'
<1>1. pc' # "record" /\ DOMAIN blockIdxMap' = {}
  BY DEF Crash, PowerFailure, GoDown, NoMap
<1>2. CASE Crash
  <2>1. UNCHANGED <<files, dataDisk, idxDisk, orphaned, lost>>
    BY <1>2 DEF Crash, disk
  <2> QED  BY <1>1, <2>1, OthersKeep
<1>3. CASE PowerFailure
  <2>1. LoseWrites /\ lost' = (lost \/ files' # files)
    BY <1>3 DEF PowerFailure
  <2> QED  BY <1>1, <2>1, LoseKeeps
<1> QED  BY <1>2, <1>3

(* Sync copies what is there, of one file at a time. *)
LEMMA SyncKeeps ==
  ASSUME PosInv, SyncIndex \/ SyncData, pc' # "record", UNCHANGED lost
  PROVE  PosInv'
<1> USE DEF PosInv, files, mapVars, blockHist
<1>1. UNCHANGED <<dataFile, idxFile, blockIdxMap, orphaned>>
  BY DEF SyncIndex, SyncData
<1>2. \/ idxDisk' = idxFile /\ dataDisk' = dataDisk
      \/ idxDisk' = idxDisk /\ dataDisk' = dataFile
  BY DEF SyncIndex, SyncData
<1>3. Describes(idxFile, dataFile)' /\ Describes(idxDisk, dataFile)'
  BY <1>1, <1>2 DEF Describes
<1>4. DiskIsPart'
  BY <1>1, <1>2, LenProperties DEF DiskIsPart, Describes
<1>5. MapDescribes(dataFile)' /\ CurAppended'
  BY <1>1 DEF MapDescribes, CurAppended
<1> QED  BY <1>1, <1>3, <1>4, <1>5

(* What ParseTillBlock reads is the block it asked for, as long as a power *)
(* failure took none.                                                      *)
LEMMA ReadsIt ==
  ASSUME PosInv, NEW b \in DOMAIN blockIdxMap, b \notin orphaned
  PROVE  GetBlock(b) = b
BY LenProperties DEF PosInv, MapDescribes, Describes, GetBlock

(* A step that ParseTillBlock makes for the block it read. *)
LEMMA ParseKeeps ==
  ASSUME PosInv, ParseBlock
  PROVE  PosInv'
<1>1. /\ pc' \in {"parse", "down"} /\ UNCHANGED lost
      /\ TrustBlock(GetBlock(Nxt)) \/ UNCHANGED blockVars
  BY DEF ParseBlock, CommitBlockTxs, GoOn, Panic
<1>2. CASE TrustBlock(GetBlock(Nxt))
  BY <1>1, <1>2, TrustKeeps
<1>3. CASE UNCHANGED blockVars
  BY <1>1, <1>3, OthersKeep DEF blockVars, mapVars, disk, blockHist
<1> QED  BY <1>1, <1>2, <1>3

(* One case for each action of Restart. *)
LEMMA StepKeeps ==
  ASSUME PosInv, [Next]_vars
  PROVE  PosInv'
<1> USE DEF blockVars, disk, mapVars, blockHist
<1>1. CASE \E b \in Block : AddBlock(b)
  BY <1>1, AddBlockKeeps
<1>2. CASE AddRecord
  BY <1>2, AddRecordKeeps
<1>3. CASE CommitTip
  BY <1>3, OthersKeep DEF CommitTip, CommitBlockTxs, GoOn, Panic
<1>4. CASE Sync \/ SyncBlocks
  BY <1>4, SyncKeeps DEF Sync, SyncBlocks, GoOn
<1>5. CASE SyncUnspent \/ MoveUndo
  BY <1>5, OthersKeep DEF SyncUnspent, MoveUndo, UndoTip, GoOn, Panic
<1>6. CASE MoveParse
  BY <1>6, OthersKeep DEF MoveParse, GoOn
<1>7. CASE ParseBlock
  BY <1>7, ParseKeeps
<1>8. CASE DeleteBranch
  BY <1>8, InvalidKeeps DEF DeleteBranch, GoOn
<1>9. CASE Retarget
  BY <1>9, OthersKeep DEF Retarget, GoOn
<1>10. CASE ParseReturns
  BY <1>10, OthersKeep DEF ParseReturns, GoOn
<1>11. CASE ParsePanics
  BY <1>11, OthersKeep DEF ParsePanics, Panic
<1>12. CASE Crash \/ PowerFailure
  BY <1>12, FilesKeep
<1>13. CASE Start
  BY <1>13, LoadKeeps DEF Start
<1>14. CASE StartUndo
  BY <1>14, OthersKeep DEF StartUndo, UndoTip, GoOn, Panic
<1>15. CASE StartParse
  BY <1>15, OthersKeep DEF StartParse, GoOn
<1>16. CASE UNCHANGED vars
  BY <1>16, OthersKeep DEF vars, chainVars
<1> QED
  BY <1>1, <1>2, <1>3, <1>4, <1>5, <1>6, <1>7, <1>8, <1>9, <1>10, <1>11, <1>12,
     <1>13, <1>14, <1>15, <1>16 DEF Next
-----------------------------------------------------------------------------
(* The files and the map fit together at every step of every run of the    *)
(* program: PosInv.                                                        *)
THEOREM RestartInvariant == Spec => []PosInv
BY InitHolds, StepKeeps, PTL DEF Spec

(* GetBlock gives back the block that was asked for, through any number of *)
(* crashes, power failures and starts, records written over others and     *)
(* flags in the records of other blocks, unless a power failure took the   *)
(* block from one file and left a record of it in the other.               *)
THEOREM PositionsAreRight == Spec => []GetBlockGivesTheBlock
<1>1. PosInv => GetBlockGivesTheBlock
  BY ReadsIt DEF GetBlockGivesTheBlock
<1> QED  BY <1>1, RestartInvariant, PTL
-----------------------------------------------------------------------------
(* Trusted blocks                                                          *)

MapTrue == \A b \in DOMAIN blockIdxMap : blockIdxMap[b].trusted => b \in verified

RecordsTrue ==
  \A i \in 1..Len(idxFile) :
    "BLOCK_TRUSTED" \in idxFile[i].flags => idxFile[i].hash \in verified

(* The flags that a start will read are true as well as those in memory.   *)
TrustInv ==
  /\ misplaced \in BOOLEAN /\ lost \in BOOLEAN
  /\ ~misplaced /\ ~lost => MapTrue /\ RecordsTrue

(* At first nothing is trusted. *)
LEMMA TrustInit == Init => TrustInv
<1>1. \A i \in 1..0 : FALSE
  OBVIOUS
<1>2. Len(<<>>) = 0
  BY EmptySeq
<1> SUFFICES ASSUME Init PROVE TrustInv
  OBVIOUS
<1> USE DEF Init, BlocksInit, NoMap
<1>3. RecordsTrue
  BY <1>1, <1>2, Zenon DEF RecordsTrue
<1>4. MapTrue /\ misplaced \in BOOLEAN /\ lost \in BOOLEAN
  BY DEF MapTrue
<1> QED  BY <1>3, <1>4 DEF TrustInv

(* A new record carries no trusted flag; written over another one it is
   misplaced. *)
LEMMA TrustAddRecord ==
  ASSUME PosInv, TrustInv, AddRecord
  PROVE  TrustInv'
<1> DEFINE isTrusted == ParentOf[cur] = tip
           rec == [flags |-> NewFlags(isTrusted), hash |-> cur, pos |-> BlockPos]
<1> USE DEF AddRecord
<1>1. /\ misplaced' = (misplaced \/ cursor <= Len(idxFile)) /\ lost' = lost
      /\ verified' = IF isTrusted THEN verified \cup {cur} ELSE verified
  BY DEF WriteRecord, GoOn
<1>2. misplaced' \in BOOLEAN /\ lost' \in BOOLEAN
  BY <1>1 DEF TrustInv
<1>3. SUFFICES ASSUME ~misplaced', ~lost' PROVE MapTrue' /\ RecordsTrue'
  BY <1>2 DEF TrustInv
<1>4. MapTrue /\ RecordsTrue /\ ~ (cursor <= Len(idxFile))
  BY <1>1, <1>3 DEF TrustInv
<1>5. MapTrue'
  BY <1>1, <1>4 DEF MapTrue, WriteRecord
<1>6. "BLOCK_TRUSTED" \notin rec.flags /\ rec \in IndexRecord
  <2>1. "BLOCK_TRUSTED" \notin NewFlags(isTrusted) /\ NewFlags(isTrusted) \in SUBSET Flags
    BY DEF NewFlags, Flags
  <2>2. cur \in Block /\ BlockPos \in Nat
    BY LenProperties DEF PosInv, CurAppended, Describes, BlockPos
  <2> QED  BY <2>1, <2>2 DEF IndexRecord
<1>7. idxFile' = IF cursor > Len(idxFile) THEN Append(idxFile, rec)
                                          ELSE [idxFile EXCEPT ![cursor] = rec]
  BY DEF WriteRecord
<1>8. /\ idxFile \in Seq(IndexRecord) /\ Len(idxFile) \in Nat
      /\ idxFile \in [1..Len(idxFile) -> IndexRecord]
  BY LenProperties DEF PosInv, Describes
<1> HIDE DEF rec
<1>9. CASE cursor > Len(idxFile)
  <2>1. /\ Len(Append(idxFile, rec)) = Len(idxFile) + 1
        /\ \A i \in 1..Len(idxFile) : Append(idxFile, rec)[i] = idxFile[i]
        /\ Append(idxFile, rec)[Len(idxFile) + 1] = rec
    BY <1>6, <1>8, AppendProperties
  <2>2. \A i \in 1..Len(idxFile') : \/ i \in 1..Len(idxFile) /\ idxFile'[i] = idxFile[i]
                                    \/ idxFile'[i] = rec
    BY <1>7, <1>8, <1>9, <2>1
  <2>3. RecordsTrue'
    BY <1>1, <1>4, <1>6, <2>2 DEF RecordsTrue
  <2> QED  BY <1>5, <2>3
<1>10. CASE ~ (cursor > Len(idxFile))
  <2>1. cursor \notin 1..Len(idxFile)
    BY <1>4, <1>8
  <2>2. idxFile' = idxFile
    BY <1>7, <1>8, <1>10, <2>1
  <2>3. RecordsTrue'
    BY <1>1, <1>4, <2>2 DEF RecordsTrue
  <2> QED  BY <1>5, <2>3
<1> QED  BY <1>9, <1>10

(* A flag that is not misplaced goes into a record of its block. *)
LEMMA FlagTrue ==
  ASSUME PosInv, RecordsTrue, NEW b, NEW iPos, NEW flag \in Flags,
         idxFile' = [idxFile EXCEPT ![iPos].flags = @ \cup {flag}],
         idxFile[iPos].hash = b,
         verified \subseteq verified', flag = "BLOCK_TRUSTED" => b \in verified'
  PROVE  RecordsTrue'
<1>1. idxFile \in [1..Len(idxFile) -> IndexRecord] /\ Len(idxFile) \in Nat
  BY LenProperties DEF PosInv, Describes
<1>2. \A i \in 1..Len(idxFile) :
        /\ idxFile'[i] \in IndexRecord
        /\ idxFile'[i].hash = idxFile[i].hash
        /\ idxFile'[i].flags = IF i = iPos THEN idxFile[i].flags \cup {flag}
                                          ELSE idxFile[i].flags
  BY <1>1 DEF IndexRecord
<1>3. idxFile' \in [1..Len(idxFile) -> IndexRecord]
  BY <1>1, <1>2
<1>4. Len(idxFile') = Len(idxFile)
  BY <1>1, <1>3, SeqOfLen
<1>5. SUFFICES ASSUME NEW i \in 1..Len(idxFile), "BLOCK_TRUSTED" \in idxFile'[i].flags
               PROVE  idxFile[i].hash \in verified'
  BY <1>2, <1>4 DEF RecordsTrue
<1>6. CASE "BLOCK_TRUSTED" \in idxFile[i].flags
  BY <1>6 DEF RecordsTrue
<1>7. CASE "BLOCK_TRUSTED" \notin idxFile[i].flags
  BY <1>2, <1>5, <1>7
<1> QED  BY <1>6, <1>7

(* TrustBlock: the block was just verified. *)
LEMMA TrustTrust ==
  ASSUME PosInv, TrustInv, NEW b, TrustBlock(b), UNCHANGED lost
  PROVE  TrustInv'
<1> USE DEF TrustBlock
<1>1. /\ verified' = verified \cup {b} /\ lost' = lost
      /\ \/ UNCHANGED <<idxFile, misplaced>>
         \/ SetBlockFlag(b, "BLOCK_TRUSTED")
  OBVIOUS
<1>2. misplaced' \in BOOLEAN /\ lost' \in BOOLEAN /\ (~misplaced' => ~misplaced)
  BY <1>1 DEF TrustInv, SetBlockFlag
<1>3. SUFFICES ASSUME ~misplaced', ~lost' PROVE MapTrue' /\ RecordsTrue'
  BY <1>2 DEF TrustInv
<1>4. MapTrue /\ RecordsTrue
  BY <1>1, <1>2, <1>3 DEF TrustInv
<1>5. MapTrue'
  BY <1>1, <1>4 DEF MapTrue
<1>6. CASE UNCHANGED <<idxFile, misplaced>>
  BY <1>1, <1>4, <1>5, <1>6 DEF RecordsTrue
<1>7. CASE SetBlockFlag(b, "BLOCK_TRUSTED")
  <2>1. idxFile[blockIdxMap[b].iPos].hash = b
    BY <1>3, <1>7 DEF SetBlockFlag
  <2>2. idxFile' = [idxFile EXCEPT ![blockIdxMap[b].iPos].flags = @ \cup {"BLOCK_TRUSTED"}]
    BY <1>7 DEF SetBlockFlag
  <2>3. "BLOCK_TRUSTED" \in Flags /\ verified \subseteq verified' /\ b \in verified'
    BY <1>1 DEF Flags
  <2>4. RecordsTrue'
    BY <1>4, <2>1, <2>2, <2>3, FlagTrue
  <2> QED  BY <1>5, <2>4
<1> QED  BY <1>1, <1>6, <1>7

(* InvalidBlock trusts nothing. *)
LEMMA TrustInvalid ==
  ASSUME PosInv, TrustInv, NEW b, InvalidBlock(b), UNCHANGED lost
  PROVE  TrustInv'
<1> USE DEF InvalidBlock, SetBlockFlag
<1>1. misplaced' \in BOOLEAN /\ lost' \in BOOLEAN /\ (~misplaced' => ~misplaced)
  BY DEF TrustInv
<1>2. SUFFICES ASSUME ~misplaced', ~lost' PROVE MapTrue' /\ RecordsTrue'
  BY <1>1 DEF TrustInv
<1>3. MapTrue /\ RecordsTrue
  BY <1>1, <1>2 DEF TrustInv
<1>4. MapTrue'
  BY <1>3 DEF MapTrue
<1>5. idxFile[blockIdxMap[b].iPos].hash = b
  BY <1>2
<1>6. idxFile' = [idxFile EXCEPT ![blockIdxMap[b].iPos].flags = @ \cup {"BLOCK_INVALID"}]
  OBVIOUS
<1>7. /\ "BLOCK_INVALID" \in Flags /\ verified \subseteq verified'
      /\ "BLOCK_INVALID" # "BLOCK_TRUSTED"
  BY DEF Flags
<1>8. RecordsTrue'
  BY <1>3, <1>5, <1>6, <1>7, FlagTrue, ZenonT(60)
<1> QED  BY <1>4, <1>8

(* A start believes the records it reads. *)
LEMMA TrustLoad ==
  ASSUME PosInv, TrustInv, LoadIndex, UNCHANGED lost
  PROVE  TrustInv'
<1> USE DEF LoadIndex, files, blockHist
<1>1. RecordsTrue => MapTrue'
  BY RecordOfIsLoadable DEF MapTrue, RecordsTrue, PosInv
<1>2. RecordsTrue => RecordsTrue'
  BY DEF RecordsTrue
<1> QED  BY <1>1, <1>2 DEF TrustInv

(* Without a loss the records are those that were written. *)
LEMMA TrustGoDown ==
  ASSUME TrustInv, Crash \/ PowerFailure
  PROVE  TrustInv'
<1> USE DEF GoDown, NoMap, blockHist
<1>1. MapTrue' /\ misplaced' = misplaced /\ verified' = verified
  BY DEF Crash, PowerFailure, MapTrue
<1>2. CASE Crash
  <2>1. lost' = lost /\ idxFile' = idxFile
    BY <1>2 DEF Crash, files
  <2> QED  BY <1>1, <2>1 DEF TrustInv, RecordsTrue
<1>3. CASE PowerFailure
  <2>1. lost' = (lost \/ <<dataFile, idxFile>>' # <<dataFile, idxFile>>)
    BY <1>3 DEF PowerFailure, files
  <2>2. lost' \in BOOLEAN /\ (~lost' => ~lost /\ idxFile' = idxFile)
    BY <2>1 DEF TrustInv
  <2> QED  BY <1>1, <2>2 DEF TrustInv, RecordsTrue
<1> QED  BY <1>2, <1>3

(* Steps that leave records, map and history alone. *)
LEMMA TrustOthers ==
  ASSUME TrustInv, UNCHANGED <<idxFile, blockIdxMap, verified, misplaced, lost>>
  PROVE  TrustInv'
BY DEF TrustInv, MapTrue, RecordsTrue

(* One case for each action of Restart. *)
LEMMA TrustStep ==
  ASSUME PosInv, TrustInv, [Next]_vars
  PROVE  TrustInv'
<1> USE DEF GoOn, Panic, CommitBlockTxs, blockVars, files, mapVars, blockHist
<1>1. CASE \E b \in Block : AddBlock(b)
  BY <1>1, TrustOthers DEF AddBlock, AppendBlock
<1>2. CASE AddRecord
  BY <1>2, TrustAddRecord
<1>3. CASE CommitTip
  BY <1>3, TrustOthers DEF CommitTip
<1>4. CASE Sync \/ SyncBlocks
  BY <1>4, TrustOthers DEF Sync, SyncBlocks, SyncIndex, SyncData
<1>5. CASE SyncUnspent \/ MoveUndo
  BY <1>5, TrustOthers DEF SyncUnspent, MoveUndo, UndoTip
<1>6. CASE MoveParse
  BY <1>6, TrustOthers DEF MoveParse
<1>7. CASE ParseBlock
  <2>1. UNCHANGED lost /\ (TrustBlock(GetBlock(Nxt)) \/ UNCHANGED blockVars)
    BY <1>7 DEF ParseBlock
  <2> QED  BY <2>1, TrustTrust, TrustOthers
<1>8. CASE DeleteBranch
  BY <1>8, TrustInvalid DEF DeleteBranch
<1>9. CASE Retarget
  BY <1>9, TrustOthers DEF Retarget
<1>10. CASE ParseReturns
  BY <1>10, TrustOthers DEF ParseReturns
<1>11. CASE ParsePanics
  BY <1>11, TrustOthers DEF ParsePanics
<1>12. CASE Crash \/ PowerFailure
  BY <1>12, TrustGoDown
<1>13. CASE Start
  BY <1>13, TrustLoad DEF Start
<1>14. CASE StartUndo
  BY <1>14, TrustOthers DEF StartUndo, UndoTip
<1>15. CASE StartParse
  BY <1>15, TrustOthers DEF StartParse
<1>16. CASE UNCHANGED vars
  BY <1>16, TrustOthers DEF vars, chainVars
<1> QED
  BY <1>1, <1>2, <1>3, <1>4, <1>5, <1>6, <1>7, <1>8, <1>9, <1>10, <1>11, <1>12,
     <1>13, <1>14, <1>15, <1>16 DEF Next

(* As long as nothing was written into a foreign record and no power       *)
(* failed, a block is trusted in memory, its scripts not being checked     *)
(* again, only if it was verified, in this run of the program or an        *)
(* earlier one: the first half of FlagsTellTheTruth.                       *)
THEOREM TrustedWasVerified ==
  Spec => [](~misplaced /\ ~lost =>
               \A b \in DOMAIN blockIdxMap : blockIdxMap[b].trusted => b \in verified)
<1>1. TrustInv => (~misplaced /\ ~lost =>
               \A b \in DOMAIN blockIdxMap : blockIdxMap[b].trusted => b \in verified)
  BY DEF TrustInv, MapTrue
<1> QED  BY <1>1, TrustInit, TrustStep, RestartInvariant, PTL DEF Spec
-----------------------------------------------------------------------------
(* The branches                                                            *)

Node == Block \cup {Genesis}

(* What holds of the genesis block, and of a block when it holds of its    *)
(* parent, holds of all blocks.                                            *)
LEMMA BlockInduction ==
  ASSUME NEW G, Genesis \in G, \A b \in Block : ParentOf[b] \in G => b \in G
  PROVE  Node \subseteq G
<1> DEFINE S == Block \ G
<1>1. ASSUME S # {} PROVE FALSE
  <2>1. PICK b \in S : ParentOf[b] \notin S
    BY <1>1, RestartAssumption
  <2>2. ParentOf[b] \in Node
    BY RestartAssumption DEF Node
  <2> QED  BY <2>1, <2>2 DEF Node
<1> QED  BY <1>1 DEF Node

(* f follows the definition of Branch on D, which has with a block its     *)
(* parent.                                                                 *)
Follows(f, D) ==
  /\ D \subseteq Node /\ Genesis \in D
  /\ \A b \in D \ {Genesis} : ParentOf[b] \in D
  /\ f = [b \in D |-> IF b = Genesis THEN <<>> ELSE Append(f[ParentOf[b]], b)]

(* There is one answer for each block. *)
LEMMA FollowsOnce ==
  ASSUME NEW f, NEW D, Follows(f, D), NEW g, NEW E, Follows(g, E)
  PROVE  \A b \in D \cap E : f[b] = g[b]
<1> DEFINE G == {b \in Node : b \in D \cap E => f[b] = g[b]}
<1>0. Genesis \notin Block
  BY BlockAssumption
<1>1. Genesis \in G
  BY DEF Follows, Node
<1>2. ASSUME NEW b \in Block, ParentOf[b] \in G
      PROVE  b \in G
  <2>1. SUFFICES ASSUME b \in D \cap E PROVE f[b] = g[b]
    BY DEF Node
  <2>2. b # Genesis /\ ParentOf[b] \in D \cap E
    BY <1>0, <2>1 DEF Follows
  <2>3. f[b] = Append(f[ParentOf[b]], b) /\ g[b] = Append(g[ParentOf[b]], b)
    BY <2>1, <2>2 DEF Follows
  <2> QED  BY <1>2, <2>2, <2>3
<1>3. Node \subseteq G
  <2> HIDE DEF G
  <2> QED  BY <1>1, <1>2, BlockInduction
<1> QED  BY <1>3 DEF Follows

(* And there is one. *)
LEMMA FollowsSome ==
  ASSUME NEW c \in Node
  PROVE  \E f, D : Follows(f, D) /\ c \in D
<1> DEFINE G == {b \in Node : \E f, D : Follows(f, D) /\ b \in D}
<1>1. Genesis \in G
  <2> DEFINE f == [b \in {Genesis} |-> <<>>]
  <2>1. Follows(f, {Genesis})
    BY DEF Follows, Node
  <2> QED  BY <2>1 DEF Node
<1>2. ASSUME NEW b \in Block, ParentOf[b] \in G
      PROVE  b \in G
  <2>1. PICK f, D : Follows(f, D) /\ ParentOf[b] \in D
    BY <1>2
  <2>2. CASE b \in D
    BY <2>1, <2>2 DEF Node
  <2>3. CASE b \notin D
    <3> DEFINE E == D \cup {b}
               g == [x \in E |-> IF x = Genesis THEN <<>> ELSE Append(f[ParentOf[x]], x)]
    <3>1. /\ E \subseteq Node /\ Genesis \in E
          /\ \A x \in E \ {Genesis} : ParentOf[x] \in D /\ ParentOf[x] \in E
      BY <2>1 DEF Follows, Node
    <3>2. \A x \in D : g[x] = f[x]
      BY <2>1 DEF Follows
    <3>3. \A x \in E : (IF x = Genesis THEN <<>> ELSE Append(f[ParentOf[x]], x))
                        = IF x = Genesis THEN <<>> ELSE Append(g[ParentOf[x]], x)
      BY <3>1, <3>2
    <3>4. g = [x \in E |-> IF x = Genesis THEN <<>> ELSE Append(g[ParentOf[x]], x)]
      <4> HIDE DEF E
      <4> QED  BY <3>3
    <3>5. Follows(g, E)
      <4> HIDE DEF E, g
      <4> QED  BY <3>1, <3>4 DEF Follows
    <3> QED  BY <3>5 DEF Node
  <2> QED  BY <2>2, <2>3
<1>3. Node \subseteq G
  <2> HIDE DEF G
  <2> QED  BY <1>1, <1>2, BlockInduction
<1> QED  BY <1>3

(* The branch of a block is that of its parent and the block. *)
LEMMA BranchIs ==
  /\ Branch[Genesis] = <<>>
  /\ \A b \in Block : Branch[b] = Append(Branch[ParentOf[b]], b)
<1> DEFINE A(b) == CHOOSE v : \E f, D : Follows(f, D) /\ b \in D /\ v = f[b]
           F == [b \in Node |-> A(b)]
<1>1. ASSUME NEW f, NEW D, Follows(f, D), NEW b \in D
      PROVE  F[b] = f[b]
  <2>1. \E v : \E g, E : Follows(g, E) /\ b \in E /\ v = g[b]
    BY <1>1
  <2>2. PICK g, E : Follows(g, E) /\ b \in E /\ A(b) = g[b]
    BY <2>1
  <2>3. g[b] = f[b]
    BY <1>1, <2>2, FollowsOnce
  <2>4. b \in Node
    BY <1>1 DEF Follows
  <2> QED  BY <2>2, <2>3, <2>4
<1>2. ASSUME NEW b \in Node
      PROVE  F[b] = IF b = Genesis THEN <<>> ELSE Append(F[ParentOf[b]], b)
  <2>1. PICK f, D : Follows(f, D) /\ b \in D
    BY FollowsSome
  <2>2. F[b] = f[b]
    BY <1>1, <2>1
  <2>3. b # Genesis => ParentOf[b] \in D /\ F[ParentOf[b]] = f[ParentOf[b]]
    <3>1. b # Genesis => ParentOf[b] \in D
      BY <2>1 DEF Follows
    <3> HIDE DEF F
    <3> QED  BY <1>1, <2>1, <3>1
  <2>4. f[b] = IF b = Genesis THEN <<>> ELSE Append(f[ParentOf[b]], b)
    BY <2>1 DEF Follows
  <2> HIDE DEF F
  <2> QED  BY <2>2, <2>3, <2>4
<1> DEFINE Solves(f) == f = [b \in Node |-> IF b = Genesis THEN <<>>
                                            ELSE Append(f[ParentOf[b]], b)]
<1>3. Solves(F)
  <2>1. F = [b \in Node |-> F[b]]
    OBVIOUS
  <2> HIDE DEF F
  <2> QED  BY <1>2, <2>1
<1>4. Branch = CHOOSE f : Solves(f)
  BY DEF Branch, Node
<1>5. Solves(Branch)
  <2> HIDE DEF F, Solves
  <2> QED  BY <1>3, <1>4
<1>6. Genesis \notin Block
  BY BlockAssumption
<1> HIDE DEF F
<1> QED  BY <1>5, <1>6 DEF Node

(* Its length, its last block, and what it has in common with that of the  *)
(* parent.                                                                 *)
LEMMA BranchStep ==
  /\ Genesis \in Node /\ Height(Genesis) = 0
  /\ \A b \in Block :
       /\ b \in Node /\ b # Genesis /\ ParentOf[b] \in Node /\ Parent(b) = ParentOf[b]
       /\ Branch[b] \in Seq(Block)
       /\ Height(ParentOf[b]) \in Nat /\ Height(b) = Height(ParentOf[b]) + 1
       /\ Branch[b][Height(b)] = b
       /\ \A k \in 1..Height(ParentOf[b]) : Branch[b][k] = Branch[ParentOf[b]][k]
<1>0. Genesis \in Node /\ \A b \in Block : b \in Node /\ b # Genesis /\ ParentOf[b] \in Node
  BY RestartAssumption, BlockAssumption DEF Node
<1> DEFINE G == {b \in Node : Branch[b] \in Seq(Block)}
<1>1. Branch[Genesis] = <<>> /\ <<>> \in Seq(Block) /\ Len(<<>>) = 0
  BY BranchIs, EmptySeq
<1>2. ASSUME NEW b \in Block, ParentOf[b] \in G PROVE b \in G
  <2>1. Branch[ParentOf[b]] \in Seq(Block) /\ Branch[b] = Append(Branch[ParentOf[b]], b)
    BY <1>2, BranchIs
  <2>2. Append(Branch[ParentOf[b]], b) \in Seq(Block)
    BY <2>1, AppendProperties
  <2> QED  BY <1>0, <2>1, <2>2
<1>3. Node \subseteq G
  <2> HIDE DEF G
  <2>1. Genesis \in G
    BY <1>0, <1>1 DEF G
  <2> QED  BY <1>2, <2>1, BlockInduction
<1>4. ASSUME NEW b \in Block
      PROVE  /\ b \in Node /\ b # Genesis /\ ParentOf[b] \in Node /\ Parent(b) = ParentOf[b]
             /\ Branch[b] \in Seq(Block)
             /\ Height(ParentOf[b]) \in Nat /\ Height(b) = Height(ParentOf[b]) + 1
             /\ Branch[b][Height(b)] = b
             /\ \A k \in 1..Height(ParentOf[b]) : Branch[b][k] = Branch[ParentOf[b]][k]
  <2> DEFINE s == Branch[ParentOf[b]]
  <2>1. s \in Seq(Block) /\ Branch[b] = Append(s, b) /\ Branch[b] \in Seq(Block)
    BY <1>0, <1>3, BranchIs
  <2> HIDE DEF s
  <2>2. /\ Len(s) \in Nat /\ Len(Append(s, b)) = Len(s) + 1
        /\ Append(s, b)[Len(s) + 1] = b
        /\ \A k \in 1..Len(s) : Append(s, b)[k] = s[k]
    BY <2>1, AppendProperties, LenProperties
  <2> QED  BY <1>0, <2>1, <2>2 DEF Height, Parent, s
<1> QED  BY <1>0, <1>1, <1>4 DEF Height

(* A branch is a list of blocks, empty for the genesis block alone. *)
LEMMA BranchType ==
  ASSUME NEW b \in Node
  PROVE  /\ Branch[b] \in Seq(Block) /\ Height(b) \in Nat
         /\ b = Genesis <=> Height(b) = 0
         /\ Parent(b) \in Node
<1>1. CASE b = Genesis
  BY <1>1, BranchStep, BranchIs, EmptySeq DEF Parent
<1>2. CASE b # Genesis
  BY <1>2, BranchStep, LenProperties DEF Node, Height
<1> QED  BY <1>1, <1>2

(* The blocks of a branch are its parts. *)
LEMMA AncestorIs ==
  ASSUME NEW c \in Node, NEW h \in 1..Height(c)
  PROVE  /\ Branch[c][h] \in Block /\ Height(Branch[c][h]) = h
         /\ \A j \in 1..h : Branch[Branch[c][h]][j] = Branch[c][j]
<1> DEFINE P(b, k) == /\ Branch[b][k] \in Block /\ Height(Branch[b][k]) = k
                      /\ \A j \in 1..k : Branch[Branch[b][k]][j] = Branch[b][j]
           G == {b \in Node : \A k \in 1..Height(b) : P(b, k)}
<1>1. Genesis \in G
  BY BranchStep
<1>2. ASSUME NEW b \in Block, ParentOf[b] \in G PROVE b \in G
  <2> DEFINE p == ParentOf[b]
  <2>1. /\ p \in Node /\ b \in Node /\ Height(p) \in Nat /\ Height(b) = Height(p) + 1
        /\ Branch[b][Height(b)] = b
        /\ \A k \in 1..Height(p) : Branch[b][k] = Branch[p][k]
    BY BranchStep
  <2>2. \A k \in 1..Height(p) : P(p, k)
    BY <1>2
  <2> HIDE DEF p
  <2>3. ASSUME NEW k \in 1..Height(b) PROVE P(b, k)
    <3>1. CASE k = Height(b)
      BY <2>1, <3>1
    <3>2. CASE k # Height(b)
      <4>1. k \in 1..Height(p) /\ \A j \in 1..k : j \in 1..Height(p)
        BY <2>1, <3>2
      <4> QED  BY <2>1, <2>2, <4>1
    <3> QED  BY <3>1, <3>2
  <2> QED  BY <2>1, <2>3
<1>3. Node \subseteq G
  <2> HIDE DEF G
  <2> QED  BY <1>1, <1>2, BlockInduction
<1> QED  BY <1>3

(* A block is below another one when its branch is a part of the other's.  *)
LEMMA BelowIs ==
  ASSUME NEW a \in Node, NEW b \in Node
  PROVE  Below(a, b) <=> /\ Height(a) <= Height(b)
                         /\ \A j \in 1..Height(a) : Branch[a][j] = Branch[b][j]
<1>0. /\ Height(a) \in Nat /\ Height(b) \in Nat /\ Branch[b] \in Seq(Block)
      /\ ToSet(Branch[b]) = {Branch[b][k] : k \in 1..Height(b)}
  <2>1. Branch[b] \in Seq(Block) /\ DOMAIN Branch[b] = 1..Height(b)
    BY BranchType, LenProperties DEF Height
  <2> QED  BY <2>1, BranchType DEF ToSet
<1>1. CASE a = Genesis
  BY <1>0, <1>1, BranchStep DEF Below
<1>2. CASE a # Genesis
  <2>1. a \in Block /\ Height(a) \in 1..Height(a) /\ Branch[a][Height(a)] = a
    BY <1>0, <1>2, BranchStep DEF Node
  <2>2. ASSUME Below(a, b)
        PROVE  /\ Height(a) <= Height(b)
               /\ \A j \in 1..Height(a) : Branch[a][j] = Branch[b][j]
    <3>1. PICK k \in 1..Height(b) : a = Branch[b][k]
      BY <1>0, <1>2, <2>2 DEF Below
    <3>2. Height(a) = k /\ \A j \in 1..k : Branch[a][j] = Branch[b][j]
      BY <3>1, AncestorIs
    <3> QED  BY <1>0, <3>2
  <2>3. ASSUME Height(a) <= Height(b), \A j \in 1..Height(a) : Branch[a][j] = Branch[b][j]
        PROVE  Below(a, b)
    <3>1. Height(a) \in 1..Height(b) /\ Branch[b][Height(a)] = a
      BY <1>0, <2>1, <2>3
    <3> QED  BY <1>0, <3>1 DEF Below
  <2> QED  BY <2>2, <2>3
<1> QED  BY <1>1, <1>2

(* What is below what is below. *)
LEMMA BelowTrans ==
  ASSUME NEW a \in Node, NEW b \in Node, NEW c \in Node, Below(a, b), Below(b, c)
  PROVE  Below(a, c)
<1>1. /\ Height(a) \in Nat /\ Height(b) \in Nat /\ Height(c) \in Nat
      /\ Height(a) <= Height(b) /\ Height(b) <= Height(c)
      /\ \A j \in 1..Height(a) : Branch[a][j] = Branch[b][j]
      /\ \A j \in 1..Height(b) : Branch[b][j] = Branch[c][j]
  BY BelowIs, BranchType
<1> QED  BY <1>1, BelowIs

(* A block on a branch that is not its end has its successor there. *)
LEMMA BelowNext ==
  ASSUME NEW a \in Node, NEW c \in Node, Below(a, c), a # c
  PROVE  /\ Height(a) < Height(c)
         /\ Branch[c][Height(a) + 1] \in Block
         /\ ParentOf[Branch[c][Height(a) + 1]] = a
         /\ Height(Branch[c][Height(a) + 1]) = Height(a) + 1
         /\ Below(Branch[c][Height(a) + 1], c)
<1>1. /\ Height(a) \in Nat /\ Height(c) \in Nat /\ Height(a) <= Height(c)
      /\ \A j \in 1..Height(a) : Branch[a][j] = Branch[c][j]
  BY BelowIs, BranchType
<1>2. ASSUME NEW x \in Node, NEW y \in Node, Height(x) = Height(y),
             \A j \in 1..Height(x) : Branch[x][j] = Branch[y][j]
      PROVE  x = y
  <2>1. CASE Height(x) = 0
    BY <1>2, <2>1, BranchType
  <2>2. CASE Height(x) # 0
    <3>1. x \in Block /\ y \in Block /\ Height(x) \in 1..Height(x)
      BY <1>2, <2>2, BranchType, BranchStep DEF Node
    <3>2. Branch[x][Height(x)] = x /\ Branch[y][Height(y)] = y
      BY <3>1, BranchStep
    <3> QED  BY <1>2, <3>1, <3>2
  <2> QED  BY <2>1, <2>2
<1>3. Height(a) # Height(c)
  BY <1>1, <1>2
<1> DEFINE n == Branch[c][Height(a) + 1]
<1>4. Height(a) + 1 \in 1..Height(c)
  BY <1>1, <1>3
<1>5. n \in Block /\ Height(n) = Height(a) + 1 /\ \A j \in 1..(Height(a) + 1) : Branch[n][j] = Branch[c][j]
  BY <1>4, AncestorIs
<1> HIDE DEF n
<1>6. /\ n \in Node /\ ParentOf[n] \in Node /\ Height(ParentOf[n]) \in Nat
      /\ Height(n) = Height(ParentOf[n]) + 1
      /\ \A k \in 1..Height(ParentOf[n]) : Branch[n][k] = Branch[ParentOf[n]][k]
  BY <1>5, BranchStep
<1>7. Height(ParentOf[n]) = Height(a)
      /\ \A j \in 1..Height(ParentOf[n]) : Branch[ParentOf[n]][j] = Branch[a][j]
  BY <1>1, <1>5, <1>6
<1>8. ParentOf[n] = a
  BY <1>2, <1>6, <1>7
<1>9. Below(n, c)
  BY <1>1, <1>4, <1>5, <1>6, BelowIs
<1> QED  BY <1>1, <1>3, <1>5, <1>8, <1>9 DEF n

(* What a chain that is running, or about to start, has: the records of a  *)
(* branch in the unspent database, that of the tip in memory, unless a     *)
(* power failure took a block and left its record; and all of the tip's    *)
(* branch in the tree.                                                     *)
Steps == {"idle", "record", "commit", "sync", "syncData", "syncUnspent", "undo", "parse",
          "retarget", "start", "down"}

Resting == {"idle", "sync", "syncData", "syncUnspent"}

TypesOK ==
  /\ cur \in Node /\ pc \in Steps
  /\ pc # "down" => tip \in Node /\ startTip \in Node
  /\ DOMAIN blockIdxMap \subseteq Block /\ IsFiniteSet(DOMAIN blockIdxMap)

BranchesOK ==
  orphaned = {} =>
    /\ \E x \in Node : applied = Branch[x]
    /\ \E x \in Node : durable = Branch[x]
    /\ pc # "down" => applied = Branch[tip]

TreeOK == pc # "down" => tip \in Attached

(* Where the chain goes, and that nothing is higher. *)
AimOK ==
  /\ pc \in Resting \cup {"record"} => tip \in FarthestNodes
  /\ pc = "record" => /\ cur \in Block /\ ~Known(cur) /\ Known(ParentOf[cur])
                      /\ Children(cur) = {}
  /\ pc = "commit" => cur \in Block /\ ParentOf[cur] = tip /\ cur \in FarthestNodes
  /\ pc \in {"undo", "parse"} => (cur \in Attached => cur \in FarthestNodes)

HighInv == TypesOK /\ BranchesOK /\ TreeOK /\ AimOK

(* A way to cur, or a reason why there is none. *)
TooDeep == Height(startTip) - Fork(startTip, cur) > UndoAtStart
WayOK ==
  /\ panicked \in PathPanics => cur \notin Attached \/ TooDeep
  /\ panicked = "Unexpected height" => orphaned # {}
  /\ pc # "down" => panicked = ""
  /\ pc = "start" => /\ Below(tip, startTip) /\ left \in Nat
                     /\ Height(startTip) - Height(tip) = UndoAtStart - left
  /\ pc = "parse" => Below(tip, cur) \/ cur \notin Attached \/ TooDeep

(* What the index file has a record of. *)
Recorded == {idxFile[i].hash : i \in DOMAIN idxFile}
StoredOK ==
  /\ lost \in BOOLEAN /\ misplaced \in BOOLEAN /\ cursor \in Nat \ {0}
  /\ ~lost /\ ~misplaced =>
       /\ ToSet(applied) \cup ToSet(durable) \cup DOMAIN blockIdxMap \subseteq Recorded
       /\ \A b \in Recorded : ParentOf[b] \in Recorded \cup {Genesis}
  /\ panicked = "Last Block Hash not found" =>
       lost \/ misplaced \/ WrittenInvalid(startTip)
  /\ panicked = "has no Parent" =>
       lost \/ misplaced \/ \E b \in DOMAIN blockIdxMap : WrittenInvalid(ParentOf[b])

(* As long as nothing was lost or misplaced: a record that is not loaded   *)
(* any more is of a block above the first one that was ever stored, which  *)
(* was stored on the tip and is not loaded either.                         *)
First == idxFile[1].hash
Invalid(i) == "BLOCK_INVALID" \in idxFile[i].flags
RecordsOK ==
  /\ idxFile # <<>> => Invalid(1)
  /\ \A i \in DOMAIN idxFile : idxFile[i].hash = First => i = 1
  /\ \A i \in DOMAIN idxFile : Invalid(i) => First \in ToSet(Branch[idxFile[i].hash])
  /\ \A i \in DOMAIN idxFile : idxFile[i].hash \in failed => Invalid(i)
  /\ \A i, j \in DOMAIN idxFile :
       idxFile[i].hash = idxFile[j].hash => i = j \/ Invalid(i) \/ Invalid(j)
(* The program that has not been started again: its map leads to the      *)
(* records.                                                                *)
Fresh ==
  /\ cursor = Len(idxFile) + 1
  /\ \A b \in DOMAIN blockIdxMap : /\ blockIdxMap[b].iPos \in DOMAIN idxFile
                                   /\ idxFile[blockIdxMap[b].iPos].hash = b
  /\ \A i \in DOMAIN idxFile : \/ Invalid(i)
                               \/ /\ idxFile[i].hash \in DOMAIN blockIdxMap
                                  /\ blockIdxMap[idxFile[i].hash].iPos = i
  /\ idxFile = <<>> => applied = <<>>
  /\ idxFile # <<>> => /\ First \in DOMAIN blockIdxMap
                       /\ IF pc = "commit" /\ applied = <<>> THEN cur = First
                          ELSE applied # <<>> /\ applied[1] = First
(* The one that has: the next record would be misplaced, and so would any  *)
(* flag.                                                                   *)
Stale ==
  /\ cursor <= Len(idxFile)
  /\ \A b \in DOMAIN blockIdxMap : idxFile[blockIdxMap[b].iPos].hash # b
FlagInv ==
  /\ \A b \in DOMAIN blockIdxMap : "iPos" \in DOMAIN blockIdxMap[b]
  /\ ~lost /\ ~misplaced =>
       /\ RecordsOK
       /\ failed \cap DOMAIN blockIdxMap = {}
       /\ pc # "down" => Fresh \/ Stale
-----------------------------------------------------------------------------
AttachedIn(M) == {b \in Node : ToSet(Branch[b]) \subseteq M}
FarthestIn(M) == {b \in AttachedIn(M) : \A c \in AttachedIn(M) : Height(c) <= Height(b)}

(* The blocks of a branch, as a set. *)
LEMMA BranchSet ==
  ASSUME NEW b \in Node
  PROVE  /\ ToSet(Branch[b]) = {Branch[b][k] : k \in 1..Height(b)}
         /\ ToSet(Branch[b]) \subseteq Block
         /\ \A a \in ToSet(Branch[b]) : Below(a, b)
<1>1. Branch[b] \in Seq(Block) /\ DOMAIN Branch[b] = 1..Height(b)
  BY BranchType, LenProperties DEF Height
<1>2. ToSet(Branch[b]) = {Branch[b][k] : k \in 1..Height(b)}
  BY <1>1 DEF ToSet
<1>3. \A k \in 1..Height(b) : Branch[b][k] \in Block
  BY AncestorIs
<1> QED  BY <1>2, <1>3 DEF Below

(* A block adds itself to the branch of its parent. *)
LEMMA BranchSetStep ==
  ASSUME NEW b \in Block
  PROVE  /\ ToSet(Branch[b]) = ToSet(Branch[ParentOf[b]]) \cup {b}
         /\ b \notin ToSet(Branch[ParentOf[b]])
<1> DEFINE p == ParentOf[b]
<1>1. /\ b \in Node /\ p \in Node /\ Height(p) \in Nat /\ Height(b) = Height(p) + 1
      /\ Branch[b][Height(b)] = b
      /\ \A k \in 1..Height(p) : Branch[b][k] = Branch[p][k]
  BY BranchStep
<1> HIDE DEF p
<1>2. /\ ToSet(Branch[b]) = {Branch[b][k] : k \in 1..Height(b)}
      /\ ToSet(Branch[p]) = {Branch[p][k] : k \in 1..Height(p)}
  BY <1>1, BranchSet
<1>3. 1..Height(b) = (1..Height(p)) \cup {Height(b)}
  BY <1>1
<1>4. ToSet(Branch[b]) = ToSet(Branch[p]) \cup {b}
  BY <1>1, <1>2, <1>3
<1>5. b \notin ToSet(Branch[p])
  <2> SUFFICES ASSUME b \in ToSet(Branch[p]) PROVE FALSE
    OBVIOUS
  <2>1. Below(b, p)
    BY <1>1, BranchSet
  <2> QED  BY <1>1, <2>1, BelowIs
<1> QED  BY <1>4, <1>5 DEF p

(* The blocks of the branch of a block are on the branches above it. *)
LEMMA BelowSet ==
  ASSUME NEW a \in Node, NEW b \in Node, Below(a, b)
  PROVE  ToSet(Branch[a]) \subseteq ToSet(Branch[b])
<1>1. ASSUME NEW c \in ToSet(Branch[a]) PROVE c \in ToSet(Branch[b])
  <2>1. c \in Block /\ c \in Node /\ c # Genesis /\ Below(c, a)
    BY BranchSet, BranchStep
  <2>2. Below(c, b)
    BY <2>1, BelowTrans
  <2> QED  BY <2>1, <2>2 DEF Below
<1> QED  BY <1>1

(* The tree in terms of the index: what is attached is attached with all   *)
(* that is below it.                                                       *)
LEMMA AttachedIs ==
  ASSUME NEW M \in SUBSET Block
  PROVE  /\ Genesis \in AttachedIn(M) /\ AttachedIn(M) \subseteq Node
         /\ \A b \in Block : b \in AttachedIn(M) <=> b \in M /\ ParentOf[b] \in AttachedIn(M)
         /\ \A b \in AttachedIn(M), a \in Node : Below(a, b) => a \in AttachedIn(M)
<1>1. ToSet(Branch[Genesis]) = {}
  <2>1. Genesis \in Node /\ Height(Genesis) = 0 /\ 1..0 = {}
    BY BranchStep
  <2>2. ToSet(Branch[Genesis]) = {Branch[Genesis][k] : k \in 1..Height(Genesis)}
    BY <2>1, BranchSet
  <2> QED  BY <2>1, <2>2
<1>2. \A b \in AttachedIn(M), a \in Node : Below(a, b) => a \in AttachedIn(M)
  BY BelowSet DEF AttachedIn
<1>3. ASSUME NEW b \in Block
      PROVE  b \in AttachedIn(M) <=> b \in M /\ ParentOf[b] \in AttachedIn(M)
  <2>1. /\ b \in Node /\ ParentOf[b] \in Node
        /\ ToSet(Branch[b]) = ToSet(Branch[ParentOf[b]]) \cup {b}
    BY BranchSetStep, BranchStep
  <2> QED  BY <2>1 DEF AttachedIn
<1> QED  BY <1>1, <1>2, <1>3, BranchStep DEF AttachedIn

(* Attached and FarthestNodes depend on the index alone. *)
LEMMA AttachedNow ==
  ASSUME DOMAIN blockIdxMap \subseteq Block
  PROVE  /\ Attached = AttachedIn(DOMAIN blockIdxMap)
         /\ FarthestNodes = FarthestIn(DOMAIN blockIdxMap)
<1>1. \A b \in Node : \A a \in ToSet(Branch[b]) : a # Genesis
  BY BranchSet, BlockAssumption
<1>2. Attached = AttachedIn(DOMAIN blockIdxMap)
  BY <1>1 DEF Attached, AttachedIn, Known, Node
<1> QED  BY <1>2 DEF FarthestNodes, FarthestIn

(* A new block under which nothing hangs. *)
LEMMA AttachedGrows ==
  ASSUME NEW M \in SUBSET Block, NEW c \in Block, c \notin M,
         \A x \in M : ParentOf[x] # c
  PROVE  AttachedIn(M \cup {c}) = AttachedIn(M) \cup
           (IF ParentOf[c] \in AttachedIn(M) THEN {c} ELSE {})
<1>1. M \cup {c} \in SUBSET Block
  OBVIOUS
<1>2. AttachedIn(M) \subseteq AttachedIn(M \cup {c})
  BY DEF AttachedIn
<1>3. ASSUME NEW b \in AttachedIn(M \cup {c}), b \notin AttachedIn(M)
      PROVE  b = c /\ ParentOf[c] \in AttachedIn(M)
  <2>1. b \in Node /\ ToSet(Branch[b]) \subseteq M \cup {c} /\ c \in ToSet(Branch[b])
        /\ c \in Node
    BY <1>3, BranchStep DEF AttachedIn
  <2>2. Below(c, b)
    BY <2>1, BranchSet
  <2>3. ASSUME b # c PROVE FALSE
    <3> DEFINE n == Branch[b][Height(c) + 1]
    <3>1. /\ n \in Block /\ ParentOf[n] = c /\ Below(n, b) /\ Height(n) = Height(c) + 1
          /\ Height(c) \in Nat
      BY <2>1, <2>2, <2>3, BelowNext, BranchType
    <3> HIDE DEF n
    <3>2. n \in ToSet(Branch[b]) /\ n # c
      BY <3>1, BlockAssumption DEF Below
    <3> QED  BY <2>1, <3>1, <3>2
  <2>4. ToSet(Branch[c]) = ToSet(Branch[ParentOf[c]]) \cup {c}
        /\ c \notin ToSet(Branch[ParentOf[c]]) /\ ParentOf[c] \in Node
    BY BranchSetStep, BranchStep
  <2> QED  BY <2>1, <2>3, <2>4 DEF AttachedIn
<1>4. ParentOf[c] \in AttachedIn(M) => c \in AttachedIn(M \cup {c})
  BY <1>1, <1>2, AttachedIs
<1> QED  BY <1>2, <1>3, <1>4
-----------------------------------------------------------------------------
(* The steps keep HighInv                                                  *)

(* For the heights of a tree without blocks. *)
LEMMA SameOrLess ==
  ASSUME NEW m, NEW n, m = n, n = 0
  PROVE  m <= n
  OBVIOUS

(* A number of children that is neither none nor one. *)
LEMMA MoreThanOne ==
  ASSUME NEW n \in Nat, n # 0, n # 1
  PROVE  n > 1
  OBVIOUS

(* At first there is the genesis block and nothing else. *)
LEMMA HighInit == Init => HighInv
<1> SUFFICES ASSUME Init PROVE HighInv
  OBVIOUS
<1> USE DEF Init, BlocksInit, NoMap
<1>1. DOMAIN blockIdxMap = {} /\ {} \in SUBSET Block /\ IsFiniteSet({})
  BY FS_EmptySet
<1>2. Branch[Genesis] = <<>> /\ Genesis \in Node /\ Height(Genesis) = 0
  BY BranchIs, BranchStep
<1>3. Genesis \in Attached /\ Genesis \in FarthestNodes
  <2>1. /\ Genesis \in AttachedIn({}) /\ AttachedIn({}) \subseteq Node
        /\ \A b \in Block : b \in AttachedIn({}) => b \in {}
    BY <1>1, AttachedIs
  <2>2. \A c \in AttachedIn({}) : c = Genesis
    BY <2>1 DEF Node
  <2>3. Genesis \in FarthestIn({})
    <3>1. ASSUME NEW c \in AttachedIn({}) PROVE Height(c) <= Height(Genesis)
      BY <1>2, <2>2, SameOrLess
    <3> QED  BY <2>1, <3>1 DEF FarthestIn
  <2> QED  BY <1>1, <2>1, <2>3, AttachedNow
<1>4. TypesOK
  BY <1>1, <1>2 DEF TypesOK, Steps
<1>5. BranchesOK
  BY <1>2 DEF BranchesOK
<1>6. TreeOK /\ AimOK
  BY <1>3 DEF TreeOK, AimOK
<1> QED  BY <1>4, <1>5, <1>6 DEF HighInv

(* What depends on the index alone. *)
LEMMA SameIndex ==
  ASSUME DOMAIN blockIdxMap \subseteq Block, UNCHANGED blockIdxMap
  PROVE  /\ Attached' = Attached /\ FarthestNodes' = FarthestNodes
         /\ \A b : Known(b)' = Known(b) /\ Children(b)' = Children(b)
<1>1. \A b : Known(b)' = Known(b) /\ Children(b)' = Children(b)
  BY DEF Known, Children
<1>2. Attached' = Attached
  BY <1>1 DEF Attached
<1> QED  BY <1>1, <1>2 DEF FarthestNodes

(* The same after a step that changes the index. *)
LEMMA AttachedNext ==
  ASSUME DOMAIN blockIdxMap' \subseteq Block
  PROVE  /\ Attached' = AttachedIn(DOMAIN blockIdxMap')
         /\ FarthestNodes' = FarthestIn(DOMAIN blockIdxMap')
<1>1. \A b \in Node : \A a \in ToSet(Branch[b]) : a # Genesis
  BY BranchSet, BlockAssumption
<1>2. Attached' = AttachedIn(DOMAIN blockIdxMap')
  BY <1>1 DEF Attached, AttachedIn, Known, Node
<1> QED  BY <1>2 DEF FarthestNodes, FarthestIn

(* A new block, under which nothing hangs. *)
LEMMA HighAddBlock ==
  ASSUME HighInv, NEW b \in Block, AddBlock(b)
  PROVE  HighInv'
<1> USE DEF HighInv
<1>1. /\ pc = "idle" /\ pc' = "record" /\ cur' = b /\ UNCHANGED blockIdxMap
      /\ UNCHANGED <<applied, durable, tip, startTip, orphaned>>
      /\ ~Known(b) /\ Known(ParentOf[b]) /\ Children(b) = {}
  BY DEF AddBlock, AppendBlock, GoOn, mapVars, blockHist
<1>2. DOMAIN blockIdxMap \subseteq Block
  BY DEF TypesOK
<1>3. /\ Attached' = Attached /\ FarthestNodes' = FarthestNodes
      /\ \A x : Known(x)' = Known(x) /\ Children(x)' = Children(x)
  BY <1>1, <1>2, SameIndex
<1>4. TypesOK'
  BY <1>1, BranchStep DEF TypesOK, Steps
<1>5. BranchesOK' /\ TreeOK'
  BY <1>1, <1>3 DEF BranchesOK, TreeOK
<1>6. AimOK'
  BY <1>1, <1>3 DEF AimOK, Resting
<1> QED  BY <1>4, <1>5, <1>6

(* It is entered in the index: what is highest now is the tip or the block. *)
LEMMA HighAddRecord ==
  ASSUME HighInv, AddRecord
  PROVE  HighInv'
<1> USE DEF HighInv
<1> DEFINE M == DOMAIN blockIdxMap
           next == IF ParentOf[cur] = tip THEN "commit"
                   ELSE IF Height(cur) > Height(tip) THEN "undo" ELSE "idle"
<1>1. /\ pc = "record" /\ pc' = next
      /\ DOMAIN blockIdxMap' = M \cup {cur}
      /\ UNCHANGED <<applied, durable, tip, cur, startTip, orphaned>>
  BY DEF AddRecord, WriteRecord, GoOn
<1>2. /\ M \in SUBSET Block /\ IsFiniteSet(M) /\ tip \in Node /\ startTip \in Node
      /\ cur \in Node
      /\ cur \in Block /\ cur \notin M /\ ParentOf[cur] \in M \cup {Genesis}
      /\ \A x \in M : ParentOf[x] # cur
      /\ tip \in AttachedIn(M) /\ tip \in FarthestIn(M)
  BY <1>1, AttachedNow DEF TypesOK, AimOK, TreeOK, Known, Children
<1> HIDE DEF next
<1>3. /\ DOMAIN blockIdxMap' \subseteq Block /\ IsFiniteSet(DOMAIN blockIdxMap')
      /\ pc' \in {"commit", "undo", "idle"}
  BY <1>1, <1>2, FS_AddElement DEF next
<1>4. Attached' = AttachedIn(M \cup {cur}) /\ FarthestNodes' = FarthestIn(M \cup {cur})
  BY <1>1, <1>3, AttachedNext
<1>5. AttachedIn(M \cup {cur}) = AttachedIn(M) \cup
        (IF ParentOf[cur] \in AttachedIn(M) THEN {cur} ELSE {})
  BY <1>2, AttachedGrows
<1>6. /\ Height(cur) \in Nat /\ Height(tip) \in Nat
      /\ Height(ParentOf[cur]) \in Nat /\ Height(cur) = Height(ParentOf[cur]) + 1
      /\ \A c \in AttachedIn(M) : Height(c) \in Nat /\ Height(c) <= Height(tip)
  BY <1>2, BranchType, BranchStep DEF FarthestIn, AttachedIn
<1>7. TypesOK'
  BY <1>1, <1>2, <1>3 DEF TypesOK, Steps
<1>8. BranchesOK'
  BY <1>1, <1>2 DEF BranchesOK
<1>9. TreeOK'
  BY <1>1, <1>2, <1>4, <1>5 DEF TreeOK, Known
<1>10. pc' = "idle" => tip \in FarthestIn(M \cup {cur})
  <2>1. SUFFICES ASSUME pc' = "idle" PROVE tip \in FarthestIn(M \cup {cur})
    OBVIOUS
  <2>2. Height(cur) <= Height(tip)
    BY <1>1, <1>6, <2>1 DEF next
  <2>3. \A c \in AttachedIn(M \cup {cur}) : Height(c) <= Height(tip)
    BY <1>5, <1>6, <2>2
  <2>4. tip \in AttachedIn(M \cup {cur})
    BY <1>2, <1>5
  <2> QED  BY <2>3, <2>4 DEF FarthestIn
<1>11. pc' \in {"commit", "undo"} /\ cur \in AttachedIn(M \cup {cur}) => cur \in FarthestIn(M \cup {cur})
  <2>1. SUFFICES ASSUME pc' \in {"commit", "undo"}, cur \in AttachedIn(M \cup {cur})
                 PROVE  cur \in FarthestIn(M \cup {cur})
    OBVIOUS
  <2>2. Height(cur) > Height(tip)
    BY <1>1, <1>6, <2>1 DEF next
  <2>3. \A c \in AttachedIn(M \cup {cur}) : Height(c) <= Height(cur)
    BY <1>5, <1>6, <2>2
  <2> QED  BY <2>1, <2>3 DEF FarthestIn
<1>12. pc' = "commit" => ParentOf[cur] = tip /\ cur \in AttachedIn(M \cup {cur})
  BY <1>1, <1>2, <1>5 DEF next
<1>13. AimOK'
  BY <1>1, <1>2, <1>3, <1>4, <1>10, <1>11, <1>12 DEF AimOK, Resting
<1> QED  BY <1>7, <1>8, <1>9, <1>13

(* A step that leaves the index alone, and nearly everything else. *)
LEMMA HighQuiet ==
  ASSUME HighInv, UNCHANGED <<blockIdxMap, applied, tip, startTip, orphaned>>,
         durable' \in {durable, applied}, pc \in Steps \ {"down"},
         cur' \in Node, pc' \in Steps,
         pc' \in {"record", "commit"} => FALSE,
         pc' \in Resting => tip \in FarthestNodes,
         pc' \in {"undo", "parse"} => (cur' \in Attached => cur' \in FarthestNodes)
  PROVE  HighInv'
<1> USE DEF HighInv
<1>1. DOMAIN blockIdxMap \subseteq Block /\ pc # "down"
  BY DEF TypesOK
<1>2. /\ Attached' = Attached /\ FarthestNodes' = FarthestNodes
      /\ \A x : Known(x)' = Known(x) /\ Children(x)' = Children(x)
  BY <1>1, SameIndex
<1>3. TypesOK'
  BY <1>1 DEF TypesOK
<1>4. BranchesOK' /\ TreeOK'
  BY <1>1, <1>2 DEF BranchesOK, TreeOK
<1>5. AimOK'
  BY <1>2 DEF AimOK
<1> QED  BY <1>3, <1>4, <1>5

(* A block is applied on its parent; what was read was another one only if *)
(* a power failure took a block.                                           *)
LEMMA HighCommit ==
  ASSUME HighInv, pc # "down", NEW b \in Block, ParentOf[b] = tip, b \in Attached,
         DOMAIN blockIdxMap' = DOMAIN blockIdxMap,
         NEW read, orphaned = {} => read = b,
         NEW step \in {"sync", "parse"}, CommitBlockTxs(read, b, step),
         UNCHANGED <<durable, cur, startTip, orphaned>>,
         step = "sync" => b \in FarthestNodes,
         step = "parse" => pc = "parse"
  PROVE  HighInv'
<1> USE DEF HighInv
<1>1. DOMAIN blockIdxMap \subseteq Block
  BY DEF TypesOK
<1>2. Attached' = Attached /\ FarthestNodes' = FarthestNodes
  BY <1>1, AttachedNow, AttachedNext
<1>3. b \in Node /\ Branch[b] = Append(Branch[tip], b)
  BY BranchStep, BranchIs
<1>4. CASE Len(applied) + 1 # Height(b)
  <2>1. pc' = "down" /\ UNCHANGED <<applied, tip>>
    BY <1>4 DEF CommitBlockTxs, Panic
  <2>2. TypesOK'
    BY <2>1 DEF TypesOK, Steps
  <2>3. BranchesOK' /\ TreeOK' /\ AimOK'
    BY <2>1 DEF BranchesOK, TreeOK, AimOK, Resting
  <2> QED  BY <2>2, <2>3
<1>5. CASE Len(applied) + 1 = Height(b)
  <2>1. applied' = Append(applied, read) /\ tip' = b /\ pc' = step
    BY <1>5 DEF CommitBlockTxs, GoOn
  <2>2. orphaned = {} => applied' = Branch[b]
    BY <1>3, <2>1 DEF BranchesOK
  <2>3. TypesOK'
    BY <1>3, <2>1 DEF TypesOK, Steps
  <2>4. BranchesOK'
    BY <1>3, <2>1, <2>2 DEF BranchesOK
  <2>5. TreeOK' /\ AimOK'
    BY <1>2, <2>1 DEF TreeOK, AimOK, Resting
  <2> QED  BY <2>3, <2>4, <2>5
<1> QED  BY <1>4, <1>5

(* What was appended last goes first. *)
LEMMA FrontOfAppend ==
  ASSUME NEW S, NEW s \in Seq(S), NEW x \in S
  PROVE  Front(Append(s, x)) = s
<1>1. /\ Append(s, x) \in Seq(S) /\ Len(Append(s, x)) = Len(s) + 1 /\ Len(s) \in Nat
      /\ \A i \in 1..Len(s) : Append(s, x)[i] = s[i]
  BY AppendProperties, LenProperties
<1>2. Front(Append(s, x)) = SubSeq(Append(s, x), 1, Len(s))
  BY <1>1 DEF Front
<1>3. SubSeq(Append(s, x), 1, Len(s)) = [i \in 1..Len(s) |-> s[i]]
  BY <1>1
<1>4. s = [i \in 1..Len(s) |-> s[i]]
  BY LenProperties
<1> QED  BY <1>2, <1>3, <1>4

(* A block of the tip's is undone. *)
LEMMA HighUndo ==
  ASSUME HighInv, pc \in {"undo", "start"}, UndoTip(pc), tip # Genesis, UNCHANGED startTip
  PROVE  HighInv'
<1> USE DEF HighInv
<1>1. /\ DOMAIN blockIdxMap \subseteq Block /\ tip \in Block /\ pc # "down" /\ cur \in Node
      /\ UNCHANGED <<blockIdxMap, durable, cur, orphaned>>
  BY DEF TypesOK, UndoTip, blockVars, mapVars, blockHist, Node
<1>2. /\ Attached' = Attached /\ FarthestNodes' = FarthestNodes
      /\ \A x : Known(x)' = Known(x) /\ Children(x)' = Children(x)
  BY <1>1, SameIndex
<1> DEFINE p == ParentOf[tip]
<1>3. p \in Node /\ Parent(tip) = p
  BY <1>1, BranchStep
<1>4. ASSUME orphaned = {} PROVE Len(applied) = Height(tip) /\ Front(applied) = Branch[p]
  <2> DEFINE s == Branch[p]
  <2>1. s \in Seq(Block) /\ applied = Append(s, tip) /\ applied = Branch[tip]
    BY <1>1, <1>3, <1>4, BranchIs, BranchType DEF BranchesOK
  <2> HIDE DEF s
  <2>2. Front(Append(s, tip)) = s
    BY <1>1, <2>1, FrontOfAppend
  <2> QED  BY <2>1, <2>2 DEF s, Height
<1>5. p \in Attached
  BY <1>1, <1>2, AttachedNow, AttachedIs DEF TreeOK
<1> HIDE DEF p
<1>6. CASE Len(applied) # Height(tip) \/ Len(applied) = 1
  <2>1. /\ pc' = "down" /\ tip' = tip
        /\ Len(applied) = Height(tip) => applied' = <<>>
        /\ Len(applied) # Height(tip) => applied' = applied
    BY <1>6 DEF UndoTip, Panic
  <2>2. TypesOK' /\ TreeOK' /\ AimOK'
    BY <1>1, <2>1 DEF TypesOK, TreeOK, AimOK, Steps, Resting
  <2>3. ASSUME orphaned = {} PROVE \E x \in Node : applied' = Branch[x]
    BY <1>4, <2>1, <2>3, BranchIs, BranchStep
  <2>4. BranchesOK'
    BY <1>1, <2>1, <2>3 DEF BranchesOK
  <2> QED  BY <2>2, <2>4
<1>7. CASE Len(applied) = Height(tip) /\ Len(applied) # 1
  <2>1. pc' = pc /\ tip' = p /\ applied' = Front(applied)
    BY <1>3, <1>7 DEF UndoTip, GoOn
  <2>2. TypesOK'
    BY <1>1, <1>3, <2>1 DEF TypesOK
  <2>3. BranchesOK'
    BY <1>1, <1>3, <1>4, <2>1 DEF BranchesOK
  <2>4. TreeOK'
    BY <1>1, <1>2, <1>5, <2>1 DEF TreeOK
  <2>5. AimOK'
    BY <1>1, <1>2, <2>1 DEF AimOK, Resting
  <2> QED  BY <2>2, <2>3, <2>4, <2>5
<1> QED  BY <1>6, <1>7

(* The next block ParseTillBlock takes is one above the tip. *)
LEMMA NextIs ==
  ASSUME HighInv, Parsing, NextPanic = "", Known(Nxt)
  PROVE  /\ Nxt \in Block /\ Nxt \in DOMAIN blockIdxMap /\ ParentOf[Nxt] = tip
         /\ Nxt \in Attached
         /\ Below(tip, cur) /\ cur \in Attached => Below(Nxt, cur)
<1> DEFINE M == DOMAIN blockIdxMap
<1>1. /\ M \in SUBSET Block /\ IsFiniteSet(M) /\ tip \in Node /\ cur \in Node
      /\ tip \in AttachedIn(M)
      /\ pc = "parse" /\ tip # cur
  BY AttachedNow DEF HighInv, TypesOK, TreeOK, Parsing
<1>2. /\ ~ (Height(cur) <= Height(tip)) /\ Children(tip) # {}
      /\ ~ (Cardinality(Children(tip)) > 1 /\ ~Below(tip, cur))
  BY DEF NextPanic
<1>3. IsFiniteSet(Children(tip)) /\ Children(tip) \subseteq M
      /\ Cardinality(Children(tip)) \in Nat /\ Cardinality(Children(tip)) # 0
  BY <1>1, <1>2, FS_Subset, FS_CardinalityType, FS_EmptySet DEF Children
<1>4. CASE Cardinality(Children(tip)) = 1
  <2>1. PICK c : Children(tip) = {c}
    BY <1>3, <1>4, FS_Singleton
  <2>2. Nxt = c
    BY <1>4, <2>1 DEF Nxt
  <2>3. Nxt \in M /\ ParentOf[Nxt] = tip
    BY <2>1, <2>2 DEF Children
  <2>4. ASSUME Below(tip, cur), cur \in Attached PROVE Below(Nxt, cur)
    <3> DEFINE n == Branch[cur][Height(tip) + 1]
    <3>1. n \in Block /\ ParentOf[n] = tip /\ Below(n, cur)
      BY <1>1, <2>4, BelowNext
    <3> HIDE DEF n
    <3>2. n \in AttachedIn(M)
      BY <1>1, <2>4, <3>1, AttachedNow, AttachedIs, ZenonT(60) DEF Node
    <3>3. n \in Children(tip)
      BY <1>1, <3>1, <3>2, AttachedIs DEF Children
    <3> QED  BY <2>1, <2>2, <3>1, <3>3
  <2> QED  BY <1>1, <2>3, <2>4, AttachedNow, AttachedIs
<1>5. CASE Cardinality(Children(tip)) # 1
  <2>1. Below(tip, cur)
    <3> DEFINE n == Cardinality(Children(tip))
    <3>1. n \in Nat /\ n # 0 /\ n # 1
      BY <1>3, <1>5
    <3>2. ~ (n > 1 /\ ~Below(tip, cur))
      BY <1>2
    <3> HIDE DEF n
    <3>3. n > 1
      BY <3>1, MoreThanOne
    <3> QED  BY <3>2, <3>3
  <2>2. Nxt = Branch[cur][Height(tip) + 1]
    BY <1>5 DEF Nxt
  <2>3. Nxt \in Block /\ ParentOf[Nxt] = tip /\ Below(Nxt, cur)
    BY <1>1, <2>1, <2>2, BelowNext
  <2>4. Nxt \in M
    BY <2>3, BlockAssumption DEF Known
  <2> QED  BY <1>1, <2>3, <2>4, AttachedNow, AttachedIs
<1> QED  BY <1>4, <1>5

(* A block leaves the index, with all that hung below it: the tip was      *)
(* not among that.                                                         *)
LEMMA HighDelete ==
  ASSUME HighInv, DeleteBranch
  PROVE  HighInv'
<1> USE DEF HighInv
<1> DEFINE M == DOMAIN blockIdxMap
<1>1. /\ Parsing /\ NextPanic = "" /\ Known(Nxt) /\ pc' = "retarget"
      /\ DOMAIN blockIdxMap' = M \ {Nxt}
      /\ UNCHANGED <<applied, durable, tip, cur, startTip, orphaned>>
  BY DEF DeleteBranch, Fetched, InvalidBlock, GoOn
<1>2. Nxt \in Block /\ ParentOf[Nxt] = tip
  BY <1>1, NextIs
<1>3. /\ M \in SUBSET Block /\ IsFiniteSet(M) /\ tip \in Node /\ tip \in AttachedIn(M)
      /\ pc # "down"
  BY <1>1, AttachedNow DEF TypesOK, TreeOK, Parsing
<1>4. tip \in AttachedIn(M \ {Nxt})
  BY <1>2, <1>3, BranchSetStep DEF AttachedIn
<1>5. IsFiniteSet(M \ {Nxt})
  BY <1>3, FS_RemoveElement
<1>6. TypesOK'
  BY <1>1, <1>3, <1>5 DEF TypesOK, Steps
<1>7. BranchesOK'
  BY <1>1, <1>3 DEF BranchesOK
<1>8. TreeOK'
  <2>1. Attached' = AttachedIn(M \ {Nxt})
    BY <1>1, <1>3, AttachedNext
  <2> QED  BY <1>1, <1>4, <2>1 DEF TreeOK
<1>9. AimOK'
  BY <1>1 DEF AimOK, Resting
<1> QED  BY <1>6, <1>7, <1>8, <1>9

(* The end of the program leaves what is in the files and the records of   *)
(* a branch, synced or not.                                                *)
LEMMA HighGoDown ==
  ASSUME HighInv, Crash \/ PowerFailure
  PROVE  HighInv'
<1>1. /\ pc' = "down" /\ tip' = Genesis /\ cur' = Genesis
      /\ DOMAIN blockIdxMap' = {}
  BY DEF Crash, PowerFailure, GoDown, NoMap
<1>2. applied' \in {applied, durable} /\ durable' \in {applied, durable}
  BY DEF Crash, PowerFailure
<1>3. orphaned \subseteq orphaned'
  BY DEF Crash, PowerFailure, LoseWrites
<1>4. TypesOK'
  BY <1>1, BranchStep, FS_EmptySet DEF HighInv, TypesOK, Steps
<1>5. BranchesOK'
  <2>1. SUFFICES ASSUME orphaned' = {}
                 PROVE  (\E x \in Node : applied' = Branch[x]) /\ (\E x \in Node : durable' = Branch[x])
    BY <1>1 DEF BranchesOK
  <2>2. (\E x \in Node : applied = Branch[x]) /\ (\E x \in Node : durable = Branch[x])
    BY <1>3, <2>1 DEF HighInv, BranchesOK
  <2> QED  BY <1>2, <2>2
<1>6. TreeOK' /\ AimOK'
  BY <1>1 DEF TreeOK, AimOK, Resting
<1> QED  BY <1>4, <1>5, <1>6 DEF HighInv

(* The last record tells which branch it is. *)
LEMMA LastBlockIs ==
  ASSUME NEW x \in Node, applied = Branch[x]
  PROVE  LastBlock = x
<1>1. /\ Branch[x] \in Seq(Block) /\ Height(x) \in Nat /\ (x = Genesis <=> Height(x) = 0)
  BY BranchType
<1>2. CASE x = Genesis
  BY <1>2, BranchIs DEF LastBlock
<1>3. CASE x # Genesis
  <2>1. Branch[x][Height(x)] = x
    BY <1>3, BranchStep DEF Node
  <2>2. Branch[x] # <<>>
    BY <1>1, <1>3, EmptySeq DEF Height
  <2> QED  BY <2>1, <2>2 DEF LastBlock, Last, Height
<1> QED  BY <1>2, <1>3

(* When every loaded block has its parent, all of them are attached. *)
LEMMA LoadedAttached ==
  ASSUME NEW M \in SUBSET Block, \A b \in M : ParentOf[b] \in M \cup {Genesis}
  PROVE  M \cup {Genesis} \subseteq AttachedIn(M)
<1> DEFINE G == {b \in Node : b \in M \cup {Genesis} => b \in AttachedIn(M)}
<1>1. Genesis \in G
  BY AttachedIs, BranchStep
<1>2. ASSUME NEW b \in Block, ParentOf[b] \in G PROVE b \in G
  BY <1>2, AttachedIs, BranchStep
<1>3. Node \subseteq G
  BY <1>1, <1>2, BlockInduction
<1> QED  BY <1>3 DEF Node

(* A start loads finitely many blocks. *)
LEMMA LoadedFinite ==
  ASSUME Describes(idxFile, dataFile)
  PROVE  Loaded \subseteq Block /\ IsFiniteSet(Loaded)
<1> DEFINE f == [i \in Loadable |-> idxFile[i].hash]
<1>1. Len(idxFile) \in Nat /\ idxFile \in Seq(IndexRecord) /\ DOMAIN idxFile = 1..Len(idxFile)
  BY LenProperties DEF Describes
<1>2. Loaded \subseteq Block
  <2>1. \A i \in Loadable : idxFile[i] \in IndexRecord
    BY <1>1 DEF Loadable
  <2>2. \A r \in IndexRecord : r.hash \in Block
    BY DEF IndexRecord
  <2> QED  BY <2>1, <2>2 DEF Loaded
<1>3. IsFiniteSet(Loadable)
  <2>1. IsFiniteSet(1..Len(idxFile))
    BY <1>1, FS_Interval
  <2>2. Loadable \subseteq 1..Len(idxFile)
    BY <1>1 DEF Loadable
  <2> QED  BY <2>1, <2>2, FS_Subset
<1>4. f \in Surjection(Loadable, Loaded)
  BY DEF Surjection, Loaded
<1>5. IsFiniteSet(Loaded)
  BY <1>3, <1>4, FS_Surjection
<1> QED  BY <1>2, <1>5

(* A start takes its tip from the unspent database; it goes on only when    *)
(* this block was loaded and every loaded block has its parent.             *)
LEMMA HighStart ==
  ASSUME HighInv, PosInv, Start
  PROVE  HighInv'
<1> USE DEF HighInv
<1>1. /\ DOMAIN blockIdxMap' = Loaded /\ tip' = LastBlock /\ cur' = Genesis
      /\ startTip' = LastBlock
      /\ UNCHANGED <<applied, durable, orphaned>>
      /\ pc' = IF LoadPanic = "" THEN "start" ELSE "down"
  BY DEF Start, LoadIndex, blockHist
<1>2. Loaded \subseteq Block /\ IsFiniteSet(Loaded)
  BY LoadedFinite DEF PosInv
<1>3. ASSUME LoadPanic = ""
      PROVE  /\ \A b \in Loaded : ParentOf[b] \in Loaded \cup {Genesis}
             /\ LastBlock \in Loaded \cup {Genesis} /\ LastBlock \in Node
  BY <1>2, <1>3 DEF LoadPanic, Node
<1>4. TypesOK'
  BY <1>1, <1>2, <1>3, BranchStep DEF TypesOK, Steps
<1>5. BranchesOK'
  <2>1. SUFFICES ASSUME orphaned = {}
                 PROVE  /\ \E x \in Node : applied = Branch[x]
                        /\ \E x \in Node : durable = Branch[x]
                        /\ applied = Branch[LastBlock]
    BY <1>1 DEF BranchesOK
  <2>2. PICK x \in Node : applied = Branch[x]
    BY <2>1 DEF BranchesOK
  <2> QED  BY <2>1, <2>2, LastBlockIs DEF BranchesOK
<1>6. TreeOK'
  <2>1. SUFFICES ASSUME pc' # "down" PROVE LastBlock \in Attached'
    BY <1>1 DEF TreeOK
  <2>2. LoadPanic = ""
    BY <1>1, <2>1
  <2>3. Attached' = AttachedIn(Loaded)
    BY <1>1, <1>2, AttachedNext
  <2> QED  BY <1>2, <1>3, <2>2, <2>3, LoadedAttached
<1>7. AimOK'
  BY <1>1 DEF AimOK, Resting
<1> QED  BY <1>4, <1>5, <1>6, <1>7

(* A farthest block is aimed at, or is not higher than the tip. *)
LEMMA HighStartParse ==
  ASSUME HighInv, StartParse
  PROVE  HighInv'
<1> USE DEF HighInv
<1>1. PICK end \in FarthestNodes :
        IF Height(end) > Height(tip) THEN cur' = end /\ GoOn("parse")
                                     ELSE UNCHANGED cur /\ GoOn("idle")
  BY DEF StartParse
<1>2. /\ UNCHANGED <<blockIdxMap, applied, durable, tip, startTip, orphaned>> /\ pc = "start"
      /\ DOMAIN blockIdxMap \subseteq Block /\ tip \in Attached /\ cur \in Node /\ tip \in Node
  BY <1>1 DEF StartParse, blockVars, mapVars, blockHist, GoOn, TypesOK, TreeOK
<1>3. /\ end \in Node /\ \A c \in Attached : Height(c) <= Height(end)
      /\ \A c \in Attached : Height(c) \in Nat
  BY <1>2, AttachedNow, AttachedIs, BranchType DEF FarthestNodes
<1>4. CASE Height(end) > Height(tip)
  <2>1. cur' = end /\ pc' = "parse"
    BY <1>1, <1>4 DEF GoOn
  <2>2. Attached' = Attached /\ FarthestNodes' = FarthestNodes
    BY <1>2, SameIndex
  <2> QED  BY <1>2, <1>3, <2>1, <2>2, HighQuiet DEF Steps, Resting
<1>5. CASE ~ (Height(end) > Height(tip))
  <2>1. cur' = cur /\ pc' = "idle"
    BY <1>1, <1>5 DEF GoOn
  <2>2. Height(end) <= Height(tip)
    BY <1>2, <1>3, <1>5, BranchType
  <2>3. \A c \in Attached : Height(c) <= Height(tip)
    BY <1>2, <1>3, <2>2, BranchType
  <2>4. tip \in FarthestNodes
    BY <1>2, <2>3 DEF FarthestNodes
  <2> QED  BY <1>2, <2>1, <2>4, HighQuiet DEF Steps
<1> QED  BY <1>4, <1>5

(* ParseTillBlock applies what it reads for the next block. *)
LEMMA HighParseBlock ==
  ASSUME HighInv, PosInv, ParseBlock
  PROVE  HighInv'
<1>1. /\ Parsing /\ NextPanic = "" /\ Known(Nxt) /\ CommitBlockTxs(GetBlock(Nxt), Nxt, "parse")
      /\ UNCHANGED <<durable, cur, startTip, orphaned>>
      /\ DOMAIN blockIdxMap' = DOMAIN blockIdxMap
  BY DEF ParseBlock, Fetched, TrustBlock, CommitBlockTxs, GoOn, Panic, blockVars, mapVars, blockHist
<1>2. /\ Nxt \in Block /\ ParentOf[Nxt] = tip /\ Nxt \in Attached /\ pc = "parse"
      /\ orphaned = {} => GetBlock(Nxt) = Nxt
  BY <1>1, NextIs, ReadsIt DEF Parsing
<1> QED  BY <1>1, <1>2, HighCommit

(* The tip was verified and undone, so that it is not the genesis block. *)
LEMMA NotBelow ==
  ASSUME HighInv, ~Below(tip, cur) \/ Height(tip) > 0
  PROVE  tip # Genesis
BY BranchStep DEF Below

(* One case for each action of Restart. *)
LEMMA HighStep ==
  ASSUME HighInv, PosInv, [Next]_vars
  PROVE  HighInv'
<1> DEFINE D == DOMAIN blockIdxMap
<1>0. /\ cur \in Node /\ pc \in Steps /\ D \subseteq Block
      /\ pc # "down" => tip \in Attached /\ tip \in Node
  BY DEF HighInv, TypesOK, TreeOK
<1>1. CASE \E b \in Block : AddBlock(b)
  BY <1>1, HighAddBlock
<1>2. CASE AddRecord
  BY <1>2, HighAddRecord
<1>3. CASE CommitTip
  <2>1. /\ pc = "commit" /\ CommitBlockTxs(cur, cur, "sync")
        /\ UNCHANGED <<blockIdxMap, durable, cur, startTip, orphaned>>
    BY <1>3 DEF CommitTip, CommitBlockTxs, GoOn, Panic, blockVars, mapVars, blockHist
  <2>2. cur \in Block /\ ParentOf[cur] = tip /\ cur \in FarthestNodes /\ cur \in Attached
    BY <2>1 DEF HighInv, AimOK, FarthestNodes
  <2> QED  BY <2>1, <2>2, HighCommit
<1>4. CASE Sync \/ SyncBlocks \/ SyncUnspent
  <2>1. /\ pc \in Resting /\ pc' \in Resting /\ durable' \in {durable, applied}
        /\ UNCHANGED <<blockIdxMap, applied, tip, cur, startTip, orphaned>>
    BY <1>4 DEF Sync, SyncBlocks, SyncUnspent, SyncIndex, SyncData, GoOn, blockVars, mapVars,
                blockHist, Resting
  <2>2. tip \in FarthestNodes
    BY <2>1 DEF HighInv, AimOK
  <2> QED  BY <1>0, <2>1, <2>2, HighQuiet DEF Steps, Resting
<1>5. CASE MoveUndo
  <2>1. pc = "undo" /\ UndoTip(pc) /\ ~Below(tip, cur) /\ UNCHANGED startTip
    BY <1>5 DEF MoveUndo, UndoTip, GoOn, Panic
  <2> QED  BY <2>1, NotBelow, HighUndo
<1>6. CASE MoveParse
  <2>1. /\ pc = "undo" /\ pc' = "parse"
        /\ UNCHANGED <<blockIdxMap, applied, durable, tip, cur, startTip, orphaned>>
    BY <1>6 DEF MoveParse, GoOn, blockVars, mapVars, blockHist
  <2>2. cur \in Attached => cur \in FarthestNodes
    BY <2>1 DEF HighInv, AimOK
  <2>3. Attached' = Attached /\ FarthestNodes' = FarthestNodes
    BY <1>0, <2>1, SameIndex
  <2> QED  BY <1>0, <2>1, <2>2, <2>3, HighQuiet DEF Steps, Resting
<1>7. CASE ParseBlock
  BY <1>7, HighParseBlock
<1>8. CASE DeleteBranch
  BY <1>8, HighDelete
<1>9. CASE Retarget
  <2>1. /\ pc = "retarget" /\ pc' = "undo" /\ durable' = applied /\ cur' \in FarthestNodes
        /\ UNCHANGED <<blockIdxMap, applied, tip, startTip, orphaned>>
    BY <1>9 DEF Retarget, GoOn, blockVars, mapVars, blockHist
  <2>2. cur' \in Node
    BY <1>0, <2>1, AttachedNow, AttachedIs DEF FarthestNodes
  <2>3. FarthestNodes' = FarthestNodes
    BY <1>0, <2>1, SameIndex
  <2> QED  BY <1>0, <2>1, <2>2, <2>3, HighQuiet DEF Steps, Resting
<1>10. CASE ParseReturns
  <2>1. /\ pc = "parse" /\ pc' = "idle" /\ durable' = applied /\ tip = cur
        /\ UNCHANGED <<blockIdxMap, applied, tip, cur, startTip, orphaned>>
    BY <1>10 DEF ParseReturns, GoOn, blockVars, mapVars, blockHist
  <2>2. tip \in FarthestNodes
    BY <1>0, <2>1 DEF HighInv, AimOK
  <2> QED  BY <1>0, <2>1, <2>2, HighQuiet DEF Steps, Resting
<1>11. CASE ParsePanics
  <2>1. /\ pc = "parse" /\ pc' = "down"
        /\ UNCHANGED <<blockIdxMap, applied, durable, tip, cur, startTip, orphaned>>
    BY <1>11 DEF ParsePanics, Panic, Parsing, blockVars, mapVars, blockHist
  <2> QED  BY <1>0, <2>1, HighQuiet DEF Steps, Resting
<1>12. CASE Crash \/ PowerFailure
  BY <1>12, HighGoDown
<1>13. CASE Start
  BY <1>13, HighStart
<1>14. CASE StartUndo
  <2>1. pc = "start" /\ UndoTip(pc) /\ Height(tip) > 0 /\ UNCHANGED startTip
    BY <1>14 DEF StartUndo, UndoTip, GoOn, Panic
  <2> QED  BY <2>1, NotBelow, HighUndo
<1>15. CASE StartParse
  BY <1>15, HighStartParse
<1>16. CASE UNCHANGED vars
  <2>1. /\ UNCHANGED <<blockIdxMap, applied, durable, tip, cur, startTip, pc, orphaned>>
    BY <1>16 DEF vars, chainVars, blockVars, mapVars, blockHist
  <2>2. /\ Attached' = Attached /\ FarthestNodes' = FarthestNodes
        /\ \A b : Known(b)' = Known(b) /\ Children(b)' = Children(b)
    BY <1>0, <2>1, SameIndex
  <2>3. TypesOK' /\ BranchesOK'
    BY <2>1 DEF HighInv, TypesOK, BranchesOK
  <2>4. TreeOK' /\ AimOK'
    BY <2>1, <2>2 DEF HighInv, TreeOK, AimOK
  <2> QED  BY <2>3, <2>4 DEF HighInv
<1> QED
  BY <1>1, <1>2, <1>3, <1>4, <1>5, <1>6, <1>7, <1>8, <1>9, <1>10, <1>11, <1>12,
     <1>13, <1>14, <1>15, <1>16 DEF Next

(* The branch in the database, the tree in memory and the block the chain  *)
(* goes to fit together through any failures and starts: HighInv.          *)
THEOREM RestartBranches == Spec => []HighInv
<1>1. Init => HighInv
  BY HighInit
<1>2. PosInv /\ HighInv /\ [Next]_vars => HighInv'
  BY HighStep
<1> QED  BY <1>1, <1>2, RestartInvariant, PTL DEF Spec

(* A program that runs, after whatever ended it before and at whichever     *)
(* write, has the branch of its tip in the unspent database, unless a power *)
(* failure left a record without its block, and when it rests no branch of  *)
(* its tree is longer.                                                      *)
THEOREM StartsHighest == Spec => []StartsAtTheHighest
<1>1. HighInv => StartsAtTheHighest
  BY DEF HighInv, BranchesOK, AimOK, Resting, StartsAtTheHighest
<1> QED  BY <1>1, RestartBranches, PTL

(* Where two branches part. *)
LEMMA ForkIs ==
  ASSUME NEW a \in Node, NEW b \in Node
  PROVE  /\ Fork(a, b) \in Nat /\ Fork(a, b) <= Height(a) /\ Fork(a, b) <= Height(b)
         /\ \A j \in 1..Fork(a, b) : Branch[a][j] = Branch[b][j]
<1> DEFINE m == Min({Height(a), Height(b)})
           S == {h \in 0..m : SubSeq(Branch[a], 1, h) = SubSeq(Branch[b], 1, h)}
<1>1. Height(a) \in Nat /\ Height(b) \in Nat /\ Branch[a] \in Seq(Block) /\ Branch[b] \in Seq(Block)
  BY BranchType
<1>2. m \in Nat /\ m <= Height(a) /\ m <= Height(b)
  <2> DEFINE T == {Height(a), Height(b)}
  <2>1. \E x \in T : \A y \in T : x <= y
    BY <1>1
  <2>2. m \in T /\ \A y \in T : m <= y
    BY <2>1 DEF Min
  <2> QED  BY <1>1, <2>2
<1> HIDE DEF m
<1>3. 0 \in S
  BY <1>1, <1>2
<1>4. \E x \in S : \A y \in S : x >= y
  <2>1. CASE S \ {0} = {}
    <3>1. \A y \in S : 0 >= y
      BY <2>1
    <3> QED  BY <1>3, <3>1
  <2>2. CASE S \ {0} # {}
    <3> DEFINE T == S \ {0}
    <3>1. T \subseteq 1..m /\ T # {}
      BY <1>2, <2>2
    <3> HIDE DEF T
    <3>2. PICK x \in T : \A y \in T : y <= x
      BY <1>2, <3>1, LastPosition
    <3>3. x \in S /\ \A y \in S : x >= y
      <4>1. x \in 1..m
        BY <3>1
      <4>2. \A y \in S : y = 0 \/ y \in T
        BY DEF T
      <4>3. \A y \in T : y \in 1..m
        BY <3>1
      <4> HIDE DEF S
      <4>4. \A y \in S : x >= y
        <5> TAKE y \in S
        <5>1. CASE y = 0
          BY <1>2, <4>1, <5>1
        <5>2. CASE y \in T
          BY <1>2, <3>2, <4>1, <4>3, <5>2
        <5> QED  BY <4>2, <5>1, <5>2
      <4>5. x \in S
        BY DEF T
      <4> QED  BY <4>4, <4>5
    <3> QED  BY <3>3
  <2> QED  BY <2>1, <2>2
<1>5. Fork(a, b) \in S
  <2>1. Fork(a, b) = CHOOSE x \in S : \A y \in S : x >= y
    BY DEF Fork, m, Max
  <2> HIDE DEF S
  <2> QED  BY <1>4, <2>1
<1> DEFINE f == Fork(a, b)
<1>6. f \in 0..m /\ SubSeq(Branch[a], 1, f) = SubSeq(Branch[b], 1, f)
  BY <1>5
<1> HIDE DEF f
<1>7. f \in Nat /\ f <= Height(a) /\ f <= Height(b)
  BY <1>1, <1>2, <1>6
<1>8. ASSUME NEW j \in 1..f PROVE Branch[a][j] = Branch[b][j]
  <2>1. /\ SubSeq(Branch[a], 1, f) = [i \in 1..f |-> Branch[a][i]]
        /\ SubSeq(Branch[b], 1, f) = [i \in 1..f |-> Branch[b][i]]
    BY <1>1, <1>7
  <2> QED  BY <1>6, <2>1
<1> QED  BY <1>7, <1>8 DEF f

(* A tip that is below the place where the start-up tip and the aim part   *)
(* is below the aim.                                                       *)
LEMMA BelowFork ==
  ASSUME NEW t \in Node, NEW s \in Node, NEW e \in Node, Below(t, s),
         Height(t) <= Fork(s, e)
  PROVE  Below(t, e)
<1>1. /\ Fork(s, e) \in Nat /\ Fork(s, e) <= Height(e)
      /\ \A j \in 1..Fork(s, e) : Branch[s][j] = Branch[e][j]
  BY ForkIs
<1>2. Height(t) \in Nat /\ Height(e) \in Nat /\ \A j \in 1..Height(t) : Branch[t][j] = Branch[s][j]
  BY BelowIs, BranchType
<1>3. Height(t) <= Height(e) /\ \A j \in 1..Height(t) : Branch[t][j] = Branch[e][j]
  BY <1>1, <1>2
<1> QED  BY <1>3, BelowIs

(* On the way to a block of the tree ParseTillBlock finds the next one. *)
LEMMA NextFound ==
  ASSUME HighInv, pc # "down", Below(tip, cur), tip # cur, cur \in Attached
  PROVE  NextPanic = ""
<1> DEFINE n == Branch[cur][Height(tip) + 1]
<1>1. tip \in Node /\ cur \in Node /\ DOMAIN blockIdxMap \subseteq Block
  BY DEF HighInv, TypesOK
<1>2. n \in Block /\ ParentOf[n] = tip /\ Below(n, cur) /\ Height(tip) < Height(cur)
  BY <1>1, BelowNext
<1>3. Height(tip) \in Nat /\ Height(cur) \in Nat
  BY <1>1, BranchType
<1> HIDE DEF n
<1>4. n \in Children(tip)
  BY <1>1, <1>2, AttachedNow, AttachedIs DEF Children, Node
<1>5. ~ (Height(cur) <= Height(tip))
  BY <1>2, <1>3
<1> QED  BY <1>4, <1>5 DEF NextPanic

(* As long as no power failure took a block, there are as many records in  *)
(* the unspent database as the tip is high.                                *)
LEMMA HeightsAgree ==
  ASSUME HighInv, orphaned = {}, pc # "down"
  PROVE  /\ Len(applied) = Height(tip)
         /\ \A b \in Block : ParentOf[b] = tip => Len(applied) + 1 = Height(b)
<1>1. Len(applied) = Height(tip)
  BY DEF HighInv, BranchesOK, Height
<1> QED  BY <1>1, BranchStep

(* So neither the commit nor the undo finds another height than it expects. *)
LEMMA NotUnexpected ==
  ASSUME HighInv, WayOK, pc # "down", UNCHANGED orphaned,
         \/ \E b \in Block : \E read, step :
              ParentOf[b] = tip /\ CommitBlockTxs(read, b, step) /\ step # "down"
         \/ \E step : UndoTip(step) /\ step # "down"
  PROVE  /\ panicked' = "Unexpected height" => orphaned' # {}
         /\ panicked' \in {"", "Unexpected height", "Parent data not found"}
         /\ panicked' # "" => pc' = "down"
<1>1. panicked = ""
  BY DEF WayOK
<1>2. CASE \E b \in Block : \E read, step :
             ParentOf[b] = tip /\ CommitBlockTxs(read, b, step) /\ step # "down"
  <2>1. PICK b \in Block : \E read, step :
               ParentOf[b] = tip /\ CommitBlockTxs(read, b, step) /\ step # "down"
    BY <1>2
  <2>2. PICK read, step : ParentOf[b] = tip /\ CommitBlockTxs(read, b, step)
    BY <2>1
  <2> QED  BY <1>1, <2>2, HeightsAgree DEF CommitBlockTxs, GoOn, Panic
<1>3. CASE \E step : UndoTip(step) /\ step # "down"
  <2>1. PICK step : UndoTip(step)
    BY <1>3
  <2> QED  BY <1>1, <2>1, HeightsAgree DEF UndoTip, GoOn, Panic
<1> QED  BY <1>2, <1>3

(* At first there was no panic. *)
LEMMA WayInit == Init => WayOK
BY DEF Init, WayOK, PathPanics

(* A step of a running program that ends neither it nor the start. *)
LEMMA WayQuiet ==
  ASSUME WayOK, pc # "down",
         panicked' \in {panicked, "", "Unexpected height", "Parent data not found"},
         panicked' # "" => pc' = "down", panicked' = "Unexpected height" => orphaned' # {},
         pc' \notin {"start", "parse"}
  PROVE  WayOK'
<1>1. panicked = "" /\ panicked' \notin PathPanics
  BY DEF WayOK, PathPanics
<1>2. pc' # "down" => panicked' = ""
  BY <1>1
<1> QED  BY <1>1, <1>2 DEF WayOK

(* At a start all blocks that are undone are still to be undone. *)
LEMMA WayStart ==
  ASSUME HighInv', Start
  PROVE  WayOK'
<1>1. /\ tip' = LastBlock /\ startTip' = LastBlock /\ left' = UndoAtStart
      /\ panicked' = LoadPanic
      /\ pc' = IF LoadPanic = "" THEN "start" ELSE "down"
  BY DEF Start, LoopLength
<1>2. LoadPanic \notin PathPanics /\ LoadPanic # "Unexpected height"
  BY DEF LoadPanic, PathPanics
<1> DEFINE x == LastBlock
<1>3. ASSUME x \in Node
      PROVE  /\ Below(x, x) /\ UndoAtStart \in Nat /\ Height(x) \in Nat
             /\ Height(x) - Height(x) = UndoAtStart - UndoAtStart
  <2> HIDE DEF x
  <2> QED  BY <1>3, BelowIs, BranchType, RestartAssumption
<1> HIDE DEF Height, x
<1>4. pc' # "down" => x \in Node
  BY <1>1 DEF HighInv, TypesOK, x
<1>5. pc' # "down" => /\ Below(tip, startTip)' /\ left' \in Nat
                      /\ (Height(startTip) - Height(tip) = UndoAtStart - left)'
  BY <1>1, <1>3, <1>4 DEF Below, Height, x
<1> QED  BY <1>1, <1>2, <1>5 DEF WayOK

(* Each undone block takes the tip one further below where it started. *)
LEMMA WayStartUndo ==
  ASSUME HighInv, WayOK, StartUndo
  PROVE  WayOK'
<1>1. /\ pc = "start" /\ left > 0 /\ left' = left - 1 /\ UNCHANGED startTip
      /\ tip \in Node /\ startTip \in Node /\ panicked = ""
      /\ Below(tip, startTip) /\ left \in Nat
      /\ Height(startTip) - Height(tip) = UndoAtStart - left
      /\ tip # Genesis
  BY NotBelow DEF StartUndo, UndoTip, Panic, GoOn, HighInv, TypesOK, WayOK
<1> DEFINE p == ParentOf[tip]
<1>2. /\ tip \in Block /\ p \in Node /\ Parent(tip) = p
      /\ Height(p) \in Nat /\ Height(tip) = Height(p) + 1 /\ Height(startTip) \in Nat
  BY <1>1, BranchStep, BranchType DEF Node
<1>3. Below(p, tip)
  <2>1. \A j \in 1..Height(p) : Branch[p][j] = Branch[tip][j]
    BY <1>2, BranchStep
  <2>2. Height(p) <= Height(tip)
    <3> HIDE DEF p, Height
    <3> QED  BY <1>2
  <2> QED  BY <1>2, <1>1, <2>1, <2>2, BelowIs
<1>4. Below(p, startTip)
  BY <1>1, <1>2, <1>3, BelowTrans
<1>5. CASE Len(applied) # Height(tip) \/ Len(applied) = 1
  <2>1. UndoTip("start") /\ UNCHANGED orphaned /\ pc' = "down"
    BY <1>5 DEF StartUndo, UndoTip, Panic, blockVars, blockHist
  <2>2. /\ panicked' = "Unexpected height" => orphaned' # {}
        /\ panicked' \in {"", "Unexpected height", "Parent data not found"}
        /\ panicked' # "" => pc' = "down"
    <3>1. \E step : UndoTip(step) /\ step # "down"
      BY <2>1
    <3> QED  BY <1>1, <2>1, <3>1, NotUnexpected
  <2> QED  BY <1>1, <2>1, <2>2, WayQuiet
<1>6. CASE Len(applied) = Height(tip) /\ Len(applied) # 1
  <2>1. pc' = "start" /\ tip' = p /\ panicked' = ""
    BY <1>1, <1>2, <1>6 DEF StartUndo, UndoTip, GoOn
  <2> DEFINE hs == Height(startTip)  hp == Height(p)  ht == Height(tip)
  <2>2. left' \in Nat /\ hs - hp = UndoAtStart - left'
    <3>1. hs \in Nat /\ hp \in Nat /\ ht = hp + 1 /\ hs - ht = UndoAtStart - left /\ left \in Nat
          /\ left > 0 /\ left' = left - 1 /\ UndoAtStart \in Nat
      BY <1>1, <1>2, RestartAssumption
    <3> HIDE DEF hs, hp, ht
    <3> QED  BY <3>1
  <2>3. Below(tip, startTip)' /\ (Height(startTip) - Height(tip) = UndoAtStart - left)'
    BY <1>1, <1>4, <2>1, <2>2 DEF Below, Height
  <2> QED  BY <2>1, <2>2, <2>3 DEF WayOK, PathPanics
<1> QED  BY <1>5, <1>6

(* After as many as NewChain undoes, the tip is on the way to the aim or    *)
(* the branches part deeper.                                               *)
LEMMA WayStartParse ==
  ASSUME HighInv, WayOK, StartParse
  PROVE  WayOK'
<1>1. PICK end \in FarthestNodes :
        IF Height(end) > Height(tip) THEN cur' = end /\ GoOn("parse")
                                     ELSE UNCHANGED cur /\ GoOn("idle")
  BY DEF StartParse
<1>2. /\ pc = "start" /\ (left = 0 \/ Height(tip) = 0)
      /\ UNCHANGED <<tip, startTip, left>> /\ panicked = "" /\ panicked' = ""
      /\ tip \in Node /\ startTip \in Node /\ end \in Node
      /\ Below(tip, startTip) /\ left \in Nat
      /\ Height(startTip) - Height(tip) = UndoAtStart - left
  BY <1>1, AttachedNow, AttachedIs, ZenonT(60) DEF StartParse, GoOn, HighInv, TypesOK, WayOK, FarthestNodes
<1>3. CASE ~ (Height(end) > Height(tip))
  BY <1>1, <1>2, <1>3 DEF GoOn, WayOK, PathPanics
<1>4. CASE Height(end) > Height(tip)
  <2>1. cur' = end /\ pc' = "parse"
    BY <1>1, <1>4 DEF GoOn
  <2>2. CASE Height(tip) = 0
    <3>1. Below(tip, end)
      BY <1>2, <2>2, BranchType DEF Below
    <3>2. Below(tip, cur)'
      BY <1>2, <2>1, <3>1 DEF Below
    <3> QED  BY <1>2, <2>1, <3>2 DEF WayOK, PathPanics
  <2>3. CASE Height(startTip) - Fork(startTip, end) > UndoAtStart
    <3>1. TooDeep'
      BY <1>2, <2>1, <2>3 DEF TooDeep, Fork, Height
    <3> QED  BY <1>2, <2>1, <3>1 DEF WayOK, PathPanics
  <2>4. CASE left = 0 /\ ~ (Height(startTip) - Fork(startTip, end) > UndoAtStart)
    <3> DEFINE hs == Height(startTip)  f == Fork(startTip, end)  ht == Height(tip)
    <3>1. hs \in Nat /\ ht \in Nat /\ f \in Nat /\ UndoAtStart \in Nat
      BY <1>2, BranchType, ForkIs, RestartAssumption
    <3>2. hs - ht = UndoAtStart - left /\ left = 0 /\ ~ (hs - f > UndoAtStart)
      BY <1>2, <2>4
    <3> HIDE DEF hs, f, ht
    <3>3. ht <= f
      BY <3>1, <3>2
    <3>4. Below(tip, end)
      BY <1>2, <3>3, BelowFork DEF ht, f
    <3>5. Below(tip, cur)'
      BY <1>2, <2>1, <3>4 DEF Below
    <3> QED  BY <1>2, <2>1, <3>5 DEF WayOK, PathPanics
  <2> QED  BY <1>2, <2>2, <2>3, <2>4
<1> QED  BY <1>3, <1>4

(* A parsed block is on the way to the aim. *)
LEMMA WayParseBlock ==
  ASSUME HighInv, WayOK, ParseBlock
  PROVE  WayOK'
<1>1. /\ Parsing /\ NextPanic = "" /\ Known(Nxt) /\ pc = "parse"
      /\ CommitBlockTxs(GetBlock(Nxt), Nxt, "parse")
      /\ UNCHANGED <<cur, startTip, orphaned>>
      /\ DOMAIN blockIdxMap' = DOMAIN blockIdxMap
  BY DEF ParseBlock, Fetched, TrustBlock, CommitBlockTxs, GoOn, Panic, Parsing, blockVars, mapVars,
         blockHist
<1>2. Nxt \in Block /\ ParentOf[Nxt] = tip /\ (Below(tip, cur) /\ cur \in Attached => Below(Nxt, cur))
  BY <1>1, NextIs
<1>3. CASE pc' = "down"
  <2>1. "parse" # "down"
    OBVIOUS
  <2>2. /\ panicked' = "Unexpected height" => orphaned' # {}
        /\ panicked' \in {"", "Unexpected height", "Parent data not found"}
    BY <1>1, <1>2, <2>1, NotUnexpected
  <2> QED  BY <1>1, <1>3, <2>2, WayQuiet
<1>4. CASE pc' # "down"
  <2>1. tip' = Nxt /\ pc' = "parse" /\ panicked' = panicked
    BY <1>1, <1>4 DEF CommitBlockTxs, GoOn, Panic
  <2>2. Attached' = Attached
    BY <1>1, AttachedNow, AttachedNext DEF HighInv, TypesOK
  <2>3. panicked = "" /\ (Below(tip, cur) \/ cur \notin Attached \/ TooDeep)
    BY <1>1 DEF WayOK
  <2>4. TooDeep' = TooDeep
    BY <1>1 DEF TooDeep, Fork, Height
  <2>5. Below(Nxt, cur) => Below(tip, cur)'
    BY <1>1, <2>1 DEF Below
  <2>6. (Below(tip, cur) \/ cur \notin Attached \/ TooDeep)'
    BY <1>1, <1>2, <2>1, <2>2, <2>3, <2>4, <2>5
  <2> QED  BY <2>1, <2>3, <2>6 DEF WayOK, PathPanics
<1> QED  BY <1>3, <1>4

(* A panic for want of a way has its reason. *)
LEMMA WayPanics ==
  ASSUME HighInv, WayOK, ParsePanics
  PROVE  WayOK'
<1>1. /\ Parsing /\ pc' = "down" /\ panicked' = ParsePanic
      /\ UNCHANGED <<cur, startTip, blockIdxMap, tip>> /\ pc = "parse" /\ tip # cur
  BY DEF ParsePanics, Panic, Parsing, blockVars, mapVars
<1>2. ASSUME panicked' \in PathPanics PROVE (cur \notin Attached \/ TooDeep)'
  <2>1. NextPanic # ""
    BY <1>1, <1>2 DEF ParsePanic, PathPanics
  <2>2. cur \notin Attached \/ TooDeep
    BY <1>1, <2>1, NextFound DEF WayOK
  <2>3. Attached' = Attached /\ TooDeep' = TooDeep
    BY <1>1, SameIndex DEF HighInv, TypesOK, TooDeep, Fork, Height
  <2> QED  BY <1>1, <2>2, <2>3
<1>3. panicked' # "Unexpected height"
  BY <1>1 DEF ParsePanic, NextPanic
<1> QED  BY <1>1, <1>2, <1>3 DEF WayOK

(* One case for each action of Restart. *)
LEMMA WayStep ==
  ASSUME HighInv, HighInv', WayOK, [Next]_vars
  PROVE  WayOK'
<1>1. CASE \E b \in Block : AddBlock(b)
  BY <1>1, WayQuiet DEF AddBlock, GoOn, WayOK
<1>2. CASE AddRecord
  BY <1>2, WayQuiet DEF AddRecord, GoOn, WayOK
<1>3. CASE CommitTip
  <2>1. /\ pc = "commit" /\ CommitBlockTxs(cur, cur, "sync") /\ UNCHANGED orphaned
        /\ "sync" # "down" /\ pc' \notin {"start", "parse"}
    BY <1>3 DEF CommitTip, CommitBlockTxs, GoOn, Panic, blockVars, blockHist
  <2>2. cur \in Block /\ ParentOf[cur] = tip
    BY <2>1 DEF HighInv, AimOK
  <2> QED  BY <2>1, <2>2, NotUnexpected, WayQuiet
<1>4. CASE Sync \/ SyncBlocks \/ SyncUnspent
  BY <1>4, WayQuiet DEF Sync, SyncBlocks, SyncUnspent, GoOn, WayOK
<1>5. CASE MoveUndo
  <2>1. /\ pc = "undo" /\ UndoTip("undo") /\ UNCHANGED orphaned /\ pc' \notin {"start", "parse"}
        /\ "undo" # "down"
    BY <1>5 DEF MoveUndo, UndoTip, GoOn, Panic, blockVars, blockHist
  <2> QED  BY <2>1, NotUnexpected, WayQuiet
<1>6. CASE MoveParse
  <2>1. /\ Below(tip, cur) /\ pc' = "parse" /\ panicked = "" /\ panicked' = ""
        /\ UNCHANGED <<tip, cur>>
    BY <1>6 DEF MoveParse, GoOn, WayOK
  <2>2. Below(tip, cur)'
    BY <2>1 DEF Below
  <2> QED  BY <2>1, <2>2 DEF WayOK, PathPanics
<1>7. CASE ParseBlock
  BY <1>7, WayParseBlock
<1>8. CASE DeleteBranch
  BY <1>8, WayQuiet DEF DeleteBranch, Fetched, Parsing, GoOn, WayOK
<1>9. CASE Retarget
  BY <1>9, WayQuiet DEF Retarget, GoOn, WayOK
<1>10. CASE ParseReturns
  BY <1>10, WayQuiet DEF ParseReturns, GoOn, WayOK
<1>11. CASE ParsePanics
  BY <1>11, WayPanics
<1>12. CASE Crash \/ PowerFailure
  BY <1>12, WayQuiet DEF Crash, PowerFailure, GoDown
<1>13. CASE Start
  BY <1>13, WayStart
<1>14. CASE StartUndo
  BY <1>14, WayStartUndo
<1>15. CASE StartParse
  BY <1>15, WayStartParse
<1>16. CASE UNCHANGED vars
  <2>1. UNCHANGED <<blockIdxMap, tip, cur, startTip, pc, left, panicked, orphaned>>
    BY <1>16 DEF vars, chainVars, blockVars, mapVars, blockHist
  <2>2. Attached' = Attached
    BY <2>1, SameIndex DEF HighInv, TypesOK
  <2> QED  BY <2>1, <2>2 DEF WayOK, TooDeep, Below, Height, Fork
<1> QED
  BY <1>1, <1>2, <1>3, <1>4, <1>5, <1>6, <1>7, <1>8, <1>9, <1>10, <1>11, <1>12,
     <1>13, <1>14, <1>15, <1>16 DEF Next

(* At first nothing is stored. *)
LEMMA StoredInit == Init => StoredOK
<1>0. DOMAIN <<>> = {}
  <2>1. \A i \in 1..0 : FALSE
    OBVIOUS
  <2>2. DOMAIN <<>> = 1..0
    BY EmptySeq, LenProperties
  <2> QED  BY <2>1, <2>2
<1> SUFFICES ASSUME Init PROVE StoredOK
  OBVIOUS
<1> USE DEF Init, BlocksInit, NoMap
<1>1. /\ DOMAIN applied = {} /\ DOMAIN durable = {} /\ DOMAIN idxFile = {}
      /\ DOMAIN blockIdxMap = {}
  BY <1>0, EmptySeq, LenProperties
<1>2. ToSet(applied) = {} /\ ToSet(durable) = {} /\ Recorded = {}
  BY <1>1 DEF ToSet, Recorded
<1>3. cursor \in Nat \ {0}
  <2>1. cursor = 1
    OBVIOUS
  <2> QED  BY ONLY <2>1
<1>4. /\ lost \in BOOLEAN /\ misplaced \in BOOLEAN
      /\ panicked # "Last Block Hash not found" /\ panicked # "has no Parent"
  OBVIOUS
<1> QED  BY <1>1, <1>2, <1>3, <1>4, Zenon DEF StoredOK

(* Records are counted from one. *)
LEMMA CursorIs == StoredOK => cursor \in Nat \ {0}
BY Zenon DEF StoredOK

(* A step that adds nothing to the blocks of the databases and the map,    *)
(* and takes no record away.                                               *)
LEMMA StoredQuiet ==
  ASSUME StoredOK, WayOK, HighInv, pc # "down", UNCHANGED lost,
         panicked' \notin {"Last Block Hash not found", "has no Parent"},
         misplaced' \in BOOLEAN, cursor' = cursor, misplaced => misplaced', Recorded' = Recorded,
         ~lost => ToSet(applied)' \subseteq ToSet(applied) \cup DOMAIN blockIdxMap,
         ToSet(durable)' \subseteq ToSet(applied) \cup ToSet(durable),
         DOMAIN blockIdxMap' \subseteq DOMAIN blockIdxMap
  PROVE  StoredOK'
<1>1. ~lost' /\ ~misplaced' =>
        /\ ToSet(applied)' \cup ToSet(durable)' \cup DOMAIN blockIdxMap' \subseteq Recorded
        /\ \A b \in Recorded : ParentOf[b] \in Recorded \cup {Genesis}
  BY DEF StoredOK
<1>2. /\ lost' \in BOOLEAN
      /\ panicked' # "Last Block Hash not found" /\ panicked' # "has no Parent"
  BY DEF StoredOK
<1> HIDE DEF Recorded
<1> QED  BY <1>1, <1>2 DEF StoredOK

(* An entry of the index file keeps its hash when it gets a flag. *)
LEMMA FlagKeepsHashes ==
  ASSUME PosInv, NEW b, NEW flag, SetBlockFlag(b, flag)
  PROVE  /\ DOMAIN idxFile' = DOMAIN idxFile
         /\ \A i \in DOMAIN idxFile : idxFile'[i].hash = idxFile[i].hash
<1> DEFINE p == blockIdxMap[b].iPos
<1>1. idxFile' = [idxFile EXCEPT ![p].flags = @ \cup {flag}]
  BY DEF SetBlockFlag
<1> HIDE DEF p
<1>2. idxFile \in Seq(IndexRecord)
  BY DEF PosInv, Describes
<1>3. \A i \in DOMAIN idxFile : idxFile[i] \in IndexRecord
  BY <1>2
<1>4. DOMAIN idxFile' = DOMAIN idxFile
  BY <1>1
<1>5. ASSUME NEW i \in DOMAIN idxFile PROVE idxFile'[i].hash = idxFile[i].hash
  <2>1. CASE i = p
    <3>1. idxFile'[i] = [idxFile[i] EXCEPT !.flags = @ \cup {flag}]
      BY <1>1, <2>1
    <3>2. idxFile[i] \in IndexRecord
      BY <1>3
    <3> QED  BY <3>1, <3>2 DEF IndexRecord
  <2>2. CASE i # p
    BY <1>1, <2>2
  <2> QED  BY <2>1, <2>2
<1> QED  BY <1>4, <1>5

(* The same hashes are the same blocks. *)
LEMMA RecordedKept ==
  ASSUME DOMAIN idxFile' = DOMAIN idxFile,
         \A i \in DOMAIN idxFile : idxFile'[i].hash = idxFile[i].hash
  PROVE  Recorded' = Recorded
BY DEF Recorded

(* A record behind the last one adds its block, whose parent was stored. *)
LEMMA StoredAddRecord ==
  ASSUME StoredOK, WayOK, PosInv, HighInv, AddRecord
  PROVE  StoredOK'
<1> DEFINE rec == [flags |-> NewFlags(ParentOf[cur] = tip), hash |-> cur, pos |-> BlockPos]
<1>1. /\ pc = "record" /\ UNCHANGED <<applied, durable, lost, panicked>>
      /\ idxFile' = (IF cursor > Len(idxFile) THEN Append(idxFile, rec)
                                              ELSE [idxFile EXCEPT ![cursor] = rec])
      /\ DOMAIN blockIdxMap' = DOMAIN blockIdxMap \cup {cur}
      /\ misplaced' = (misplaced \/ cursor <= Len(idxFile))
      /\ Known(ParentOf[cur])
  BY DEF AddRecord, WriteRecord, GoOn, HighInv, AimOK
<1>2. panicked = "" /\ panicked' = ""
  BY <1>1 DEF WayOK
<1>3. SUFFICES ASSUME ~lost', ~misplaced'
               PROVE  /\ (ToSet(applied) \cup ToSet(durable) \cup DOMAIN blockIdxMap)' \subseteq Recorded'
                      /\ \A b \in Recorded' : ParentOf[b] \in Recorded' \cup {Genesis}
  <2>1. cursor' \in Nat \ {0}
    <3>1. cursor' = cursor + 1
      BY DEF AddRecord, WriteRecord
    <3> QED  BY <3>1, CursorIs
  <2> HIDE DEF Recorded
  <2> QED  BY <1>1, <1>2, <2>1 DEF StoredOK
<1>4. ~misplaced /\ ~lost /\ ~ (cursor <= Len(idxFile))
  BY <1>1, <1>3 DEF StoredOK
<1>5. /\ ToSet(applied) \cup ToSet(durable) \cup DOMAIN blockIdxMap \subseteq Recorded
      /\ \A b \in Recorded : ParentOf[b] \in Recorded \cup {Genesis}
  BY <1>4 DEF StoredOK
<1>6. Recorded' = Recorded \cup {cur}
  <2>0. idxFile \in Seq(IndexRecord) /\ Len(idxFile) \in Nat
    BY LenProperties DEF PosInv, Describes
  <2>1. cursor > Len(idxFile)
    BY <1>4, <2>0, CursorIs
  <2>2. idxFile' = Append(idxFile, rec)
    BY <1>1, <2>1
  <2> HIDE DEF rec
  <2>3. /\ DOMAIN idxFile = 1..Len(idxFile)
        /\ DOMAIN idxFile' = 1..(Len(idxFile) + 1)
        /\ \A i \in 1..Len(idxFile) : idxFile'[i] = idxFile[i]
        /\ idxFile'[Len(idxFile) + 1] = rec
    BY <2>0, <2>2, LenProperties
  <2>4. DOMAIN idxFile' = DOMAIN idxFile \cup {Len(idxFile) + 1}
    BY <2>0, <2>3
  <2>5. rec.hash = cur
    BY DEF rec
  <2> QED  BY <2>3, <2>4, <2>5 DEF Recorded
<1> QED  BY <1>1, <1>5, <1>6 DEF Known

(* A power failure that loses nothing leaves the records of one branch or  *)
(* of the other.                                                           *)
LEMMA StoredGoDown ==
  ASSUME StoredOK, HighInv, Crash \/ PowerFailure
  PROVE  StoredOK'
<1>1. /\ panicked' = "" /\ DOMAIN blockIdxMap' = {} /\ misplaced' = misplaced /\ cursor' = 1
      /\ applied' \in {applied, durable} /\ durable' \in {applied, durable}
  BY DEF Crash, PowerFailure, GoDown, NoMap, blockHist
<1>2. lost' \in BOOLEAN /\ (~lost' => ~lost /\ idxFile' = idxFile)
  BY DEF Crash, PowerFailure, StoredOK, files
<1>3. ~lost' => Recorded' = Recorded
  BY <1>2 DEF Recorded
<1>4. ~lost' /\ ~misplaced' =>
        /\ ToSet(applied)' \cup ToSet(durable)' \cup DOMAIN blockIdxMap' \subseteq Recorded
        /\ \A b \in Recorded : ParentOf[b] \in Recorded \cup {Genesis}
  BY <1>1, <1>2 DEF StoredOK
<1> HIDE DEF Recorded
<1>5. misplaced' \in BOOLEAN /\ cursor' \in Nat \ {0}
  <2>1. misplaced' \in BOOLEAN
    BY <1>1 DEF StoredOK
  <2>2. cursor' \in Nat \ {0}
    <3>1. cursor' = 1
      BY <1>1
    <3> QED  BY ONLY <3>1
  <2> QED  BY <2>1, <2>2
<1> QED  BY <1>1, <1>2, <1>3, <1>4, <1>5 DEF StoredOK

(* A record that is there and is not loaded is flagged. *)
LEMMA RecordedOrLoaded ==
  ASSUME NEW b \in Recorded, b \notin Loaded
  PROVE  WrittenInvalid(b)
BY DEF Recorded, Loaded, Loadable, WrittenInvalid

(* What a start misses was stored and is flagged. *)
LEMMA StoredStart ==
  ASSUME StoredOK, HighInv, PosInv, Start
  PROVE  StoredOK'
<1> DEFINE x == LastBlock
<1>1. ~lost => orphaned = {}
  BY DEF PosInv
<1>2. ~lost => x = Genesis \/ x \in ToSet(applied)
  <2>1. SUFFICES ASSUME orphaned = {} PROVE x = Genesis \/ x \in ToSet(applied)
    BY <1>1
  <2>2. PICK y \in Node : applied = Branch[y]
    BY <2>1 DEF HighInv, BranchesOK
  <2> QED  BY <2>2, LastBlockIs, BranchSetStep DEF Node
<1>3. /\ DOMAIN blockIdxMap' = Loaded /\ startTip' = x /\ panicked' = LoadPanic
      /\ UNCHANGED <<applied, durable, idxFile, misplaced, lost>>
      /\ cursor' = Cardinality(Loadable) + 1
  BY DEF Start, LoadIndex, files, blockHist
<1> HIDE DEF x
<1>4. cursor' \in Nat \ {0}
  <2>1. Len(idxFile) \in Nat /\ Loadable \subseteq 1..Len(idxFile)
    BY LenProperties DEF PosInv, Describes, Loadable
  <2>2. Cardinality(Loadable) \in Nat
    <3>1. IsFiniteSet(1..Len(idxFile))
      BY <2>1, FS_Interval
    <3>2. IsFiniteSet(Loadable)
      BY <2>1, <3>1, FS_Subset
    <3> QED  BY <3>2, FS_CardinalityType
  <2> QED  BY <1>3, <2>2
<1>5. Recorded' = Recorded /\ Loaded \subseteq Recorded
  BY <1>3 DEF Recorded, Loaded, Loadable
<1>6. ASSUME ~lost, ~misplaced
      PROVE  /\ ToSet(applied) \cup ToSet(durable) \cup Loaded \subseteq Recorded
             /\ \A b \in Recorded : ParentOf[b] \in Recorded \cup {Genesis}
  BY <1>5, <1>6 DEF StoredOK
<1>7. \A b : WrittenInvalid(b)' = WrittenInvalid(b)
  BY <1>3 DEF WrittenInvalid
<1>8. ASSUME LoadPanic = "Last Block Hash not found", ~lost, ~misplaced
      PROVE  WrittenInvalid(x)
  <2>1. x \notin Loaded \cup {Genesis}
    BY <1>8 DEF LoadPanic, x
  <2> QED  BY <1>2, <1>6, <1>8, <2>1, RecordedOrLoaded
<1>9. ASSUME LoadPanic = "has no Parent", ~lost, ~misplaced
      PROVE  \E b \in Loaded : WrittenInvalid(ParentOf[b])
  <2>1. PICK b \in Loaded : ParentOf[b] \notin Loaded \cup {Genesis}
    BY <1>9 DEF LoadPanic
  <2>2. ParentOf[b] \in Recorded
    BY <1>5, <1>6, <1>9, <2>1
  <2> QED  BY <2>1, <2>2, RecordedOrLoaded
<1>10. lost' \in BOOLEAN /\ misplaced' \in BOOLEAN /\ lost' = lost /\ misplaced' = misplaced
  BY <1>3 DEF StoredOK
<1>11. ~lost' /\ ~misplaced' =>
         /\ ToSet(applied)' \cup ToSet(durable)' \cup DOMAIN blockIdxMap' \subseteq Recorded'
         /\ \A b \in Recorded' : ParentOf[b] \in Recorded' \cup {Genesis}
  BY <1>3, <1>5, <1>6, <1>10
<1>12. (panicked = "Last Block Hash not found" => lost \/ misplaced \/ WrittenInvalid(startTip))'
  <2>0. SUFFICES ASSUME panicked' = "Last Block Hash not found", ~lost', ~misplaced'
                 PROVE  WrittenInvalid(startTip)'
    OBVIOUS
  <2>1. LoadPanic = "Last Block Hash not found" /\ ~lost /\ ~misplaced
    <3>1. LoadPanic = "Last Block Hash not found"
      BY <1>3, <2>0
    <3>2. ~lost
      BY <1>3, <2>0
    <3>3. ~misplaced
      BY <1>3, <2>0
    <3> QED  BY <3>1, <3>2, <3>3
  <2>2. WrittenInvalid(x)
    BY <1>8, <2>1
  <2> QED  BY <1>3, <2>2 DEF WrittenInvalid
<1>13. (panicked = "has no Parent" =>
          lost \/ misplaced \/ \E b \in DOMAIN blockIdxMap : WrittenInvalid(ParentOf[b]))'
  <2>0. SUFFICES ASSUME panicked' = "has no Parent", ~lost', ~misplaced'
                 PROVE  \E b \in DOMAIN blockIdxMap' : WrittenInvalid(ParentOf[b])'
    OBVIOUS
  <2>1. LoadPanic = "has no Parent" /\ ~lost /\ ~misplaced
    <3>1. LoadPanic = "has no Parent"
      BY <1>3, <2>0
    <3>2. ~lost
      BY <1>3, <2>0
    <3>3. ~misplaced
      BY <1>3, <2>0
    <3> QED  BY <3>1, <3>2, <3>3
  <2> QED  BY <1>3, <1>7, <1>9, <2>1
<1> QED  BY <1>4, <1>10, <1>11, <1>12, <1>13 DEF StoredOK

(* One case for each action of Restart. *)
LEMMA StoredStep ==
  ASSUME PosInv, HighInv, WayOK, StoredOK, [Next]_vars
  PROVE  StoredOK'
<1> DEFINE D == DOMAIN blockIdxMap
           Bads == {"Last Block Hash not found", "has no Parent"}
<1>0. /\ misplaced \in BOOLEAN /\ (pc # "down" => panicked = "")
      /\ Bads \cap {"", "Parent data not found", "Unexpected height"} = {}
      /\ ~lost => orphaned = {}
  BY DEF StoredOK, WayOK, PosInv
<1>a. ASSUME idxFile' = idxFile PROVE Recorded' = Recorded
  BY <1>a DEF Recorded
<1>b. ASSUME pc # "down", UNCHANGED <<lost, misplaced, idxFile, blockIdxMap, cursor>>,
             panicked' \in {panicked, "", "Parent data not found", "Unexpected height"},
             ~lost => ToSet(applied)' \subseteq ToSet(applied) \cup D,
             durable' \in {applied, durable}
      PROVE  StoredOK'
  BY <1>0, <1>a, <1>b, StoredQuiet
<1>c. ASSUME UndoTip(pc), pc # "down" PROVE StoredOK'
  <2>1. /\ applied' \in {applied, <<>>, Front(applied)}
        /\ panicked' \in {panicked, "Parent data not found", "Unexpected height"}
        /\ UNCHANGED <<lost, misplaced, idxFile, blockIdxMap, cursor, durable>>
    BY <1>c DEF UndoTip, Panic, GoOn, blockVars, mapVars, files, blockHist
  <2>2. ASSUME ~lost PROVE ToSet(applied)' \subseteq ToSet(applied)
    <3>1. applied \in Seq(Block)
      BY <1>0, <2>2, BranchType DEF HighInv, BranchesOK
    <3>2. Front(applied) = [i \in 1..(Len(applied) - 1) |-> applied[i]] /\ Len(applied) \in Nat
      BY <3>1 DEF Front
    <3>3. \A i \in 1..(Len(applied) - 1) : i \in 1..Len(applied)
      BY <3>2
    <3>4. DOMAIN applied = 1..Len(applied)
      BY <3>1
    <3>5. DOMAIN <<>> = {}
      <4>1. DOMAIN <<>> = 1..0 /\ \A i \in 1..0 : FALSE
        BY EmptySeq, LenProperties
      <4> QED  BY <4>1
    <3>6. \A i \in DOMAIN applied' : applied'[i] \in ToSet(applied)
      BY <2>1, <3>2, <3>3, <3>4, <3>5 DEF ToSet
    <3> QED  BY <3>6 DEF ToSet
  <2> QED  BY <1>c, <1>b, <2>1, <2>2
<1>d. ASSUME NEW b \in D, NEW read, NEW step, CommitBlockTxs(read, b, step), pc # "down",
             orphaned = {} => read = b
      PROVE  /\ ~lost => ToSet(applied)' \subseteq ToSet(applied) \cup D
             /\ panicked' \in {panicked, "Unexpected height"} /\ UNCHANGED lost
  <2>1. SUFFICES ASSUME ~lost PROVE ToSet(applied)' \subseteq ToSet(applied) \cup D
    BY <1>d DEF CommitBlockTxs, GoOn, Panic
  <2>2. applied \in Seq(Block) /\ D \subseteq Block /\ read = b /\ applied' \in {applied, Append(applied, b)}
    BY <1>0, <1>d, <2>1, BranchType DEF HighInv, BranchesOK, TypesOK, CommitBlockTxs
  <2>3. CASE applied' = Append(applied, b)
    <3>1. /\ DOMAIN applied = 1..Len(applied) /\ Len(applied) \in Nat
          /\ DOMAIN applied' = 1..(Len(applied) + 1)
          /\ \A i \in 1..Len(applied) : applied'[i] = applied[i]
          /\ applied'[Len(applied) + 1] = b
      BY <2>2, <2>3
    <3>2. ASSUME NEW i \in DOMAIN applied' PROVE applied'[i] \in ToSet(applied) \cup D
      BY <3>1 DEF ToSet
    <3> QED  BY <3>2 DEF ToSet
  <2> QED  BY <2>2, <2>3
<1>1. CASE \E b \in Block : AddBlock(b)
  BY <1>1, <1>b DEF AddBlock, AppendBlock, GoOn, mapVars, blockHist
<1>2. CASE AddRecord
  BY <1>2, StoredAddRecord
<1>3. CASE CommitTip
  <2>1. cur \in D
    BY <1>3, AttachedNow, AttachedIs
       DEF CommitTip, HighInv, AimOK, FarthestNodes, TypesOK
  <2>2. /\ CommitBlockTxs(cur, cur, "sync") /\ pc # "down"
        /\ UNCHANGED <<misplaced, idxFile, blockIdxMap, cursor, durable>>
    BY <1>3 DEF CommitTip, blockVars, mapVars, files, blockHist
  <2>3. /\ ~lost => ToSet(applied)' \subseteq ToSet(applied) \cup D
        /\ panicked' \in {panicked, "Unexpected height"} /\ UNCHANGED lost
    BY <1>d, <2>1, <2>2
  <2> QED  BY <1>b, <2>2, <2>3
<1>4. CASE Sync \/ SyncBlocks \/ SyncUnspent
  BY <1>4, <1>b DEF Sync, SyncBlocks, SyncUnspent, SyncIndex, SyncData, GoOn, blockVars, files,
                    mapVars, blockHist
<1>5. CASE MoveUndo
  BY <1>5, <1>c DEF MoveUndo
<1>6. CASE MoveParse
  BY <1>6, <1>b DEF MoveParse, GoOn, blockVars, mapVars, files, blockHist
<1>7. CASE ParseBlock
  <2>1. /\ Parsing /\ NextPanic = "" /\ Known(Nxt) /\ CommitBlockTxs(GetBlock(Nxt), Nxt, "parse")
        /\ TrustBlock(GetBlock(Nxt)) \/ UNCHANGED blockVars
        /\ UNCHANGED durable /\ pc # "down"
        /\ DOMAIN blockIdxMap' = D /\ cursor' = cursor
    BY <1>7 DEF ParseBlock, Fetched, Parsing, TrustBlock, blockVars, mapVars
  <2>2. Nxt \in D
    BY <2>1, NextIs
  <2>3. misplaced' \in BOOLEAN /\ (misplaced => misplaced')
    <3>1. \/ UNCHANGED misplaced
          \/ \E x \in BOOLEAN : misplaced' = (misplaced \/ x)
      BY <2>1, Zenon DEF TrustBlock, SetBlockFlag, blockVars, blockHist
    <3> QED  BY <1>0, <3>1, Zenon
  <2>4. Recorded' = Recorded
    BY <1>a, <2>1, FlagKeepsHashes, RecordedKept DEF TrustBlock, blockVars, files
  <2>5. orphaned = {} => GetBlock(Nxt) = Nxt
    BY <2>2, ReadsIt
  <2>6. /\ ~lost => ToSet(applied)' \subseteq ToSet(applied) \cup D
        /\ panicked' \in {panicked, "Unexpected height"} /\ UNCHANGED lost
    BY <1>d, <2>1, <2>2, <2>5
  <2> QED  BY <1>0, <2>1, <2>3, <2>4, <2>6, StoredQuiet
<1>8. CASE DeleteBranch
  <2>1. /\ InvalidBlock(Nxt) /\ pc # "down" /\ cursor' = cursor
        /\ UNCHANGED <<applied, durable, lost, panicked>>
        /\ DOMAIN blockIdxMap' \subseteq D
    BY <1>8 DEF DeleteBranch, Fetched, GoOn, Parsing, InvalidBlock
  <2>2. misplaced' \in BOOLEAN /\ (misplaced => misplaced')
    BY <1>0, <2>1 DEF InvalidBlock, SetBlockFlag
  <2>3. Recorded' = Recorded
    BY <2>1, FlagKeepsHashes, RecordedKept DEF InvalidBlock
  <2> QED  BY <1>0, <2>1, <2>2, <2>3, StoredQuiet
<1>9. CASE Retarget
  BY <1>9, <1>b DEF Retarget, GoOn, blockVars, mapVars, files, blockHist
<1>10. CASE ParseReturns
  BY <1>10, <1>b DEF ParseReturns, GoOn, blockVars, mapVars, files, blockHist
<1>11. CASE ParsePanics
  <2>1. /\ pc # "down" /\ panicked' = ParsePanic
        /\ UNCHANGED <<applied, durable, lost, misplaced, idxFile, blockIdxMap, cursor>>
    BY <1>11 DEF ParsePanics, Parsing, Panic, blockVars, mapVars, files, blockHist
  <2>2. ParsePanic \notin Bads
    BY DEF ParsePanic, NextPanic
  <2> QED  BY <1>0, <1>a, <2>1, <2>2, StoredQuiet
<1>12. CASE Crash \/ PowerFailure
  BY <1>12, StoredGoDown
<1>13. CASE Start
  BY <1>13, StoredStart
<1>14. CASE StartUndo
  BY <1>14, <1>c DEF StartUndo
<1>15. CASE StartParse
  BY <1>15, <1>b DEF StartParse, GoOn, blockVars, mapVars, files, blockHist
<1>16. CASE UNCHANGED vars
  <2>1. UNCHANGED <<applied, durable, blockIdxMap, idxFile, lost, misplaced, cursor,
                    panicked, startTip>>
    BY <1>16 DEF vars, chainVars, blockVars, mapVars, files, blockHist
  <2>2. Recorded' = Recorded /\ \A b : WrittenInvalid(b)' = WrittenInvalid(b)
    BY <2>1 DEF Recorded, WrittenInvalid
  <2>3. WrittenInvalid(startTip)' = WrittenInvalid(startTip)
    BY <2>1 DEF WrittenInvalid
  <2> QED  BY <2>1, <2>2, <2>3, Zenon DEF StoredOK
<1> QED
  BY <1>1, <1>2, <1>3, <1>4, <1>5, <1>6, <1>7, <1>8, <1>9, <1>10, <1>11, <1>12,
     <1>13, <1>14, <1>15, <1>16 DEF Next

(* A crash at any write is no reason for the next start to panic: each of   *)
(* its panics about the index or about the way to the farthest block has    *)
(* one of the reasons that StartPanicsHaveCauses names.                     *)
THEOREM StartPanicCauses == Spec => []StartPanicsHaveCauses
<1>1. Init => WayOK /\ StoredOK
  BY WayInit, StoredInit
<1>2. PosInv /\ HighInv /\ HighInv' /\ WayOK /\ StoredOK /\ [Next]_vars => WayOK' /\ StoredOK'
  BY WayStep, StoredStep
<1>3. WayOK /\ StoredOK => StartPanicsHaveCauses
  BY DEF WayOK, StoredOK, StartPanicsHaveCauses, TooDeep
<1> QED  BY <1>1, <1>2, <1>3, RestartInvariant, RestartBranches, PTL DEF Spec

(* The index file is a list of records. *)
LEMMA IndexTypes ==
  ASSUME PosInv
  PROVE  /\ Len(idxFile) \in Nat /\ DOMAIN idxFile = 1..Len(idxFile)
         /\ idxFile \in Seq(IndexRecord)
         /\ \A i \in DOMAIN idxFile : idxFile[i] \in IndexRecord /\ idxFile[i].hash \in Block
         /\ idxFile # <<>> <=> 1 \in DOMAIN idxFile
<1>1. idxFile \in Seq(IndexRecord) /\ Len(idxFile) \in Nat /\ DOMAIN idxFile = 1..Len(idxFile)
  BY LenProperties DEF PosInv, Describes
<1>2. \A i \in DOMAIN idxFile : idxFile[i] \in IndexRecord
  BY <1>1
<1>3. \A r \in IndexRecord : r.hash \in Block
  BY DEF IndexRecord
<1>4. idxFile # <<>> <=> 1 \in DOMAIN idxFile
  BY <1>1, EmptySeq
<1> QED  BY <1>1, <1>2, <1>3, <1>4

(* Appending leaves the first element where it is. *)
LEMMA FirstStays ==
  ASSUME NEW S, NEW s \in Seq(S), NEW x \in S
  PROVE  /\ Append(s, x) \in Seq(S) /\ Append(s, x) # <<>>
         /\ s # <<>> => Append(s, x)[1] = s[1]
         /\ s = <<>> => Append(s, x)[1] = x
         /\ s # <<>> <=> 1 \in DOMAIN s
<1>1. /\ Append(s, x) \in Seq(S) /\ Len(Append(s, x)) = Len(s) + 1 /\ Len(s) \in Nat
      /\ \A i \in 1..Len(s) : Append(s, x)[i] = s[i]
      /\ Append(s, x)[Len(s) + 1] = x /\ DOMAIN s = 1..Len(s)
  BY AppendProperties, LenProperties
<1>2. s = <<>> <=> Len(s) = 0
  BY EmptySeq
<1>3. Append(s, x) # <<>>
  <2>1. Len(<<>>) = 0
    BY EmptySeq
  <2> QED  BY <1>1, <2>1
<1>4. CASE Len(s) = 0
  BY <1>1, <1>2, <1>3, <1>4
<1>5. CASE Len(s) # 0
  <2>1. 1 \in 1..Len(s)
    BY <1>1, <1>5
  <2> QED  BY <1>1, <1>2, <1>3, <1>5, <2>1
<1> QED  BY <1>4, <1>5

(* A list with a first element. *)
LEMMA NotEmpty ==
  ASSUME NEW S, NEW s \in Seq(S)
  PROVE  s # <<>> <=> 1 \in DOMAIN s
<1>1. DOMAIN s = 1..Len(s) /\ Len(s) \in Nat /\ (s = <<>> <=> Len(s) = 0)
  BY LenProperties, EmptySeq
<1> QED  BY <1>1

(* At first there are no records. *)
LEMMA FlagInit == Init => FlagInv
<1>0. DOMAIN <<>> = {} /\ Len(<<>>) = 0
  <2>1. \A i \in 1..0 : FALSE
    OBVIOUS
  <2>2. DOMAIN <<>> = 1..0 /\ Len(<<>>) = 0
    BY EmptySeq, LenProperties
  <2> QED  BY <2>1, <2>2
<1> SUFFICES ASSUME Init PROVE FlagInv
  OBVIOUS
<1>1. /\ idxFile = <<>> /\ applied = <<>> /\ failed = {} /\ cursor = 1
      /\ DOMAIN blockIdxMap = {} /\ DOMAIN idxFile = {}
  BY <1>0 DEF Init, BlocksInit, NoMap
<1>2. RecordsOK
  BY <1>1 DEF RecordsOK
<1>3. Fresh
  <2>1. cursor = Len(idxFile) + 1
    BY <1>0, <1>1
  <2> QED  BY <1>1, <2>1, Zenon DEF Fresh
<1> QED  BY <1>1, <1>2, <1>3 DEF FlagInv

(* What the invariant speaks of is as it was, and the database begins with *)
(* the same block.                                                         *)
LEMMA FlagQuiet ==
  ASSUME FlagInv, pc # "down", pc' # "commit",
         UNCHANGED <<idxFile, blockIdxMap, cursor, failed>>,
         ~lost' => ~lost, ~misplaced' => ~misplaced,
         pc' # "down" => \/ pc # "commit" /\ applied' = applied
                         \/ pc # "commit" /\ applied # <<>> /\ applied' # <<>>
                            /\ applied'[1] = applied[1]
                         \/ idxFile # <<>> /\ applied' # <<>>
                            /\ applied'[1] = IF applied = <<>> THEN cur ELSE applied[1]
  PROVE  FlagInv'
<1>1. CASE lost' \/ misplaced'
  BY <1>1 DEF FlagInv
<1>2. CASE ~lost' /\ ~misplaced'
  <2>1. RecordsOK /\ failed \cap DOMAIN blockIdxMap = {} /\ (Fresh \/ Stale)
    BY <1>2 DEF FlagInv
  <2>2. RecordsOK' = RecordsOK
    BY DEF RecordsOK, Invalid, First
  <2>3. Stale => Stale'
    BY DEF Stale
  <2>4. Fresh /\ pc' # "down" => Fresh'
    BY DEF Fresh, Invalid, First
  <2> QED  BY <2>1, <2>2, <2>3, <2>4 DEF FlagInv
<1> QED  BY <1>1, <1>2

(* What a flag changes. *)
LEMMA FlagSets ==
  ASSUME PosInv, NEW b, NEW flag, SetBlockFlag(b, flag)
  PROVE  /\ DOMAIN idxFile' = DOMAIN idxFile /\ Len(idxFile') = Len(idxFile)
         /\ \A i \in DOMAIN idxFile :
              /\ idxFile'[i].hash = idxFile[i].hash
              /\ idxFile'[i].flags = IF i = blockIdxMap[b].iPos THEN idxFile[i].flags \cup {flag}
                                                                 ELSE idxFile[i].flags
<1> DEFINE p == blockIdxMap[b].iPos
<1>1. idxFile' = [idxFile EXCEPT ![p].flags = @ \cup {flag}]
  BY DEF SetBlockFlag
<1> HIDE DEF p
<1>2. /\ idxFile \in Seq(IndexRecord) /\ Len(idxFile) \in Nat /\ DOMAIN idxFile = 1..Len(idxFile)
      /\ \A i \in DOMAIN idxFile : idxFile[i] \in IndexRecord
  BY IndexTypes
<1>3. DOMAIN idxFile' = DOMAIN idxFile
  BY <1>1
<1>4. Len(idxFile') = Len(idxFile)
  BY <1>1, <1>2
<1>5. ASSUME NEW i \in DOMAIN idxFile
      PROVE  /\ idxFile'[i].hash = idxFile[i].hash
             /\ idxFile'[i].flags = IF i = p THEN idxFile[i].flags \cup {flag} ELSE idxFile[i].flags
  <2>1. CASE i = p
    <3>1. idxFile'[i] = [idxFile[i] EXCEPT !.flags = @ \cup {flag}]
      BY <1>1, <2>1
    <3>2. idxFile[i] \in IndexRecord
      BY <1>2
    <3> QED  BY <2>1, <3>1, <3>2 DEF IndexRecord
  <2>2. CASE i # p
    BY <1>1, <2>2
  <2> QED  BY <2>1, <2>2
<1> QED  BY <1>3, <1>4, <1>5 DEF p

(* A record that is not misplaced is written by a program whose map leads   *)
(* to the records; the first of all is written on the tip, and flagged.     *)
LEMMA FlagAddRecord ==
  ASSUME PosInv, HighInv, StoredOK, FlagInv, AddRecord
  PROVE  FlagInv'
<1> DEFINE M == DOMAIN blockIdxMap
           n == Len(idxFile)
           isTrusted == ParentOf[cur] = tip
           rec == [flags |-> NewFlags(isTrusted), hash |-> cur, pos |-> BlockPos]
<1>1. /\ pc = "record" /\ UNCHANGED <<applied, cur, tip, lost>>
      /\ idxFile' = (IF cursor > n THEN Append(idxFile, rec) ELSE [idxFile EXCEPT ![cursor] = rec])
      /\ blockIdxMap' = [x \in M \cup {cur} |->
                           IF x = cur THEN [fPos |-> BlockPos, iPos |-> cursor, trusted |-> isTrusted]
                                      ELSE blockIdxMap[x]]
      /\ cursor' = cursor + 1 /\ failed' = failed \ {cur}
      /\ misplaced' = (misplaced \/ cursor <= n)
      /\ pc' = (IF isTrusted THEN "commit" ELSE IF Height(cur) > Height(tip) THEN "undo" ELSE "idle")
  BY DEF AddRecord, WriteRecord, GoOn
<1>2. /\ cur \in Block /\ cur \notin M /\ ParentOf[cur] \in M \cup {Genesis}
      /\ ~lost => applied = Branch[tip]
      /\ tip \in Node
  BY <1>1 DEF HighInv, AimOK, Known, BranchesOK, TypesOK, PosInv
<1>3. \A b \in M \cup {cur} : "iPos" \in DOMAIN blockIdxMap'[b]
  BY <1>1 DEF FlagInv
<1>4. DOMAIN blockIdxMap' = M \cup {cur}
  BY <1>1
<1>5. SUFFICES ASSUME ~lost', ~misplaced'
               PROVE  RecordsOK' /\ failed' \cap (M \cup {cur}) = {} /\ Fresh'
  BY <1>3, <1>4 DEF FlagInv
<1>6. ~lost /\ ~misplaced /\ ~ (cursor <= n)
  BY <1>1, <1>5 DEF StoredOK
<1>7. RecordsOK /\ failed \cap M = {} /\ Fresh
  <2>1. ~Stale
    BY <1>6 DEF Stale
  <2> QED  BY <1>1, <1>6, <2>1 DEF FlagInv
<1>8. cursor = n + 1 /\ n \in Nat
  BY <1>7, IndexTypes DEF Fresh
<1>9. idxFile' = Append(idxFile, rec)
  BY <1>1, <1>8
<1> DEFINE flags == NewFlags(isTrusted)
<1>10. /\ DOMAIN idxFile' = 1..(n + 1) /\ Len(idxFile') = n + 1 /\ DOMAIN idxFile = 1..n
       /\ \A i \in 1..n : i \in DOMAIN idxFile' /\ idxFile'[i] = idxFile[i]
       /\ idxFile'[n + 1].hash = cur /\ idxFile'[n + 1].flags = flags
  <2>1. idxFile \in Seq(IndexRecord)
    BY IndexTypes
  <2>2. rec.hash = cur /\ rec.flags = flags
    OBVIOUS
  <2> HIDE DEF rec
  <2> QED  BY <1>8, <1>9, <2>1, <2>2
<1>11. "BLOCK_INVALID" \in flags <=> isTrusted
  BY DEF NewFlags
<1>12. blockIdxMap'[cur].iPos = n + 1 /\ \A b \in M : blockIdxMap'[b] = blockIdxMap[b]
  BY <1>1, <1>2, <1>8
<1>13. idxFile' # <<>> /\ (idxFile = <<>> <=> n = 0)
  BY <1>8, <1>10, EmptySeq, IndexTypes
<1>14. pc' # "down" /\ (pc' = "commit" <=> isTrusted)
  BY <1>1
<1> HIDE DEF n, rec, flags
<1>15. CASE idxFile = <<>>
  <2>1. n = 0 /\ applied = <<>> /\ M = {}
    <3>1. n = 0
      BY <1>13, <1>15
    <3>2. applied = <<>>
      BY <1>7, <1>15 DEF Fresh
    <3>3. DOMAIN idxFile = {}
      BY <1>10, <3>1
    <3>4. M = {}
      BY <1>7, <3>3 DEF Fresh
    <3> QED  BY <3>1, <3>2, <3>4
  <2>2. isTrusted
    <3>1. Height(tip) = 0
      BY <1>2, <1>6, <2>1, EmptySeq DEF Height
    <3>2. tip = Genesis
      BY <1>2, <3>1, BranchType
    <3> QED  BY <1>2, <2>1, <3>2
  <2>3. First' = cur /\ Invalid(1)'
    BY <1>10, <1>11, <2>1, <2>2 DEF First, Invalid
  <2>4. \A i \in DOMAIN idxFile' : i = 1 /\ idxFile'[i].hash = cur
    BY <1>10, <2>1
  <2>5. cur \in ToSet(Branch[cur])
    BY <1>2, BranchSetStep
  <2>6. RecordsOK'
    BY <1>1, <2>3, <2>4, <2>5 DEF RecordsOK
  <2>7. Fresh'
    BY <1>1, <1>4, <1>8, <1>10, <1>12, <1>14, <1>13, <2>1, <2>2, <2>3, <2>4 DEF Fresh
  <2> QED  BY <1>1, <2>1, <2>6, <2>7
<1>16. CASE idxFile # <<>>
  <2>1. /\ 1 \in 1..n /\ First' = First /\ First \in M
        /\ \A i \in 1..n : Invalid(i)' = Invalid(i)
        /\ ("BLOCK_INVALID" \in idxFile'[n + 1].flags <=> isTrusted)
        /\ applied # <<>> /\ applied[1] = First
    <3>1. 1 \in 1..n
      BY <1>8, <1>13, <1>16
    <3>2. First' = First
      BY <1>10, <3>1 DEF First
    <3>3. First \in M /\ applied # <<>> /\ applied[1] = First
      BY <1>1, <1>7, <1>16 DEF Fresh
    <3>4. \A i \in 1..n : Invalid(i)' = Invalid(i)
      BY <1>10 DEF Invalid
    <3>5. ("BLOCK_INVALID" \in idxFile'[n + 1].flags <=> isTrusted)
      BY <1>10, <1>11
    <3> QED  BY <3>1, <3>2, <3>3, <3>4, <3>5
  <2>2. First \in ToSet(Branch[tip])
    BY <1>2, <1>6, <2>1, BranchType, EmptySeq, LenProperties DEF ToSet
  <2>3. isTrusted => First \in ToSet(Branch[cur])
    BY <1>2, <2>2, BranchSetStep
  <2>4. cur # First
    BY <1>2, <2>1
  <2>5. \A i \in DOMAIN idxFile' : i \in 1..n \/ i = n + 1
    BY <1>8, <1>10
  <2>6. \A i \in 1..n : \/ Invalid(i)
                        \/ idxFile[i].hash \in M /\ blockIdxMap[idxFile[i].hash].iPos = i
    BY <1>7, <1>10 DEF Fresh
  <2>7. RecordsOK'
    <3>1. Invalid(1)'
      BY <1>7, <1>16, <2>1 DEF RecordsOK
    <3>2. ASSUME NEW i \in DOMAIN idxFile', idxFile'[i].hash = First PROVE i = 1
      BY <1>7, <1>10, <2>4, <2>5, <3>2 DEF RecordsOK
    <3>3. ASSUME NEW i \in DOMAIN idxFile', Invalid(i)'
          PROVE  First \in ToSet(Branch[idxFile'[i].hash])
      <4>1. CASE i \in 1..n
        BY <1>7, <1>10, <2>1, <3>3, <4>1 DEF RecordsOK
      <4>2. CASE i = n + 1
        <5>1. isTrusted
          BY <2>1, <3>3, <4>2 DEF Invalid
        <5>2. idxFile'[i].hash = cur
          BY <1>10, <4>2
        <5> QED  BY <2>3, <5>1, <5>2
      <4> QED  BY <2>5, <4>1, <4>2
    <3>4. ASSUME NEW i \in DOMAIN idxFile', idxFile'[i].hash \in failed' PROVE Invalid(i)'
      BY <1>1, <1>7, <1>10, <2>1, <2>5, <3>4 DEF RecordsOK
    <3>5. ASSUME NEW i \in DOMAIN idxFile', NEW j \in DOMAIN idxFile',
                 idxFile'[i].hash = idxFile'[j].hash, ~Invalid(i)', ~Invalid(j)'
          PROVE  i = j
      <4>1. CASE i \in 1..n /\ j \in 1..n
        BY <1>7, <1>10, <2>1, <3>5, <4>1 DEF RecordsOK
      <4>2. \A k \in 1..n : ~Invalid(k) => idxFile[k].hash # cur
        BY <1>2, <2>6
      <4> QED  BY <1>10, <2>1, <2>5, <3>5, <4>1, <4>2
    <3> QED  BY <2>1, <3>1, <3>2, <3>3, <3>4, <3>5 DEF RecordsOK
  <2>8. Fresh'
    <3>1. cursor' = Len(idxFile') + 1
      BY <1>1, <1>8, <1>10
    <3>2. ASSUME NEW b \in M \cup {cur}
          PROVE  blockIdxMap'[b].iPos \in DOMAIN idxFile' /\ idxFile'[blockIdxMap'[b].iPos].hash = b
      <4>1. CASE b = cur
        BY <1>8, <1>10, <1>12, <4>1
      <4>2. CASE b \in M
        BY <1>7, <1>10, <1>12, <4>2 DEF Fresh
      <4> QED  BY <4>1, <4>2
    <3>3. ASSUME NEW i \in DOMAIN idxFile'
          PROVE  Invalid(i)' \/ (idxFile'[i].hash \in M \cup {cur}
                                 /\ blockIdxMap'[idxFile'[i].hash].iPos = i)
      BY <1>10, <1>12, <2>1, <2>5, <2>6
    <3>4. First' \in M \cup {cur} /\ applied' # <<>> /\ applied'[1] = First'
      BY <1>1, <2>1
    <3> QED  BY <1>4, <1>13, <3>1, <3>2, <3>3, <3>4 DEF Fresh
  <2> QED  BY <1>1, <1>7, <2>7, <2>8
<1> QED  BY <1>15, <1>16

(* A flag that is not misplaced goes to the record of its block. *)
LEMMA FlagParseBlock ==
  ASSUME PosInv, PosInv', HighInv, StoredOK, FlagInv, ParseBlock
  PROVE  FlagInv'
<1> DEFINE M == DOMAIN blockIdxMap
<1>a. /\ Parsing /\ NextPanic = "" /\ Known(Nxt) /\ CommitBlockTxs(GetBlock(Nxt), Nxt, "parse")
      /\ TrustBlock(GetBlock(Nxt)) \/ UNCHANGED blockVars
      /\ UNCHANGED <<cur, lost, cursor, failed>> /\ pc = "parse"
      /\ GetBlock(Nxt) \in M => TrustBlock(GetBlock(Nxt))
  BY DEF ParseBlock, Fetched, GoOn, Panic, Parsing, TrustBlock, CommitBlockTxs, blockVars, mapVars,
         blockHist
<1>2. Nxt \in M /\ Nxt \in Block /\ ParentOf[Nxt] = tip
  BY <1>a, NextIs
<1>3. /\ DOMAIN blockIdxMap' = M
      /\ \A b \in M : "iPos" \in DOMAIN blockIdxMap'[b] /\ blockIdxMap'[b].iPos = blockIdxMap[b].iPos
  <2>1. CASE TrustBlock(GetBlock(Nxt))
    BY <2>1 DEF FlagInv, TrustBlock
  <2>2. CASE UNCHANGED blockVars
    BY <2>2 DEF FlagInv, blockVars, mapVars
  <2> QED  BY <1>a, <2>1, <2>2
<1>5. SUFFICES ASSUME ~lost', ~misplaced'
               PROVE  RecordsOK' /\ failed \cap M = {} /\ (Fresh' \/ Stale')
  BY <1>a, <1>3 DEF FlagInv
<1>b. orphaned = {} /\ ~lost
  BY <1>a, <1>5 DEF PosInv
<1>c. GetBlock(Nxt) = Nxt
  BY <1>2, <1>b, ReadsIt
<1>1. /\ TrustBlock(Nxt) /\ applied' = Append(applied, Nxt)
      /\ UNCHANGED <<cur, lost, cursor, failed>> /\ pc = "parse" /\ pc' = "parse"
      /\ blockIdxMap' = [blockIdxMap EXCEPT ![Nxt].trusted = TRUE]
  <2>1. Len(applied) + 1 = Height(Nxt)
    BY <1>a, <1>2, <1>b, HeightsAgree
  <2> QED  BY <1>a, <1>2, <1>c, <2>1 DEF TrustBlock, CommitBlockTxs, GoOn
<1>4. applied \in Seq(Block) /\ applied' # <<>> /\ (applied # <<>> => applied'[1] = applied[1])
  <2>1. applied \in Seq(Block)
    BY <1>1, <1>b, BranchType DEF HighInv, BranchesOK, TypesOK
  <2> QED  BY <1>1, <1>2, <2>1, FirstStays
<1>6. ~lost /\ ~misplaced
  BY <1>1, <1>5 DEF TrustBlock, SetBlockFlag, StoredOK
<1>7. RecordsOK /\ failed \cap M = {} /\ (Fresh \/ Stale)
  BY <1>1, <1>6 DEF FlagInv
<1>8. \/ Fresh
      \/ Stale /\ idxFile' = idxFile
  <2>1. idxFile' = idxFile \/ (SetBlockFlag(Nxt, "BLOCK_TRUSTED"))
    BY <1>1 DEF TrustBlock
  <2>2. SetBlockFlag(Nxt, "BLOCK_TRUSTED") => idxFile[blockIdxMap[Nxt].iPos].hash = Nxt
    BY <1>5, <1>6 DEF SetBlockFlag
  <2> QED  BY <1>2, <1>7, <2>1, <2>2 DEF Stale
<1>9. /\ DOMAIN idxFile' = DOMAIN idxFile /\ Len(idxFile') = Len(idxFile)
      /\ \A i \in DOMAIN idxFile :
           /\ idxFile'[i].hash = idxFile[i].hash
           /\ "BLOCK_INVALID" \in idxFile'[i].flags <=> "BLOCK_INVALID" \in idxFile[i].flags
  <2>1. CASE idxFile' = idxFile
    BY <2>1
  <2>2. CASE SetBlockFlag(Nxt, "BLOCK_TRUSTED")
    <3>1. "BLOCK_TRUSTED" # "BLOCK_INVALID"
      OBVIOUS
    <3>2. \A S : "BLOCK_INVALID" \in S \cup {"BLOCK_TRUSTED"} <=> "BLOCK_INVALID" \in S
      BY <3>1
    <3>3. ASSUME NEW i \in DOMAIN idxFile
          PROVE  "BLOCK_INVALID" \in idxFile'[i].flags <=> "BLOCK_INVALID" \in idxFile[i].flags
      <4>1. \/ idxFile'[i].flags = idxFile[i].flags
            \/ idxFile'[i].flags = idxFile[i].flags \cup {"BLOCK_TRUSTED"}
        BY <2>2, FlagSets, ZenonT(60)
      <4> QED  BY <3>2, <4>1
    <3> QED  BY <2>2, <3>3, FlagSets
  <2> QED  BY <1>1, <2>1, <2>2 DEF TrustBlock
<1>10. idxFile' # <<>> <=> idxFile # <<>>
  <2>1. (1 \in DOMAIN idxFile' <=> idxFile' # <<>>) /\ (1 \in DOMAIN idxFile <=> idxFile # <<>>)
    BY NotEmpty DEF PosInv, Describes
  <2> QED  BY <1>9, <2>1
<1>11. idxFile # <<>> => First' = First
  BY <1>9, IndexTypes DEF First
<1>12. \A i \in DOMAIN idxFile : Invalid(i)' = Invalid(i) /\ idxFile # <<>>
  <2>1. \A i \in DOMAIN idxFile : idxFile # <<>>
    BY IndexTypes, EmptySeq
  <2> QED  BY <1>9, <2>1 DEF Invalid
<1>13. RecordsOK'
  BY <1>1, <1>7, <1>9, <1>10, <1>11, <1>12, IndexTypes DEF RecordsOK
<1>14. CASE Fresh
  <2>1. idxFile # <<>>
    BY <1>2, <1>12, <1>14 DEF Fresh
  <2>2. applied # <<>> /\ applied[1] = First /\ First \in M
    BY <1>1, <1>14, <2>1 DEF Fresh
  <2>3. Fresh'
    <3>1. cursor' = Len(idxFile') + 1
      BY <1>1, <1>9, <1>14 DEF Fresh
    <3>2. ASSUME NEW b \in M
          PROVE  blockIdxMap'[b].iPos \in DOMAIN idxFile' /\ idxFile'[blockIdxMap'[b].iPos].hash = b
      BY <1>3, <1>9, <1>14 DEF Fresh
    <3>3. ASSUME NEW i \in DOMAIN idxFile'
          PROVE  Invalid(i)' \/ (idxFile'[i].hash \in M /\ blockIdxMap'[idxFile'[i].hash].iPos = i)
      BY <1>3, <1>9, <1>12, <1>14 DEF Fresh
    <3>4. idxFile' # <<>> /\ First' \in M /\ applied' # <<>> /\ applied'[1] = First'
      BY <1>4, <1>10, <1>11, <2>1, <2>2
    <3> QED  BY <1>1, <1>3, <3>1, <3>2, <3>3, <3>4 DEF Fresh
  <2> QED  BY <1>7, <1>13, <2>3
<1>15. CASE Stale /\ idxFile' = idxFile
  BY <1>1, <1>3, <1>7, <1>13, <1>15 DEF Stale
<1> QED  BY <1>8, <1>14, <1>15

(* A bad block's record is flagged, and it was not the first one. *)
LEMMA FlagDelete ==
  ASSUME PosInv, PosInv', HighInv, StoredOK, FlagInv, DeleteBranch
  PROVE  FlagInv'
<1> DEFINE M == DOMAIN blockIdxMap
           p == blockIdxMap[Nxt].iPos
<1>1. /\ Parsing /\ NextPanic = "" /\ Known(Nxt) /\ InvalidBlock(Nxt)
      /\ SetBlockFlag(Nxt, "BLOCK_INVALID")
      /\ UNCHANGED <<applied, lost, cursor>> /\ pc = "parse" /\ pc' = "retarget"
      /\ blockIdxMap' = [x \in M \ {Nxt} |-> blockIdxMap[x]]
      /\ failed' = failed \cup {Nxt}
      /\ misplaced' = (misplaced \/ idxFile[p].hash # Nxt)
  BY DEF DeleteBranch, Fetched, GoOn, Parsing, InvalidBlock, SetBlockFlag
<1>2. Nxt \in M /\ Nxt \in Block /\ ParentOf[Nxt] = tip
  BY <1>1, NextIs
<1>3. /\ DOMAIN blockIdxMap' = M \ {Nxt}
      /\ \A b \in M \ {Nxt} : blockIdxMap'[b] = blockIdxMap[b]
      /\ \A b \in M \ {Nxt} : "iPos" \in DOMAIN blockIdxMap'[b]
  BY <1>1 DEF FlagInv
<1>4. SUFFICES ASSUME ~lost', ~misplaced'
               PROVE  RecordsOK' /\ failed' \cap (M \ {Nxt}) = {} /\ Fresh'
  BY <1>1, <1>3 DEF FlagInv
<1>5. ~lost /\ ~misplaced /\ idxFile[p].hash = Nxt
  BY <1>1, <1>4 DEF StoredOK
<1>6. RecordsOK /\ failed \cap M = {} /\ Fresh
  <2>1. ~Stale
    BY <1>2, <1>5 DEF Stale
  <2> QED  BY <1>1, <1>5, <2>1 DEF FlagInv
<1>7. /\ DOMAIN idxFile' = DOMAIN idxFile /\ Len(idxFile') = Len(idxFile)
      /\ \A i \in DOMAIN idxFile :
           /\ idxFile'[i].hash = idxFile[i].hash
           /\ Invalid(i) => Invalid(i)'
           /\ Invalid(i)' => Invalid(i) \/ i = p
           /\ i = p => Invalid(i)'
  BY <1>1, FlagSets, ZenonT(60) DEF Invalid
<1>8. p \in DOMAIN idxFile
  BY <1>2, <1>6 DEF Fresh
<1>9. idxFile # <<>> /\ idxFile' # <<>> /\ 1 \in DOMAIN idxFile
  <2>1. (1 \in DOMAIN idxFile' <=> idxFile' # <<>>) /\ (1 \in DOMAIN idxFile <=> idxFile # <<>>)
    BY NotEmpty DEF PosInv, Describes
  <2>2. \A i \in DOMAIN idxFile : 1 \in DOMAIN idxFile
    BY IndexTypes
  <2> QED  BY <1>7, <1>8, <2>1, <2>2
<1>10. First' = First /\ First \in M /\ applied # <<>> /\ applied[1] = First
  BY <1>1, <1>6, <1>7, <1>9 DEF Fresh, First
<1>11. First \in ToSet(Branch[tip])
  <2>1. applied = Branch[tip] /\ applied \in Seq(Block)
    BY <1>1, <1>5, BranchType DEF HighInv, BranchesOK, TypesOK, PosInv
  <2>2. 1 \in DOMAIN applied
    BY <1>10, <2>1, NotEmpty
  <2> QED  BY <1>10, <2>1, <2>2 DEF ToSet
<1>12. Nxt # First /\ First \in ToSet(Branch[Nxt])
  BY <1>2, <1>11, BranchSetStep
<1>13. RecordsOK'
  <2>1. Invalid(1)'
    BY <1>6, <1>7, <1>9 DEF RecordsOK
  <2>2. ASSUME NEW i \in DOMAIN idxFile', idxFile'[i].hash = First PROVE i = 1
    BY <1>6, <1>7, <2>2 DEF RecordsOK
  <2>3. ASSUME NEW i \in DOMAIN idxFile', Invalid(i)'
        PROVE  First \in ToSet(Branch[idxFile'[i].hash])
    <3>1. CASE i = p
      BY <1>5, <1>7, <1>12, <3>1
    <3>2. CASE i # p
      BY <1>6, <1>7, <2>3, <3>2 DEF RecordsOK
    <3> QED  BY <3>1, <3>2
  <2>4. ASSUME NEW i \in DOMAIN idxFile', idxFile'[i].hash \in failed' PROVE Invalid(i)'
    <3>1. CASE idxFile[i].hash = Nxt
      BY <1>6, <1>7, <3>1 DEF Fresh
    <3>2. CASE idxFile[i].hash # Nxt
      BY <1>1, <1>6, <1>7, <2>4, <3>2 DEF RecordsOK
    <3> QED  BY <3>1, <3>2
  <2>5. ASSUME NEW i \in DOMAIN idxFile', NEW j \in DOMAIN idxFile',
               idxFile'[i].hash = idxFile'[j].hash
        PROVE  i = j \/ Invalid(i)' \/ Invalid(j)'
    BY <1>6, <1>7, <2>5 DEF RecordsOK
  <2> QED  BY <1>10, <2>1, <2>2, <2>3, <2>4, <2>5 DEF RecordsOK
<1>14. Fresh'
  <2>1. cursor' = Len(idxFile') + 1
    BY <1>1, <1>6, <1>7 DEF Fresh
  <2>2. ASSUME NEW b \in M \ {Nxt}
        PROVE  blockIdxMap'[b].iPos \in DOMAIN idxFile' /\ idxFile'[blockIdxMap'[b].iPos].hash = b
    BY <1>3, <1>6, <1>7 DEF Fresh
  <2>3. ASSUME NEW i \in DOMAIN idxFile'
        PROVE  Invalid(i)' \/ (idxFile'[i].hash \in M \ {Nxt}
                               /\ blockIdxMap'[idxFile'[i].hash].iPos = i)
    BY <1>3, <1>6, <1>7 DEF Fresh
  <2>4. First' \in M \ {Nxt} /\ applied' # <<>> /\ applied'[1] = First'
    BY <1>1, <1>10, <1>12
  <2> QED  BY <1>1, <1>3, <1>9, <2>1, <2>2, <2>3, <2>4 DEF Fresh
<1> QED  BY <1>1, <1>6, <1>13, <1>14

(* Unless something is lost, the records stay as they are. *)
LEMMA FlagGoDown ==
  ASSUME StoredOK, FlagInv, Crash \/ PowerFailure
  PROVE  FlagInv'
<1>1. /\ pc' = "down" /\ DOMAIN blockIdxMap' = {} /\ misplaced' = misplaced /\ failed' = failed
  BY DEF Crash, PowerFailure, GoDown, NoMap, blockHist
<1>2. ~lost' => ~lost /\ idxFile' = idxFile
  BY DEF Crash, PowerFailure, StoredOK, files
<1>3. ~lost' /\ RecordsOK => RecordsOK'
  BY <1>1, <1>2 DEF RecordsOK, First, Invalid
<1> QED  BY <1>1, <1>2, <1>3 DEF FlagInv

(* Before record k of the loaded ones there are at most k-2, because the   *)
(* first record of the file is not loaded.                                 *)
LEMMA TPosLow ==
  ASSUME PosInv, 1 \notin Loadable, NEW k \in Loadable
  PROVE  TPos(k) \in 1..(k - 1)
<1> DEFINE S == {j \in Loadable : j < k}
<1>1. k \in Nat /\ k >= 2 /\ S \subseteq 2..(k - 1)
  BY IndexTypes DEF Loadable
<1>2. IsFiniteSet(2..(k - 1)) /\ Cardinality(2..(k - 1)) = k - 2
  BY <1>1, FS_Interval
<1>3. IsFiniteSet(S) /\ Cardinality(S) <= k - 2
  BY <1>1, <1>2, FS_Subset
<1>4. Cardinality(S) \in Nat
  BY <1>3, FS_CardinalityType
<1>5. TPos(k) = Cardinality(S) + 1
  BY DEF TPos
<1> HIDE DEF S
<1> QED  BY <1>1, <1>3, <1>4, <1>5

(* For the same reason the cursor is left inside the file. *)
LEMMA CursorLow ==
  ASSUME PosInv, 1 \notin Loadable, idxFile # <<>>
  PROVE  Cardinality(Loadable) + 1 <= Len(idxFile)
<1> DEFINE n == Len(idxFile)
<1>1. n \in Nat /\ n >= 1 /\ Loadable \subseteq 2..n
  BY IndexTypes DEF Loadable
<1>2. IsFiniteSet(2..n) /\ Cardinality(2..n) = n - 1
  BY <1>1, FS_Interval
<1>3. IsFiniteSet(Loadable) /\ Cardinality(Loadable) <= n - 1
  BY <1>1, <1>2, FS_Subset
<1>4. Cardinality(Loadable) \in Nat
  BY <1>3, FS_CardinalityType
<1> HIDE DEF n
<1>5. Cardinality(Loadable) + 1 <= n
  BY <1>1, <1>3, <1>4
<1> QED  BY <1>5 DEF n

(* A start that goes on has left out the first record, and no other of a   *)
(* block it loads: every place in the map is one of another block's record. *)
LEMMA FlagStart ==
  ASSUME PosInv, HighInv, StoredOK, FlagInv, Start
  PROVE  FlagInv'
<1>3. /\ DOMAIN blockIdxMap' = Loaded
      /\ \A b \in Loaded : "iPos" \in DOMAIN blockIdxMap'[b] /\ blockIdxMap'[b].iPos = TPos(RecordOf(b))
      /\ UNCHANGED <<applied, idxFile, failed, misplaced, lost>>
      /\ cursor' = Cardinality(Loadable) + 1
      /\ pc' = IF LoadPanic = "" THEN "start" ELSE "down"
  BY DEF Start, LoadIndex, files, blockHist
<1>4. SUFFICES ASSUME ~lost, ~misplaced
               PROVE  /\ RecordsOK' /\ failed \cap Loaded = {}
                      /\ LoadPanic = "" => Fresh' \/ Stale'
  BY <1>3 DEF FlagInv
<1>1. PICK x \in Node : applied = Branch[x]
  BY <1>4 DEF HighInv, BranchesOK, PosInv
<1>2. LastBlock = x
  BY <1>1, LastBlockIs
<1>5. RecordsOK /\ RecordsOK'
  <2>1. RecordsOK
    BY <1>4 DEF FlagInv
  <2>2. RecordsOK' = RecordsOK
    BY <1>3 DEF RecordsOK, Invalid, First
  <2> QED  BY <2>1, <2>2
<1>6. \A i : i \in Loadable <=> i \in DOMAIN idxFile /\ ~Invalid(i)
  BY DEF Loadable, Invalid
<1>7. failed \cap Loaded = {}
  BY <1>5, <1>6 DEF Loaded, RecordsOK
<1>8. SUFFICES ASSUME LoadPanic = "" PROVE Fresh' \/ Stale'
  BY <1>5, <1>7
<1>9. /\ \A b \in Loaded : ParentOf[b] \in Loaded \cup {Genesis}
      /\ x \in Loaded \cup {Genesis}
  BY <1>2, <1>8 DEF LoadPanic
<1>10. Loaded \subseteq Block
  BY LoadedFinite DEF PosInv
<1>11. CASE idxFile = <<>>
  <2>1. DOMAIN idxFile = {} /\ Len(idxFile) = 0
    BY <1>11, IndexTypes, EmptySeq
  <2>2. Loadable = {} /\ Loaded = {}
    BY <2>1 DEF Loadable, Loaded
  <2>3. cursor' = Len(idxFile) + 1
    BY <1>3, <2>1, <2>2, FS_EmptySet
  <2>4. applied = <<>>
    BY <1>1, <1>9, <2>2, BranchIs
  <2>5. Fresh'
    BY <1>3, <1>11, <2>1, <2>2, <2>3, <2>4 DEF Fresh
  <2> QED  BY <2>5
<1>12. CASE idxFile # <<>>
  <2>1. Invalid(1) /\ 1 \in DOMAIN idxFile
    BY <1>5, <1>12, IndexTypes DEF RecordsOK
  <2>2. 1 \notin Loadable
    BY <1>6, <2>1
  <2>3. First \notin Loaded
    BY <1>5, <1>6, <2>2 DEF Loaded, RecordsOK
  <2>4. cursor' <= Len(idxFile')
    BY <1>3, <1>12, <2>2, CursorLow
  <2>5. ASSUME NEW b \in Loaded PROVE idxFile[TPos(RecordOf(b))].hash # b
    <3> DEFINE k == RecordOf(b)
               m == TPos(k)
    <3>1. k \in Loadable /\ idxFile[k].hash = b
      BY RecordOfIsLoadable DEF PosInv
    <3> HIDE DEF k
    <3>2. m \in 1..(k - 1) /\ k \in DOMAIN idxFile
      BY <1>6, <2>2, <3>1, TPosLow
    <3> HIDE DEF m
    <3>3. m \in DOMAIN idxFile /\ m # k
      BY <3>2, IndexTypes
    <3>4. SUFFICES ASSUME idxFile[m].hash = b PROVE FALSE
      BY DEF m, k
    <3>5. Invalid(m)
      BY <1>5, <1>6, <3>1, <3>2, <3>3, <3>4 DEF RecordsOK
    <3>6. First \in ToSet(Branch[b])
      BY <1>5, <3>3, <3>4, <3>5 DEF RecordsOK
    <3>7. b \in AttachedIn(Loaded)
      BY <1>9, <1>10, LoadedAttached
    <3> QED  BY <2>3, <3>6, <3>7 DEF AttachedIn
  <2>6. Stale'
    BY <1>3, <2>4, <2>5 DEF Stale
  <2> QED  BY <2>6
<1> QED  BY <1>11, <1>12

(* So does taking away the last of several. *)
LEMMA FrontStays ==
  ASSUME NEW S, NEW s \in Seq(S), Len(s) # 0, Len(s) # 1
  PROVE  s # <<>> /\ Front(s) # <<>> /\ Front(s)[1] = s[1]
<1> DEFINE n == Len(s) - 1
           f == [i \in 1..n |-> s[i]]
<1>1. Len(s) \in Nat /\ \A i \in 1..Len(s) : s[i] \in S
  BY LenProperties
<1>2. n \in Nat /\ 1 \in 1..n /\ \A i \in 1..n : i \in 1..Len(s)
  <2> DEFINE m == Len(s)
  <2>1. m \in Nat /\ m # 0 /\ m # 1
    BY <1>1
  <2> HIDE DEF m
  <2>2. m - 1 \in Nat /\ 1 <= m - 1
    BY <2>1
  <2>3. n = m - 1
    BY DEF m
  <2> QED  BY <1>1, <2>2, <2>3
<1>3. Front(s) = f
  BY <1>1, <1>2 DEF Front
<1>4. s # <<>>
  BY EmptySeq
<1> HIDE DEF n
<1>5. f \in [1..n -> S]
  BY <1>1, <1>2
<1>6. f \in Seq(S) /\ DOMAIN f = 1..n /\ f[1] = s[1]
  BY <1>2, <1>5
<1> HIDE DEF f
<1>7. f # <<>>
  BY <1>2, <1>6, NotEmpty
<1> QED  BY <1>3, <1>4, <1>6, <1>7

(* One case for each action of Restart. *)
LEMMA FlagStep ==
  ASSUME PosInv, PosInv', HighInv, HighInv', StoredOK, WayOK, FlagInv, [Next]_vars
  PROVE  FlagInv'
<1>0. ~lost => orphaned = {}
  BY DEF PosInv
<1>a. ASSUME UndoTip(pc), pc \in {"undo", "start"}, tip # Genesis PROVE FlagInv'
  <2>1. /\ UNCHANGED <<lost, misplaced, idxFile, blockIdxMap, cursor, failed>>
        /\ pc' # "down" => Len(applied) # 1 /\ applied' = Front(applied) /\ pc' = pc
    BY <1>a DEF UndoTip, Panic, GoOn, blockVars, mapVars, files, blockHist
  <2>2. ASSUME ~lost, Len(applied) # 1
        PROVE  applied # <<>> /\ Front(applied) # <<>> /\ Front(applied)[1] = applied[1]
    <3>1. applied \in Seq(Block) /\ Len(applied) \in Nat /\ Len(applied) # 0
      BY <1>a, <1>0, <2>2, BranchType DEF HighInv, BranchesOK, TypesOK, Height
    <3> QED  BY <2>2, <3>1, FrontStays
  <2>3. CASE lost
    BY <2>1, <2>3 DEF FlagInv
  <2>4. CASE ~lost
    BY <1>a, <2>1, <2>2, <2>4, FlagQuiet
  <2> QED  BY <2>3, <2>4
<1>1. CASE \E b \in Block : AddBlock(b)
  BY <1>1, FlagQuiet DEF AddBlock, AppendBlock, GoOn, mapVars, blockHist
<1>2. CASE AddRecord
  BY <1>2, FlagAddRecord
<1>3. CASE CommitTip
  <2>0. /\ pc = "commit" /\ CommitBlockTxs(cur, cur, "sync")
        /\ UNCHANGED <<lost, misplaced, idxFile, blockIdxMap, cursor, failed>>
    BY <1>3 DEF CommitTip, CommitBlockTxs, GoOn, Panic, blockVars, mapVars, files, blockHist
  <2>a. CASE lost
    BY <2>0, <2>a DEF FlagInv
  <2>b. SUFFICES ASSUME ~lost PROVE FlagInv'
    BY <2>a
  <2>2. cur \in Block /\ cur \in DOMAIN blockIdxMap /\ applied \in Seq(Block) /\ ParentOf[cur] = tip
    <3>1. cur \in Block /\ cur \in Attached /\ DOMAIN blockIdxMap \subseteq Block /\ ParentOf[cur] = tip
      BY <2>0 DEF HighInv, AimOK, FarthestNodes, TypesOK
    <3> QED  BY <1>0, <2>0, <2>b, <3>1, AttachedNow, AttachedIs, BranchType
             DEF HighInv, BranchesOK, TypesOK
  <2>1. pc' = "sync" /\ applied' = Append(applied, cur)
    BY <1>0, <2>0, <2>b, <2>2, HeightsAgree DEF CommitBlockTxs, GoOn
  <2>3. /\ applied' # <<>>
        /\ applied'[1] = IF applied = <<>> THEN cur ELSE applied[1]
    BY <2>1, <2>2, FirstStays
  <2>4. CASE idxFile # <<>>
    BY <2>0, <2>1, <2>3, <2>4, FlagQuiet
  <2>5. CASE idxFile = <<>>
    <3>1. ~lost /\ ~misplaced => FALSE
      <4>1. DOMAIN idxFile = {}
        BY <2>5, IndexTypes, EmptySeq
      <4>2. Recorded = {}
        BY <4>1 DEF Recorded
      <4> QED  BY <2>2, <4>2 DEF StoredOK
    <3>2. lost' \/ misplaced'
      BY <2>0, <3>1
    <3> QED  BY <2>0, <3>2 DEF FlagInv
  <2> QED  BY <2>4, <2>5
<1>4. CASE Sync \/ SyncBlocks \/ SyncUnspent
  BY <1>4, FlagQuiet DEF Sync, SyncBlocks, SyncUnspent, SyncIndex, SyncData, GoOn, blockVars, files,
                         mapVars, blockHist
<1>5. CASE MoveUndo
  BY <1>5, <1>a, NotBelow DEF MoveUndo
<1>6. CASE MoveParse
  BY <1>6, FlagQuiet DEF MoveParse, GoOn, blockVars, mapVars, files, blockHist
<1>7. CASE ParseBlock
  BY <1>7, FlagParseBlock
<1>8. CASE DeleteBranch
  BY <1>8, FlagDelete
<1>9. CASE Retarget
  BY <1>9, FlagQuiet DEF Retarget, GoOn, blockVars, mapVars, files, blockHist
<1>10. CASE ParseReturns
  BY <1>10, FlagQuiet DEF ParseReturns, GoOn, blockVars, mapVars, files, blockHist
<1>11. CASE ParsePanics
  BY <1>11, FlagQuiet DEF ParsePanics, Parsing, Panic, blockVars, mapVars, files, blockHist
<1>12. CASE Crash \/ PowerFailure
  BY <1>12, FlagGoDown
<1>13. CASE Start
  BY <1>13, FlagStart
<1>14. CASE StartUndo
  BY <1>14, <1>a, NotBelow DEF StartUndo
<1>15. CASE StartParse
  BY <1>15, FlagQuiet DEF StartParse, GoOn, blockVars, mapVars, files, blockHist
<1>16. CASE UNCHANGED vars
  <2>1. UNCHANGED <<applied, cur, pc, blockIdxMap, idxFile, lost, misplaced, cursor, failed>>
    BY <1>16 DEF vars, chainVars, blockVars, mapVars, files, blockHist
  <2>2. RecordsOK' = RecordsOK /\ Fresh' = Fresh /\ Stale' = Stale
    BY <2>1 DEF RecordsOK, Fresh, Stale, First, Invalid
  <2> QED  BY <2>1, <2>2 DEF FlagInv
<1> QED
  BY <1>1, <1>2, <1>3, <1>4, <1>5, <1>6, <1>7, <1>8, <1>9, <1>10, <1>11, <1>12,
     <1>13, <1>14, <1>15, <1>16 DEF Next

(* As long as no record was overwritten or lost and no flag went into the  *)
(* record of another block, a trusted block was verified, and a block that  *)
(* was found bad does not come back at a start.                             *)
THEOREM FlagsAreTrue == Spec => []FlagsTellTheTruth
<1>1. Init => WayOK /\ StoredOK /\ FlagInv
  BY WayInit, StoredInit, FlagInit
<1>2. PosInv /\ PosInv' /\ HighInv /\ HighInv' /\ WayOK /\ StoredOK /\ FlagInv /\ [Next]_vars
        => WayOK' /\ StoredOK' /\ FlagInv'
  BY WayStep, StoredStep, FlagStep
<1>3. FlagInv /\ TrustInv => FlagsTellTheTruth
  BY DEF FlagInv, TrustInv, MapTrue, FlagsTellTheTruth
<1>4. Spec => []TrustInv
  BY TrustInit, TrustStep, RestartInvariant, PTL DEF Spec
<1> QED  BY <1>1, <1>2, <1>3, <1>4, RestartInvariant, RestartBranches, PTL DEF Spec
=============================================================================
