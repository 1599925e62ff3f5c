------------------------- MODULE UnspentStoreProofs -------------------------
(***************************************************************************)
(* Proofs about UnspentStore, for every set of outpoints and hashes and    *)
(* every window, start-up loop and height.                                 *)
(***************************************************************************)
EXTENDS UnspentStore, SequenceTheorems, TLAPS

(* The initial state satisfies the inductive invariant. *)
LEMMA InitInv == Init => StoreInv
<1> SUFFICES ASSUME Init PROVE StoreInv
  OBVIOUS
<1>1. DOMAIN unwind = {} /\ unwind \in [DOMAIN unwind -> UnwindRec]
  BY DEF Init, EmptyDB
<1>2. TypeOK
  <2>1. 0 \in Height
    BY StoreAssumption DEF Height
  <2>2. phase \in Phases /\ panicked \in Panics
    BY DEF Init, Phases, Panics
  <2>3. DOMAIN unwind \subseteq Height \ {0} /\ left \in Nat
    BY <1>1 DEF Init
  <2> QED  BY <1>1, <2>1, <2>2, <2>3 DEF Init, TypeOK
<1>3. RecordsUndoBlocks /\ UnwindWindow
  BY <1>1 DEF Init, RecordsUndoBlocks, UnwindWindow
<1>4. LastBlockMatches /\ CallInProgress
  <2>1. Eq(utxo, hist[depth])
    <3>1. 0 \in Height
      BY StoreAssumption DEF Height
    <3>2. hist[depth] = {} /\ utxo = {}
      BY <3>1 DEF Init
    <3> QED  BY <3>2 DEF Eq
  <2>2. LastBlockMatches
    <3>1. lastBlockHeight = 0 /\ depth = 0 /\ ~dirty /\ panicked = ""
      BY DEF Init
    <3>2. Tip = 0
      BY <3>1 DEF Tip
    <3>3. ~(0 > 0)
      OBVIOUS
    <3> QED  BY <3>1, <3>2, <3>3 DEF LastBlockMatches
  <2>3. CallInProgress
    BY <1>1, <2>1 DEF Init, CallInProgress
  <2> QED  BY <2>2, <2>3
<1> QED  BY <1>2, <1>3, <1>4 DEF StoreInv

(* While the process runs and a block is applied, its record is there.     *)
LEMMA TipRecord ==
  ASSUME StoreInv, Running, lastBlockHeight > 0
  PROVE  /\ lastBlockHeight = Tip
         /\ Tip \in DOMAIN unwind
         /\ Tip \in Height /\ Tip > 0
         /\ unwind[Tip] \in UnwindRec
  BY StoreAssumption DEF StoreInv, TypeOK, LastBlockMatches

(* unwindDB.commit writes the record of the new block. *)
LEMMA CommitBeginInv ==
  ASSUME StoreInv,
         NEW hash \in BlockHash, NEW added \in SUBSET OutPoint,
         NEW deleted \in SUBSET OutPoint,
         CommitBegin(hash, added, deleted)
  PROVE  StoreInv'
<1> DEFINE rec == UnwindRecord(hash, added, deleted)
           n   == depth + 1
<1>1. /\ ~dirty /\ Tip = depth /\ lastBlockHeight = depth
      /\ depth \in Height /\ n \in Height \ {0} /\ n <= MaxHeight
      /\ Eq(utxo, hist[depth])
  <2>1. phase = "idle" /\ left = 0 /\ lastBlockHeight < MaxHeight
    BY DEF CommitBegin
  <2>2. ~dirty /\ Eq(utxo, hist[depth])
    BY <2>1 DEF StoreInv, CallInProgress
  <2>3. Tip = depth /\ lastBlockHeight = depth
    BY <2>1, <2>2 DEF StoreInv, LastBlockMatches, Running, Tip
  <2>4. depth \in Height /\ MaxHeight \in Nat
    BY StoreAssumption DEF StoreInv, TypeOK
  <2> QED  BY <2>1, <2>2, <2>3, <2>4 DEF Height
<1>2. /\ dirty' = TRUE /\ depth' = depth /\ Tip' = n /\ hist' = hist /\ utxo' = utxo
      /\ lastBlockHeight' = n /\ lastBlockHash' = hash /\ phase' = "prune"
      /\ puts' = added /\ dels' = deleted
  BY <1>1 DEF CommitBegin, Tip
<1>3. /\ DOMAIN unwind' = DOMAIN unwind \cup {n}
      /\ unwind'[n] = rec
      /\ \A h \in DOMAIN unwind : h # n => unwind'[h] = unwind[h]
      /\ unwind' \in [DOMAIN unwind' -> UnwindRec]
  <2>1. rec \in UnwindRec
    BY DEF UnwindRecord, UnwindRec
  <2>2. unwind' = [h \in DOMAIN unwind \cup {n} |-> IF h = n THEN rec ELSE unwind[h]]
    BY <1>1 DEF CommitBegin, PutRecord
  <2> QED  BY <2>1, <2>2 DEF StoreInv, TypeOK
<1>4. \A h \in DOMAIN unwind : h \in Nat /\ h > 0 /\ h <= depth
  BY <1>1 DEF StoreInv, TypeOK, UnwindWindow, Height
<1>5. TypeOK'
  BY <1>1, <1>2, <1>3 DEF StoreInv, TypeOK, CommitBegin, Phases, Height
<1>6. RecordsUndoBlocks'
  <2>1. \A h \in DOMAIN unwind' :
          h <= depth => Eq(UndoChanges(hist[h], unwind'[h]), hist[h - 1])
    BY <1>1, <1>3, <1>4 DEF StoreInv, RecordsUndoBlocks, Height
  <2>2. Eq(UndoChanges(utxo, rec), hist[depth])
    <3>1. added \cap utxo \subseteq Irregular /\ deleted \subseteq utxo \cup Irregular
          /\ added \cap deleted \subseteq Irregular
      BY DEF CommitBegin, PossibleChanges
    <3> QED  BY <3>1, <1>1 DEF Eq, UndoChanges, UnwindRecord
  <2> QED  BY <2>1, <2>2, <1>2, <1>3 DEF RecordsUndoBlocks, Eq
<1>7. UnwindWindow'
  <2>1. \A h \in DOMAIN unwind : h..depth \subseteq DOMAIN unwind /\ h + MaxHistory > depth
    BY <1>1 DEF StoreInv, UnwindWindow
  <2>2. \A h \in DOMAIN unwind :
          h..n \subseteq DOMAIN unwind \cup {n} /\ h <= n /\ h + MaxHistory > depth
    BY <1>1, <1>4, <2>1 DEF Height
  <2>3. n..n = {n} /\ n <= n /\ n + MaxHistory > depth
    BY StoreAssumption, <1>1 DEF Height
  <2> QED  BY <1>2, <1>3, <2>2, <2>3 DEF UnwindWindow
<1>8. LastBlockMatches'
  <2>1. panicked' # "Unwind data not found"
    BY DEF StoreInv, LastBlockMatches, CommitBegin
  <2>2. unwind'[n].hash = hash
    BY <1>3 DEF UnwindRecord
  <2> QED  BY <1>1, <1>2, <1>3, <2>1, <2>2 DEF LastBlockMatches
<1>9. CallInProgress'
  BY <1>1, <1>2, <1>3, <1>4
  DEF StoreInv, CallInProgress, UnwindRecord, CommitBegin, PossibleChanges, Eq
<1> QED  BY <1>5, <1>6, <1>7, <1>8, <1>9 DEF StoreInv
(* unwindDB.commit drops the record that leaves the window. *)
LEMMA CommitPruneInv ==
  ASSUME StoreInv, CommitPrune
  PROVE  StoreInv'
<1>1. /\ dirty /\ Tip = depth + 1 /\ lastBlockHeight = Tip
      /\ Tip \in DOMAIN unwind /\ Tip \in Height /\ depth \in Nat
  <2>1. dirty /\ Tip \in DOMAIN unwind
    BY DEF StoreInv, CallInProgress, CommitPrune
  <2>2. Running
    BY DEF CommitPrune, Running
  <2>3. Tip = depth + 1
    BY <2>1 DEF Tip
  <2>4. lastBlockHeight = Tip
    BY <2>2 DEF StoreInv, LastBlockMatches
  <2> QED  BY <2>1, <2>3, <2>4 DEF StoreInv, TypeOK, Height
<1>2. /\ utxo' = utxo /\ puts' = puts /\ dels' = dels /\ dirty' = dirty
      /\ depth' = depth /\ hist' = hist /\ Tip' = Tip /\ phase' = "apply"
      /\ lastBlockHeight' = lastBlockHeight /\ lastBlockHash' = lastBlockHash
      /\ panicked' = panicked
  BY DEF CommitPrune, histVars, Tip
<1>3. /\ DOMAIN unwind' \subseteq DOMAIN unwind
      /\ \A h \in DOMAIN unwind :
           h \in DOMAIN unwind' <=> ~(Tip >= MaxHistory /\ h = Tip - MaxHistory)
      /\ \A h \in DOMAIN unwind' : unwind'[h] = unwind[h]
      /\ unwind' \in [DOMAIN unwind' -> UnwindRec]
  <2>1. CASE Tip >= MaxHistory
    <3>1. unwind' = [h \in DOMAIN unwind \ {Tip - MaxHistory} |-> unwind[h]]
      BY <1>1, <2>1 DEF CommitPrune, Pruned, DelRecord
    <3> QED  BY <3>1, <2>1 DEF StoreInv, TypeOK
  <2>2. CASE ~(Tip >= MaxHistory)
    <3>1. unwind' = unwind
      BY <1>1, <2>2 DEF CommitPrune, Pruned
    <3> QED  BY <3>1, <2>2 DEF StoreInv, TypeOK
  <2> QED  BY <2>1, <2>2
<1>4. \A h \in DOMAIN unwind : h \in Nat /\ h <= Tip /\ h + MaxHistory > depth
                              /\ h..Tip \subseteq DOMAIN unwind
  BY DEF StoreInv, TypeOK, UnwindWindow, Height
<1>5. Tip \in DOMAIN unwind'
  BY <1>1, <1>3, StoreAssumption DEF Height
<1>6. \A h \in DOMAIN unwind' : h + MaxHistory > Tip
  BY <1>1, <1>3, <1>4, StoreAssumption DEF Height
<1>7. TypeOK'
  <2>1. DOMAIN unwind' \subseteq Height \ {0} /\ phase' \in Phases
    BY <1>2, <1>3 DEF StoreInv, TypeOK, Phases
  <2> QED  BY <1>2, <1>3, <2>1 DEF StoreInv, TypeOK, CommitPrune
<1>8. RecordsUndoBlocks'
  BY <1>1, <1>2, <1>3, <1>5 DEF StoreInv, RecordsUndoBlocks, Eq
<1>9. UnwindWindow'
  <2> SUFFICES ASSUME NEW h \in DOMAIN unwind'
               PROVE  h..Tip \subseteq DOMAIN unwind' /\ h <= Tip /\ h + MaxHistory > depth
    BY <1>2 DEF UnwindWindow
  <2>1. h \in DOMAIN unwind /\ h \in Nat
    BY <1>3, <1>4
  <2>2. ASSUME NEW k \in h..Tip PROVE k \in DOMAIN unwind'
    <3>1. k \in DOMAIN unwind /\ k \in Nat /\ k >= h
      BY <1>4, <2>1
    <3>2. k + MaxHistory > Tip
      BY <1>1, <1>6, <2>1, <3>1, StoreAssumption DEF Height
    <3> QED  BY <1>1, <1>3, <3>1, <3>2, StoreAssumption DEF Height
  <2> QED  BY <1>4, <2>1, <2>2
<1>10. LastBlockMatches'
  BY <1>1, <1>2, <1>3, <1>5 DEF StoreInv, LastBlockMatches, CommitPrune, Running
<1>11. CallInProgress'
  BY <1>1, <1>2, <1>3, <1>5, <1>6 DEF StoreInv, CallInProgress, CommitPrune, Eq
<1> QED  BY <1>7, <1>8, <1>9, <1>10, <1>11 DEF StoreInv

(* What a step that only touches the unspent database leaves alone. *)
LEMMA UtxoStepInv ==
  ASSUME StoreInv,
         utxo' \in SUBSET OutPoint, puts' \in SUBSET OutPoint,
         dels' \in SUBSET OutPoint, minedAt' \in [OutPoint -> Height],
         UNCHANGED <<unwind, lastBlockHeight, lastBlockHash, phase, left,
                     panicked, histVars>>,
         phase # "down",
         dirty => Eq(UndoChanges(utxo', unwind[Tip]), hist[depth]),
         CallInProgress'
  PROVE  StoreInv'
<1>1. TypeOK'
  BY DEF StoreInv, TypeOK, histVars
<1>2. Tip' = Tip
  BY DEF Tip, histVars
<1>3. RecordsUndoBlocks'
  BY <1>2 DEF StoreInv, RecordsUndoBlocks, histVars, Eq
<1>4. UnwindWindow' /\ LastBlockMatches'
  BY <1>2 DEF StoreInv, UnwindWindow, LastBlockMatches, histVars, Running
<1> QED  BY <1>1, <1>3, <1>4 DEF StoreInv

(* unspentDB.commit adds an output: undoing the record removes it again.   *)
LEMMA CommitPutInv ==
  ASSUME StoreInv, NEW o \in OutPoint, CommitPut(o)
  PROVE  StoreInv'
<1>1. dirty /\ Tip \in DOMAIN unwind /\ puts \subseteq unwind[Tip].added
  BY DEF StoreInv, CallInProgress, CommitPut
<1>2. o \in unwind[Tip].added
  BY <1>1 DEF CommitPut
<1>3. Eq(UndoChanges(utxo', unwind[Tip]), hist[depth])
  <2>1. UndoChanges(utxo', unwind[Tip]) = UndoChanges(utxo, unwind[Tip])
    BY <1>2 DEF CommitPut, UndoChanges
  <2> QED  BY <1>1, <2>1 DEF StoreInv, RecordsUndoBlocks
<1>4. minedAt' \in [OutPoint -> Height]
  BY DEF CommitPut, StoreInv, TypeOK
<1>5. CallInProgress'
  <2>1. Tip' = Tip
    BY DEF Tip, CommitPut, histVars
  <2> QED  BY <1>1, <2>1 DEF StoreInv, CallInProgress, CommitPut, histVars
<1>6. utxo' \in SUBSET OutPoint /\ puts' \in SUBSET OutPoint /\ dels' \in SUBSET OutPoint
  BY DEF StoreInv, TypeOK, CommitPut
<1> QED  BY <1>3, <1>4, <1>5, <1>6, UtxoStepInv DEF CommitPut

(* unspentDB.commit deletes an output: undoing the record puts it back.    *)
LEMMA CommitDelInv ==
  ASSUME StoreInv, NEW o \in OutPoint, CommitDel(o)
  PROVE  StoreInv'
<1>1. dirty /\ Tip \in DOMAIN unwind /\ dels \subseteq unwind[Tip].deleted
  BY DEF StoreInv, CallInProgress, CommitDel
<1>2. o \in unwind[Tip].deleted
  BY <1>1 DEF CommitDel
<1>3. Eq(UndoChanges(utxo', unwind[Tip]), hist[depth])
  <2>1. UndoChanges(utxo', unwind[Tip]) = UndoChanges(utxo, unwind[Tip])
    BY <1>2 DEF CommitDel, UndoChanges
  <2> QED  BY <1>1, <2>1 DEF StoreInv, RecordsUndoBlocks
<1>4. minedAt' \in [OutPoint -> Height]
  <2>1. 0 \in Height
    BY StoreAssumption DEF Height
  <2> QED  BY <2>1 DEF CommitDel, StoreInv, TypeOK
<1>5. CallInProgress'
  <2>1. Tip' = Tip
    BY DEF Tip, CommitDel, histVars
  <2> QED  BY <1>1, <2>1 DEF StoreInv, CallInProgress, CommitDel, histVars
<1>6. utxo' \in SUBSET OutPoint /\ puts' \in SUBSET OutPoint /\ dels' \in SUBSET OutPoint
  BY DEF StoreInv, TypeOK, CommitDel
<1> QED  BY <1>3, <1>4, <1>5, <1>6, UtxoStepInv DEF CommitDel
(* The block is applied in full: its record takes the outputs after it to  *)
(* those before it, and the two are now known.                             *)
LEMMA CommitEndInv ==
  ASSUME StoreInv, CommitEnd
  PROVE  StoreInv'
<1> DEFINE n == depth + 1
<1>1. /\ dirty /\ Tip = n /\ n \in DOMAIN unwind /\ n \in Height /\ depth \in Nat
      /\ n - 1 = depth /\ lastBlockHeight = n
  <2>1. dirty /\ Tip \in DOMAIN unwind
    BY DEF StoreInv, CallInProgress, CommitEnd
  <2>2. Tip = n
    BY <2>1 DEF Tip
  <2>3. lastBlockHeight = Tip
    BY DEF CommitEnd, StoreInv, LastBlockMatches, Running
  <2>4. n \in Height /\ depth \in Nat
    BY <2>1, <2>2 DEF StoreInv, TypeOK, Height
  <2> QED  BY <2>1, <2>2, <2>3, <2>4
<1>2. /\ unwind' = unwind /\ utxo' = utxo /\ phase' = "idle" /\ ~dirty' /\ depth' = n
      /\ puts' = puts /\ dels' = dels /\ left' = left /\ lastBlockHeight' = n
      /\ lastBlockHash' = lastBlockHash /\ panicked' = panicked
  BY <1>1 DEF CommitEnd, diskVars
<1>3. Tip' = n
  BY <1>2 DEF Tip
<1>4. /\ hist' \in [Height -> SUBSET OutPoint] /\ hist'[n] = utxo
      /\ \A h \in Height : h # n => hist'[h] = hist[h]
  BY <1>1 DEF CommitEnd, StoreInv, TypeOK
<1>5. \A h \in DOMAIN unwind : h \in Height /\ h \in Nat /\ h > 0 /\ h <= n
  BY <1>1 DEF StoreInv, TypeOK, UnwindWindow, Height
<1>6. TypeOK'
  <2>1. phase' \in Phases /\ dirty' \in BOOLEAN
    BY DEF CommitEnd, Phases
  <2> QED  BY <1>1, <1>2, <1>4, <2>1 DEF StoreInv, TypeOK, CommitEnd, diskVars
<1>7. RecordsUndoBlocks'
  <2> SUFFICES ASSUME NEW h \in DOMAIN unwind
               PROVE  Eq(UndoChanges(hist'[h], unwind[h]), hist'[h - 1])
    BY <1>2 DEF RecordsUndoBlocks, Eq
  <2>1. h - 1 \in Height /\ h - 1 # n /\ hist'[h - 1] = hist[h - 1]
    BY <1>1, <1>4, <1>5, StoreAssumption DEF Height
  <2>2. CASE h = n
    BY <1>1, <1>4, <2>1, <2>2 DEF StoreInv, RecordsUndoBlocks
  <2>3. CASE h # n
    <3>1. h <= depth /\ hist'[h] = hist[h]
      BY <1>1, <1>4, <1>5, <2>3
    <3> QED  BY <2>1, <3>1 DEF StoreInv, RecordsUndoBlocks
  <2> QED  BY <2>2, <2>3
<1>8. UnwindWindow'
  <2>1. \A h \in DOMAIN unwind : h + MaxHistory > n
    BY <1>1 DEF StoreInv, CallInProgress, CommitEnd
  <2> QED  BY <1>1, <1>2, <1>3, <2>1 DEF StoreInv, UnwindWindow
<1>9. LastBlockMatches'
  BY <1>1, <1>2, <1>3 DEF StoreInv, LastBlockMatches, CommitEnd, Running
<1>10. CallInProgress'
  BY <1>2, <1>4 DEF StoreInv, CallInProgress, Eq
<1> QED  BY <1>6, <1>7, <1>8, <1>9, <1>10 DEF StoreInv

(* UndoBlockTransactions reads the record of the last block; it is there.  *)
LEMMA UndoBeginInv ==
  ASSUME StoreInv, UndoBegin
  PROVE  StoreInv'
<1>1. /\ lastBlockHeight = Tip /\ Tip \in DOMAIN unwind
      /\ Tip \in Height /\ Tip \in Nat /\ Tip > 0 /\ unwind[Tip] \in UnwindRec
  <2>1. Running /\ lastBlockHeight > 0
    BY DEF UndoBegin, Running
  <2> QED  BY <2>1, TipRecord DEF Height
<1>2. /\ phase' = "revert" /\ dels' = unwind[Tip].added /\ puts' = unwind[Tip].deleted
      /\ dirty' = TRUE /\ panicked' = panicked
      /\ depth' = (IF dirty THEN depth ELSE depth - 1)
      /\ hist' = (IF dirty THEN hist ELSE [hist EXCEPT ![depth] = {}])
      /\ utxo' = utxo /\ minedAt' = minedAt /\ unwind' = unwind
      /\ lastBlockHeight' = lastBlockHeight /\ lastBlockHash' = lastBlockHash
  BY <1>1 DEF UndoBegin, diskVars
<1>3. left' \in Nat
  <2>1. left \in Nat /\ left' = (IF left > 0 THEN left - 1 ELSE 0)
    BY DEF UndoBegin, StoreInv, TypeOK
  <2> QED  BY <2>1
<1>4. /\ depth' \in Height /\ depth' \in Nat /\ depth' + 1 = Tip /\ Tip' = Tip
      /\ depth' <= depth
  <2>1. Tip' = depth' + 1
    BY <1>2 DEF Tip
  <2>2. CASE dirty
    <3>1. depth' = depth /\ Tip = depth + 1
      BY <1>2, <2>2 DEF Tip
    <3> QED  BY <2>1, <3>1 DEF StoreInv, TypeOK, Height
  <2>3. CASE ~dirty
    <3>1. depth' = depth - 1 /\ Tip = depth
      BY <1>2, <2>3 DEF Tip
    <3> QED  BY <1>1, <2>1, <3>1, StoreAssumption DEF StoreInv, TypeOK, Height
  <2> QED  BY <2>2, <2>3
<1>5. /\ hist' \in [Height -> SUBSET OutPoint]
      /\ \A h \in Height : h <= depth' => hist'[h] = hist[h]
  <2>1. CASE dirty
    BY <1>2, <2>1 DEF StoreInv, TypeOK
  <2>2. CASE ~dirty
    <3>1. hist' = [hist EXCEPT ![depth] = {}] /\ depth' = depth - 1
      BY <1>2, <2>2
    <3> QED  BY <3>1 DEF StoreInv, TypeOK, Height
  <2> QED  BY <2>1, <2>2
<1>6. Eq(UndoChanges(utxo, unwind[Tip]), hist[depth'])
  <2>1. CASE dirty
    BY <1>2, <2>1 DEF StoreInv, RecordsUndoBlocks
  <2>2. CASE ~dirty
    <3>1. Tip = depth /\ depth' = depth - 1 /\ Eq(utxo, hist[depth])
      BY <1>2, <2>2 DEF Tip, StoreInv, CallInProgress
    <3>2. Eq(UndoChanges(hist[depth], unwind[depth]), hist[depth - 1])
      BY <1>1, <3>1 DEF StoreInv, RecordsUndoBlocks
    <3> QED  BY <3>1, <3>2 DEF Eq, UndoChanges
  <2> QED  BY <2>1, <2>2
<1>7. TypeOK'
  <2>1. phase' \in Phases /\ dirty' \in BOOLEAN
    BY <1>2 DEF Phases
  <2>2. dels' \in SUBSET OutPoint /\ puts' \in SUBSET OutPoint
    BY <1>1, <1>2 DEF UnwindRec
  <2> QED  BY <1>2, <1>3, <1>4, <1>5, <2>1, <2>2 DEF StoreInv, TypeOK
<1>8. RecordsUndoBlocks'
  <2>1. ASSUME NEW h \in DOMAIN unwind, h <= depth'
        PROVE  Eq(UndoChanges(hist'[h], unwind[h]), hist'[h - 1])
    <3>1. /\ h \in Height /\ h - 1 \in Height /\ h - 1 <= depth' /\ h <= depth
      BY <1>4, <2>1, StoreAssumption DEF StoreInv, TypeOK, Height
    <3>2. hist'[h] = hist[h] /\ hist'[h - 1] = hist[h - 1]
      BY <1>5, <2>1, <3>1
    <3> QED  BY <3>1, <3>2 DEF StoreInv, RecordsUndoBlocks
  <2>2. hist'[depth'] = hist[depth']
    BY <1>4, <1>5
  <2> QED  BY <1>2, <1>4, <1>6, <2>1, <2>2 DEF RecordsUndoBlocks, Eq
<1>9. UnwindWindow'
  <2> SUFFICES ASSUME NEW h \in DOMAIN unwind
               PROVE  h..Tip \subseteq DOMAIN unwind /\ h <= Tip /\ h + MaxHistory > depth'
    BY <1>2, <1>4 DEF UnwindWindow
  <2>1. h \in Nat /\ h..Tip \subseteq DOMAIN unwind /\ h <= Tip /\ h + MaxHistory > depth
    BY DEF StoreInv, TypeOK, UnwindWindow, Height
  <2>2. depth \in Nat
    BY DEF StoreInv, TypeOK, Height
  <2> QED  BY <1>4, <2>1, <2>2, StoreAssumption
<1>10. LastBlockMatches'
  BY <1>1, <1>2, <1>4 DEF StoreInv, LastBlockMatches, UndoBegin, Running
<1>11. CallInProgress'
  BY <1>1, <1>2, <1>4 DEF StoreInv, CallInProgress, Eq
<1> QED  BY <1>7, <1>8, <1>9, <1>10, <1>11 DEF StoreInv
(* unwindFromReader removes an output the block added. *)
LEMMA UndoDelInv ==
  ASSUME StoreInv, NEW o \in OutPoint, UndoDel(o)
  PROVE  StoreInv'
<1>1. /\ dirty /\ Tip \in DOMAIN unwind /\ Tip' = Tip
      /\ dels \subseteq unwind[Tip].added /\ puts \subseteq unwind[Tip].deleted
      /\ unwind[Tip].added \cap utxo \subseteq dels \cup Irregular
      /\ unwind[Tip].deleted \subseteq utxo \cup puts \cup Irregular
      /\ unwind[Tip].added \cap unwind[Tip].deleted \subseteq Irregular
  <2>1. Tip' = Tip
    BY DEF Tip, UndoDel, histVars
  <2> QED  BY <2>1 DEF StoreInv, CallInProgress, UndoDel
<1>2. o \in unwind[Tip].added /\ utxo' = utxo \ {o} /\ dels' = dels \ {o} /\ puts' = puts
  BY <1>1 DEF UndoDel
<1>3. Eq(UndoChanges(utxo', unwind[Tip]), hist[depth])
  <2>1. UndoChanges(utxo', unwind[Tip]) = UndoChanges(utxo, unwind[Tip])
    BY <1>2 DEF UndoChanges
  <2> QED  BY <1>1, <2>1 DEF StoreInv, RecordsUndoBlocks
<1>4. minedAt' \in [OutPoint -> Height]
  <2>1. 0 \in Height
    BY StoreAssumption DEF Height
  <2> QED  BY <2>1 DEF UndoDel, StoreInv, TypeOK
<1>5. CallInProgress'
  <2>1. /\ unwind[Tip].added \cap utxo' \subseteq dels' \cup Irregular
        /\ unwind[Tip].deleted \subseteq utxo' \cup puts' \cup Irregular
        /\ dels' \subseteq unwind[Tip].added /\ puts' \subseteq unwind[Tip].deleted
    BY <1>1, <1>2
  <2> QED  BY <1>1, <2>1 DEF StoreInv, CallInProgress, UndoDel, histVars
<1>6. utxo' \in SUBSET OutPoint /\ puts' \in SUBSET OutPoint /\ dels' \in SUBSET OutPoint
  BY DEF StoreInv, TypeOK, UndoDel
<1> QED  BY <1>3, <1>4, <1>5, <1>6, UtxoStepInv DEF UndoDel

(* unwindFromReader puts an output the block spent back. *)
LEMMA UndoPutInv ==
  ASSUME StoreInv, NEW o \in OutPoint, UndoPut(o)
  PROVE  StoreInv'
<1>1. /\ dirty /\ Tip \in DOMAIN unwind /\ Tip' = Tip
      /\ dels \subseteq unwind[Tip].added /\ puts \subseteq unwind[Tip].deleted
      /\ unwind[Tip].added \cap utxo \subseteq dels \cup Irregular
      /\ unwind[Tip].deleted \subseteq utxo \cup puts \cup Irregular
      /\ unwind[Tip].added \cap unwind[Tip].deleted \subseteq Irregular
  <2>1. Tip' = Tip
    BY DEF Tip, UndoPut, histVars
  <2> QED  BY <2>1 DEF StoreInv, CallInProgress, UndoPut
<1>2. o \in unwind[Tip].deleted /\ utxo' = utxo \cup {o} /\ dels' = dels /\ puts' = puts \ {o}
  BY <1>1 DEF UndoPut
<1>3. Eq(UndoChanges(utxo', unwind[Tip]), hist[depth])
  <2>1. UndoChanges(utxo', unwind[Tip]) = UndoChanges(utxo, unwind[Tip])
    BY <1>2 DEF UndoChanges
  <2> QED  BY <1>1, <2>1 DEF StoreInv, RecordsUndoBlocks
<1>4. minedAt' \in [OutPoint -> Height]
  <2>1. 0 \in Height
    BY StoreAssumption DEF Height
  <2> QED  BY <2>1 DEF UndoPut, RestoredHeight, StoreInv, TypeOK
<1>5. CallInProgress'
  <2>1. /\ unwind[Tip].added \cap utxo' \subseteq dels' \cup Irregular
        /\ unwind[Tip].deleted \subseteq utxo' \cup puts' \cup Irregular
        /\ dels' \subseteq unwind[Tip].added /\ puts' \subseteq unwind[Tip].deleted
    BY <1>1, <1>2
  <2> QED  BY <1>1, <2>1 DEF StoreInv, CallInProgress, UndoPut, histVars
<1>6. utxo' \in SUBSET OutPoint /\ puts' \in SUBSET OutPoint /\ dels' \in SUBSET OutPoint
  BY DEF StoreInv, TypeOK, UndoPut
<1> QED  BY <1>3, <1>4, <1>5, <1>6, UtxoStepInv DEF UndoPut

(* When everything is taken back, the outputs are those before the block.  *)
LEMMA UndoneIsBefore ==
  ASSUME StoreInv, phase = "revert", puts = {}, dels = {}
  PROVE  Eq(utxo, hist[depth])
<1>1. /\ Eq(UndoChanges(utxo, unwind[Tip]), hist[depth])
      /\ unwind[Tip].added \cap utxo \subseteq Irregular
      /\ unwind[Tip].deleted \subseteq utxo \cup Irregular
  BY DEF StoreInv, RecordsUndoBlocks, CallInProgress
<1> QED  BY <1>1 DEF Eq, UndoChanges

(* unwindDB.undo removes the record; a panic follows if it was the last.   *)
LEMMA UndoEndInv ==
  ASSUME StoreInv, UndoEnd
  PROVE  StoreInv'
<1>1. /\ dirty /\ Tip = depth + 1 /\ Tip \in DOMAIN unwind /\ lastBlockHeight = Tip
      /\ depth \in Height /\ depth \in Nat
  <2>1. dirty /\ Tip \in DOMAIN unwind
    BY DEF StoreInv, CallInProgress, UndoEnd
  <2>2. Tip = depth + 1
    BY <2>1 DEF Tip
  <2>3. lastBlockHeight = Tip
    BY DEF UndoEnd, StoreInv, LastBlockMatches, Running
  <2> QED  BY <2>1, <2>2, <2>3 DEF StoreInv, TypeOK, Height
<1>2. /\ utxo' = utxo /\ depth' = depth /\ hist' = hist /\ ~dirty'
      /\ lastBlockHeight' = depth /\ puts' = {} /\ dels' = {}
  <2>1. lastBlockHeight' = lastBlockHeight - 1
    BY DEF UndoEnd
  <2>2. lastBlockHeight' = depth
    BY <1>1, <2>1
  <2>3. dirty' = FALSE /\ puts' = {} /\ dels' = {}
    BY DEF UndoEnd
  <2> QED  BY <2>2, <2>3 DEF UndoEnd
<1>3. Tip' = depth
  BY <1>2 DEF Tip
<1>4. /\ DOMAIN unwind' = DOMAIN unwind \ {depth + 1}
      /\ \A h \in DOMAIN unwind' : unwind'[h] = unwind[h]
      /\ unwind' \in [DOMAIN unwind' -> UnwindRec]
  <2>1. unwind' = [h \in DOMAIN unwind \ {depth + 1} |-> unwind[h]]
    BY <1>1 DEF UndoEnd, DelRecord
  <2> QED  BY <2>1 DEF StoreInv, TypeOK
<1>5. \A h \in DOMAIN unwind' : h \in Nat /\ h > 0 /\ h <= depth
  BY <1>1, <1>4 DEF StoreInv, TypeOK, UnwindWindow, Height
<1>6. \/ /\ depth \in DOMAIN unwind /\ depth \in DOMAIN unwind' /\ phase' = "idle"
         /\ lastBlockHash' = unwind[depth].hash /\ panicked' = panicked
      \/ /\ phase' = "down" /\ panicked' = "Parent data not found"
         /\ lastBlockHash' = lastBlockHash
  <2>1. lastBlockHeight - 1 = depth
    BY <1>1
  <2>2. CASE depth \in DOMAIN unwind
    <3>1. depth \in DOMAIN unwind'
      BY <1>1, <1>4, <2>2
    <3> QED  BY <2>1, <2>2, <3>1 DEF UndoEnd
  <2>3. CASE depth \notin DOMAIN unwind
    BY <2>1, <2>3 DEF UndoEnd
  <2> QED  BY <2>2, <2>3
<1>7. TypeOK'
  <2>1. DOMAIN unwind' \subseteq Height \ {0}
    BY <1>4 DEF StoreInv, TypeOK
  <2>2. phase' \in Phases /\ panicked' \in Panics
    BY <1>6 DEF StoreInv, TypeOK, Phases, Panics
  <2>3. lastBlockHash' \in BlockHash \cup {NoHash}
    <3>1. depth \in DOMAIN unwind => unwind[depth].hash \in BlockHash
      BY DEF StoreInv, TypeOK, UnwindRec
    <3>2. lastBlockHash \in BlockHash \cup {NoHash}
      BY DEF StoreInv, TypeOK
    <3> QED  BY <1>6, <3>1, <3>2
  <2>4. dirty' \in BOOLEAN
    BY DEF UndoEnd
  <2> QED  BY <1>1, <1>2, <1>4, <2>1, <2>2, <2>3, <2>4 DEF StoreInv, TypeOK, UndoEnd
<1>8. RecordsUndoBlocks'
  BY <1>2, <1>4, <1>5 DEF StoreInv, RecordsUndoBlocks, Eq
<1>9. UnwindWindow'
  <2> SUFFICES ASSUME NEW h \in DOMAIN unwind'
               PROVE  h..depth \subseteq DOMAIN unwind' /\ h <= depth /\ h + MaxHistory > depth
    BY <1>2, <1>3 DEF UnwindWindow
  <2>1. h \in Nat /\ h <= depth /\ h..(depth + 1) \subseteq DOMAIN unwind /\ h + MaxHistory > depth
    BY <1>1, <1>4, <1>5 DEF StoreInv, UnwindWindow
  <2>2. h..depth \subseteq h..(depth + 1) \ {depth + 1}
    BY <1>1, <2>1
  <2> QED  BY <1>4, <2>1, <2>2
<1>10. LastBlockMatches'
  <2>1. panicked' # "Unwind data not found"
    BY <1>6 DEF StoreInv, LastBlockMatches
  <2>2. CASE phase' = "idle"
    <3>1. depth \in DOMAIN unwind' /\ lastBlockHash' = unwind'[depth].hash
      BY <1>4, <1>6, <2>2
    <3> QED  BY <1>2, <1>3, <2>1, <3>1 DEF LastBlockMatches
  <2>3. CASE phase' = "down"
    BY <2>1, <2>3 DEF LastBlockMatches, Running
  <2> QED  BY <1>6, <2>2, <2>3
<1>11. CallInProgress'
  <2>1. Eq(utxo, hist[depth])
    BY UndoneIsBefore DEF UndoEnd
  <2>2. phase' \notin {"prune", "apply", "revert"}
    BY <1>6
  <2>3. \A h \in DOMAIN unwind' :
          unwind'[h].added \cap unwind'[h].deleted \subseteq Irregular
    BY <1>4 DEF StoreInv, CallInProgress
  <2> QED  BY <1>2, <2>1, <2>2, <2>3 DEF CallInProgress, Eq
<1> QED  BY <1>7, <1>8, <1>9, <1>10, <1>11 DEF StoreInv

(* A crash loses what is in memory. *)
LEMMA CrashInv ==
  ASSUME StoreInv, Crash
  PROVE  StoreInv'
<1>1. Tip' = Tip
  BY DEF Crash, histVars, Tip
<1>2. TypeOK'
  <2>1. 0 \in Height /\ phase' \in Phases
    BY StoreAssumption DEF Height, Crash, Phases
  <2> QED  BY <2>1 DEF StoreInv, TypeOK, Crash, diskVars, histVars
<1>3. RecordsUndoBlocks' /\ UnwindWindow'
  BY <1>1 DEF StoreInv, RecordsUndoBlocks, UnwindWindow, Crash, diskVars, histVars, Eq
<1>4. LastBlockMatches'
  BY DEF StoreInv, LastBlockMatches, Crash, Running
<1>5. CallInProgress'
  BY <1>1 DEF StoreInv, CallInProgress, Crash, diskVars, histVars, Eq
<1> QED  BY <1>2, <1>3, <1>4, <1>5 DEF StoreInv
(* newUnwindDB finds the newest record, and NewChain's loop will undo at   *)
(* least that one if it may be half applied.                               *)
LEMMA OpenInv ==
  ASSUME StoreInv, Open
  PROVE  StoreInv'
<1>1. /\ utxo' = utxo /\ minedAt' = minedAt /\ unwind' = unwind /\ dirty' = dirty
      /\ phase' = "idle" /\ puts' = {} /\ dels' = {} /\ panicked' = ""
  BY DEF Open, OpenEmpty, OpenNonEmpty, diskVars
<1>2. 0 \in Height /\ StartupUndo \in Nat /\ StartupUndo > 0
  BY StoreAssumption DEF Height
<1>3. phase' \in Phases /\ panicked' \in Panics /\ panicked' # "Unwind data not found"
  BY <1>1 DEF Phases, Panics
<1>4. CASE OpenNonEmpty
  <2>1. PICK top \in DOMAIN unwind :
          /\ IsTopRecord(unwind, top) /\ lastBlockHeight' = top
          /\ lastBlockHash' = unwind[top].hash /\ left' = LoopLength(top)
    BY <1>4 DEF OpenNonEmpty
  <2>2. /\ depth' = depth /\ hist' = hist /\ Tip' = Tip
    <3>1. depth' = depth /\ hist' = hist
      BY <1>4 DEF OpenNonEmpty
    <3> QED  BY <1>1, <3>1 DEF Tip
  <2>3. top = Tip /\ top \in Nat /\ top > 0 /\ top \in Height
    <3>1. /\ top \in Nat /\ top > 0 /\ top \in Height /\ top <= Tip
          /\ top..Tip \subseteq DOMAIN unwind /\ depth \in Nat
      BY DEF StoreInv, TypeOK, UnwindWindow, Height
    <3>2. Tip \in Nat
      <4>1. Tip = depth \/ Tip = depth + 1
        BY DEF Tip
      <4> QED  BY <3>1, <4>1
    <3>3. Tip \in DOMAIN unwind
      BY <3>1, <3>2
    <3>4. Tip <= top
      BY <2>1, <3>3 DEF IsTopRecord
    <3> QED  BY <3>1, <3>2, <3>4
  <2>4. left' \in Nat /\ left' > 0
    BY <1>2, <2>1, <2>3 DEF LoopLength
  <2>5. TypeOK'
    <3>1. lastBlockHash' \in BlockHash \cup {NoHash}
      BY <2>1 DEF StoreInv, TypeOK, UnwindRec
    <3> QED  BY <1>1, <1>3, <2>1, <2>2, <2>3, <2>4, <3>1 DEF StoreInv, TypeOK
  <2>6. RecordsUndoBlocks' /\ UnwindWindow'
    BY <1>1, <2>2 DEF StoreInv, RecordsUndoBlocks, UnwindWindow, Eq
  <2>7. LastBlockMatches'
    BY <1>1, <1>3, <2>1, <2>2, <2>3 DEF LastBlockMatches
  <2>8. CallInProgress'
    BY <1>1, <2>2, <2>4 DEF StoreInv, CallInProgress, Eq
  <2> QED  BY <2>5, <2>6, <2>7, <2>8 DEF StoreInv
<1>5. CASE OpenEmpty
  <2>1. /\ DOMAIN unwind = {} /\ lastBlockHeight' = 0 /\ lastBlockHash' = NoHash
        /\ left' = 0 /\ depth' = 0
        /\ hist' = [h \in Height |-> IF h = 0 THEN utxo ELSE {}]
    BY <1>5 DEF OpenEmpty
  <2>2. ~dirty /\ ~dirty'
    BY <1>1, <2>1 DEF StoreInv, CallInProgress
  <2>3. Tip' = 0 /\ hist'[depth'] = utxo
    BY <1>2, <2>1, <2>2 DEF Tip
  <2>4. TypeOK'
    BY <1>1, <1>2, <1>3, <2>1 DEF StoreInv, TypeOK
  <2>5. RecordsUndoBlocks' /\ UnwindWindow'
    BY <1>1, <2>1, <2>2 DEF RecordsUndoBlocks, UnwindWindow
  <2>6. LastBlockMatches'
    <3>1. ~(0 > 0)
      OBVIOUS
    <3> QED  BY <1>3, <2>1, <2>3, <3>1 DEF LastBlockMatches
  <2>7. CallInProgress'
    BY <1>1, <2>1, <2>2, <2>3 DEF CallInProgress, Eq
  <2> QED  BY <2>4, <2>5, <2>6, <2>7 DEF StoreInv
<1> QED  BY <1>4, <1>5 DEF Open

(* A rescan starts from nothing, as the very first start does. *)
LEMMA OpenRescanInv ==
  ASSUME StoreInv, OpenRescan
  PROVE  StoreInv'
<1>1. DOMAIN unwind' = {} /\ unwind' \in [DOMAIN unwind' -> UnwindRec]
  BY DEF OpenRescan, EmptyDB
<1>2. 0 \in Height
  BY StoreAssumption DEF Height
<1>3. /\ lastBlockHeight' = 0 /\ depth' = 0 /\ ~dirty' /\ panicked' = ""
      /\ phase' = "idle" /\ left' = 0 /\ utxo' = {} /\ hist'[depth'] = {}
  BY <1>2 DEF OpenRescan
<1>4. Tip' = 0
  BY <1>3 DEF Tip
<1>5. TypeOK'
  <2>1. phase' \in Phases /\ panicked' \in Panics
    BY <1>3 DEF Phases, Panics
  <2>2. DOMAIN unwind' \subseteq Height \ {0} /\ left' \in Nat
    BY <1>1, <1>3
  <2> QED  BY <1>1, <1>2, <2>1, <2>2 DEF OpenRescan, TypeOK
<1>6. RecordsUndoBlocks' /\ UnwindWindow'
  BY <1>1, <1>3 DEF RecordsUndoBlocks, UnwindWindow
<1>7. LastBlockMatches'
  <2>1. ~(0 > 0)
    OBVIOUS
  <2> QED  BY <1>3, <1>4, <2>1 DEF LastBlockMatches
<1>8. CallInProgress'
  BY <1>1, <1>3 DEF CallInProgress, Eq
<1> QED  BY <1>5, <1>6, <1>7, <1>8 DEF StoreInv

LEMMA StutterInv ==
  ASSUME StoreInv, UNCHANGED vars
  PROVE  StoreInv'
<1> USE DEF vars, diskVars, memVars, histVars
<1>1. TypeOK'
  BY DEF StoreInv, TypeOK
<1>2. Tip' = Tip
  BY DEF Tip
<1>3. RecordsUndoBlocks' /\ UnwindWindow' /\ LastBlockMatches'
  BY <1>2 DEF StoreInv, RecordsUndoBlocks, UnwindWindow, LastBlockMatches, Running, Eq
<1>4. CallInProgress'
  BY <1>2 DEF StoreInv, CallInProgress, Eq
<1> QED  BY <1>1, <1>3, <1>4 DEF StoreInv

LEMMA NextInv == StoreInv /\ [Next]_vars => StoreInv'
<1> SUFFICES ASSUME StoreInv, [Next]_vars PROVE StoreInv'
  OBVIOUS
<1>1. ASSUME NEW hash \in BlockHash, NEW added \in SUBSET OutPoint,
             NEW deleted \in SUBSET OutPoint, CommitBegin(hash, added, deleted)
      PROVE  StoreInv'
  BY <1>1, CommitBeginInv
<1>2. CASE CommitPrune                    BY <1>2, CommitPruneInv
<1>3. ASSUME NEW o \in OutPoint, CommitPut(o) PROVE StoreInv'
  BY <1>3, CommitPutInv
<1>4. ASSUME NEW o \in OutPoint, CommitDel(o) PROVE StoreInv'
  BY <1>4, CommitDelInv
<1>5. CASE CommitEnd                      BY <1>5, CommitEndInv
<1>6. CASE UndoBegin                      BY <1>6, UndoBeginInv
<1>7. ASSUME NEW o \in OutPoint, UndoDel(o) PROVE StoreInv'
  BY <1>7, UndoDelInv
<1>8. ASSUME NEW o \in OutPoint, UndoPut(o) PROVE StoreInv'
  BY <1>8, UndoPutInv
<1>9. CASE UndoEnd                        BY <1>9, UndoEndInv
<1>10. CASE Crash                         BY <1>10, CrashInv
<1>11. CASE Open                          BY <1>11, OpenInv
<1>12. CASE OpenRescan                    BY <1>12, OpenRescanInv
<1>13. CASE UNCHANGED vars                BY <1>13, StutterInv
<1> QED  BY <1>1, <1>2, <1>3, <1>4, <1>5, <1>6, <1>7, <1>8, <1>9, <1>10,
            <1>11, <1>12, <1>13 DEF Next
-----------------------------------------------------------------------------
(* The inductive invariant holds in every reachable state of core/qdb.     *)
THEOREM StoreInvariant == Spec => []StoreInv
  BY InitInv, NextInv, PTL DEF Spec

(* Every variable keeps its type: no height or loop counter leaves its     *)
(* range, whatever the order of commits, undos, crashes and restarts.      *)
THEOREM TypeCorrect == Spec => []TypeOK
<1>1. StoreInv => TypeOK
  BY DEF StoreInv
<1> QED  BY <1>1, StoreInvariant, PTL

(* After start-up the unspent outputs are those of the applied blocks,     *)
(* wherever a crash cut a commit or an undo short: qdb.CommitBlockTxs      *)
(* writes the record before it touches the outputs.                        *)
THEOREM TipIsExact == Spec => []UtxoMatchesTip
<1>1. StoreInv => UtxoMatchesTip
  <2> SUFFICES ASSUME StoreInv, phase = "idle", left = 0
               PROVE  ~dirty /\ Eq(utxo, hist[depth])
    BY DEF UtxoMatchesTip
  <2>1. ~(left > 0)
    OBVIOUS
  <2> QED  BY <2>1 DEF StoreInv, CallInProgress
<1> QED  BY <1>1, StoreInvariant, PTL

(* Every kept record takes the outputs back across its block, also from a  *)
(* half applied block.                                                     *)
THEOREM RecordsAreInverse == Spec => []RecordsUndoBlocks
<1>1. StoreInv => RecordsUndoBlocks
  BY DEF StoreInv
<1> QED  BY <1>1, StoreInvariant, PTL

(* The records kept are an unbroken run that ends at the tip.              *)
THEOREM WindowUnbroken == Spec => []UnwindWindow
<1>1. StoreInv => UnwindWindow
  BY DEF StoreInv
<1> QED  BY <1>1, StoreInvariant, PTL

(* unwindDB.undo never meets a missing record for the last block.          *)
THEOREM LastBlockKnown == Spec => []LastBlockMatches
<1>1. StoreInv => LastBlockMatches
  BY DEF StoreInv
<1> QED  BY <1>1, StoreInvariant, PTL
-----------------------------------------------------------------------------
(* A panic ends the process; the one for want of a parent comes when the   *)
(* records are used up.                                                    *)
PanicInv == (panicked # "" => phase = "down") /\ UndoneToTheEnd

LEMMA PanicStep ==
  ASSUME StoreInv, PanicInv, [Next]_vars
  PROVE  PanicInv'
<1> USE DEF vars, diskVars, memVars, histVars
<1>1. CASE UNCHANGED <<panicked, unwind, phase>>
  BY <1>1 DEF PanicInv, UndoneToTheEnd
<1>2. CASE panicked' = ""
  BY <1>2 DEF PanicInv, UndoneToTheEnd
<1>3. ASSUME phase # "down", panicked' = panicked PROVE PanicInv'
  BY <1>2, <1>3 DEF PanicInv
<1>4. CASE UndoBegin
  BY <1>2, <1>4 DEF PanicInv, UndoneToTheEnd, UndoBegin
<1>5. CASE UndoEnd
  <2>1. CASE lastBlockHeight - 1 \in DOMAIN unwind
    BY <1>3, <1>5, <2>1 DEF UndoEnd
  <2>2. CASE lastBlockHeight - 1 \notin DOMAIN unwind
    <3>1. /\ DOMAIN unwind \subseteq Nat /\ lastBlockHeight = Tip
          /\ \A h \in DOMAIN unwind : h..Tip \subseteq DOMAIN unwind /\ h <= Tip
          /\ Tip \in Nat
      <4>1. DOMAIN unwind \subseteq Nat /\ lastBlockHeight \in Nat
        BY StoreAssumption DEF StoreInv, TypeOK, Height
      <4>2. lastBlockHeight = Tip
        BY <1>5 DEF StoreInv, LastBlockMatches, UndoEnd, Running
      <4>3. \A h \in DOMAIN unwind : h..Tip \subseteq DOMAIN unwind /\ h <= Tip
        BY DEF StoreInv, UnwindWindow
      <4> QED  BY <4>1, <4>2, <4>3
    <3>2. \A h \in DOMAIN unwind : h = Tip
      <4> SUFFICES ASSUME NEW h \in DOMAIN unwind, h # Tip PROVE FALSE
        OBVIOUS
      <4>1. h \in Nat /\ h <= Tip - 1
        BY <3>1
      <4>2. Tip - 1 \in h..Tip
        BY <3>1, <4>1
      <4> QED  BY <2>2, <3>1, <4>2
    <3>3. DOMAIN unwind' = {}
      <4>1. unwind' = [h \in DOMAIN unwind \ {lastBlockHeight} |-> unwind[h]]
        BY <1>5 DEF UndoEnd, DelRecord
      <4>2. DOMAIN unwind' = DOMAIN unwind \ {lastBlockHeight}
        BY <4>1
      <4> QED  BY <3>1, <3>2, <4>2
    <3>4. phase' = "down"
      BY <1>5, <2>2 DEF UndoEnd
    <3> QED  BY <3>3, <3>4 DEF PanicInv, UndoneToTheEnd
  <2> QED  BY <2>1, <2>2
<1>6. CASE Crash
  BY <1>1, <1>6 DEF Crash, PanicInv, UndoneToTheEnd, Running
<1>7. CASE Open \/ OpenRescan
  BY <1>2, <1>7 DEF Open, OpenRescan
<1>8. ASSUME NEW hash \in BlockHash, NEW added \in SUBSET OutPoint,
             NEW deleted \in SUBSET OutPoint, CommitBegin(hash, added, deleted)
      PROVE  PanicInv'
  BY <1>3, <1>8 DEF CommitBegin
<1>9. ASSUME NEW o \in OutPoint, CommitPut(o) \/ CommitDel(o) \/ UndoDel(o) \/ UndoPut(o)
      PROVE  PanicInv'
  BY <1>1, <1>9 DEF CommitPut, CommitDel, UndoDel, UndoPut
<1>10. CASE CommitPrune \/ CommitEnd
  BY <1>3, <1>10 DEF CommitPrune, CommitEnd
<1>11. CASE UNCHANGED vars
  BY <1>1, <1>11
<1> QED  BY <1>4, <1>5, <1>6, <1>7, <1>8, <1>9, <1>10, <1>11 DEF Next

(* unwindDB.undo panics with "Parent data not found" only on the last of   *)
(* its records.                                                            *)
THEOREM KeptRecordsUsable == Spec => []UndoneToTheEnd
<1>1. Init => PanicInv
  BY DEF Init, PanicInv, UndoneToTheEnd
<1>2. StoreInv /\ PanicInv /\ [Next]_vars => PanicInv'
  BY PanicStep
<1>3. PanicInv => UndoneToTheEnd
  BY DEF PanicInv
<1> QED  BY <1>1, <1>2, <1>3, StoreInvariant, PTL DEF Spec
-----------------------------------------------------------------------------
(* The refinement of LedgerStack                                           *)

(* The ledger and the ledgers below it, as LedgerStack sees them. *)
LedgerNow  == (IF dirty THEN UndoChanges(utxo, unwind[Tip]) ELSE utxo) \ Irregular
LedgerPast == [i \in 1..depth |-> hist[i - 1] \ Irregular]

(* Whatever is under way, the ledger is that of the last block applied in  *)
(* full: all that moves it is what moves depth and hist.                   *)
LEMMA LedgerIsHist ==
  ASSUME StoreInv
  PROVE  LedgerNow = hist[depth] \ Irregular
BY DEF StoreInv, RecordsUndoBlocks, CallInProgress, Eq, LedgerNow

(* The same of the state after a step. *)
LEMMA LedgerIsHistNext ==
  ASSUME StoreInv'
  PROVE  LedgerNow' = hist'[depth'] \ Irregular
BY DEF StoreInv, RecordsUndoBlocks, CallInProgress, Eq, LedgerNow

(* Without a block there is none below. *)
LEMMA PastEmpty ==
  ASSUME NEW f
  PROVE  [i \in 1..0 |-> f[i]] = <<>>
OBVIOUS

(* A ledger is put on the stack. *)
LEMMA PastAppend ==
  ASSUME NEW n \in Nat, NEW f, NEW l
  PROVE  [i \in 1..(n + 1) |-> IF i = n + 1 THEN l ELSE f[i]]
           = Append([i \in 1..n |-> f[i]], l)
OBVIOUS

(* One is taken off it. *)
LEMMA PastFront ==
  ASSUME NEW n \in Nat \ {0}, NEW f
  PROVE  /\ [i \in 1..n |-> f[i]] # <<>>
         /\ Len([i \in 1..n |-> f[i]]) = n
         /\ SubSeq([i \in 1..n |-> f[i]], 1, n - 1) = [i \in 1..(n - 1) |-> f[i]]
OBVIOUS

(* The abstract state is a function of depth and hist alone. *)
LEMMA LedgerStutter ==
  ASSUME StoreInv, StoreInv', UNCHANGED <<depth, hist>>
  PROVE  UNCHANGED <<LedgerNow, LedgerPast>>
<1>1. LedgerNow = hist[depth] \ Irregular
  BY LedgerIsHist
<1>2. LedgerNow' = hist'[depth'] \ Irregular
  BY LedgerIsHistNext
<1> QED  BY <1>1, <1>2 DEF LedgerPast

(* The end of CommitBlockTxs applies the block. *)
LEMMA CommitApplies ==
  ASSUME StoreInv, StoreInv', CommitEnd
  PROVE  /\ LedgerNow' \in SUBSET (OutPoint \ Irregular)
         /\ LedgerPast' = Append(LedgerPast, LedgerNow)
<1>1. /\ LedgerNow = hist[depth] \ Irregular
      /\ LedgerNow' = hist'[depth'] \ Irregular
  BY LedgerIsHist, LedgerIsHistNext
<1>2. /\ depth \in Nat /\ depth' = depth + 1 /\ depth + 1 \in Height
      /\ hist' = [hist EXCEPT ![depth + 1] = utxo]
      /\ hist \in [Height -> SUBSET OutPoint] /\ utxo \in SUBSET OutPoint
  <2>1. depth \in Nat /\ hist \in [Height -> SUBSET OutPoint] /\ utxo \in SUBSET OutPoint
    BY DEF StoreInv, TypeOK, Height
  <2>2. depth' = depth + 1 /\ hist' = [hist EXCEPT ![depth + 1] = utxo]
    BY DEF CommitEnd
  <2>3. depth' \in Height
    BY DEF StoreInv, TypeOK
  <2> QED  BY <2>1, <2>2, <2>3
<1>3. LedgerNow' \in SUBSET (OutPoint \ Irregular)
  BY <1>1, <1>2
<1>4. LedgerPast' = Append(LedgerPast, LedgerNow)
  <2> DEFINE f == [i \in 1..depth |-> hist[i - 1] \ Irregular]
  <2>1. Append([i \in 1..depth |-> f[i]], LedgerNow)
          = [i \in 1..(depth + 1) |-> IF i = depth + 1 THEN LedgerNow ELSE f[i]]
    <3> HIDE DEF f
    <3> QED  BY <1>2, PastAppend
  <2>2. [i \in 1..depth |-> f[i]] = LedgerPast
    BY DEF LedgerPast
  <2>3. \A i \in 1..(depth + 1) :
          hist'[i - 1] \ Irregular = IF i = depth + 1 THEN LedgerNow ELSE f[i]
    <3> TAKE i \in 1..(depth + 1)
    <3>1. i - 1 # depth + 1 /\ i - 1 \in 0..depth /\ depth + 1 <= MaxHeight
      BY <1>2, StoreAssumption DEF Height
    <3>2. hist'[i - 1] = hist[i - 1]
      BY <1>2, <3>1, StoreAssumption DEF Height
    <3> QED  BY <1>1, <1>2, <3>2, SMTT(40)
  <2>4. LedgerPast' = [i \in 1..(depth + 1) |-> hist'[i - 1] \ Irregular]
    BY <1>2 DEF LedgerPast
  <2> QED  BY <2>1, <2>2, <2>3, <2>4
<1> QED  BY <1>3, <1>4

(* The beginning of UndoBlockTransactions takes the block back, unless it  *)
(* repairs one that was never applied in full.                             *)
LEMMA UndoReverts ==
  ASSUME StoreInv, StoreInv', UndoBegin
  PROVE  \/ UNCHANGED <<depth, hist>>
         \/ /\ LedgerPast # <<>>
            /\ LedgerNow' = LedgerPast[Len(LedgerPast)]
            /\ LedgerPast' = SubSeq(LedgerPast, 1, Len(LedgerPast) - 1)
<1>1. CASE dirty \/ lastBlockHeight \notin DOMAIN unwind
  BY <1>1 DEF UndoBegin, histVars
<1>2. CASE ~dirty /\ lastBlockHeight \in DOMAIN unwind
  <2>1. /\ LedgerNow' = hist'[depth'] \ Irregular
        /\ depth' = depth - 1 /\ hist' = [hist EXCEPT ![depth] = {}]
    BY <1>2, LedgerIsHistNext DEF UndoBegin
  <2>2. depth \in Nat \ {0} /\ depth \in Height /\ hist \in [Height -> SUBSET OutPoint]
    <3>1. depth \in Nat /\ depth \in Height /\ hist \in [Height -> SUBSET OutPoint]
      BY DEF StoreInv, TypeOK, Height
    <3>2. Running /\ lastBlockHeight > 0
      BY DEF UndoBegin, Running
    <3>3. lastBlockHeight = depth
      BY <1>2, <3>2 DEF StoreInv, LastBlockMatches, Tip
    <3> QED  BY <3>1, <3>2, <3>3
  <2> DEFINE f == [i \in 1..depth |-> hist[i - 1] \ Irregular]
  <2>3. LedgerPast = f /\ [i \in 1..depth |-> f[i]] = f
    BY DEF LedgerPast
  <2>4. /\ LedgerPast # <<>> /\ Len(LedgerPast) = depth
        /\ SubSeq(LedgerPast, 1, depth - 1) = [i \in 1..(depth - 1) |-> f[i]]
    <3> HIDE DEF f
    <3> QED  BY <2>2, <2>3, PastFront
  <2>5. \A i \in 1..depth : hist'[i - 1] = hist[i - 1]
    BY <2>1, <2>2 DEF Height
  <2>6. LedgerPast' = [i \in 1..(depth - 1) |-> f[i]]
    BY <2>1, <2>2, <2>5 DEF LedgerPast
  <2>7. LedgerNow' = LedgerPast[depth]
    BY <2>1, <2>2, <2>3, <2>5
  <2> QED  BY <2>4, <2>6, <2>7
<1> QED  BY <1>1, <1>2

(* Opening the databases, when there is no record left, forgets the past   *)
(* and keeps the ledger.                                                   *)
LEMMA OpenForgets ==
  ASSUME StoreInv, StoreInv', Open
  PROVE  \/ UNCHANGED <<depth, hist>>
         \/ LedgerPast' = <<>> /\ LedgerNow' = LedgerNow
<1>1. CASE OpenNonEmpty
  BY <1>1 DEF OpenNonEmpty
<1>2. CASE OpenEmpty
  <2>1. ~dirty /\ ~dirty' /\ utxo' = utxo /\ depth' = 0
    BY <1>2 DEF Open, OpenEmpty, diskVars, StoreInv, CallInProgress
  <2>2. LedgerNow' = LedgerNow
    BY <2>1 DEF LedgerNow
  <2>3. LedgerPast' = <<>>
    BY <2>1 DEF LedgerPast
  <2> QED  BY <2>2, <2>3
<1> QED  BY <1>1, <1>2 DEF Open

(* A rescan is the step that empties the stack. *)
LEMMA RescanClears ==
  ASSUME OpenRescan
  PROVE  LedgerPast' = <<>> /\ LedgerNow' = {}
<1>1. depth' = 0 /\ utxo' = {} /\ dirty' = FALSE
  BY DEF OpenRescan
<1>2. LedgerPast' = [i \in 1..0 |-> [k \in 1..0 |-> hist'[k - 1] \ Irregular][i]]
  BY <1>1 DEF LedgerPast
<1> QED  BY <1>1, <1>2, PastEmpty DEF LedgerNow

(* Every step of the two databases is a step of the stack, or none. *)
LEMMA LedgerStep ==
  ASSUME StoreInv, StoreInv', [Next]_vars
  PROVE  [Ledger!LSNext]_(Ledger!lsvars)
<1> USE DEF Ledger!LSNext, Ledger!Apply, Ledger!Revert, Ledger!Rescan, Ledger!Forget,
            Ledger!lsvars
<1> DEFINE now == LedgerNow  past == LedgerPast
<1>1. CASE UNCHANGED <<depth, hist>>
  BY <1>1, LedgerStutter DEF LedgerNow, LedgerPast
<1>2. CASE CommitEnd
  BY <1>2, CommitApplies DEF LedgerNow, LedgerPast
<1>3. CASE UndoBegin
  BY <1>1, <1>3, UndoReverts DEF LedgerNow, LedgerPast
<1>4. CASE Open
  BY <1>1, <1>4, OpenForgets DEF LedgerNow, LedgerPast
<1>5. CASE OpenRescan
  BY <1>5, RescanClears DEF LedgerNow, LedgerPast
<1> USE DEF vars, histVars
<1>6. ASSUME NEW hash \in BlockHash, NEW added \in SUBSET OutPoint,
             NEW deleted \in SUBSET OutPoint, CommitBegin(hash, added, deleted)
      PROVE  UNCHANGED <<depth, hist>>
  BY <1>6 DEF CommitBegin
<1>7. ASSUME NEW o \in OutPoint, CommitPut(o) \/ CommitDel(o) \/ UndoDel(o) \/ UndoPut(o)
      PROVE  UNCHANGED <<depth, hist>>
  BY <1>7 DEF CommitPut, CommitDel, UndoDel, UndoPut
<1>8. CASE CommitPrune \/ UndoEnd \/ Crash \/ UNCHANGED vars
  BY <1>1, <1>8 DEF CommitPrune, UndoEnd, Crash
<1> QED  BY <1>1, <1>2, <1>3, <1>4, <1>5, <1>6, <1>7, <1>8 DEF Next

(* core/qdb keeps the promise of LedgerStack: CommitBlockTxs and           *)
(* UndoBlockTransactions, some of whose Puts and Dels are done, or done    *)
(* again after a crash, are one step each to whoever looks at the ledger   *)
(* as the records would restore it.                                        *)
THEOREM StoreImplementsLedger == Spec => AtomicBlocks
<1>1. Init => Ledger!LSInit
  <2> SUFFICES ASSUME Init PROVE LedgerNow = {} /\ LedgerPast = <<>>
    BY DEF Ledger!LSInit, LedgerNow, LedgerPast
  <2>1. depth = 0 /\ utxo = {} /\ dirty = FALSE
    BY DEF Init
  <2>2. LedgerPast = [i \in 1..0 |-> [k \in 1..0 |-> hist[k - 1] \ Irregular][i]]
    BY <2>1 DEF LedgerPast
  <2> QED  BY <2>1, <2>2, PastEmpty DEF LedgerNow
<1>2. StoreInv /\ StoreInv' /\ [Next]_vars => [Ledger!LSNext]_(Ledger!lsvars)
  BY LedgerStep
<1> QED  BY <1>1, <1>2, StoreInvariant, PTL DEF Spec, AtomicBlocks, Ledger!LSSpec

(* The height stored with an output is that of the block that created it,  *)
(* or of the one being committed or taken back, which adds it.             *)
CreatedAt(o) ==
  \/ minedAt[o] <= depth /\ o \in hist[minedAt[o]] \ hist[minedAt[o] - 1]
  \/ dirty /\ minedAt[o] = Tip /\ o \in unwind[Tip].added

MinedInv == \A o \in utxo \ (Irregular \cup hist[0]) : minedAt[o] # 0 => CreatedAt(o)

LEMMA MinedStep ==
  ASSUME StoreInv, MinedInv, [Next]_vars
  PROVE  MinedInv'
<1>0. /\ utxo \in SUBSET OutPoint /\ minedAt \in [OutPoint -> Nat] /\ depth \in Nat
      /\ MaxHeight \in Nat /\ depth <= MaxHeight /\ Height = 0..MaxHeight
      /\ hist \in [Height -> SUBSET OutPoint] /\ lastBlockHeight \in Nat
      /\ lastBlockHeight <= MaxHeight
  BY StoreAssumption DEF StoreInv, TypeOK, Height
(* Steps that change outputs one at a time, or none. *)
<1>1. ASSUME UNCHANGED <<dirty, depth, hist>>, dirty => unwind'[Tip] = unwind[Tip],
             \A o \in utxo' \ Irregular :
               minedAt'[o] # 0 =>
                 \/ o \in utxo /\ minedAt'[o] = minedAt[o]
                 \/ dirty /\ minedAt'[o] = Tip /\ o \in unwind[Tip].added
      PROVE  MinedInv'
  <2>1. Tip' = Tip
    BY <1>1 DEF Tip
  <2> SUFFICES ASSUME NEW o \in utxo', o \notin Irregular, o \notin hist[0], minedAt'[o] # 0
               PROVE  CreatedAt(o)'
    BY <1>1 DEF MinedInv
  <2>2. CASE o \in utxo /\ minedAt'[o] = minedAt[o]
    <3>1. CreatedAt(o)
      BY <2>2 DEF MinedInv
    <3> QED  BY <1>1, <2>1, <2>2, <3>1 DEF CreatedAt
  <2>3. CASE dirty /\ minedAt'[o] = Tip /\ o \in unwind[Tip].added
    BY <1>1, <2>1, <2>3 DEF CreatedAt
  <2> QED  BY <1>1, <2>2, <2>3
<1>2. ASSUME NEW hash \in BlockHash, NEW added \in SUBSET OutPoint,
             NEW deleted \in SUBSET OutPoint, CommitBegin(hash, added, deleted)
      PROVE  MinedInv'
  <2>1. ~dirty
    BY <1>2 DEF CommitBegin, StoreInv, CallInProgress
  <2>2. UNCHANGED <<utxo, minedAt, depth, hist>>
    BY <1>2 DEF CommitBegin
  <2> QED  BY <2>1, <2>2 DEF MinedInv, CreatedAt
<1>3. CASE CommitPrune
  <2>1. dirty /\ Tip \in DOMAIN unwind /\ Tip = depth + 1 /\ lastBlockHeight = Tip
    BY <1>3 DEF CommitPrune, StoreInv, CallInProgress, LastBlockMatches, Running, Tip
  <2>2. unwind'[Tip] = unwind[Tip]
    BY <1>0, <1>3, <2>1, StoreAssumption DEF CommitPrune, Pruned, DelRecord
  <2> QED  BY <1>1, <1>3, <2>2 DEF CommitPrune, histVars
<1>4. ASSUME NEW o \in OutPoint, CommitPut(o) PROVE MinedInv'
  <2>1. /\ utxo' = utxo \cup {o} /\ minedAt' = [minedAt EXCEPT ![o] = lastBlockHeight]
        /\ UNCHANGED <<unwind, dirty, depth, hist>> /\ phase = "apply" /\ o \in puts
    BY <1>4 DEF CommitPut, histVars
  <2>2. dirty /\ lastBlockHeight = Tip /\ o \in unwind[Tip].added
    BY <2>1 DEF StoreInv, CallInProgress, LastBlockMatches, Running
  <2>3. minedAt'[o] = Tip /\ \A p \in utxo : p # o => minedAt'[p] = minedAt[p]
    BY <1>0, <2>1, <2>2
  <2> QED  BY <1>1, <2>1, <2>2, <2>3
<1>5. ASSUME NEW o \in OutPoint, CommitDel(o) \/ UndoDel(o) \/ UndoPut(o) PROVE MinedInv'
  <2>1. /\ utxo' \subseteq utxo \cup {o} /\ minedAt' = [minedAt EXCEPT ![o] = 0]
        /\ UNCHANGED <<unwind, dirty, depth, hist>>
    BY <1>5 DEF CommitDel, UndoDel, UndoPut, RestoredHeight, histVars
  <2>2. minedAt'[o] = 0 /\ \A p \in utxo : p # o => minedAt'[p] = minedAt[p]
    BY <1>0, <2>1
  <2> QED  BY <1>1, <2>1, <2>2
<1>6. CASE CommitEnd
  <2>1. /\ UNCHANGED <<utxo, minedAt, unwind>> /\ depth' = depth + 1 /\ phase = "apply"
        /\ hist' = [hist EXCEPT ![depth + 1] = utxo]
    BY <1>6 DEF CommitEnd, diskVars
  <2>2. dirty /\ Tip = depth + 1 /\ Tip \in Height /\ Tip \in DOMAIN unwind
    BY <2>1 DEF StoreInv, TypeOK, CallInProgress, Tip
  <2>3. hist'[depth + 1] = utxo /\ \A h \in Height : h # depth + 1 => hist'[h] = hist[h]
    BY <1>0, <2>1, <2>2
  <2>4. 0 \in Height /\ hist'[0] = hist[0]
    BY <1>0, <2>3
  <2> SUFFICES ASSUME NEW o \in utxo, o \notin Irregular, o \notin hist[0], minedAt[o] # 0
               PROVE  minedAt[o] <= depth + 1 /\ o \in hist'[minedAt[o]] \ hist'[minedAt[o] - 1]
    BY <2>1, <2>4 DEF MinedInv, CreatedAt
  <2>5. minedAt[o] \in Nat /\ o \in OutPoint
    BY <1>0
  <2>6. CreatedAt(o)
    BY DEF MinedInv
  <2>7. CASE minedAt[o] <= depth /\ o \in hist[minedAt[o]] \ hist[minedAt[o] - 1]
    <3>1. /\ minedAt[o] \in Height /\ minedAt[o] - 1 \in Height
          /\ minedAt[o] # depth + 1 /\ minedAt[o] - 1 # depth + 1
      BY <1>0, <2>5, <2>7
    <3> QED  BY <1>0, <2>3, <2>5, <2>7, <3>1
  <2>8. CASE minedAt[o] = Tip /\ o \in unwind[Tip].added
    <3>1. o \notin hist[depth]
      <4>1. unwind[Tip].added \cap unwind[Tip].deleted \subseteq Irregular
        BY <2>2 DEF StoreInv, CallInProgress
      <4>2. Eq(UndoChanges(utxo, unwind[Tip]), hist[depth])
        BY <2>2 DEF StoreInv, RecordsUndoBlocks
      <4> QED  BY <2>8, <4>1, <4>2 DEF Eq, UndoChanges
    <3>2. depth \in Height /\ depth # depth + 1 /\ minedAt[o] - 1 = depth /\ minedAt[o] = depth + 1
      BY <1>0, <2>2, <2>8
    <3>3. hist'[depth] = hist[depth]
      BY <2>3, <3>2
    <3> QED  BY <1>0, <2>3, <3>1, <3>2, <3>3
  <2> QED  BY <2>6, <2>7, <2>8 DEF CreatedAt
<1>7. CASE UndoBegin
  <2>1. UNCHANGED <<utxo, minedAt, unwind>> /\ phase = "idle" /\ lastBlockHeight > 0
    BY <1>7 DEF UndoBegin, diskVars
  <2>2. CASE dirty \/ lastBlockHeight \notin DOMAIN unwind
    <3>1. UNCHANGED <<dirty, depth, hist>>
      BY <1>7, <2>2 DEF UndoBegin, histVars
    <3> QED  BY <1>1, <2>1, <3>1
  <2>3. CASE ~dirty /\ lastBlockHeight \in DOMAIN unwind
    <3>1. dirty' /\ depth' = depth - 1 /\ hist' = [hist EXCEPT ![depth] = {}]
      BY <1>7, <2>3 DEF UndoBegin
    <3>2. lastBlockHeight = depth /\ Tip = depth /\ depth > 0 /\ depth \in DOMAIN unwind
      BY <2>1, <2>3 DEF StoreInv, LastBlockMatches, Running, Tip
    <3>3. Tip' = depth /\ depth \in Height
      BY <1>0, <3>1, <3>2 DEF Tip
    <3>4. \A h \in Height : h # depth => hist'[h] = hist[h]
      BY <1>0, <3>1
    <3>5. 0 \in Height /\ hist'[0] = hist[0]
      BY <1>0, <3>2, <3>4
    <3> SUFFICES ASSUME NEW o \in utxo, o \notin Irregular, o \notin hist[0], minedAt[o] # 0
                 PROVE  \/ /\ minedAt[o] <= depth - 1
                           /\ o \in hist'[minedAt[o]] \ hist'[minedAt[o] - 1]
                        \/ minedAt[o] = depth /\ o \in unwind[depth].added
      BY <2>1, <3>1, <3>3, <3>5 DEF MinedInv, CreatedAt
    <3>6. minedAt[o] \in Nat /\ o \in OutPoint
      BY <1>0
    <3>7. minedAt[o] <= depth /\ o \in hist[minedAt[o]] \ hist[minedAt[o] - 1]
      BY <2>3 DEF MinedInv, CreatedAt
    <3>8. CASE minedAt[o] = depth
      <4>1. Eq(UndoChanges(hist[depth], unwind[depth]), hist[depth - 1])
        BY <1>0, <3>2 DEF StoreInv, RecordsUndoBlocks
      <4> QED  BY <3>7, <3>8, <4>1 DEF Eq, UndoChanges
    <3>9. CASE minedAt[o] # depth
      <4>1. /\ minedAt[o] <= depth - 1 /\ minedAt[o] \in Height /\ minedAt[o] - 1 \in Height
            /\ minedAt[o] # depth /\ minedAt[o] - 1 # depth
        BY <1>0, <3>6, <3>7, <3>9
      <4> QED  BY <3>4, <3>7, <4>1
    <3> QED  BY <3>8, <3>9
  <2> QED  BY <2>2, <2>3
<1>8. CASE UndoEnd
  <2>1. UNCHANGED <<utxo, minedAt, depth, hist>> /\ phase = "revert" /\ dels = {}
    BY <1>8 DEF UndoEnd
  <2>2. dirty /\ unwind[Tip].added \cap utxo \subseteq Irregular
    BY <2>1 DEF StoreInv, CallInProgress
  <2> QED  BY <2>1, <2>2 DEF MinedInv, CreatedAt
<1>9. CASE Crash \/ UNCHANGED vars
  BY <1>1, <1>9 DEF Crash, vars, diskVars, histVars
<1>10. CASE Open
  <2>1. CASE OpenNonEmpty
    BY <1>1, <1>10, <2>1 DEF Open, OpenNonEmpty, diskVars
  <2>2. CASE OpenEmpty
    <3>1. hist'[0] = utxo /\ utxo' = utxo
      <4>1. hist' = [h \in Height |-> IF h = 0 THEN utxo ELSE {}]
        BY <2>2 DEF OpenEmpty
      <4>2. 0 \in Height
        BY <1>0
      <4>3. utxo' = utxo
        BY <1>10 DEF Open, diskVars
      <4> QED  BY <4>1, <4>2, <4>3
    <3> QED  BY <3>1 DEF MinedInv
  <2> QED  BY <1>10, <2>1, <2>2 DEF Open
<1>11. CASE OpenRescan
  BY <1>11 DEF OpenRescan, MinedInv
<1> QED
  BY <1>2, <1>3, <1>4, <1>5, <1>6, <1>7, <1>8, <1>9, <1>10, <1>11 DEF Next

(* The height an output is said to be mined at may be missing after an     *)
(* undo, but is never wrong, whatever crashes hit commits and undos.       *)
THEOREM MinedAtNeverWrong == Spec => []MinedAtIsRight
<1>1. Init => MinedInv
  BY DEF Init, MinedInv
<1>2. StoreInv /\ MinedInv /\ [Next]_vars => MinedInv'
  BY MinedStep
<1>3. StoreInv /\ MinedInv => MinedAtIsRight
  BY DEF MinedInv, CreatedAt, MinedAtIsRight, StoreInv, CallInProgress
<1> QED  BY <1>1, <1>2, <1>3, StoreInvariant, PTL DEF Spec
=============================================================================
