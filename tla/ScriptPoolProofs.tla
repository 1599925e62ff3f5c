-------------------------- MODULE ScriptPoolProofs ---------------------------
(***************************************************************************)
(* Proofs about ScriptPool, for every number of goroutines, transactions   *)
(* and inputs.                                                             *)
(***************************************************************************)
EXTENDS ScriptPool, FiniteSetTheorems, SequenceTheorems, TLAPS

(* What a token put in changes. *)
LEMMA TokenIn ==
  ASSUME NEW s \in Seq(BOOLEAN), NEW v \in BOOLEAN
  PROVE  /\ Append(s, v) \in Seq(BOOLEAN)
         /\ Len(Append(s, v)) = Len(s) + 1
         /\ SaysFalse(Append(s, v)) <=> (SaysFalse(s) \/ v = FALSE)
<1>1. /\ Append(s, v) \in Seq(BOOLEAN)
      /\ Len(Append(s, v)) = Len(s) + 1
      /\ \A i \in 1..Len(s) : Append(s, v)[i] = s[i]
      /\ Append(s, v)[Len(s) + 1] = v
  BY AppendProperties
<1>2. Len(s) \in Nat
  BY LenProperties
<1>3. 1..Len(Append(s, v)) = 1..Len(s) \cup {Len(s) + 1}
  BY <1>1, <1>2
<1>4. SaysFalse(Append(s, v)) <=> (SaysFalse(s) \/ v = FALSE)
  BY <1>1, <1>3, Zenon DEF SaysFalse
<1> QED  BY <1>1, <1>4

(* What a token taken out changes. *)
LEMMA TokenOut ==
  ASSUME NEW s \in Seq(BOOLEAN), s # <<>>
  PROVE  /\ Tail(s) \in Seq(BOOLEAN)
         /\ Head(s) \in BOOLEAN
         /\ Len(s) \in Nat /\ Len(s) > 0
         /\ Len(Tail(s)) = Len(s) - 1
         /\ SaysFalse(s) <=> (SaysFalse(Tail(s)) \/ Head(s) = FALSE)
<1>1. /\ Tail(s) \in Seq(BOOLEAN)
      /\ Head(s) \in BOOLEAN
      /\ Len(Tail(s)) = Len(s) - 1
      /\ \A i \in 1..Len(Tail(s)) : Tail(s)[i] = s[i + 1]
      /\ Head(s) = s[1]
  BY HeadTailProperties
<1>2. Len(s) \in Nat /\ Len(s) > 0
  BY EmptySeq, LenProperties
<1>3. 1..Len(s) = {1} \cup {i + 1 : i \in 1..Len(Tail(s))}
  <2>1. ASSUME NEW k \in 1..Len(s), k # 1
        PROVE  k - 1 \in 1..Len(Tail(s)) /\ k = (k - 1) + 1
    BY <2>1, <1>1, <1>2
  <2>2. 1..Len(s) \subseteq {1} \cup {i + 1 : i \in 1..Len(Tail(s))}
    BY <2>1
  <2>3. \A i \in 1..Len(Tail(s)) : i + 1 \in 1..Len(s)
    BY <1>1, <1>2
  <2>4. 1 \in 1..Len(s)
    BY <1>2
  <2> QED  BY <2>2, <2>3, <2>4
<1>4. SaysFalse(s) <=> (SaysFalse(Tail(s)) \/ Head(s) = FALSE)
  BY <1>1, <1>3, ZenonT(60) DEF SaysFalse
<1> QED  BY <1>1, <1>2, <1>4

(* An empty channel says nothing. *)
LEMMA NoToken == ~SaysFalse(<<>>) /\ <<>> \in Seq(BOOLEAN) /\ Len(<<>>) = 0
<1>1. Len(<<>>) = 0 /\ 1..0 = {}
  OBVIOUS
<1> QED  BY <1>1 DEF SaysFalse

(* The goroutines that run are finitely many. *)
LEMMA BusyFinite ==
  ASSUME TypeOK
  PROVE  IsFiniteSet(busy) /\ Cardinality(busy) \in Nat
<1>1. IsFiniteSet(1..(j - 1))
  BY FS_Interval DEF TypeOK
<1>2. IsFiniteSet(busy)
  BY <1>1, FS_Subset DEF TypeOK
<1> QED  BY <1>2, FS_CardinalityType

(* When all tokens are taken out there are none, and nothing runs. *)
LEMMA AllTaken ==
  ASSUME TypeOK, TokensConserved, TokensOutNow = 0
  PROVE  taskDone = <<>> /\ busy = {}
<1>1. Len(taskDone) \in Nat /\ Cardinality(busy) \in Nat /\ IsFiniteSet(busy)
  BY BusyFinite, LenProperties DEF TypeOK
<1>2. Len(taskDone) = 0 /\ Cardinality(busy) = 0
  BY <1>1 DEF TokensConserved
<1> QED  BY <1>1, <1>2, EmptySeq, FS_EmptySet DEF TypeOK
(* The parts of the invariant, one lemma for each action that matters.     *)
LEMMA InitPool == Init => PoolInv
<1> SUFFICES ASSUME Init PROVE PoolInv
  OBVIOUS
<1>1. taskDone = <<>> /\ busy = {} /\ pc = "idle"
  BY DEF Init
<1>2. TypeOK
  <2>1. UseRoutines \in Nat /\ 0 <= UseRoutines /\ 1 \in 1..(0 + 1)
    BY PoolAssumption
  <2>2. /\ taskDone \in Seq(BOOLEAN) /\ Len(taskDone) <= UseRoutines
        /\ busy \subseteq 1..(j - 1) /\ hashed \subseteq 1..txs
    BY <1>1, <2>1, NoToken DEF Init
  <2>3. /\ j \in 1..(jobs + 1) /\ owed \in 0..UseRoutines
        /\ round \in Nat /\ txs \in Nat /\ jobs \in Nat
    BY <2>1 DEF Init
  <2>4. /\ trusted \in BOOLEAN /\ scriptsOk \in BOOLEAN /\ e \in BOOLEAN
        /\ failed \in BOOLEAN
    BY DEF Init
  <2> QED  BY <1>1, <2>2, <2>3, <2>4 DEF TypeOK
<1>3. TokensConserved
  BY <1>1, NoToken, FS_EmptySet DEF TokensConserved, TokensOutNow
<1>4. HashProgress /\ VerdictKept
  BY DEF Init, HashProgress, VerdictKept
<1> QED  BY <1>2, <1>3, <1>4 DEF PoolInv

(* A round starts on an empty channel with nothing running. *)
LEMMA StartRoundInv ==
  ASSUME PoolInv, TokensOutNow = 0, NEW r \in Nat, NEW n \in Nat,
         StartRound(r, n), UNCHANGED <<taskDone, busy>>,
         txs' \in Nat, trusted' \in BOOLEAN, e' \in BOOLEAN,
         hashed' \subseteq 1..txs',
         r = 0 => n = txs' /\ hashed' = {},
         r > 0 => hashed' = 1..txs'
  PROVE  PoolInv'
<1>1. taskDone' = <<>> /\ busy' = {}
  BY AllTaken DEF PoolInv
<1>2. /\ pc' = "fill" /\ round' = r /\ jobs' = n /\ j' = 1 /\ owed' = UseRoutines
      /\ scriptsOk' = TRUE /\ failed' = FALSE
  BY DEF StartRound
<1>3. UseRoutines \in Nat /\ UseRoutines > 0
  BY PoolAssumption
<1>4. TypeOK'
  <2>1. /\ taskDone' \in Seq(BOOLEAN)
        /\ Len(taskDone') <= UseRoutines
        /\ busy' \subseteq 1..(j' - 1)
    BY <1>1, <1>3, NoToken
  <2>2. j' \in 1..(jobs' + 1) /\ owed' \in 0..UseRoutines
    BY <1>2, <1>3
  <2> QED  BY <1>2, <2>1, <2>2 DEF TypeOK
<1>5. TokensConserved'
  BY <1>1, <1>2, <1>3, NoToken, FS_EmptySet DEF TokensConserved, TokensOutNow
<1>6. HashProgress'
  <2>1. 1..(1 - 1) = {}
    OBVIOUS
  <2> QED  BY <1>1, <1>2, <2>1 DEF HashProgress
<1>7. VerdictKept'
  BY <1>1, <1>2, <1>3, NoToken DEF VerdictKept
<1> QED  BY <1>4, <1>5, <1>6, <1>7 DEF PoolInv

LEMMA StartBlockInv == ASSUME PoolInv, StartBlock PROVE PoolInv'
<1>1. TokensOutNow = 0
  BY DEF StartBlock, TokensOutNow
<1>2. txs' \in Nat
  BY PoolAssumption DEF StartBlock
<1>3. PICK n \in Nat : n = txs'
  BY <1>2
<1>4. StartRound(0, n)
  BY <1>3 DEF StartBlock, StartRound
<1>5. /\ UNCHANGED <<taskDone, busy>>
      /\ trusted' \in BOOLEAN /\ e' \in BOOLEAN /\ hashed' = {}
  BY DEF StartBlock
<1> QED  BY <1>1, <1>2, <1>3, <1>4, <1>5, StartRoundInv

LEMMA NextRoundInv == ASSUME PoolInv, NextRound PROVE PoolInv'
<1>1. TokensOutNow = 0
  BY DEF NextRound, RoundOver, TokensOutNow
<1>2. round \in Nat /\ txs \in Nat /\ e \in BOOLEAN /\ trusted \in BOOLEAN
  BY DEF PoolInv, TypeOK
<1>3. hashed = 1..txs
  <2>1. CASE round > 0
    BY <2>1 DEF PoolInv, HashProgress
  <2>2. CASE round = 0
    <3>1. busy = {}
      BY <1>1, AllTaken DEF PoolInv
    <3>2. /\ jobs = txs /\ hashed \cup busy = 1..(j - 1) /\ j = jobs + 1
      BY <2>2 DEF PoolInv, HashProgress, NextRound, RoundOver
    <3>3. j - 1 = txs
      BY <3>2, <1>2
    <3> QED  BY <3>1, <3>2, <3>3
  <2> QED  BY <2>1, <2>2, <1>2
<1>4. PICK n \in 0..MaxIns : StartRound(round + 1, n)
  BY DEF NextRound
<1>5. n \in Nat /\ round + 1 \in Nat /\ round + 1 > 0
  BY <1>2
<1>6. /\ UNCHANGED <<taskDone, busy>>
      /\ txs' = txs /\ trusted' = trusted /\ e' = e /\ hashed' = hashed
  BY DEF NextRound
<1> QED  BY <1>1, <1>2, <1>3, <1>4, <1>5, <1>6, StartRoundInv

LEMMA BlockOverInv == ASSUME PoolInv, BlockOver PROVE PoolInv'
<1>1. /\ pc' = "idle"
      /\ UNCHANGED <<taskDone, busy, round, txs, trusted, jobs, j, owed, scriptsOk, e,
                     hashed, failed>>
  BY DEF BlockOver
<1>2. TokensOutNow = 0 /\ TokensOutNow' = 0
  BY <1>1 DEF BlockOver, RoundOver, TokensOutNow
<1>3. TypeOK'
  BY <1>1 DEF PoolInv, TypeOK
<1>4. TokensConserved'
  BY <1>1, <1>2 DEF PoolInv, TokensConserved
<1>5. HashProgress' /\ VerdictKept'
  BY <1>1 DEF PoolInv, HashProgress, VerdictKept
<1> QED  BY <1>3, <1>4, <1>5 DEF PoolInv

(* One token more, one token less to put in. *)
LEMMA FillInv == ASSUME PoolInv, Fill PROVE PoolInv'
<1> USE DEF Fill
<1>1. /\ taskDone \in Seq(BOOLEAN) /\ owed \in Nat /\ owed > 0 /\ owed <= UseRoutines
      /\ UseRoutines \in Nat /\ Len(taskDone) \in Nat
  BY PoolAssumption, LenProperties DEF PoolInv, TypeOK, VerdictKept
<1>2. FirstToken(round) \in BOOLEAN
  BY DEF FirstToken
<1>3. /\ taskDone' \in Seq(BOOLEAN)
      /\ Len(taskDone') = Len(taskDone) + 1
      /\ SaysFalse(taskDone') <=> (SaysFalse(taskDone) \/ FirstToken(round) = FALSE)
  BY <1>1, <1>2, TokenIn
<1>4. TypeOK'
  BY <1>1, <1>3 DEF PoolInv, TypeOK
<1>5. TokensConserved'
  <2>1. Len(taskDone) + Cardinality(busy) = UseRoutines - owed
    BY DEF PoolInv, TokensConserved, TokensOutNow
  <2>2. Cardinality(busy) \in Nat
    BY BusyFinite DEF PoolInv
  <2>3. TokensOutNow' = UseRoutines - (owed - 1)
    BY <1>1 DEF TokensOutNow
  <2>4. Cardinality(busy)' = Cardinality(busy)
    OBVIOUS
  <2>5. Len(taskDone') + Cardinality(busy) = UseRoutines - (owed - 1)
    BY <1>1, <1>3, <2>1, <2>2
  <2> QED  BY <2>3, <2>4, <2>5 DEF TokensConserved
<1>6. HashProgress'
  BY DEF PoolInv, HashProgress
<1>7. VerdictKept'
  <2>1. round > 0 => FirstToken(round) = TRUE
    BY DEF FirstToken, PoolInv, TypeOK
  <2>2. (round' > 0 /\ pc' # "idle") => (failed' <=> (~scriptsOk' \/ SaysFalse(taskDone')))
    BY <1>3, <2>1 DEF PoolInv, VerdictKept
  <2>3. pc' \in {"fill", "work"} /\ scriptsOk' /\ (pc' = "fill" => owed # 1)
    BY DEF PoolInv, VerdictKept
  <2>4. pc' = "fill" => j' = 1 /\ owed' > 0 /\ busy' = {}
    BY <1>1, <2>3 DEF PoolInv, VerdictKept
  <2> QED  BY <2>2, <2>3, <2>4 DEF VerdictKept
<1> QED  BY <1>4, <1>5, <1>6, <1>7 DEF PoolInv

(* A job is handed to a goroutine, against a token. *)
LEMMA OneMoreBusy ==
  ASSUME TypeOK
  PROVE  /\ j \in Nat
         /\ Cardinality(busy \cup {j}) = Cardinality(busy) + 1
         /\ busy \cup {j} \subseteq 1..j
<1>1. j \in Nat /\ j > 0 /\ j \notin busy /\ busy \subseteq 1..j
  BY DEF TypeOK
<1>2. IsFiniteSet(busy)
  BY BusyFinite
<1> QED  BY <1>1, <1>2, FS_AddElement

LEMMA HashTxInv == ASSUME PoolInv, HashTx PROVE PoolInv'
<1> USE DEF HashTx
<1>1. /\ TypeOK /\ taskDone \in Seq(BOOLEAN) /\ j \in Nat /\ j > 0 /\ jobs \in Nat
      /\ j <= jobs /\ UseRoutines \in Nat
  BY PoolAssumption DEF PoolInv, TypeOK, MoreJobs
<1>2. /\ taskDone' \in Seq(BOOLEAN)
      /\ Len(taskDone) \in Nat /\ Len(taskDone) > 0
      /\ Len(taskDone') = Len(taskDone) - 1
  BY <1>1, TokenOut
<1>3. TypeOK'
  <2>1. busy' \subseteq 1..(j' - 1) /\ j' \in 1..(jobs + 1)
    BY <1>1, OneMoreBusy
  <2>2. Len(taskDone') <= UseRoutines
    BY <1>1, <1>2 DEF TypeOK
  <2> QED  BY <1>1, <1>2, <2>1, <2>2 DEF TypeOK
<1>4. TokensConserved'
  <2>1. Cardinality(busy)' = Cardinality(busy) + 1 /\ Cardinality(busy) \in Nat
    BY <1>1, OneMoreBusy, BusyFinite
  <2>2. TokensOutNow' = UseRoutines /\ TokensOutNow = UseRoutines
    BY DEF TokensOutNow
  <2>3. Len(taskDone) + Cardinality(busy) = UseRoutines
    BY <2>2 DEF PoolInv, TokensConserved
  <2> QED  BY <1>2, <2>1, <2>2, <2>3 DEF TokensConserved
<1>5. HashProgress'
  <2>1. 1..(j' - 1) = 1..(j - 1) \cup {j}
    BY <1>1
  <2>2. hashed' \cup busy' = 1..(j' - 1) /\ jobs' = txs'
    BY <2>1 DEF PoolInv, HashProgress
  <2> QED  BY <2>2 DEF HashProgress
<1>6. VerdictKept'
  BY DEF PoolInv, VerdictKept
<1> QED  BY <1>3, <1>4, <1>5, <1>6 DEF PoolInv

LEMMA VerifyInputInv == ASSUME PoolInv, VerifyInput PROVE PoolInv'
<1>0. /\ pc = "work" /\ round > 0 /\ MoreJobs /\ taskDone # <<>>
      /\ UNCHANGED <<round, txs, trusted, jobs, e, hashed, failed>>
  BY Zenon DEF VerifyInput
<1>1. /\ TypeOK /\ taskDone \in Seq(BOOLEAN) /\ j \in Nat /\ j > 0 /\ jobs \in Nat
      /\ j <= jobs /\ UseRoutines \in Nat /\ UseRoutines > 0 /\ round > 0
      /\ taskDone # <<>> /\ Len(taskDone) <= UseRoutines
      /\ busy \subseteq 1..(j - 1)
  BY <1>0, PoolAssumption DEF PoolInv, TypeOK, MoreJobs
<1>2. /\ Tail(taskDone) \in Seq(BOOLEAN)
      /\ Len(taskDone) \in Nat /\ Len(taskDone) > 0
      /\ Len(Tail(taskDone)) = Len(taskDone) - 1
  BY <1>1, TokenOut
<1>8. /\ Head(taskDone) \in BOOLEAN
      /\ SaysFalse(taskDone) <=> (SaysFalse(Tail(taskDone)) \/ Head(taskDone) = FALSE)
  BY <1>1, TokenOut
<1>3. /\ Len(taskDone) + Cardinality(busy) = UseRoutines
      /\ Cardinality(busy) \in Nat
  BY <1>0, BusyFinite DEF PoolInv, TokensConserved, TokensOutNow
<1>4. /\ failed <=> SaysFalse(taskDone)
      /\ scriptsOk = TRUE
  BY <1>0 DEF PoolInv, VerdictKept, TypeOK
<1>5. HashProgress'
  BY <1>0, <1>1 DEF PoolInv, TypeOK, HashProgress
<1>6. CASE Head(taskDone) = FALSE
  <2>1. /\ taskDone' = Tail(taskDone) /\ scriptsOk' = FALSE /\ pc' = "drain"
        /\ owed' = UseRoutines - 1 /\ UNCHANGED <<busy, j>>
    BY <1>6, Zenon DEF VerifyInput, TokensOut
  <2>2. TypeOK'
    <3>1. Len(taskDone') <= UseRoutines /\ owed' \in 0..UseRoutines
      BY <1>1, <1>2, <2>1
    <3> QED  BY <1>0, <1>2, <2>1, <3>1, <1>1 DEF TypeOK
  <2>3. TokensConserved'
    <3>1. Len(taskDone') + Cardinality(busy') = UseRoutines - 1
      BY <1>1, <1>2, <1>3, <2>1
    <3>2. TokensOutNow' = UseRoutines - 1
      BY <2>1 DEF TokensOutNow
    <3> QED  BY <3>1, <3>2 DEF TokensConserved
  <2>4. failed' = TRUE
    <3>1. SaysFalse(taskDone)
      BY <1>8, <1>6, Zenon
    <3>2. failed
      BY <3>1, <1>4, Zenon
    <3> QED  BY <3>2, <1>0 DEF PoolInv, TypeOK
  <2>5. VerdictKept'
    BY <2>1, <2>4 DEF VerdictKept
  <2> QED  BY <2>2, <2>3, <2>5, <1>5 DEF PoolInv
<1>7. CASE Head(taskDone) = TRUE
  <2>1. /\ j' = j + 1 /\ UNCHANGED <<scriptsOk, pc, owed>>
        /\ taskDone' = IF trusted THEN Append(Tail(taskDone), TRUE) ELSE Tail(taskDone)
        /\ busy' = IF trusted THEN busy ELSE busy \cup {j}
    BY <1>7, Zenon DEF VerifyInput
  <2>2. /\ Append(Tail(taskDone), TRUE) \in Seq(BOOLEAN)
        /\ Len(Append(Tail(taskDone), TRUE)) = Len(Tail(taskDone)) + 1
    BY <1>2, TokenIn
  <2>7. SaysFalse(Append(Tail(taskDone), TRUE)) <=> SaysFalse(Tail(taskDone))
    BY <1>2, TokenIn
  <2>8. /\ taskDone' \in Seq(BOOLEAN)
        /\ Len(taskDone') = IF trusted THEN Len(taskDone) ELSE Len(taskDone) - 1
    <3>1. CASE trusted
      BY <1>2, <2>1, <2>2, <3>1
    <3>2. CASE ~trusted
      BY <1>2, <2>1, <3>2
    <3> QED  BY <3>1, <3>2
  <2>3. /\ taskDone' \in Seq(BOOLEAN)
        /\ Len(taskDone') <= UseRoutines
        /\ SaysFalse(taskDone') <=> SaysFalse(taskDone)
    <3>1. SaysFalse(taskDone') <=> SaysFalse(taskDone)
      BY <1>7, <1>8, <2>1, <2>7, Zenon
    <3>2. Len(taskDone') = Len(taskDone) \/ Len(taskDone') = Len(taskDone) - 1
      BY <2>8, Zenon
    <3>3. Len(taskDone') <= UseRoutines
      <4>1. CASE Len(taskDone') = Len(taskDone)
        BY <4>1, <1>1
      <4>2. CASE Len(taskDone') = Len(taskDone) - 1
        BY <4>2, <1>1, <1>2
      <4> QED  BY <3>2, <4>1, <4>2
    <3> QED  BY <2>8, <3>1, <3>3
  <2>4. TypeOK'
    <3>1. busy' \subseteq 1..(j' - 1) /\ j' \in 1..(jobs + 1)
      <4>1. busy \subseteq 1..(j - 1) /\ 1..(j - 1) \subseteq 1..j /\ j' - 1 = j
        BY <1>1, <2>1
      <4> QED  BY <1>1, <2>1, <4>1, OneMoreBusy
    <3> QED  BY <1>0, <1>1, <2>1, <2>3, <3>1 DEF TypeOK
  <2>5. TokensConserved'
    <3>1. Cardinality(busy') = IF trusted THEN Cardinality(busy) ELSE Cardinality(busy) + 1
      BY <1>1, <2>1, OneMoreBusy
    <3>2. TokensOutNow' = UseRoutines
      BY <1>0, <2>1 DEF TokensOutNow
    <3>4. Len(taskDone') + Cardinality(busy') = UseRoutines
      <4>1. \/ Len(taskDone') = Len(taskDone) /\ Cardinality(busy') = Cardinality(busy)
            \/ /\ Len(taskDone') = Len(taskDone) - 1
               /\ Cardinality(busy') = Cardinality(busy) + 1
        BY <2>8, <3>1, Zenon
      <4>2. CASE Len(taskDone') = Len(taskDone) /\ Cardinality(busy') = Cardinality(busy)
        BY <1>3, <4>2
      <4>3. CASE /\ Len(taskDone') = Len(taskDone) - 1
                 /\ Cardinality(busy') = Cardinality(busy) + 1
        BY <1>2, <1>3, <4>3
      <4> QED  BY <4>1, <4>2, <4>3
    <3> QED  BY <3>2, <3>4 DEF TokensConserved
  <2>6. VerdictKept'
    <3>1. failed' <=> SaysFalse(taskDone')
      BY <1>0, <1>4, <2>3
    <3>2. scriptsOk' = TRUE /\ pc' = "work"
      BY <1>0, <1>4, <2>1
    <3> QED  BY <3>1, <3>2 DEF VerdictKept
  <2> QED  BY <2>4, <2>5, <2>6, <1>5 DEF PoolInv
<1> QED  BY <1>8, <1>6, <1>7

(* The loop over the jobs ends: all tokens are to be taken out. *)
LEMMA LoopEndsInv == ASSUME PoolInv, InputFails \/ LoopEnds PROVE PoolInv'
<1>1. /\ pc = "work" /\ pc' = "drain" /\ owed' = UseRoutines
      /\ UNCHANGED <<taskDone, busy, round, txs, trusted, jobs, j, scriptsOk, hashed, failed>>
      /\ e' \in BOOLEAN
  BY DEF InputFails, LoopEnds, TokensOut, PoolInv, VerdictKept, TypeOK
<1>2. UseRoutines \in Nat
  BY PoolAssumption
<1>3. TypeOK'
  BY <1>1, <1>2 DEF PoolInv, TypeOK
<1>4. TokensConserved'
  BY <1>1 DEF PoolInv, TokensConserved, TokensOutNow
<1>5. HashProgress'
  <2>1. round = 0 => j = jobs + 1
    BY DEF InputFails, LoopEnds, MoreJobs, PoolInv, TypeOK
  <2> QED  BY <1>1, <2>1 DEF PoolInv, HashProgress
<1>6. VerdictKept'
  BY <1>1 DEF PoolInv, VerdictKept
<1> QED  BY <1>3, <1>4, <1>5, <1>6 DEF PoolInv

(* A goroutine's token. *)
LEMMA AnswerInv == ASSUME PoolInv, NEW k \in 1..jobs, Answer(k) PROVE PoolInv'
<1>1. /\ k \in busy /\ busy' = busy \ {k} /\ Len(taskDone) < UseRoutines
      /\ UNCHANGED <<pc, round, txs, trusted, jobs, j, owed, scriptsOk, e>>
  BY DEF Answer
<1>2. PICK passed \in BOOLEAN :
        /\ taskDone' = Append(taskDone, passed)
        /\ round = 0 => failed' = failed /\ hashed' = hashed \cup {k}
        /\ round # 0 => failed' = (failed \/ ~passed) /\ hashed' = hashed
  BY Zenon DEF Answer
<1>3. /\ TypeOK /\ taskDone \in Seq(BOOLEAN) /\ UseRoutines \in Nat
      /\ Len(taskDone) \in Nat /\ failed \in BOOLEAN
  BY PoolAssumption, LenProperties DEF PoolInv, TypeOK
<1>4. /\ taskDone' \in Seq(BOOLEAN)
      /\ Len(taskDone') = Len(taskDone) + 1
      /\ SaysFalse(taskDone') <=> (SaysFalse(taskDone) \/ passed = FALSE)
  BY <1>2, <1>3, TokenIn
<1>5. pc # "fill" /\ pc # "idle"
  <2>1. pc # "fill"
    BY <1>1 DEF PoolInv, VerdictKept
  <2>2. pc # "idle"
    <3>1. pc = "idle" => busy = {}
      BY AllTaken DEF PoolInv, TokensOutNow
    <3> QED  BY <1>1, <3>1
  <2> QED  BY <2>1, <2>2
<1>6. TypeOK'
  <2>1. failed' \in BOOLEAN
    BY <1>2, <1>3
  <2>2. hashed' \subseteq 1..txs
    <3>1. CASE round = 0
      <4>1. jobs = txs
        BY <1>5, <3>1 DEF PoolInv, HashProgress
      <4> QED  BY <1>2, <3>1, <4>1, <1>3 DEF TypeOK
    <3>2. CASE round # 0
      BY <1>2, <3>2, <1>3 DEF TypeOK
    <3> QED  BY <3>1, <3>2
  <2>3. Len(taskDone') <= UseRoutines
    BY <1>1, <1>3, <1>4
  <2> QED  BY <1>1, <1>3, <1>4, <2>1, <2>2, <2>3 DEF TypeOK
<1>7. TokensConserved'
  <2>1. Cardinality(busy') = Cardinality(busy) - 1 /\ Cardinality(busy) \in Nat
    BY <1>1, <1>3, BusyFinite, FS_RemoveElement
  <2>2. TokensOutNow' = TokensOutNow
    BY <1>1 DEF TokensOutNow
  <2>3. Len(taskDone') + Cardinality(busy') = Len(taskDone) + Cardinality(busy)
    BY <1>3, <1>4, <2>1
  <2> QED  BY <2>2, <2>3 DEF PoolInv, TokensConserved
<1>8. HashProgress'
  <2>1. CASE round = 0
    <3>1. hashed' \cup busy' = hashed \cup busy
      BY <1>1, <1>2, <2>1
    <3> QED  BY <1>1, <2>1, <3>1 DEF PoolInv, HashProgress
  <2>2. CASE round # 0
    BY <1>1, <1>2, <2>2 DEF PoolInv, HashProgress
  <2> QED  BY <2>1, <2>2
<1>9. VerdictKept'
  <2>1. round > 0 => (failed <=> (~scriptsOk \/ SaysFalse(taskDone)))
    BY <1>5 DEF PoolInv, VerdictKept
  <2>2. round > 0 => failed' = (failed \/ ~passed)
    <3>1. round > 0 => round # 0
      BY <1>3 DEF TypeOK
    <3> QED  BY <3>1, <1>2
  <2>3. round > 0 => (failed' <=> (~scriptsOk \/ SaysFalse(taskDone')))
    BY <1>4, <2>1, <2>2, Zenon
  <2> QED  BY <1>1, <1>5, <2>3 DEF PoolInv, VerdictKept
<1> QED  BY <1>6, <1>7, <1>8, <1>9 DEF PoolInv

LEMMA DrainInv == ASSUME PoolInv, Drain PROVE PoolInv'
<1>0. /\ pc = "drain" /\ owed > 0 /\ taskDone # <<>>
      /\ taskDone' = Tail(taskDone) /\ owed' = owed - 1
      /\ scriptsOk' = IF round = 0 THEN scriptsOk ELSE Verdict(scriptsOk, Head(taskDone))
      /\ UNCHANGED <<busy, pc, round, txs, trusted, jobs, j, e, hashed, failed>>
  BY Zenon DEF Drain
<1>1. /\ TypeOK /\ taskDone \in Seq(BOOLEAN) /\ owed \in Nat /\ owed > 0
      /\ UseRoutines \in Nat /\ taskDone # <<>> /\ scriptsOk \in BOOLEAN
      /\ owed <= UseRoutines /\ Len(taskDone) <= UseRoutines
  BY <1>0, PoolAssumption DEF PoolInv, TypeOK
<1>2. /\ taskDone' \in Seq(BOOLEAN)
      /\ Len(taskDone) \in Nat /\ Len(taskDone) > 0
      /\ Len(taskDone') = Len(taskDone) - 1
  BY <1>0, <1>1, TokenOut
<1>7. /\ Head(taskDone) \in BOOLEAN
      /\ SaysFalse(taskDone) <=> (SaysFalse(taskDone') \/ Head(taskDone) = FALSE)
  BY <1>0, <1>1, TokenOut
<1>3. TypeOK'
  <2>1. scriptsOk' \in BOOLEAN
    BY <1>0, <1>1, <1>7, Zenon DEF Verdict
  <2>2. owed' \in 0..UseRoutines /\ Len(taskDone') <= UseRoutines
    <3>1. owed' = owed - 1
      BY <1>0
    <3> QED  BY <1>1, <1>2, <3>1
  <2> QED  BY <1>0, <1>1, <1>2, <2>1, <2>2 DEF TypeOK
<1>4. TokensConserved'
  <2>1. Cardinality(busy) \in Nat /\ Len(taskDone) + Cardinality(busy) = owed
    BY <1>0, BusyFinite DEF PoolInv, TokensConserved, TokensOutNow
  <2>2. Len(taskDone') + Cardinality(busy) = owed - 1
    BY <1>1, <1>2, <2>1
  <2> QED  BY <1>0, <2>2 DEF TokensConserved, TokensOutNow
<1>5. HashProgress'
  BY <1>0 DEF PoolInv, HashProgress
<1>6. VerdictKept'
  <2>1. round > 0 => scriptsOk' = (scriptsOk /\ Head(taskDone))
    <3>1. round > 0 => round # 0
      BY <1>1 DEF TypeOK
    <3> QED  BY <1>0, <3>1, Zenon DEF Verdict
  <2>2. round > 0 => (failed <=> (~scriptsOk \/ SaysFalse(taskDone)))
    BY <1>0 DEF PoolInv, VerdictKept
  <2>3. round > 0 => (failed <=> (~scriptsOk' \/ SaysFalse(taskDone')))
    BY <1>7, <2>1, <2>2, Zenon
  <2> QED  BY <1>0, <2>3 DEF VerdictKept
<1> QED  BY <1>3, <1>4, <1>5, <1>6 DEF PoolInv

(* Every step keeps the invariant. *)
LEMMA NextPool == ASSUME PoolInv, [Next]_vars PROVE PoolInv'
<1>1. CASE UNCHANGED vars
  BY <1>1 DEF vars, PoolInv, TypeOK, TokensConserved, TokensOutNow, HashProgress,
              VerdictKept
<1>2. CASE Next
  BY <1>2, StartBlockInv, FillInv, HashTxInv, VerifyInputInv, LoopEndsInv, DrainInv,
     NextRoundInv, BlockOverInv, AnswerInv DEF Next, Caller
<1> QED  BY <1>1, <1>2

(* The inductive invariant holds, whatever the number of goroutines. *)
THEOREM PoolInvariant == Spec => []PoolInv
  BY InitPool, NextPool, PTL DEF Spec

(* TypeOK: no more than useRoutines tokens, no goroutine for a job that is *)
(* not there.                                                              *)
THEOREM PoolTypeCorrect == Spec => []TypeOK
<1>1. PoolInv => TypeOK
  BY DEF PoolInv
<1> QED  BY <1>1, PoolInvariant, PTL

(* RoomForAnswers: a goroutine that is done can always put its answer in,  *)
(* so none of them is ever left behind.                                    *)
THEOREM RoomForEveryAnswer == Spec => []RoomForAnswers
<1>1. ASSUME PoolInv PROVE RoomForAnswers
  <2>1. TokensOutNow <= UseRoutines
    BY <1>1, PoolAssumption DEF PoolInv, TypeOK, TokensOutNow
  <2>2. Len(taskDone) + Cardinality(busy) = TokensOutNow
    BY <1>1 DEF PoolInv, TokensConserved
  <2> QED  BY <2>1, <2>2 DEF RoomForAnswers
<1> QED  BY <1>1, PoolInvariant, PTL

(* CleanBetweenRounds: no token outlives its round. *)
THEOREM NothingLeftOver == Spec => []CleanBetweenRounds
<1>1. ASSUME PoolInv PROVE CleanBetweenRounds
  <2>1. (pc = "idle" \/ RoundOver) => TokensOutNow = 0
    BY DEF RoundOver, TokensOutNow
  <2> QED  BY <1>1, <2>1, AllTaken DEF PoolInv, CleanBetweenRounds
<1> QED  BY <1>1, PoolInvariant, PTL

(* HashesReady: DecodeTxListFromRaw returns with every hash computed. *)
THEOREM EveryHashReady == Spec => []HashesReady
<1>1. ASSUME PoolInv PROVE HashesReady
  <2>1. CASE round > 0
    BY <1>1, <2>1 DEF PoolInv, HashProgress, HashesReady
  <2>2. CASE round = 0 /\ RoundOver
    <3>1. busy = {}
      BY <1>1, <2>2, AllTaken DEF PoolInv, RoundOver, TokensOutNow
    <3>2. /\ hashed \cup busy = 1..(j - 1) /\ j = jobs + 1 /\ jobs = txs /\ txs \in Nat
      BY <1>1, <2>2 DEF PoolInv, TypeOK, HashProgress, RoundOver
    <3>3. j - 1 = txs
      BY <3>2
    <3> QED  BY <3>1, <3>2, <3>3 DEF HashesReady
  <2> QED  BY <1>1, <2>1, <2>2 DEF HashesReady, PoolInv, TypeOK
<1> QED  BY <1>1, PoolInvariant, PTL

(* VerdictIsRight: a transaction is refused for its scripts if and only if *)
(* one that was started is wrong.                                          *)
THEOREM VerdictIsExact == Spec => []VerdictIsRight
<1>1. ASSUME PoolInv PROVE VerdictIsRight
  <2>1. RoundOver => taskDone = <<>>
    BY <1>1, AllTaken DEF PoolInv, RoundOver, TokensOutNow
  <2>2. RoundOver => ~SaysFalse(taskDone)
    BY <2>1, NoToken
  <2>3. (RoundOver /\ round > 0) => (failed <=> ~scriptsOk)
    BY <1>1, <2>2 DEF PoolInv, VerdictKept, RoundOver
  <2> QED  BY <2>3 DEF VerdictIsRight
<1> QED  BY <1>1, PoolInvariant, PTL
=============================================================================
