----------------------------- MODULE ScriptPool ------------------------------
(***************************************************************************)
(* The pool of goroutines that hash transactions (DecodeTxListFromRaw) and *)
(* verify scripts (commitTxs).  Both share one channel, taskDone, with     *)
(* room for useRoutines tokens: it is filled, a token is taken before a    *)
(* goroutine is started, the goroutine puts its answer in as a token, and  *)
(* in the end all tokens are taken out again.  The tokens of commitTxs     *)
(* carry the verdicts, those of DecodeTxListFromRaw say nothing, so none   *)
(* may be left over from one to the other.                                 *)
(*                                                                         *)
(* A block is a number of rounds: round 0 hashes its transactions, round i *)
(* verifies the inputs of transaction i, the coinbase being number 0.      *)
(***************************************************************************)
EXTENDS Integers, Sequences, FiniteSets

CONSTANTS
  UseRoutines,      \* useRoutines, three times the number of processors
  MaxTxs,           \* bound: transactions in a block
  MaxIns            \* bound: inputs of a transaction

ASSUME PoolAssumption ==
  /\ UseRoutines \in Nat \ {0}
  /\ MaxTxs \in Nat
  /\ MaxIns \in Nat

VARIABLES
  taskDone,         \* the channel
  busy,             \* the goroutines that run: the jobs of this round they do
  pc,               \* where the calling goroutine stands
  round,            \* 0 in DecodeTxListFromRaw, else i of commitTxs
  txs,              \* len(bl.Txs)
  trusted,          \* bl.Trusted
  jobs,             \* transactions to hash or inputs to verify in this round
  j,                \* the next one
  owed,             \* tokens still to put in ("fill") or to take out ("drain")
  scriptsOk,
  e,                \* an input was not found
  hashed,           \* transactions whose Hash is set
  failed            \* history: a script of this round was found wrong

vars == <<taskDone, busy, pc, round, txs, trusted, jobs, j, owed, scriptsOk, e,
          hashed, failed>>

TypeOK ==
  /\ taskDone \in Seq(BOOLEAN) /\ Len(taskDone) <= UseRoutines
  /\ busy \subseteq 1..(j - 1)
  /\ pc \in {"idle", "fill", "work", "drain"}
  /\ round \in Nat
  /\ txs \in Nat
  /\ trusted \in BOOLEAN
  /\ jobs \in Nat
  /\ j \in 1..(jobs + 1)
  /\ owed \in 0..UseRoutines
  /\ scriptsOk \in BOOLEAN
  /\ e \in BOOLEAN
  /\ hashed \subseteq 1..txs
  /\ failed \in BOOLEAN

Init ==
  /\ taskDone = <<>>
  /\ busy = {}
  /\ pc = "idle"
  /\ round = 0
  /\ txs = 0
  /\ trusted = FALSE
  /\ jobs = 0
  /\ j = 1
  /\ owed = 0
  /\ scriptsOk = TRUE
  /\ e = FALSE
  /\ hashed = {}
  /\ failed = FALSE
-----------------------------------------------------------------------------
(* The tokens a round starts with: true for scripts, false for hashes. *)
FirstToken(r) == r # 0

(* Wrong on purpose: the token already taken after a failure is forgotten, *)
(* or one is always thought to be taken.                                   *)
AllTokens(ok) == UseRoutines
OneTokenLess(ok) == UseRoutines - 1

(* How many tokens are out when the loop over the jobs ends: all of them,  *)
(* or all but the one that said false and ended it.                        *)
TokensOut(ok) == IF ok THEN UseRoutines ELSE UseRoutines - 1

(* Wrong on purpose: the last answer decides. *)
LastVerdict(ok, token) == token

(* scriptsOk after one more token. *)
Verdict(ok, token) == ok /\ token

(* A round begins, with n jobs. *)
StartRound(r, n) ==
  /\ pc' = "fill"
  /\ round' = r
  /\ jobs' = n
  /\ j' = 1
  /\ owed' = UseRoutines
  /\ scriptsOk' = TRUE
  /\ failed' = FALSE

(* A block comes in: CheckBlock or ParseTillBlock decode its transactions. *)
StartBlock ==
  /\ pc = "idle"
  /\ txs' \in 1..MaxTxs
  /\ trusted' \in BOOLEAN
  /\ e' = FALSE
  /\ hashed' = {}
  /\ StartRound(0, txs')
  /\ UNCHANGED <<taskDone, busy>>

Fill ==
  /\ pc = "fill"
  /\ Len(taskDone) < UseRoutines
  /\ taskDone' = Append(taskDone, FirstToken(round))
  /\ owed' = owed - 1
  /\ pc' = IF owed = 1 THEN "work" ELSE "fill"
  /\ UNCHANGED <<busy, round, txs, trusted, jobs, j, scriptsOk, e, hashed, failed>>

(* Wrong on purpose: one turn too many. *)
OneMoreJob == j <= jobs + 1

(* The condition of the loop over the transactions or the inputs. *)
MoreJobs == j <= jobs

(* Any token will do: a goroutine hashes transaction j. *)
HashTx ==
  /\ pc = "work" /\ round = 0 /\ MoreJobs
  /\ taskDone # <<>>
  /\ taskDone' = Tail(taskDone)
  /\ busy' = busy \cup {j}
  /\ j' = j + 1
  /\ UNCHANGED <<pc, round, txs, trusted, jobs, owed, scriptsOk, e, hashed, failed>>

(* Wrong on purpose: a goroutine is started without a token. *)
VerifyAtOnce ==
  /\ pc = "work" /\ round > 0 /\ MoreJobs
  /\ busy' = busy \cup {j}
  /\ j' = j + 1
  /\ UNCHANGED <<taskDone, pc, owed, scriptsOk, round, txs, trusted, jobs, e, hashed, failed>>

(* Input j was found.  A token that says false ends the loop; otherwise a  *)
(* goroutine verifies the script, or none has to in a trusted block.       *)
VerifyInput ==
  /\ pc = "work" /\ round > 0 /\ MoreJobs
  /\ taskDone # <<>>
  /\ IF ~Head(taskDone)
       THEN /\ taskDone' = Tail(taskDone)
            /\ scriptsOk' = FALSE
            /\ pc' = "drain"
            /\ owed' = TokensOut(FALSE)
            /\ UNCHANGED <<busy, j>>
       ELSE /\ taskDone' = IF trusted THEN Append(Tail(taskDone), TRUE) ELSE Tail(taskDone)
            /\ busy' = IF trusted THEN busy ELSE busy \cup {j}
            /\ j' = j + 1
            /\ UNCHANGED <<scriptsOk, pc, owed>>
  /\ UNCHANGED <<round, txs, trusted, jobs, e, hashed, failed>>

(* Input j is spent already or unknown: the loop ends before a token is taken. *)
InputFails ==
  /\ pc = "work" /\ round > 0 /\ MoreJobs
  /\ e' = TRUE
  /\ pc' = "drain"
  /\ owed' = TokensOut(TRUE)
  /\ UNCHANGED <<taskDone, busy, round, txs, trusted, jobs, j, scriptsOk, hashed, failed>>

LoopEnds ==
  /\ pc = "work" /\ ~MoreJobs
  /\ pc' = "drain"
  /\ owed' = TokensOut(scriptsOk)
  /\ UNCHANGED <<taskDone, busy, round, txs, trusted, jobs, j, scriptsOk, e, hashed, failed>>

(* A goroutine is done and puts its token in. *)
Answer(k) ==
  /\ k \in busy
  /\ Len(taskDone) < UseRoutines
  /\ busy' = busy \ {k}
  /\ IF round = 0
       THEN /\ taskDone' = Append(taskDone, TRUE)
            /\ hashed' = hashed \cup {k}
            /\ UNCHANGED failed
       ELSE /\ \E passed \in BOOLEAN :
                 /\ taskDone' = Append(taskDone, passed)
                 /\ failed' = (failed \/ ~passed)
            /\ UNCHANGED hashed
  /\ UNCHANGED <<pc, round, txs, trusted, jobs, j, owed, scriptsOk, e>>

Drain ==
  /\ pc = "drain" /\ owed > 0
  /\ taskDone # <<>>
  /\ taskDone' = Tail(taskDone)
  /\ owed' = owed - 1
  /\ scriptsOk' = IF round = 0 THEN scriptsOk ELSE Verdict(scriptsOk, Head(taskDone))
  /\ UNCHANGED <<busy, pc, round, txs, trusted, jobs, j, e, hashed, failed>>

RoundOver == pc = "drain" /\ owed = 0

(* On to the next transaction, unless a script or an input failed. *)
NextRound ==
  /\ RoundOver
  /\ scriptsOk /\ ~e
  /\ round + 1 < txs
  /\ \E n \in 0..MaxIns : StartRound(round + 1, n)
  /\ UNCHANGED <<taskDone, busy, txs, trusted, e, hashed>>

(* The block is through or, for whatever reason, refused. *)
BlockOver ==
  /\ RoundOver
  /\ pc' = "idle"
  /\ UNCHANGED <<taskDone, busy, round, txs, trusted, jobs, j, owed, scriptsOk, e,
                 hashed, failed>>

Caller ==
  \/ Fill \/ HashTx \/ VerifyInput \/ InputFails \/ LoopEnds \/ Drain
  \/ NextRound \/ BlockOver

Next == StartBlock \/ Caller \/ \E k \in 1..jobs : Answer(k)

Spec == Init /\ [][Next]_vars

(* The scheduler runs the caller and every goroutine; scripts terminate.   *)
(* StartBlock is up to the network.                                        *)
FairSpec ==
  /\ Spec
  /\ WF_vars(Caller)
  /\ \A k \in 1..(MaxTxs + MaxIns) : WF_vars(Answer(k))
-----------------------------------------------------------------------------
(* No token is lost and none is made: those put in, minus those in a       *)
(* goroutine's hands, minus those taken out, are in the channel.           *)
TokensOutNow ==
  CASE pc = "idle"  -> 0
    [] pc = "fill"  -> UseRoutines - owed
    [] pc = "work"  -> UseRoutines
    [] pc = "drain" -> owed

TokensConserved == Len(taskDone) + Cardinality(busy) = TokensOutNow

(* A goroutine that is done never waits for room in the channel, and no    *)
(* more than useRoutines run at a time.                                    *)
RoomForAnswers == Len(taskDone) + Cardinality(busy) <= UseRoutines

(* Between two rounds nothing is in the channel and nothing runs, so no    *)
(* answer about one transaction, and no false that DecodeTxListFromRaw put *)
(* in, is ever read as the verdict on another.                             *)
CleanBetweenRounds ==
  pc = "idle" \/ RoundOver => taskDone = <<>> /\ busy = {}

(* DecodeTxListFromRaw returns when every hash is there: commitTxs reads   *)
(* them all.                                                               *)
HashesReady ==
  round > 0 \/ RoundOver => hashed = 1..txs

(* commitTxs refuses the transaction exactly if a script it has started    *)
(* was found wrong, whenever and in whatever order the answers came.       *)
VerdictIsRight ==
  RoundOver /\ round > 0 => (scriptsOk <=> ~failed)

(* Every hash is there, or in the hands of a goroutine, or still to come.  *)
HashProgress ==
  /\ round > 0 => hashed = 1..txs
  /\ (round = 0 /\ pc # "idle") =>
       /\ jobs = txs
       /\ hashed \cup busy = 1..(j - 1)
       /\ pc = "drain" => j = jobs + 1

(* A token in the channel says that a script is wrong. *)
SaysFalse(s) == \E i \in 1..Len(s) : s[i] = FALSE

(* A wrong script was either noticed or will be, when its token is taken;  *)
(* while the loop runs nothing was noticed.                                *)
VerdictKept ==
  /\ (round > 0 /\ pc # "idle") => (failed <=> (~scriptsOk \/ SaysFalse(taskDone)))
  /\ pc \in {"fill", "work"} => scriptsOk
  /\ pc = "fill" => j = 1 /\ owed > 0 /\ busy = {}

(* The inductive invariant. *)
PoolInv == TypeOK /\ TokensConserved /\ HashProgress /\ VerdictKept

(* Every block is done with at last: nobody waits for a token for ever. *)
BlockEnds == pc # "idle" ~> pc = "idle"
=============================================================================
