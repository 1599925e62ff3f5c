------------------------------- MODULE Wallet -------------------------------
(***************************************************************************)
(* wallet/wallet.go with -send: a program that runs once for a payment and *)
(* keeps what it owns in files: balance/unspent.txt, a line for each       *)
(* output, balance/<id>.tx, the transaction each line refers to, and       *)
(* <id>.txt, the signed transaction for the user to send.  It reads all of *)
(* them at its start and writes them one after the other at its end; each  *)
(* write is a step, which may be the last one of its run.                  *)
(***************************************************************************)
EXTENDS Integers, Sequences, FiniteSets, SequencesExt, FiniteSetsExt

CONSTANTS
  Addr,             \* addresses, the wallet's and others
  KeyLists,         \* publ_addrs: the lists of the wallet's addresses to look at
  FundingOuts,      \* the outputs of the transaction the balance starts with
  SendTo,           \* the -send parameters: sequences of address and amount
  Fees,             \* the -fee parameters
  Word,             \* 2^64: amounts are sums modulo Word
  MaxTxs            \* bound: transactions, the funding one included

ASSUME WalletAssumption ==
  /\ KeyLists \subseteq Seq(Addr)
  /\ FundingOuts \in Seq([addr : Addr, value : Nat])
  /\ SendTo \subseteq Seq([addr : Addr, value : Nat])
  /\ Fees \subseteq Nat
  /\ Word \in Nat \ {0} /\ MaxTxs \in Nat \ {0}

VARIABLES
  publ_addrs,       \* of every run: the keys come from files nobody writes
  txs,              \* the transactions made so far, by their number, with asked,
                    \* what was to be spent before it was reduced modulo Word
  pc,               \* "off", or the file that is written next
  addLines,         \* lines of unspent.txt still to be written
  unspentTxt,       \* balance/unspent.txt: outputs
  txFile,           \* balance/<id>.tx: "none", "empty" or "whole"
  signed,           \* transactions in a <id>.txt
  exit,             \* the message of the last run that made no transaction
  fate              \* history: the step at which each transaction's run ended

files == <<unspentTxt, txFile, signed>>
vars  == <<publ_addrs, txs, pc, addLines, files, exit, fate>>

Funding == 1
Steps   == {"off", "sign", "list", "lines", "file", "store"}
Exits   == {"", "transaction file not found", "transaction file is corrupt",
            "You want to spend more than you own"}
-----------------------------------------------------------------------------
(* Outputs and amounts                                                     *)

(* A TxPrevOut, here with the outputs counted from 1. *)
Outpoint(t, n) == [tx |-> t, vout |-> n]
UO(o)   == txs[o.tx].outs[o.vout]
Owns(a) == a \in ToSet(publ_addrs)
Mine(o) == Owns(UO(o).addr)

Sum(values)  == LET sum[n \in 0..Len(values)] == IF n = 0 THEN 0 ELSE sum[n - 1] + values[n]
                IN  sum[Len(values)]
Values(outs) == [n \in DOMAIN outs |-> outs[n].value]
InValues(os) == [n \in DOMAIN os |-> UO(os[n]).value]
Uint64(n)    == n % Word

(* There will never be 2^64 of the smallest amounts. *)
ASSUME MoneyAssumption == Sum(Values(FundingOuts)) < Word
-----------------------------------------------------------------------------
Init ==
  /\ publ_addrs \in KeyLists
  /\ txs = <<[ins |-> <<>>, outs |-> FundingOuts, fee |-> 0, asked |-> 0]>>
  /\ pc = "off"
  /\ addLines = <<>>
  /\ unspentTxt = [n \in DOMAIN FundingOuts |-> Outpoint(Funding, n)]
  /\ txFile = [t \in 1..MaxTxs |-> IF t = Funding THEN "whole" ELSE "none"]
  /\ signed = {Funding}
  /\ exit = ""
  /\ fate = [t \in 1..MaxTxs |-> "done"]
-----------------------------------------------------------------------------
(* load_balance                                                            *)

(* The first line without its transaction ends the program. *)
LoadError ==
  LET bad == {n \in DOMAIN unspentTxt : txFile[unspentTxt[n].tx] # "whole"} IN
  IF bad = {} THEN ""
  ELSE IF txFile[unspentTxt[Min(bad)].tx] = "none" THEN "transaction file not found"
  ELSE "transaction file is corrupt"

(* Lines of other people's outputs are ignored, and gone with the next     *)
(* rewriting of the file.                                                  *)
unspentOuts ==
  LET read[n \in 0..Len(unspentTxt)] ==
        IF n = 0 THEN <<>>
        ELSE IF Mine(unspentTxt[n]) THEN Append(read[n - 1], unspentTxt[n]) ELSE read[n - 1]
  IN  read[Len(unspentTxt)]

totBtc == Uint64(Sum(InValues(unspentOuts)))
-----------------------------------------------------------------------------
(* make_signed_tx, in memory                                               *)

(* Outputs in the order of the file until they are enough; all of them if  *)
(* they never are.                                                         *)
Inputs(need) ==
  LET enough == {n \in DOMAIN unspentOuts :
                   Uint64(Sum(InValues(SubSeq(unspentOuts, 1, n)))) >= need}
  IN  SubSeq(unspentOuts, 1, IF enough = {} THEN Len(unspentOuts) ELSE Min(enough))

(* Wrong on purpose: the fee is forgotten. *)
ChangeBeforeFee(ins, spendBtc, feeBtc) == Uint64(Sum(InValues(ins)) - spendBtc)

changeBtc(ins, spendBtc, feeBtc) == Uint64(Sum(InValues(ins)) - (spendBtc + feeBtc))

(* get_change_addr: the address of the first input; -change is read, and   *)
(* then overwritten.                                                       *)
ChangeTo(ins, amount) ==
  IF amount > 0 THEN <<[addr |-> UO(Head(ins)).addr, value |-> amount]>> ELSE <<>>

SignedTx(to, fee) ==
  LET spendBtc == Uint64(Sum(Values(to)))
      ins      == Inputs(Uint64(spendBtc + fee))
  IN  [ins |-> ins, outs |-> to \o ChangeTo(ins, changeBtc(ins, spendBtc, fee)),
       fee |-> fee, asked |-> Sum(Values(to)) + fee]

(* Wrong on purpose: the last input stays in the file. *)
AllButLastInput(tx) == SubSeq(unspentOuts, Len(tx.ins), Len(unspentOuts))

(* The lines the file keeps. *)
NotSpent(tx) == SubSeq(unspentOuts, Len(tx.ins) + 1, Len(unspentOuts))

(* The lines it gains: one for each output and each key that owns it.      *)
LinesOf(t, n) ==
  LET keys == {k \in DOMAIN publ_addrs : publ_addrs[k] = txs[t].outs[n].addr}
  IN  [k \in 1..Cardinality(keys) |-> Outpoint(t, n)]

OwnLines(t) ==
  LET lines[n \in 0..Len(txs[t].outs)] ==
        IF n = 0 THEN <<>> ELSE lines[n - 1] \o LinesOf(t, n)
  IN  lines[Len(txs[t].outs)]
-----------------------------------------------------------------------------
(* One run of the program                                                  *)

cur == Len(txs)

End(step) == pc' = "off" /\ addLines' = <<>> /\ fate' = [fate EXCEPT ![cur] = step]

GoOn(step) == pc' = step /\ UNCHANGED <<addLines, fate>>

Refuse(message) ==
  /\ exit' = message
  /\ UNCHANGED <<publ_addrs, txs, pc, addLines, files, fate>>

(* The program ends before it has written anything, ...  *)
CannotLoad == pc = "off" /\ LoadError # "" /\ Refuse(LoadError)

TooMuch(to, fee) ==
  /\ pc = "off" /\ LoadError = ""
  /\ Uint64(Uint64(Sum(Values(to))) + fee) > totBtc
  /\ Refuse("You want to spend more than you own")

(* ... or it makes a transaction, ... *)
Make(to, fee) ==
  /\ pc = "off" /\ LoadError = ""
  /\ Uint64(Uint64(Sum(Values(to))) + fee) <= totBtc
  /\ Len(txs) < MaxTxs
  /\ txs' = Append(txs, SignedTx(to, fee))
  /\ addLines' = NotSpent(SignedTx(to, fee))
  /\ pc' = "sign"
  /\ exit' = ""
  /\ UNCHANGED <<publ_addrs, files, fate>>

(* ... writes it for the user, a failure being ignored, ... *)
WriteSigned ==
  /\ pc = "sign"
  /\ \E created \in BOOLEAN : signed' = IF created THEN signed \cup {cur} ELSE signed
  /\ GoOn("list")
  /\ UNCHANGED <<publ_addrs, txs, unspentTxt, txFile, exit>>

(* ... empties unspent.txt, ... *)
CreateUnspent ==
  /\ pc = "list"
  /\ unspentTxt' = <<>>
  /\ addLines' = addLines \o OwnLines(cur)
  /\ pc' = "lines"
  /\ UNCHANGED <<publ_addrs, txs, txFile, signed, exit, fate>>

CannotCreateUnspent ==
  /\ pc = "list" /\ End("list")
  /\ UNCHANGED <<publ_addrs, txs, files, exit>>

(* ... writes it again line by line, ... *)
WriteLine ==
  /\ pc = "lines" /\ addLines # <<>>
  /\ unspentTxt' = Append(unspentTxt, Head(addLines))
  /\ addLines' = Tail(addLines)
  /\ UNCHANGED <<publ_addrs, txs, pc, txFile, signed, exit, fate>>

(* Wrong on purpose: more than one output must have come back. *)
SeveralAdded == Len(OwnLines(cur)) > 1

(* addback > 0 *)
AnyAdded == Len(OwnLines(cur)) > 0

EndOfLines ==
  /\ pc = "lines" /\ addLines = <<>>
  /\ IF AnyAdded THEN GoOn("file") ELSE End("done")
  /\ UNCHANGED <<publ_addrs, txs, files, exit>>

(* ... and last the transaction, if one of its outputs is the wallet's.    *)
CreateTxFile ==
  /\ pc = "file"
  /\ txFile' = [txFile EXCEPT ![cur] = "empty"]
  /\ GoOn("store")
  /\ UNCHANGED <<publ_addrs, txs, unspentTxt, signed, exit>>

CannotCreateTxFile ==
  /\ pc = "file" /\ End("file")
  /\ UNCHANGED <<publ_addrs, txs, files, exit>>

StoreTx ==
  /\ pc = "store"
  /\ txFile' = [txFile EXCEPT ![cur] = "whole"]
  /\ End("done")
  /\ UNCHANGED <<publ_addrs, txs, unspentTxt, signed, exit>>

Killed ==
  /\ pc # "off" /\ End(pc)
  /\ UNCHANGED <<publ_addrs, txs, files, exit>>

Next ==
  \/ \E to \in SendTo, fee \in Fees : TooMuch(to, fee) \/ Make(to, fee)
  \/ CannotLoad
  \/ WriteSigned \/ CreateUnspent \/ CannotCreateUnspent
  \/ WriteLine \/ EndOfLines
  \/ CreateTxFile \/ CannotCreateTxFile \/ StoreTx
  \/ Killed

Spec == Init /\ [][Next]_vars
-----------------------------------------------------------------------------
(* Properties                                                              *)

DistinctKeys == IsInjective(publ_addrs)
Made == 2..Len(txs)
Spends(t) == ToSet(txs[t].ins)

(* A signed transaction takes outputs of the wallet, each once, and pays   *)
(* exactly what it takes, whatever became of the runs before it: unless    *)
(* the amounts asked for, then or before, reached 2^64, for which the      *)
(* check against the balance is blind, or a key is listed twice, which     *)
(* counts outputs twice.                                                   *)
SignedIsBalanced ==
  \A t \in Made : DistinctKeys /\ (\A u \in 2..t : txs[u].asked < Word) =>
    /\ IsInjective(txs[t].ins) /\ \A o \in Spends(t) : Mine(o)
    /\ Sum(InValues(txs[t].ins)) = Sum(Values(txs[t].outs)) + txs[t].fee

(* As long as every run came to its end and could write its files,         *)
(* unspent.txt lists the unspent outputs of the wallet, each once, with    *)
(* their transactions beside it.                                           *)
FileIsUnspent ==
  (pc = "off" /\ DistinctKeys /\ \A t \in Made : fate[t] = "done" /\ t \in signed) =>
    /\ ToSet(unspentOuts) =
         {o \in UNION {{Outpoint(t, n) : n \in DOMAIN txs[t].outs} : t \in 1..cur} : Mine(o)}
           \ UNION {Spends(t) : t \in Made}
    /\ IsInjective(unspentTxt)
    /\ LoadError = ""

(* Two transactions given to the user never take the same output, except   *)
(* that the run of the first was cut, or failed, exactly between writing   *)
(* it and emptying unspent.txt (or that a key is listed twice).            *)
SpentTwiceOnlyIfStillListed ==
  DistinctKeys =>
    \A t, u \in signed : t < u /\ Spends(t) \cap Spends(u) # {} => fate[t] = "list"

(* The wallet refuses to load only after a run that was cut, or failed,    *)
(* between the lines of its transaction and the file of it.                *)
StuckOnlyAfterLines ==
  exit \in {"transaction file not found", "transaction file is corrupt"} =>
    fate[cur] \in {"lines", "file", "store"} /\ pc = "off"
=============================================================================
