------------------------------- MODULE Script --------------------------------
(***************************************************************************)
(* VerifyTxScript (script.go): the script of an input and then the script  *)
(* of the output it spends are evaluated on one data stack.  The scripts   *)
(* are read an instruction at a time, any instruction may be next, and a   *)
(* script may end at any point.                                            *)
(*                                                                         *)
(* A run-time panic ends the goroutine, and the process with it: it is a   *)
(* verdict of its own here, and so is the call of os.Exit.                 *)
(***************************************************************************)
EXTENDS ScriptOps

CONSTANTS
  MaxElement,    \* MAX_SCRIPT_ELEMENT_SIZE, 520
  MaxOps,        \* 201
  MaxStack,      \* 1000
  MaxKeys,       \* 20
  Numbers,       \* the numbers with an opcode of their own, 1..16
  Families       \* bound: the scripts that are tried, see below

(* Families of scripts by name: the strings that either script may push,   *)
(* the opcodes either may use and how many instructions either may have.   *)
ASSUME ScriptAssumption ==
  /\ {MaxElement, MaxOps, MaxStack, MaxKeys} \subseteq Nat
  /\ Numbers \subseteq Nat
  /\ \A n \in DOMAIN Families : \A s \in {"sig", "pk"} :
       /\ Families[n][s].length \in Nat
       /\ \A d \in Families[n][s].pushes : IsElement(d)

VARIABLES
  family,        \* the name of the family the scripts are from
  phase,         \* the script in evaluation, or "done"
  stack,
  altstack,
  vfExec,
  nOpCount,
  idx,           \* instructions read
  sta,           \* those before the last OP_CODESEPARATOR
  multi,         \* the loop of OP_CHECKMULTISIG, or NoMulti
  verdict,
  branch         \* history: the outcomes of the conditions around this point

vars == <<family, phase, stack, altstack, vfExec, nOpCount, idx, sta, multi,
          verdict, branch>>

NoMulti == [sigs |-> -1]
Verdicts == {"none", "true", "false", "torn", "unmatched", "underflow", "exit"}

TypeOK ==
  /\ family \in DOMAIN Families
  /\ phase \in {"sig", "pk", "done"}
  /\ \A s \in {stack, altstack, vfExec} : \A i \in 1..Len(s) : IsElement(s[i])
  /\ nOpCount \in Nat
  /\ idx \in Nat
  /\ sta \in 0..idx
  /\ multi # NoMulti => multi.sigs \in 0..MaxKeys /\ multi.keys \in Int
  /\ verdict \in Verdicts /\ (verdict # "none" <=> phase = "done")
  /\ \A i \in 1..Len(branch) : branch[i] \in BOOLEAN

Init ==
  /\ family \in DOMAIN Families
  /\ phase = "sig"
  /\ stack = <<>>
  /\ altstack = <<>>
  /\ vfExec = <<>>
  /\ nOpCount = 0
  /\ idx = 0
  /\ sta = 0
  /\ multi = NoMulti
  /\ verdict = "none"
  /\ branch = <<>>
-----------------------------------------------------------------------------
(* empties counts the strings of no bytes. *)
Empties(s) == Cardinality({i \in 1..Len(s) : s[i].len = 0})
fExec == Empties(vfExec) = 0

Conditionals == {"OP_IF", "OP_NOTIF", "OP_ELSE", "OP_ENDIF"}
Disabled == {"OP_CAT", "OP_SUBSTR", "OP_LEFT", "OP_RIGHT", "OP_INVERT",
             "OP_AND", "OP_OR", "OP_XOR", "OP_2MUL", "OP_2DIV", "OP_MUL",
             "OP_DIV", "OP_MOD", "OP_LSHIFT", "OP_RSHIFT"}
Nops == {"OP_NOP", "OP_VER", "OP_NOP1"}
Invalid == {"OP_PUBKEYHASH"}               \* any opcode from 0xba on

(* Opcodes without a case.  Those from 0x63 to 0x68 come to the switch     *)
(* even if fExec does not hold.                                            *)
Unhandled == {"OP_RESERVED", "OP_RETURN", "OP_2ROT", "OP_1ADD", "OP_SHA1",
              "OP_CHECKSIGVERIFY", "OP_CHECKMULTISIGVERIFY"}
UnhandledAlways == {"OP_VERIF", "OP_VERNOTIF"}

(* Opcodes over 0x60 are counted. *)
Cost(op) == IF op \in {"OP_PUSHDATA", "OP_1NEGATE", "OP_N", "OP_RESERVED"}
            THEN 0 ELSE 1
-----------------------------------------------------------------------------
(* evalScript returns, and its local variables are gone.  With true, the   *)
(* evaluation of the output's script begins on the stack as it is; the     *)
(* stack that is left in the end is not looked at.                         *)
LeaveEval ==
  /\ altstack' = <<>>
  /\ vfExec' = <<>>
  /\ branch' = <<>>
  /\ nOpCount' = 0
  /\ idx' = 0
  /\ sta' = 0
  /\ multi' = NoMulti
  /\ UNCHANGED family

End(v) ==
  /\ LeaveEval
  /\ phase' = "done"
  /\ stack' = <<>>
  /\ verdict' = v

Return(ok, st) ==
  IF ~ok THEN End("false")
  ELSE IF phase = "pk" THEN End("true")
  ELSE /\ LeaveEval
       /\ phase' = "pk"
       /\ stack' = st
       /\ UNCHANGED verdict

(* Wrong on purpose: what is on the other stack is not counted. *)
TooBigAlone(st, alt) == Len(st) > MaxStack

TooBig(st, alt) == Len(st) + Len(alt) > MaxStack

(* The end of the loop body, where the size of both stacks is checked. *)
Advance(op, st, alt, vf, br, sep) ==
  IF TooBig(st, alt) THEN Return(FALSE, st)
  ELSE /\ stack' = st
       /\ altstack' = alt
       /\ vfExec' = vf
       /\ branch' = br
       /\ sta' = sep
       /\ idx' = idx + 1
       /\ nOpCount' = nOpCount + Cost(op)
       /\ UNCHANGED <<family, phase, multi, verdict>>

Continue(op, st) == Advance(op, st, altstack, vfExec, branch, sta)

(* An opcode that is read, allowed and counted. *)
Fetch(op) ==
  /\ phase # "done"
  /\ multi = NoMulti
  /\ idx < Families[family][phase].length
  /\ op \in Families[family][phase].ops
  /\ nOpCount + Cost(op) <= MaxOps

(* An opcode that does A once the stack has the size it asks for, if the   *)
(* branch it is in is executed.                                            *)
Operate(op, A) ==
  /\ Fetch(op)
  /\ IF ~fExec THEN Continue(op, stack)
     ELSE IF Len(stack) < Needs(op) THEN Return(FALSE, stack)
     ELSE A

(* Taking n elements off the stack is out of range if there are fewer. *)
Take(n, A) == IF Len(stack) < n THEN End("underflow") ELSE A
-----------------------------------------------------------------------------
(* getOpcode gives a string to push.  OP_PUSHDATA4 is never recognised: it *)
(* pushes the empty string, and what was to be pushed is read as code.     *)
PushData ==
  /\ Fetch("OP_PUSHDATA")
  /\ \E d \in Families[family][phase].pushes :
       IF d.len > MaxElement THEN Return(FALSE, stack)
       ELSE Continue("OP_PUSHDATA", IF fExec THEN Append(stack, d) ELSE stack)

(* The script ends before the length of a string, which getOpcode reports, *)
(* or within the string, where slicing the script panics.                  *)
TornPush ==
  /\ Fetch("OP_PUSHDATA")
  /\ Return(FALSE, stack) \/ End("torn")

Constant ==
  \/ \E n \in Numbers : Operate("OP_N", Continue("OP_N", Append(stack, IntItem(n))))
  \/ Operate("OP_1NEGATE", Continue("OP_1NEGATE", Append(stack, IntItem(-1))))

NoOperation ==
  \E op \in Nops : Fetch(op) /\ Continue(op, stack)

(* One opcode too many, or one that is not allowed anywhere. *)
Refused ==
  /\ phase # "done"
  /\ multi = NoMulti
  /\ idx < Families[family][phase].length
  /\ \E op \in Families[family][phase].ops : nOpCount + Cost(op) > MaxOps \/ op \in Disabled
  /\ Return(FALSE, stack)

NoCase ==
  \/ \E op \in Invalid : Fetch(op) /\ IF fExec THEN Return(FALSE, stack)
                                               ELSE Continue(op, stack)
  \/ \E op \in Unhandled : Fetch(op) /\ IF fExec THEN End("exit")
                                                 ELSE Continue(op, stack)
  \/ \E op \in UnhandledAlways : Fetch(op) /\ End("exit")
-----------------------------------------------------------------------------
(* OP_IF and OP_NOTIF push the outcome of the condition and OP_ENDIF drops *)
(* it.  OP_ELSE pushes what it reads as a true outcome when that is zero,  *)
(* which is how true is written: the outcome stays what it was.            *)
If ==
  \E op \in {"OP_IF", "OP_NOTIF"} :
    /\ Fetch(op)
    /\ IF fExec /\ Len(stack) < 1 THEN Return(FALSE, stack)
       ELSE LET fValue == fExec /\ ((Int32(Top(stack, 1)) # 0) <=> op = "OP_IF")
            IN  Advance(op, IF fExec THEN Below(stack, 1) ELSE stack, altstack,
                        Append(vfExec, BoolItem(fValue)), Append(branch, fValue), sta)

Else ==
  /\ Fetch("OP_ELSE")
  /\ IF vfExec = <<>> THEN End("unmatched")
     ELSE Advance("OP_ELSE", stack, altstack,
                  Append(Below(vfExec, 1), BoolItem(Int32(Top(vfExec, 1)) = 0)),
                  Append(Below(branch, 1), ~Top(branch, 1)), sta)

EndIf ==
  /\ Fetch("OP_ENDIF")
  /\ IF vfExec = <<>> THEN End("unmatched")
     ELSE Advance("OP_ENDIF", stack, altstack, Below(vfExec, 1), Below(branch, 1), sta)
-----------------------------------------------------------------------------
StackOp ==
  \E op \in StackOps :
    LET n == Operands(op, stack)
    IN  Operate(op, IF TooDeep(op, stack) THEN Return(FALSE, stack)
                    ELSE Take(n, Continue(op, Below(stack, n) \o Results(op, stack))))

Verify ==
  Operate("OP_VERIFY",
          Take(1, IF Int32(Top(stack, 1)) = 0 THEN Return(FALSE, stack)
                  ELSE Continue("OP_VERIFY", Below(stack, 1))))

ToAltStack ==
  Operate("OP_TOALTSTACK",
          Take(1, Advance("OP_TOALTSTACK", Below(stack, 1),
                          Append(altstack, Top(stack, 1)), vfExec, branch, sta)))

FromAltStack ==
  Operate("OP_FROMALTSTACK",
          IF altstack = <<>> THEN Return(FALSE, stack)
          ELSE Advance("OP_FROMALTSTACK", Append(stack, Top(altstack, 1)),
                       Below(altstack, 1), vfExec, branch, sta))

CodeSeparator ==
  Operate("OP_CODESEPARATOR",
          Advance("OP_CODESEPARATOR", stack, altstack, vfExec, branch, idx + 1))

(* These leave evalScript with their result, wherever they stand in the    *)
(* script.                                                                 *)
EqualVerify ==
  \/ Operate("OP_EQUALVERIFY",
             Take(2, Return(Top(stack, 1) = Top(stack, 2), Below(stack, 2))))
  \/ Operate("OP_NUMEQUALVERIFY",
             Take(2, Return(Int32(Top(stack, 1)) = Int32(Top(stack, 2)), Below(stack, 2))))
-----------------------------------------------------------------------------
(* A signature is good for one key and for the code from one position of   *)
(* one of the scripts; the transaction and the input are fixed.            *)
SigVerifies(key, sig) ==
  key.key = sig.sig /\ sig.over = [script |-> phase, from |-> sta]

CheckSig ==
  Operate("OP_CHECKSIG",
          Take(2, LET key == Top(stack, 1)
                      sig == Top(stack, 2)
                  IN  Return(IsKey(key) /\ IsSig(sig) /\ SigVerifies(key, sig),
                             Below(stack, 2))))

(* The stack from the top: the number of keys, the keys, the number of     *)
(* signatures, the signatures and one element nobody looks at.             *)
KeysCount(st) == Int32(Top(st, 1))
SigsCount(st) == Int32(Top(st, KeysCount(st) + 2))

MultiSigRefused ==
  LET keys == KeysCount(stack)
  IN  \/ keys > MaxKeys
      \/ nOpCount + 1 + keys > MaxOps
      \/ Len(stack) < keys + 2
      \/ SigsCount(stack) > keys
      \/ Len(stack) < keys + SigsCount(stack) + 3

(* The arguments are found and checked ... *)
MultiSigBegin ==
  Operate("OP_CHECKMULTISIG",
          IF MultiSigRefused THEN Return(FALSE, stack)
          ELSE /\ multi' = [ikey |-> 2, isig |-> KeysCount(stack) + 3,
                            keys |-> KeysCount(stack), sigs |-> SigsCount(stack),
                            ok |-> TRUE]
               /\ nOpCount' = nOpCount + 1 + KeysCount(stack)
               /\ UNCHANGED <<family, phase, stack, altstack, vfExec, idx, sta,
                              verdict, branch>>)

(* Wrong on purpose: the next key is tried only after one that was right. *)
MultiSigTryAgain ==
  /\ multi # NoMulti /\ multi.sigs > 0
  /\ IF ~IsKey(Top(stack, multi.ikey)) \/ ~IsSig(Top(stack, multi.isig))
     THEN Return(FALSE, stack)
     ELSE LET hit == IF SigVerifies(Top(stack, multi.ikey), Top(stack, multi.isig))
                     THEN 1 ELSE 0
          IN  /\ multi' = [multi EXCEPT !.ikey = @ + hit, !.isig = @ + hit,
                                        !.keys = @ - hit, !.sigs = @ - hit]
              /\ UNCHANGED <<family, phase, stack, altstack, vfExec, nOpCount,
                             idx, sta, verdict, branch>>

(* ... a key is tried on a signature, from the top of the stack down; the  *)
(* loop goes on when there are fewer keys left than signatures ...         *)
MultiSigTry ==
  /\ multi # NoMulti /\ multi.sigs > 0
  /\ Take(multi.ikey,
       IF ~IsKey(Top(stack, multi.ikey)) THEN Return(FALSE, stack)
       ELSE Take(multi.isig,
         IF ~IsSig(Top(stack, multi.isig)) THEN Return(FALSE, stack)
         ELSE LET hit  == IF SigVerifies(Top(stack, multi.ikey), Top(stack, multi.isig))
                          THEN 1 ELSE 0
                  keys == multi.keys - 1
                  sigs == multi.sigs - hit
              IN  /\ multi' = [ikey |-> multi.ikey + 1, isig |-> multi.isig + hit,
                               keys |-> keys, sigs |-> sigs,
                               ok |-> multi.ok /\ sigs <= keys]
                  /\ UNCHANGED <<family, phase, stack, altstack, vfExec, nOpCount,
                                 idx, sta, verdict, branch>>))

(* Wrong on purpose: all signatures were matched, so fSuccess is not asked. *)
MultiSigEndMatched ==
  /\ multi # NoMulti /\ multi.sigs = 0
  /\ Return(TRUE, Below(stack, KeysCount(stack) + SigsCount(stack) + 3))

(* ... and evalScript returns, with the arguments off the stack. *)
MultiSigEnd ==
  /\ multi # NoMulti /\ multi.sigs = 0
  /\ LET n == KeysCount(stack) + SigsCount(stack) + 3
     IN  Take(n, Return(multi.ok, Below(stack, n)))

EndOfScript ==
  /\ phase # "done"
  /\ multi = NoMulti
  /\ Return(vfExec = <<>>, stack)
-----------------------------------------------------------------------------
Next ==
  \/ PushData \/ TornPush \/ Constant \/ NoOperation \/ Refused \/ NoCase
  \/ If \/ Else \/ EndIf
  \/ StackOp \/ Verify \/ ToAltStack \/ FromAltStack \/ CodeSeparator \/ EqualVerify
  \/ CheckSig \/ MultiSigBegin \/ MultiSigTry \/ MultiSigEnd
  \/ EndOfScript

Spec == Init /\ [][Next]_vars

(* evalScript is a loop of a goroutine that nothing blocks. *)
FairSpec == Spec /\ WF_vars(Next)
-----------------------------------------------------------------------------
(* PROPERTIES *)

(* Every opcode asks for as many elements as it then takes: no pop and no  *)
(* top of the data stack is out of range, with one exception.  The loop of *)
(* OP_CHECKMULTISIG goes on when it has run out of keys, and if what lies  *)
(* below them can be read as keys too it leaves the stack at its bottom;   *)
(* by then fSuccess is false.                                              *)
ReadInRange ==
  verdict' = "underflow" /\ verdict # "underflow" => multi # NoMulti /\ ~multi.ok

NoUnderflow == [][ReadInRange]_vars

(* The reference: some keys, in the order they are in, are the keys of the *)
(* signatures in theirs.                                                   *)
OrderedMatch(st) ==
  LET m == KeysCount(st)
      n == SigsCount(st)
      Signs(i, j) == LET key == Top(st, 1 + i)
                         sig == Top(st, m + 2 + j)
                     IN  IsKey(key) /\ IsSig(sig) /\ SigVerifies(key, sig)
  IN  \E f \in [1..n -> 1..m] : /\ \A i, j \in 1..n : i < j => f[i] < f[j]
                                /\ \A j \in 1..n : Signs(f[j], j)

WellFormed(st) ==
  LET m == KeysCount(st)
  IN  /\ \A i \in 1..m : IsKey(Top(st, 1 + i))
      /\ \A j \in 1..SigsCount(st) : IsSig(Top(st, m + 2 + j))

Passed == IF phase = "sig" THEN phase' = "pk" ELSE verdict' = "true"

(* The loop of OP_CHECKMULTISIG, which tries each key once and never goes  *)
(* back, passes only what the reference passes, and all of it unless a key *)
(* or a signature among the arguments is malformed.                        *)
MultiSigIsOrderedMatch ==
  [][multi # NoMulti /\ multi' = NoMulti =>
       /\ Passed => OrderedMatch(stack)
       /\ OrderedMatch(stack) /\ WellFormed(stack) => Passed]_vars

(* The limits hold whenever the next opcode is read, also after            *)
(* OP_CHECKMULTISIG has counted its keys and after the output's script has *)
(* taken over the stack.                                                   *)
LimitsHold ==
  /\ nOpCount <= MaxOps
  /\ Len(stack) + Len(altstack) <= MaxStack

(* Every verification ends, one way or another. *)
EvaluationEnds == <>(phase = "done")

(* Statements of a branch that is not taken do nothing to the stacks, as   *)
(* the comment on OP_IF has it.                                            *)
Taken == \A i \in 1..Len(branch) : branch[i]

UntakenBranchSkipped ==
  [][~Taken /\ phase' = phase /\ branch' = branch => UNCHANGED <<stack, altstack>>]_vars
=============================================================================
