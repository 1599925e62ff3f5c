------------------------------ MODULE MCScript -------------------------------
(* Families of scripts for Script, and its mutants. *)
EXTENDS Script

Key(k, v)    == [len |-> 3, val |-> v, key |-> k]
Sig(k, s, i) == [len |-> 5, val |-> 6, sig |-> k, over |-> [script |-> s, from |-> i]]

(* A signature of as many bytes as a key has is a key as well. *)
Both(k, s, i) == [len |-> 3, val |-> 6, key |-> "k3", sig |-> k,
                  over |-> [script |-> s, from |-> i]]

AllOps == StackOps \union Conditionals \union Disabled \union Nops \union Invalid
          \union Unhandled \union UnhandledAlways
          \union {"OP_PUSHDATA", "OP_1NEGATE", "OP_N", "OP_VERIFY", "OP_TOALTSTACK",
                  "OP_FROMALTSTACK", "OP_CODESEPARATOR", "OP_EQUALVERIFY",
                  "OP_NUMEQUALVERIFY", "OP_CHECKSIG", "OP_CHECKMULTISIG"}

Part(pushes, ops, length) == [pushes |-> pushes, ops |-> ops, length |-> length]

(* Every opcode, in short scripts; one string is longer than is allowed. *)
Short ==
  [sig |-> Part({Empty, Sig("k1", "pk", 1)}, AllOps, 2),
   pk  |-> Part({Key("k1", 6), Bytes(9, 0)}, AllOps, 2)]

(* Signatures in the input's script, keys in the output's; a number may    *)
(* stand where a key or a signature should, the key k2 where a number      *)
(* should, and the signature for it where a key should.                    *)
MultiSig ==
  [sig |-> Part({Sig("k1", "pk", 0), Both("k2", "pk", 0), IntItem(1)}, {"OP_PUSHDATA"}, 3),
   pk  |-> Part({Key("k1", 6), Key("k2", 2), IntItem(2), IntItem(3)},
                {"OP_PUSHDATA", "OP_CHECKMULTISIG"}, 6)]

(* Enough instructions to reach the limits, with OP_CHECKMULTISIG among    *)
(* them.                                                                   *)
Counting ==
  [sig |-> Part({Empty}, {"OP_PUSHDATA"}, 4),
   pk  |-> Part({}, {"OP_N", "OP_NOP", "OP_CHECKMULTISIG", "OP_TOALTSTACK"}, 6)]

MCFamilies == [short |-> Short, multisig |-> MultiSig, counting |-> Counting]
MCNumbers == 1..2
=============================================================================
