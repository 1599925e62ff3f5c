----------------------------- MODULE BestChain ------------------------------
(***************************************************************************)
(* What the chain promises to its client: after each accepted block the    *)
(* tip is a highest block of the tree of blocks not found invalid.         *)
(***************************************************************************)
EXTENDS Integers, FiniteSets

CONSTANTS Block, Genesis, ParentOf

VARIABLES
  known,            \* the blocks in the tree
  tip,              \* the last block of the active chain
  failing           \* the ledger has gone astray

bcvars == <<known, tip, failing>>

HeightOf ==
  LET height[b \in Block] == IF b = Genesis THEN 0 ELSE height[ParentOf[b]] + 1
  IN  height

(* A tree: every block but the genesis block has its parent.  *)
Rooted(blocks) ==
  Genesis \in blocks /\ \A b \in blocks \ {Genesis} : ParentOf[b] \in blocks

IsHighest(b, blocks) ==
  b \in blocks /\ \A c \in blocks : HeightOf[c] <= HeightOf[b]

BCInit == known = {Genesis} /\ tip = Genesis /\ ~failing

(* A block arrives, and with it blocks may turn out invalid, but never the *)
(* tip.  The tip moves only to a higher block, or to one as high if the    *)
(* block that arrived turned out invalid itself.                           *)
Receive(b) ==
  /\ known' \subseteq known \cup {b}
  /\ Rooted(known')
  /\ tip \in known'
  /\ IsHighest(tip', known')
  /\ tip' = tip \/ HeightOf[tip'] > HeightOf[tip] \/ b \notin known'

(* Nothing is promised once the ledger has gone astray. *)
BCNext ==
  \/ failing'
  \/ ~failing /\ ~failing' /\ \E b \in Block \ known : Receive(b)

BCSpec == BCInit /\ [][BCNext]_bcvars
=============================================================================
