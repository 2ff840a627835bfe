----------------------------- MODULE BlockTree ------------------------------
(***************************************************************************)
(* The tree of block headers a node can come to know, as the CBlockIndex   *)
(* records of src/libs/server/BlocksDB.cpp see it: every header has a      *)
(* pprev back-reference (null only for the genesis), a height one above    *)
(* its parent's and a cumulative chain work.  The tree itself is a         *)
(* constant of the model; which of its headers the node knows is state of  *)
(* the modules that extend this one.                                       *)
(*                                                                         *)
(* CBlockIndex::GetAncestor and the height and work fields live in         *)
(* chain.h/chain.cpp and main.cpp, outside src/; they are written here     *)
(* from the specification (section 3, I1, I2 and P2).                      *)
(***************************************************************************)
LOCAL INSTANCE Naturals

CONSTANTS
  Blocks,   \* every header that may ever be announced (model values)
  Genesis,  \* the genesis header, the only one without a parent
  Parent,   \* Parent[b] is b's pprev, for every b other than the genesis
  Work,     \* Work[b] is GetBlockProof(b), the work b's nBits contribute
  NoBlock   \* the null CBlockIndex pointer

ASSUME Genesis \in Blocks
ASSUME NoBlock \notin Blocks
ASSUME Parent \in [Blocks \ {Genesis} -> Blocks]
ASSUME Work \in [Blocks -> Nat \ {0}]

(* pprev: the parent, or the null pointer for the genesis.                 *)
Prev(b) == IF b = Genesis THEN NoBlock ELSE Parent[b]

(* nHeight: 0 for the genesis, one more than the parent otherwise (I1).    *)
RECURSIVE Height(_)
Height(b) == IF b = Genesis THEN 0 ELSE Height(Parent[b]) + 1

(* nChainWork: the parent's chain work plus the block's own (I2).          *)
RECURSIVE ChainWork(_)
ChainWork(b) == IF b = Genesis THEN Work[b] ELSE ChainWork(Parent[b]) + Work[b]

(* CBlockIndex::GetAncestor(h): the ancestor of b at height h, b itself at *)
(* its own height, and the null pointer above b or below zero (P2).        *)
RECURSIVE GetAncestor(_, _)
GetAncestor(b, h) ==
  IF h > Height(b) \/ h < 0 THEN NoBlock
  ELSE IF h = Height(b) THEN b
  ELSE GetAncestor(Parent[b], h)

(* a is b or one of b's ancestors.                                         *)
IsAncestor(a, b) == GetAncestor(b, Height(a)) = a

(* The headers of the tree that have b as an ancestor, b included.         *)
Descendants(b) == {d \in Blocks : IsAncestor(b, d)}

(* The headers of S no other header of S descends from.                    *)
Leaves(S) == {b \in S : \A d \in S : IsAncestor(b, d) => d = b}
=============================================================================
