--------------------------- MODULE MC_HeaderChains ---------------------------
(***************************************************************************)
(* A header tree with four forks: g - a1 - a2, g - b1 - b2 - b3 and g - d1 *)
(* off the genesis, and a1 - c2 off a1.  b1 alone carries as much work as *)
(* a1 and a2 together, so the main chain can be the shorter one, and ties *)
(* between a2, c2 and b1 exercise the first-seen rule.                    *)
(***************************************************************************)
EXTENDS HeaderChains

CONSTANTS g, a1, a2, b1, b2, b3, c2, d1

MCBlocks == {g, a1, a2, b1, b2, b3, c2, d1}
MCParent == (a1 :> g) @@ (a2 :> a1) @@ (c2 :> a1) @@ (b1 :> g) @@ (b2 :> b1) @@ (b3 :> b2) @@ (d1 :> g)
MCWork == [b \in MCBlocks |-> IF b = b1 THEN 2 ELSE 1]

(* The two forks g - a1 - a2 and g - b1 - b2 alone, for the runs in which  *)
(* headers also fail, are reconsidered and reloaded.                       *)
SmallBlocks == {g, a1, a2, b1, b2}
SmallParent == [b \in SmallBlocks \ {g} |-> MCParent[b]]
SmallWork == [b \in SmallBlocks |-> MCWork[b]]
=============================================================================
