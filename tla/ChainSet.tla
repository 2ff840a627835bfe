------------------------------ MODULE ChainSet -------------------------------
(***************************************************************************)
(* What the header-chain bookkeeping of Blocks::DB promises its callers,   *)
(* stated over sets rather than over the std::list and the loops of        *)
(* appendHeader (specification, section 3 "ChainSet state" and 4.5).       *)
(*                                                                         *)
(* The node knows a growing set of headers, each announced after its      *)
(* parent.  The tips are the leaves of the known tree, one per leaf.  The  *)
(* main chain ends in a known header of maximum chain work; a header of    *)
(* equal work does not displace it (first seen wins), and the best header  *)
(* is the tip of the main chain.  Nothing here fails: the promise is the  *)
(* one made for headers that arrive and are announced again.               *)
(***************************************************************************)
EXTENDS BlockTree, Naturals

VARIABLES
  known,    \* the headers the node has been given
  tips,     \* the set of chain tips
  mainTip,  \* the tip of the main header chain, NoBlock before the genesis
  best      \* the best header

chainVars == <<known, tips, mainTip, best>>

Init ==
  /\ known = {}
  /\ tips = {}
  /\ mainTip = NoBlock
  /\ best = NoBlock

(* A new header whose parent is known (or the genesis, first) joins the   *)
(* tree; it becomes the main tip exactly when it has strictly more work.   *)
AddHeader(b) ==
  /\ b \notin known
  /\ IF b = Genesis THEN known = {} ELSE Parent[b] \in known
  /\ known' = known \cup {b}
  /\ tips' = Leaves(known')
  /\ mainTip' = IF mainTip = NoBlock \/ ChainWork(mainTip) < ChainWork(b)
                THEN b ELSE mainTip
  /\ best' = mainTip'

Next == \E b \in Blocks : AddHeader(b)

Spec == Init /\ [][Next]_chainVars
=============================================================================
