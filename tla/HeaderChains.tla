---------------------------- MODULE HeaderChains -----------------------------
(***************************************************************************)
(* The header-chain bookkeeping of Blocks::DB (src/libs/server/BlocksDB.cpp)*)
(* : the index of known headers (Blocks::Index, indexMap), their failed    *)
(* status, the list of chain tips (headerChainTips), the main header chain *)
(* (headersChain, represented by its tip) and the global pindexBestHeader.  *)
(*                                                                         *)
(* Blocks::DB::appendHeader is modelled as one atomic step: the spec       *)
(* (section 5) has consensus and the reindex thread agree to call it one   *)
(* at a time, so nothing interleaves inside it.  Its callers are the       *)
(* environment of this module: consensus announcing a header (its parent   *)
(* known and not failed) or re-submitting a known one, the validation      *)
(* engine marking a header invalid, reconsiderBlock, and a restart that    *)
(* runs CacheAllBlockInfos.                                                *)
(***************************************************************************)
EXTENDS BlockTree, Naturals, Sequences, SequencesExt, FiniteSets

CONSTANTS
  MaxRestarts,      \* bound on the number of restarts of the node
  MaxInvalidations  \* bound on the number of headers found invalid

VARIABLES
  indexMap,          \* headers in Blocks::Index (inserted, never removed)
  failed,            \* headers whose nStatus has BLOCK_FAILED_MASK set
  headerChainTips,   \* d->headerChainTips, a std::list, in list order
  headersChainTip,   \* d->headersChain.Tip(), NoBlock while the chain is empty
  pindexBestHeader,  \* the global best-header pointer appendHeader writes
  workKnown,         \* FALSE while nChainWork of loaded headers is still 0
  phase,             \* "running", "loading" (CacheAllBlockInfos) or "aborted"
  toLoad,            \* headers CacheAllBlockInfos has not appended yet
  restarts,          \* restarts so far
  invalidations,     \* headers found invalid so far
  lastResult         \* the value the latest appendHeader returned

vars == <<indexMap, failed, headerChainTips, headersChainTip, pindexBestHeader,
          workKnown, phase, toLoad, restarts, invalidations, lastResult>>

-----------------------------------------------------------------------------
(* nChainWork as appendHeader reads it.  CacheAllBlockInfos creates the    *)
(* CBlockIndex objects without setting nChainWork, so it is 0 until the    *)
(* caller computes it after loading.                                       *)
CW(b) == IF workKnown THEN ChainWork(b) ELSE 0

(* CChain::Contains: the chain ending in tip has b at b's height.          *)
ChainContains(tip, b) == tip # NoBlock /\ GetAncestor(tip, Height(b)) = b

(* The loop `while (validPrev->nStatus & BLOCK_FAILED_MASK) validPrev =    *)
(* validPrev->pprev;`.                                                     *)
RECURSIVE NearestValid(_, _)
NearestValid(b, fl) == IF b \in fl THEN NearestValid(Parent[b], fl) ELSE b

(* The result of an appendHeader call: the new tip list, main-chain tip    *)
(* and best header, the returned value, and whether an assert fired.       *)
Result(tips, tip, best, ret, abort) ==
  [tips |-> tips, tip |-> tip, best |-> best, ret |-> ret, abort |-> abort]

(* Mutant: a tie in chain work switches the main chain.                    *)
FinishAppendOnTie(tips, tip, best, validPrev, modifying, block) ==
  IF tip = NoBlock THEN Result(tips, tip, best, FALSE, TRUE)
  ELSE IF CW(tip) <= CW(validPrev)
       THEN Result(tips, validPrev, block, TRUE, FALSE)
       ELSE Result(tips, tip, best, modifying, FALSE)

(* Mutant: the returned flag is inverted when the chain does not switch.   *)
FinishAppendNegated(tips, tip, best, validPrev, modifying, block) ==
  IF tip = NoBlock THEN Result(tips, tip, best, FALSE, TRUE)
  ELSE IF CW(tip) < CW(validPrev)
       THEN Result(tips, validPrev, block, TRUE, FALSE)
       ELSE Result(tips, tip, best, ~modifying, FALSE)

(* The end of appendHeader: assert(d->headersChain.Tip()), then switch the *)
(* main chain to validPrev if it has more work (pindexBestHeader = block). *)
FinishAppend(tips, tip, best, validPrev, modifying, block) ==
  IF tip = NoBlock THEN Result(tips, tip, best, FALSE, TRUE)
  ELSE IF CW(tip) < CW(validPrev)
       THEN Result(tips, validPrev, block, TRUE, FALSE)
       ELSE Result(tips, tip, best, modifying, FALSE)

(* One iteration of the second loop over the tips (no tip was extended):  *)
(* a tip containing block is erased, setting the main chain to validPrev   *)
(* if the (current) main chain contained it; any other tip is kept, and if *)
(* it contains validPrev, validPrev moves up to it when it has more work.  *)
ScanTip(block, s, t) ==
  IF GetAncestor(t, Height(block)) = block
  THEN LET mainChain == ChainContains(s.tip, t)
       IN [s EXCEPT !.modified = TRUE,
                    !.tip = IF mainChain THEN s.validPrev ELSE @,
                    !.modifying = @ \/ mainChain]
  ELSE LET contains == GetAncestor(t, Height(s.validPrev)) = s.validPrev
       IN [s EXCEPT !.kept = Append(@, t),
                    !.alreadyContains = @ \/ contains,
                    !.validPrev = IF contains /\ CW(@) < CW(t) THEN t ELSE @]

(* Mutant: only the tips themselves are compared with block.              *)
OnSomeTipOnly(tips, block) == \E k \in DOMAIN tips : tips[k] = block

(* A tip has block at block's height, the test `GetAncestor(block->nHeight)*)
(* == block` on each tip that makes a valid block return false.            *)
OnSomeTip(tips, block) ==
  \E k \in DOMAIN tips : GetAncestor(tips[k], Height(block)) = block

(* Mutant: the tip validPrev is never added back after chains are erased.  *)
ReaddValidPrevNever(s) == s.kept

(* `if (modified && !alreadyContains) headerChainTips.push_back(validPrev)`*)
ReaddValidPrev(s) ==
  IF s.modified /\ ~s.alreadyContains THEN Append(s.kept, s.validPrev) ELSE s.kept

(* Blocks::DB::appendHeader(block), with fl the failed headers it sees.    *)
AppendHeader(block, fl) ==
  LET valid     == block \notin fl
      validPrev == NearestValid(IF valid THEN block ELSE Parent[block], fl)
      tips      == headerChainTips
      extended  == SelectInSeq(tips, LAMBDA t : GetAncestor(block, Height(t)) = t)
      unchanged == Result(tips, headersChainTip, pindexBestHeader, FALSE, FALSE)
  IN
  IF valid /\ ChainContains(headersChainTip, block) THEN unchanged
  ELSE IF extended # 0 THEN
    \* block extends (or is) a tip: replace that tip by validPrev
    LET newTips == Append(RemoveAt(tips, extended), validPrev)
    IN IF tips[extended] = headersChainTip
       THEN Result(newTips, validPrev, validPrev, TRUE, FALSE)
       ELSE FinishAppend(newTips, headersChainTip, pindexBestHeader,
                         validPrev, FALSE, block)
  \* a valid block some tip already contains: `if (valid) return false;`
  \* (the loop changes nothing before that return when block is valid)
  ELSE IF valid /\ OnSomeTip(tips, block) THEN unchanged
  ELSE
    LET s == FoldLeft(LAMBDA acc, t : ScanTip(block, acc, t),
                      [kept |-> <<>>, validPrev |-> validPrev, modified |-> FALSE,
                       alreadyContains |-> FALSE, tip |-> headersChainTip,
                       modifying |-> FALSE],
                      tips)
        readded == ReaddValidPrev(s)
    IN IF ~valid
       THEN FinishAppend(readded, s.tip, pindexBestHeader, s.validPrev,
                         s.modifying, block)
       ELSE IF s.tip = NoBlock  \* headersChain.Height() == -1: the genesis
       THEN Result(Append(readded, block), block, block, TRUE, FALSE)
       ELSE FinishAppend(Append(readded, block), s.tip, pindexBestHeader,
                         s.validPrev, s.modifying, block)

(* Take over the result r of an appendHeader call.                         *)
Apply(r) ==
  /\ headerChainTips' = r.tips
  /\ headersChainTip' = r.tip
  /\ pindexBestHeader' = r.best
  /\ lastResult' = r.ret

-----------------------------------------------------------------------------
Init ==
  /\ indexMap = {}
  /\ failed = {}
  /\ headerChainTips = <<>>
  /\ headersChainTip = NoBlock
  /\ pindexBestHeader = NoBlock
  /\ workKnown = TRUE
  /\ phase = "running"
  /\ toLoad = {}
  /\ restarts = 0
  /\ invalidations = 0
  /\ lastResult = FALSE

(* Consensus accepts a new header whose parent is known and not failed,    *)
(* inserts it in the index (InsertBlockIndex) and calls appendHeader.      *)
AcceptHeader(b) ==
  /\ phase = "running"
  /\ b \notin indexMap
  /\ IF b = Genesis THEN indexMap = {}
     ELSE Parent[b] \in indexMap /\ Parent[b] \notin failed
  /\ indexMap' = indexMap \cup {b}
  /\ Apply(AppendHeader(b, failed))
  /\ UNCHANGED <<failed, workKnown, phase, toLoad, restarts, invalidations>>

(* Consensus calls appendHeader again for a header already in the index.   *)
Reappend(b) ==
  /\ phase = "running"
  /\ b \in indexMap
  /\ Apply(AppendHeader(b, failed))
  /\ UNCHANGED <<indexMap, failed, workKnown, phase, toLoad, restarts, invalidations>>

(* Mutant: descendants are marked failed whether or not they are known.   *)
InvalidateUnknownToo(b) ==
  LET fl == failed \cup Descendants(b)
  IN /\ phase = "running"
     /\ b \in indexMap \ failed
     /\ b # Genesis
     /\ invalidations < MaxInvalidations
     /\ invalidations' = invalidations + 1
     /\ failed' = fl
     /\ Apply(AppendHeader(b, fl))
     /\ UNCHANGED <<indexMap, workKnown, phase, toLoad, restarts>>

(* The validation engine finds b invalid: b gets BLOCK_FAILED_VALID, its   *)
(* known descendants BLOCK_FAILED_CHILD (I3), and appendHeader(b) removes  *)
(* the chains that contain it.                                             *)
InvalidateBlock(b) ==
  LET fl == failed \cup (Descendants(b) \cap indexMap)
  IN /\ phase = "running"
     /\ b \in indexMap \ failed
     /\ b # Genesis
     /\ invalidations < MaxInvalidations
     /\ invalidations' = invalidations + 1
     /\ failed' = fl
     /\ Apply(AppendHeader(b, fl))
     /\ UNCHANGED <<indexMap, workKnown, phase, toLoad, restarts>>

(* Mutant: reconsiderBlock without the loop over the ancestors.           *)
ReconsiderDescendantsOnly(b) ==
  /\ phase = "running"
  /\ b \in indexMap
  /\ failed' = failed \ Descendants(b)
  /\ UNCHANGED <<indexMap, headerChainTips, headersChainTip, pindexBestHeader,
                 workKnown, phase, toLoad, restarts, invalidations, lastResult>>

(* Blocks::Index::reconsiderBlock(b): clear the failed flags of b's        *)
(* descendants (b included) and of all its ancestors.  The tips are left   *)
(* alone.                                                                  *)
ReconsiderBlock(b) ==
  /\ phase = "running"
  /\ b \in indexMap
  /\ failed' = failed \ (Descendants(b) \cup {a \in Blocks : IsAncestor(a, b)})
  /\ UNCHANGED <<indexMap, headerChainTips, headersChainTip, pindexBestHeader,
                 workKnown, phase, toLoad, restarts, invalidations, lastResult>>

(* The node restarts: the in-memory chain state is gone, the index and the *)
(* status flags are on disk, and CacheAllBlockInfos starts.                *)
Restart ==
  /\ phase = "running"
  /\ indexMap # {}
  /\ restarts < MaxRestarts
  /\ restarts' = restarts + 1
  /\ headerChainTips' = <<>>
  /\ headersChainTip' = NoBlock
  /\ pindexBestHeader' = NoBlock
  /\ workKnown' = FALSE
  /\ phase' = "loading"
  /\ toLoad' = indexMap
  /\ UNCHANGED <<indexMap, failed, invalidations, lastResult>>

(* CacheAllBlockInfos calls appendHeader for every index entry, in the     *)
(* iteration order of the hash map, so in any order.                       *)
LoadHeader(b) ==
  LET r == AppendHeader(b, failed)
  IN /\ phase = "loading"
     /\ b \in toLoad
     /\ toLoad' = toLoad \ {b}
     /\ Apply(r)
     /\ phase' = IF r.abort THEN "aborted" ELSE "loading"
     /\ UNCHANGED <<indexMap, failed, workKnown, restarts, invalidations>>

(* After CacheAllBlockInfos the caller computes nChainWork by height and   *)
(* picks pindexBestHeader as a most-work header that is not failed.        *)
FinishLoad ==
  /\ phase = "loading"
  /\ toLoad = {}
  /\ workKnown' = TRUE
  /\ phase' = "running"
  /\ \E b \in indexMap \ failed :
       /\ \A c \in indexMap \ failed : ChainWork(c) <= ChainWork(b)
       /\ pindexBestHeader' = b
  /\ UNCHANGED <<indexMap, failed, headerChainTips, headersChainTip, toLoad,
                 restarts, invalidations, lastResult>>

(* Headers arrive and are re-submitted; nothing fails, no restart.         *)
NextConsensus ==
  \/ \E b \in Blocks : AcceptHeader(b)
  \/ \E b \in Blocks : Reappend(b)

(* The node restarting and reloading its index.                           *)
NextLoad ==
  \/ Restart
  \/ \E b \in Blocks : LoadHeader(b)
  \/ FinishLoad

(* Headers found invalid and reconsidered.                                 *)
NextFailure ==
  \/ \E b \in Blocks : InvalidateBlock(b)
  \/ \E b \in Blocks : ReconsiderBlock(b)

Next == NextConsensus \/ NextLoad \/ NextFailure

SpecConsensus == Init /\ [][NextConsensus]_vars
SpecRestart == Init /\ [][NextConsensus \/ NextLoad]_vars
SpecInvalidate == Init /\ [][NextConsensus \/ \E b \in Blocks : InvalidateBlock(b)]_vars
SpecFailure == Init /\ [][NextConsensus \/ NextFailure]_vars
Spec == Init /\ [][Next]_vars

-----------------------------------------------------------------------------
BlockOrNull == Blocks \cup {NoBlock}

TypeOK ==
  /\ indexMap \subseteq Blocks
  /\ failed \subseteq indexMap
  /\ headerChainTips \in Seq(Blocks)
  /\ headersChainTip \in BlockOrNull
  /\ pindexBestHeader \in BlockOrNull
  /\ workKnown \in BOOLEAN
  /\ phase \in {"running", "loading", "aborted"}
  /\ toLoad \subseteq indexMap
  /\ restarts \in 0..MaxRestarts
  /\ invalidations \in 0..MaxInvalidations
  /\ lastResult \in BOOLEAN

(* The headers appendHeader has been given since the last start.          *)
Appended == indexMap \ toLoad

-----------------------------------------------------------------------------
(* Neither the main header chain (headersChain) nor pindexBestHeader ends  *)
(* in a failed header.                                                     *)
HeadsNotFailed ==
  /\ headersChainTip \notin failed
  /\ pindexBestHeader \notin failed

(* Invalidating a header never drops a header that is not failed from the  *)
(* tips: every such header is on the chain of some tip, so appendHeader's  *)
(* erasing of tips never loses a valid branch.                             *)
NoValidHeaderLost ==
  phase = "running" =>
    \A b \in indexMap \ failed :
      \E k \in DOMAIN headerChainTips : IsAncestor(b, headerChainTips[k])

(* Every step except reconsiderBlock keeps each header that is not failed *)
(* under a tip: a header arriving, a re-submission, and above all an       *)
(* invalidation, whose appendHeader erases the tips below the failed       *)
(* header and must put validPrev back (lines 398 and 438), never leave a  *)
(* valid branch without a tip.                                             *)
NoValidHeaderLostKept ==
  [][NoValidHeaderLost /\ ~(\E b \in Blocks : ReconsiderBlock(b)) => NoValidHeaderLost']_vars

(* I3 and I4: a failed header's known descendants are failed too and the   *)
(* genesis never is, whatever the order of invalidations and of            *)
(* reconsiderBlock calls.                                                  *)
FailureInherited ==
  /\ Genesis \notin failed
  /\ \A b \in failed : Descendants(b) \cap indexMap \subseteq failed

(* No known header that is not failed has more chain work than the main   *)
(* tip.                                                                    *)
MainTipHasMostWork ==
  \A b \in indexMap \ failed : ChainWork(b) <= ChainWork(headersChainTip)

(* The ChainSet state of the specification (section 3) survives headers   *)
(* failing and being reconsidered: the main chain and pindexBestHeader end *)
(* in headers that are not failed, every header that is not failed lies   *)
(* under a tip, and the main tip has the most work.  appendHeader must    *)
(* restore this after InvalidateBlock, and reconsiderBlock (which leaves  *)
(* the tip list alone) after clearing the flags.                           *)
ChainStateKept ==
  phase = "running" /\ indexMap # {} =>
    /\ HeadsNotFailed
    /\ NoValidHeaderLost
    /\ MainTipHasMostWork

(* CacheAllBlockInfos rebuilds the chain state after a restart: it never  *)
(* trips the assert in appendHeader, and when the load finishes the tips  *)
(* are the leaves of the headers that are not failed and the main tip has *)
(* the most work, although appendHeader runs in hash order with nChainWork *)
(* still 0.                                                                *)
ReloadRebuildsChains ==
  /\ [](phase # "aborted")
  /\ [][phase = "loading" /\ phase' = "running" =>
          /\ Range(headerChainTips') = Leaves(indexMap \ failed)
          /\ MainTipHasMostWork']_vars

(* The tip list holds each leaf of the headers appendHeader has been given *)
(* (less the failed ones) exactly once, and nothing else: no tip is an     *)
(* ancestor of another, whatever order the headers came in.                *)
TipsAreLeaves ==
  phase # "aborted" =>
    /\ IsInjective(headerChainTips)
    /\ Range(headerChainTips) = Leaves(Appended \ failed)

(* appendHeader returns true exactly when the main header chain moved: the *)
(* callers rely on the value to start a reorganisation.                    *)
ReturnReportsChange ==
  [][\A b \in Blocks :
       AcceptHeader(b) \/ Reappend(b) \/ InvalidateBlock(b) =>
         (lastResult' <=> headersChainTip' # headersChainTip)]_vars

(* The abstract header-chain promise (ChainSet), with the known headers   *)
(* read from the index, its tip set from the std::list and its main tip    *)
(* and best header from headersChain and pindexBestHeader.                 *)
Abstract == INSTANCE ChainSet
              WITH known <- indexMap, tips <- Range(headerChainTips),
                   mainTip <- headersChainTip, best <- pindexBestHeader

(* appendHeader implements the ChainSet promise while headers arrive and   *)
(* are announced again: every new header moves the tips to the leaves and  *)
(* the main chain to strictly more work only (equal work keeps the first   *)
(* seen, P5), and re-submitting a known header (Reappend) changes neither. *)
ChainSetRefined == Abstract!Spec
=============================================================================
