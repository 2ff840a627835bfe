------------------------------ MODULE MC_Reindex ------------------------------
(***************************************************************************)
(* Reindex for TLC: two blk files from before the reindex, the first one   *)
(* full (frames of 2 and 1 in a file of 5) and the second holding a single *)
(* block, so the last file is mapped by the scan before foundBlockFile     *)
(* makes it the last one, and a new block both fits it and, later, forces  *)
(* a new file.                                                             *)
(* The scan's bytes use the network magic of the main chain, payloads  *)
(* of two and three bytes against a block-header size scaled to two,    *)
(* made of zero, a byte equal to the first magic byte and one other.     *)
(***************************************************************************)
EXTENDS Reindex

MCInitBlk == <<<<2, 1>>, <<1>>>>
MCMagic == <<227, 225, 243, 232>>
=============================================================================
