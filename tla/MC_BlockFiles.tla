----------------------------- MODULE MC_BlockFiles -----------------------------
(***************************************************************************)
(* BlockFiles for TLC: the network magic of the main chain for the bytes  *)
(* the reindex scan reads.                                                 *)
(***************************************************************************)
EXTENDS BlockFiles

MCMagic == <<227, 225, 243, 232>>
=============================================================================
