---------------------------- MODULE MCMessageFlow ----------------------------
(***************************************************************************)
(* MessageFlow for TLC.  Conversations are alike, so the safety runs count *)
(* states up to a permutation of them; the liveness run does not.          *)
(***************************************************************************)
EXTENDS MessageFlow, TLC

SymmetricCid == Permutations(Cid)
=============================================================================
