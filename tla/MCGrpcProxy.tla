---------------------------- MODULE MCGrpcProxy -----------------------------
(* GrpcProxy for TLC: the constants that a .cfg cannot write down.         *)
EXTENDS GrpcProxy, TLC

Symmetry ==
  Permutations(Signers) \cup Permutations(Messages) \cup Permutations(CommitmentIDs)
=============================================================================
