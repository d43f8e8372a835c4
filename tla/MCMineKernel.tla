---------------------------- MODULE MCMineKernel ----------------------------
(***************************************************************************)
(* MineKernel on a small instance for TLC: limbs of one bit, two digests   *)
(* that differ in the last limb only, and one that is greater by its first *)
(* limb and less by all the others.                                        *)
(***************************************************************************)
EXTENDS MineKernel, TLC

FewDigests == {6, 7, 8}

=============================================================================
