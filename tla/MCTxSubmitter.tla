--------------------------- MODULE MCTxSubmitter ---------------------------
(***************************************************************************)
(* TxSubmitter on a small instance for TLC.                                *)
(***************************************************************************)
EXTENDS TxSubmitter, TLC

CONSTANTS h1, h2, h3

TwoHits   == {h1, h2}
ThreeHits == {h1, h2, h3}

\* The hits are interchangeable: nothing orders them.
SymmetricHits == Permutations(Hits)

=============================================================================
