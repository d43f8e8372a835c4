------------------------------ MODULE MCMiner ------------------------------
(***************************************************************************)
(* Miner on a small instance for TLC.                                      *)
(***************************************************************************)
EXTENDS Miner, TLC

TwoNonces  == {1, 2}
TwoCosts   == {1, 4}

\* 8, 4, 2, 1, 0, ...
HalvedFrom8 == [e \in 0..63 |-> IF e < 4 THEN 8 \div 2^e ELSE 0]

\* The first nonce's work is always good, the second's for a target of 2 in the
\* first epoch and of 3 in the second.
SmallDigest == [x \in (0..1) \X TwoNonces |-> IF x[2] = 1 THEN 0 ELSE 1 + x[1]]

============================================================================
