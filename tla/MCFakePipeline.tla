--------------------------- MODULE MCFakePipeline ---------------------------
(***************************************************************************)
(* FakePipeline on a small instance for TLC.                               *)
(***************************************************************************)
EXTENDS FakePipeline, TLC

CONSTANTS c1, c2, d1, d2

TwoCallers == {c1, c2}
OneDriver  == {d1}
TwoDrivers == {d1, d2}
SomeTargets == {1, 3}

\* Digests 0, 1 and 2: under the target 1 some nonces fail, and which ones
\* depends on the challenge.
ThreeEpochs == 0..2
SmallDigest == [x \in ThreeEpochs \X (0..2) |-> (x[1] + 2 * x[2]) % 3]

============================================================================
