--------------------------- MODULE MCChainWatcher ---------------------------
(***************************************************************************)
(* ChainWatcher on a small instance for TLC.                               *)
(***************************************************************************)
EXTENDS ChainWatcher, TLC

CONSTANTS easy, hard

BothTargets == {easy, hard}
OneTarget   == {easy}

============================================================================
