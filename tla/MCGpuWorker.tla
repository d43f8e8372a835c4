---------------------------- MODULE MCGpuWorker ----------------------------
(***************************************************************************)
(* GpuWorker on a small instance for TLC.                                  *)
(***************************************************************************)
EXTENDS GpuWorker, TLC

CONSTANTS easy, hard

BothTargets == {easy, hard}
OneTarget   == {easy}

============================================================================
