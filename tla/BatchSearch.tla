----------------------------- MODULE BatchSearch -----------------------------
(***************************************************************************)
(* What GpuRuntime::launch_mine() promises its caller, the launch loop: it *)
(* returns a nonce that the contract accepts under the target (Hash.sol,   *)
(* mine(): digest below difficulty), no nonce only if there is none, or an *)
(* error.  What it searches are the nonces that a launch's grid covers.    *)
(***************************************************************************)
EXTENDS Integers

CONSTANTS
  None,        \* Rust's Option::None
  NonceSpace,  \* how many nonces a u64 holds
  Covered,     \* how many nonces a launch's grid covers
  Digests      \* the digests that occur

VARIABLES
  digest,  \* keccak256 of challenge and nonce, a number for each nonce
  target,  \* the difficulty
  phase,   \* "idle", "searching", or "failed"
  start,   \* nonce_start of the last call
  answer   \* what the last call returned

Nonces == 0..(NonceSpace - 1)
Batch(s) == {(s + i) % NonceSpace : i \in 0..(Covered - 1)}

\* The contract's side of it.
Accepted(n) == digest[n] < target
Solutions(s) == {n \in Batch(s) : Accepted(n)}

Init ==
  /\ digest \in [Nonces -> Digests]
  /\ target \in Digests
  /\ phase = "idle"
  /\ start = 0
  /\ answer = None

Ask ==
  /\ phase = "idle"
  /\ phase' = "searching"
  /\ start' \in Nonces
  /\ UNCHANGED <<digest, target, answer>>

Reply ==
  /\ phase = "searching"
  /\ phase' = "idle"
  /\ IF Solutions(start) = {} THEN answer' = None
                              ELSE answer' \in Solutions(start)
  /\ UNCHANGED <<digest, target, start>>

Fail ==
  /\ phase = "searching"
  /\ phase' = "failed"
  /\ UNCHANGED <<digest, target, start, answer>>

Next == Ask \/ Reply \/ Fail
Spec == Init /\ [][Next]_<<digest, target, phase, start, answer>>

=============================================================================
