------------------------------- MODULE EvGate -------------------------------
(***************************************************************************)
(* EvGate::allow() (src/tx/ev_gate.rs).  The code computes with f64; here  *)
(* the numbers are exact, and min_ratio is a fraction, of either sign (the *)
(* configuration is not checked) but not NaN or infinite.                  *)
(*                                                                         *)
(* submit() passes the reward in base units of HASH and the cost in wei of *)
(* ETH (src/tx/submitter.rs), and the gate compares the two numbers as     *)
(* they are: what it lets through is not thereby worth its gas.            *)
(***************************************************************************)
EXTENDS Integers

CONSTANTS
  EvMintsPerBlock,  \* EvParams.max_mints_per_block
  RatioNum,         \* EvParams.min_ratio is RatioNum / RatioDen
  RatioDen

ASSUME EvAssumption == EvMintsPerBlock \in Nat \ {0} /\ RatioNum \in Int /\ RatioDen \in Nat \ {0}

\* EvMintsPerBlock.saturating_sub(mints).
Room(mints) == IF mints < EvMintsPerBlock THEN EvMintsPerBlock - mints ELSE 0

\* reward * p_win / cost > min_ratio, with p_win = Room / EvMintsPerBlock.  Equality is
\* refused, although the comment on min_ratio says "at least".
Allow(mints, reward, cost) ==
  /\ mints < EvMintsPerBlock
  /\ \/ cost = 0
     \/ reward * Room(mints) * RatioDen > RatioNum * cost * EvMintsPerBlock

=============================================================================
