----------------------------- MODULE HitStream -----------------------------
(***************************************************************************)
(* What the grinder's hit channel and its consumer promise together: every *)
(* hit that was sent is submitted, once, in the order of sending, and      *)
(* nothing else is.                                                        *)
(***************************************************************************)
EXTENDS Integers, Sequences

CONSTANT Hits

VARIABLES
  sent,      \* every hit sent so far
  submitted  \* every hit submitted so far

Init == sent = <<>> /\ submitted = <<>>

Produce ==
  /\ \E h \in Hits : sent' = Append(sent, h)
  /\ UNCHANGED submitted

Consume ==
  /\ Len(submitted) < Len(sent)
  /\ submitted' = Append(submitted, sent[Len(submitted) + 1])
  /\ UNCHANGED sent

Next == Produce \/ Consume

Spec == Init /\ [][Next]_<<sent, submitted>>

FairSpec == Spec /\ WF_<<sent, submitted>>(Consume)

=============================================================================
