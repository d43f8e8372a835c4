----------------------------- MODULE SerialCalls -----------------------------
(***************************************************************************)
(* What seq_gate promises the callers of submit(), and what channel and    *)
(* consumer promise the hits: calls are served one at a time, in the order *)
(* in which they came, and each is over once.  A stop of the process ends  *)
(* those that wait with the one that is served.                            *)
(***************************************************************************)
EXTENDS Integers, Sequences

CONSTANT Calls

VARIABLES
  queue,    \* the calls that came and are not over, oldest first
  serving,  \* the call being served, if any: a set
  over      \* the calls that are over

Init == queue = <<>> /\ serving = {} /\ over = {}

Arrive(c) ==
  /\ c \notin over /\ \A i \in 1..Len(queue) : queue[i] # c
  /\ queue' = Append(queue, c)
  /\ UNCHANGED <<serving, over>>

Serve ==
  /\ queue # <<>> /\ serving = {}
  /\ serving' = {Head(queue)}
  /\ UNCHANGED <<queue, over>>

\* The oldest call ends; it may be turned away without having been served.
End ==
  /\ queue # <<>> /\ serving \subseteq {Head(queue)}
  /\ queue' = Tail(queue)
  /\ over' = over \cup {Head(queue)}
  /\ serving' = {}

Stop ==
  /\ queue' = <<>> /\ serving' = {}
  /\ over' = over \cup {queue[i] : i \in 1..Len(queue)}

Next == (\E c \in Calls : Arrive(c)) \/ Serve \/ End \/ Stop

Spec == Init /\ [][Next]_<<queue, serving, over>>

=============================================================================
