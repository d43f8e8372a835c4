---------------------------- MODULE FakePipeline ----------------------------
(***************************************************************************)
(* The wiring of run() (src/main.rs) over the fakes of the three traits:   *)
(* a FakeChain, whose updates the swap task hands to a FakeGrinder, whose  *)
(* hits the consumer task hands to a FakeSubmitter, with the metrics bus   *)
(* that both tasks and the heartbeat emit on.  tests/e2e_anvil.rs drives   *)
(* the same pieces one after the other; here they run concurrently.        *)
(***************************************************************************)
EXTENDS Integers, Sequences

CONSTANTS
  EpochBlocks, Targets, Callers, None, MaxHead, MaxUpdates,  \* FakeChain
  Drivers, Capacity, Challenges, Digest, NonceBound, MaxFound,  \* FakeGrinder
  BusCapacity,                                               \* MetricsBus
  TestTarget   \* run()'s test_target_override: a target or None

ASSUME SizesAssumption ==
  /\ {EpochBlocks, Capacity, BusCapacity} \subseteq Nat \ {0}
  /\ {MaxHead, MaxUpdates, NonceBound, MaxFound} \subseteq Nat
ASSUME TargetsAssumption == Targets \subseteq Nat /\ TestTarget \in Targets \cup {None}
ASSUME DigestAssumption ==
  /\ Challenges \subseteq Nat /\ 0..(MaxHead \div EpochBlocks) \subseteq Challenges
  /\ Digest \in [Challenges \X (0..(NonceBound - 1)) -> Nat]
ASSUME NoneAssumption ==
  None \notin Nat \cup [nonce : 0..(NonceBound - 1), hash : Nat, epoch : Challenges]

VARIABLES
  head, difficulty, rolled, update, version, listening, overtaken,
  orders, nextNonce, at, local, hits, found, raced,
  queued, appender,
  swap,       \* where the swap task is
  seen,       \* the version its receiver has marked as seen
  taken,      \* the update it has cloned out of the channel
  inHand,     \* the hit the consumer is handing over, or None
  submitted   \* FakeSubmitter.submitted

Chain   == INSTANCE FakeChain
Grinder == INSTANCE FakeGrinder
Bus     == INSTANCE MetricsBus

chainVars == <<head, difficulty, rolled, update, version, listening, overtaken>>
grinderVars == <<orders, nextNonce, at, local, hits, found, raced>>
busVars == <<queued, appender>>
swapVars == <<swap, seen, taken>>
consumerVars == <<inHand, submitted>>
vars == <<chainVars, grinderVars, busVars, swapVars, consumerVars>>

Init ==
  /\ Chain!Init /\ Grinder!Init /\ Bus!Init
  /\ swap = "off" /\ seen = 0 /\ taken = update
  /\ inHand = None /\ submitted = <<>>

----------------------------------------------------------------------------
(* The swap task.                                                          *)

Subscribe ==
  /\ swap = "off"
  /\ Chain!Subscribe
  /\ swap' = "initial" /\ seen' = version
  /\ UNCHANGED <<grinderVars, busVars, consumerVars, taken>>

\* rx.borrow_and_update(), for the initial value and whenever changed() returns.
TakeUpdate ==
  /\ swap = "initial" \/ (swap = "wait" /\ seen # version)
  /\ taken' = update /\ seen' = version
  /\ swap' = "apply"
  /\ UNCHANGED <<chainVars, grinderVars, busVars, consumerVars>>

Effective(target) == IF TestTarget = None THEN target ELSE TestTarget

\* Faulty variant: the update is marked as seen only once it has been applied.
HotSwapThenMark ==
  /\ swap = "apply"
  /\ Grinder!HotSwap(taken.epoch, Effective(taken.target), taken.epoch)
  /\ Bus!Emit
  /\ swap' = "wait" /\ seen' = version
  /\ UNCHANGED <<chainVars, consumerVars, taken>>

\* grinder.hot_swap(), and the EpochSwap event.
HotSwap ==
  /\ swap = "apply"
  /\ Grinder!HotSwap(taken.epoch, Effective(taken.target), taken.epoch)
  /\ Bus!Emit
  /\ swap' = "wait"
  /\ UNCHANGED <<chainVars, consumerVars, seen, taken>>

SwapTask == Subscribe \/ TakeUpdate \/ HotSwap

----------------------------------------------------------------------------
(* The consumer task.                                                      *)

\* hit_rx.recv(), and the HitFound event.
Receive ==
  /\ inHand = None
  /\ Grinder!Receive
  /\ inHand' = Head(hits)
  /\ Bus!Emit
  /\ UNCHANGED <<chainVars, swapVars, submitted>>

\* FakeSubmitter::submit() keeps the hit and answers Included, or what the test
\* forced; either answer is one event.
Submit ==
  /\ inHand # None
  /\ submitted' = Append(submitted, inHand)
  /\ inHand' = None
  /\ Bus!Emit
  /\ UNCHANGED <<chainVars, grinderVars, swapVars>>

Consumer == Receive \/ Submit

----------------------------------------------------------------------------

\* The heartbeat's Hashrate event.
Heartbeat ==
  /\ Bus!Emit
  /\ UNCHANGED <<chainVars, grinderVars, swapVars, consumerVars>>

Appender == Bus!Append /\ UNCHANGED <<chainVars, grinderVars, swapVars, consumerVars>>
ChainCall(c) == Chain!Step(c) /\ UNCHANGED <<grinderVars, busVars, swapVars, consumerVars>>
Drive(d) == Grinder!DriveOneHit(d) /\ UNCHANGED <<chainVars, busVars, swapVars, consumerVars>>

Next ==
  \/ SwapTask \/ Consumer \/ Heartbeat \/ Appender
  \/ \E c \in Callers : ChainCall(c)
  \/ \E d \in Drivers : Drive(d)

Spec == Init /\ [][Next]_vars

\* Tasks are scheduled and calls return.  Nothing is asked of the appender: its
\* disk may hang.
FairSpec ==
  /\ Spec
  /\ WF_vars(SwapTask)
  /\ WF_vars(Consumer)

----------------------------------------------------------------------------

TypeOK ==
  /\ Chain!TypeOK /\ Grinder!TypeOK /\ Bus!TypeOK
  /\ swap \in {"off", "initial", "apply", "wait"}
  /\ seen \in Nat /\ taken \in Chain!Updates
  /\ inHand \in Grinder!Hits \cup {None}
  /\ submitted \in Seq(Grinder!Hits)

UpdateIsCurrent   == Chain!UpdateIsCurrent
HitsAreConsistent == Grinder!HitsAreConsistent
NothingSkipped    == Grinder!NothingSkipped

\* The grinder ends up working for the last update, though updates may come while
\* one is being applied and the bus may be full.
LastUpdateIsApplied ==
  [](swap # "off" =>
       <>(/\ orders.epoch = update.epoch
          /\ orders.target = Effective(update.target)))

\* Hits are submitted once, in order and without exception, whatever becomes of
\* the metrics.
SomeHits == [nonce : 0..(NonceBound - 1), hash : {Digest[x] : x \in DOMAIN Digest},
             epoch : Challenges]
Stream == INSTANCE HitStream WITH sent <- found, Hits <- SomeHits
StreamSpec == Stream!FairSpec

=============================================================================
