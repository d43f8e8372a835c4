------------------------ MODULE ChainWatcher_proofs ------------------------
(***************************************************************************)
(* Proofs about ChainWatcher, for any epoch length, targets and bounds:    *)
(* types, the order in which cache and channel are written, and that no    *)
(* update is lost between the poll loop and the grinder.                   *)
(***************************************************************************)
EXTENDS ChainWatcher, TLAPS

USE NoneAssumption, EpochBlocksAssumption, TargetsAssumption, BoundsAssumption

----------------------------------------------------------------------------
(* Epochs.                                                                 *)

LEMMA EpochIsNat == \A b \in Nat : EpochOf(b) \in Nat
BY DEF EpochOf

LEMMA EpochGrows == \A a, b \in Nat : a =< b => EpochOf(a) =< EpochOf(b)
<1> SUFFICES ASSUME NEW a \in Nat, NEW b \in Nat, a =< b
             PROVE  a \div EpochBlocks =< b \div EpochBlocks
  BY DEF EpochOf
<1> DEFINE p == a \div EpochBlocks
           q == b \div EpochBlocks
<1>1. p \in Int /\ q \in Int /\ EpochBlocks \in Nat /\ EpochBlocks > 0
  OBVIOUS
<1>2. EpochBlocks * p =< a /\ b < EpochBlocks * q + EpochBlocks
  OBVIOUS
<1>3. ASSUME q + 1 =< p PROVE FALSE
  <2>1. EpochBlocks * (q + 1) =< EpochBlocks * p
    BY <1>1, <1>3
  <2> QED BY <1>1, <1>2, <2>1
<1> QED BY <1>1, <1>3

----------------------------------------------------------------------------
(* The inductive invariant.                                                *)

\* Before start() has returned there is no channel and nothing runs; from then on
\* cache and channel are filled, and each task has what it works on.
Started == wpc \in {"tick", "state", "publish"}

StartInv ==
  /\ app = "off" <=> ~Started
  /\ IF Started THEN lastState \in States /\ update \in Updates
                ELSE /\ lastState = None /\ update = None /\ job = None
                     /\ version = 0 /\ lastEpoch = None
  /\ app \in {"apply", "wait"} => taken \in Updates
  /\ app = "wait" => job \in Jobs
  /\ job # None => app \in {"apply", "wait"}

\* The watch channel: the value is the one of the last send that had a receiver,
\* and the receiver has seen it or has it still to come.
ChannelInv ==
  /\ seen =< version
  /\ version > 0 => Subscribed /\ lastEpoch = update.epoch
  /\ wpc \in {"tick", "state"} /\ lastEpoch # None => lastEpoch = lastState.epoch
  /\ app \in {"apply", "wait"} /\ seen = version => taken = update
  /\ app = "wait" => job.epoch = taken.epoch

\* Until the chain rolls back, what was read later is not older: chain, cache,
\* channel and grinder are in this order.
OrderInv ==
  reorgs = 0 =>
    /\ bn =< block
    /\ Started => /\ lastState.epoch =< EpochOf(block)
                  /\ update.epoch =< lastState.epoch
                  /\ EpochOf(update.block) =< update.epoch
    /\ wpc = "publish" => EpochOf(bn) =< lastState.epoch
    /\ app \in {"apply", "wait"} => taken.epoch =< lastState.epoch
    /\ job # None => job.epoch =< lastState.epoch

WInv == TypeOK /\ StartInv /\ ChannelInv /\ OrderInv

\* The node's answer, typed.
LEMMA StateIsTyped ==
  ASSUME TypeOK
  PROVE  MiningState \in States /\ MiningState.epoch = EpochOf(block)
BY EpochIsNat DEF TypeOK, MiningState, States

LEMMA UpdateIsTyped ==
  ASSUME NEW st \in States, NEW b \in Nat
  PROVE  /\ ChallengeUpdate(st, b) \in Updates
         /\ ChallengeUpdate(st, b).epoch = st.epoch
         /\ ChallengeUpdate(st, b).block = b
BY DEF ChallengeUpdate, States, Updates

----------------------------------------------------------------------------
(* Each action keeps it.                                                   *)

LEMMA StartKeepsWInv == ASSUME WInv, Start PROVE WInv'
<1> USE DEF WInv, TypeOK, StartInv, ChannelInv, OrderInv, Started, Subscribed,
            appVars, chainVars
<1>1. CASE StartHead
  BY <1>1 DEF StartHead
<1>2. CASE StartState
  <2>1. /\ wpc = "fetch" /\ wpc' = "tick" /\ app = "off" /\ app' = "wiring"
        /\ lastState' = MiningState /\ update' = ChallengeUpdate(MiningState, bn)
        /\ version = 0 /\ job = None /\ lastEpoch = None
        /\ UNCHANGED <<bn, head, lastEpoch, version, seen, taken, job, chainVars>>
    BY <1>2 DEF StartState
  <2>2. /\ lastState' \in States /\ lastState'.epoch = EpochOf(block)
        /\ update' \in Updates /\ update'.epoch = lastState'.epoch /\ update'.block = bn
    BY <2>1, StateIsTyped, UpdateIsTyped
  <2>3. reorgs = 0 => EpochOf(bn) =< lastState'.epoch
    <3>1. bn \in Nat /\ block \in Nat
      OBVIOUS
    <3> QED BY <2>2, <3>1, EpochGrows
  <2> QED BY <2>1, <2>2, <2>3 DEF Updates, States
<1> QED BY <1>1, <1>2 DEF Start

LEMMA PollKeepsWInv == ASSUME WInv, Poll PROVE WInv'
<1> USE DEF WInv, TypeOK, StartInv, ChannelInv, OrderInv, Started, Subscribed,
            appVars, chainVars
<1>1. CASE PollHead
  <2>1. block \in Nat
    OBVIOUS
  <2> QED BY <1>1, <2>1 DEF PollHead
<1>2. CASE PollState
  <2>1. /\ lastState' = MiningState /\ wpc = "state"
        /\ wpc' = IF lastEpoch = MiningState.epoch THEN "tick" ELSE "publish"
        /\ UNCHANGED <<bn, head, lastEpoch, update, version, appVars, chainVars>>
    BY <1>2 DEF PollState
  <2>2. lastState' \in States /\ lastState'.epoch = EpochOf(block)
    BY <2>1, StateIsTyped
  <2>3. reorgs = 0 => lastState.epoch =< lastState'.epoch /\ EpochOf(bn) =< lastState'.epoch
    <3>1. bn \in Nat /\ block \in Nat /\ (reorgs = 0 => bn =< block)
      OBVIOUS
    <3>2. reorgs = 0 => EpochOf(bn) =< EpochOf(block)
      BY <3>1, EpochGrows
    <3>3. reorgs = 0 => lastState.epoch =< EpochOf(block)
      BY <2>1
    <3> QED BY <2>2, <3>2, <3>3
  <2> QED BY <2>1, <2>2, <2>3 DEF Updates, States, Jobs
<1>3. CASE PollStateFails
  BY <1>3 DEF PollStateFails
<1>4. CASE Publish
  <2>1. CASE Subscribed
    <3>1. /\ update' = ChallengeUpdate(lastState, bn) /\ version' = version + 1
          /\ lastEpoch' = lastState.epoch /\ wpc = "publish" /\ wpc' = "tick"
          /\ UNCHANGED <<bn, head, lastState, appVars, chainVars>>
      BY <1>4, <2>1 DEF Publish
    <3>2. /\ update' \in Updates /\ update'.epoch = lastState.epoch /\ update'.block = bn
      BY <3>1, UpdateIsTyped
    <3>3. lastState.epoch \in Nat
      BY <3>1 DEF States
    <3>4. seen < version' /\ version' \in Nat
      BY <3>1
    <3> QED BY <2>1, <3>1, <3>2, <3>3, <3>4 DEF Updates, States
  <2>2. CASE ~Subscribed
    <3>1. /\ lastEpoch' = lastState.epoch /\ wpc = "publish" /\ wpc' = "tick"
          /\ UNCHANGED <<update, version, bn, head, lastState, appVars, chainVars>>
      BY <1>4, <2>2 DEF Publish
    <3>2. lastState.epoch \in Nat
      BY <3>1 DEF States
    <3> QED BY <2>2, <3>1, <3>2
  <2> QED BY <2>1, <2>2
<1> QED BY <1>1, <1>2, <1>3, <1>4 DEF Poll

LEMMA SwapKeepsWInv == ASSUME WInv, Swap PROVE WInv'
<1> USE DEF WInv, TypeOK, StartInv, ChannelInv, OrderInv, Started, Subscribed,
            watcherVars, chainVars
<1>1. CASE Subscribe
  BY <1>1 DEF Subscribe
<1>2. CASE TakeUpdate
  BY <1>2 DEF TakeUpdate, Updates, States
<1>3. CASE HotSwap
  <2>1. taken \in Updates /\ taken.epoch \in Nat /\ taken.target \in Targets
    BY <1>3 DEF HotSwap, Updates
  <2>2. job' \in Jobs /\ job'.epoch = taken.epoch
    BY <1>3, <2>1 DEF HotSwap, Jobs
  <2> QED BY <1>3, <2>2 DEF HotSwap
<1> QED BY <1>1, <1>2, <1>3 DEF Swap

LEMMA EnvironmentKeepsWInv == ASSUME WInv, NewBlock \/ Reorg \/ Restart PROVE WInv'
<1> USE DEF WInv, TypeOK, StartInv, ChannelInv, OrderInv, Started, Subscribed,
            appVars, watcherVars, chainVars
<1>1. CASE NewBlock
  <2>1. block' = block + 1 /\ block' \in 0..MaxBlock /\ block \in Nat
    BY <1>1 DEF NewBlock
  <2>2. EpochOf(block) =< EpochOf(block') /\ EpochOf(block) \in Nat /\ EpochOf(block') \in Nat
    BY <2>1, EpochGrows, EpochIsNat
  <2> QED BY <1>1, <2>1, <2>2 DEF NewBlock, States
<1>2. CASE Reorg
  <2>1. reorgs' # 0 /\ reorgs' \in 0..MaxReorgs
    BY <1>2 DEF Reorg
  <2> QED BY <1>2, <2>1 DEF Reorg
<1>3. CASE Restart
  BY <1>3 DEF Restart
<1> QED BY <1>1, <1>2, <1>3

LEMMA InitWInv == Init => WInv
BY DEF Init, WInv, TypeOK, StartInv, ChannelInv, OrderInv, Started

LEMMA NextWInv == WInv /\ [Next]_vars => WInv'
<1> SUFFICES ASSUME WInv, [Next]_vars PROVE WInv'
  OBVIOUS
<1>1. CASE UNCHANGED vars
  BY <1>1 DEF vars, watcherVars, appVars, chainVars, WInv, TypeOK, StartInv,
              ChannelInv, OrderInv, Started, Subscribed
<1> QED
  BY <1>1, StartKeepsWInv, PollKeepsWInv, SwapKeepsWInv, EnvironmentKeepsWInv
  DEF Next

----------------------------------------------------------------------------
(* Epochs move forward.                                                    *)

\* Until the chain rolls back, what the swap task holds is not newer than the
\* channel, and what the grinder has is not newer than what the task holds.
ForwardInv ==
  reorgs = 0 =>
    /\ app \in {"apply", "wait"} => taken.epoch =< update.epoch
    /\ job # None => job.epoch =< taken.epoch

\* What an update may do: only start() and publish() write it.
LEMMA UpdateMoves ==
  ASSUME WInv, [Next]_vars
  PROVE  \/ update' = update
         \/ update' = None /\ job' = None /\ app' = "off"
         \/ update = None /\ app' = "wiring" /\ job' = None
         \/ wpc = "publish" /\ Started /\ update' = ChallengeUpdate(lastState, bn)
<1> USE DEF WInv, StartInv, Started
<1>1. CASE Start
  BY <1>1 DEF Start, StartHead, StartState, watcherVars, appVars, chainVars
<1>2. CASE Poll
  BY <1>2 DEF Poll, PollHead, PollState, PollStateFails, Publish
<1>3. CASE Swap \/ NewBlock \/ Reorg
  BY <1>3 DEF Swap, Subscribe, TakeUpdate, HotSwap, NewBlock, Reorg, watcherVars
<1>4. CASE Restart
  BY <1>4 DEF Restart
<1>5. CASE UNCHANGED vars
  BY <1>5 DEF vars, watcherVars
<1> QED BY <1>1, <1>2, <1>3, <1>4, <1>5 DEF Next

\* And so is it never set back.
LEMMA UpdateMovesForward ==
  ASSUME WInv, [Next]_vars, reorgs = 0
  PROVE  /\ NotBefore(update, update')
         /\ {app, app'} \subseteq {"apply", "wait"} => update.epoch =< update'.epoch
<1>1. /\ update # None => update.epoch \in Nat
      /\ app \in {"apply", "wait"} => update.epoch \in Nat
  BY DEF WInv, TypeOK, StartInv, Started, Updates
<1>2. ASSUME wpc = "publish", Started, update' = ChallengeUpdate(lastState, bn)
      PROVE  update.epoch =< update'.epoch
  BY <1>2 DEF WInv, OrderInv, ChallengeUpdate
<1> QED BY <1>1, <1>2, UpdateMoves DEF NotBefore

\* Only the swap task moves taken and job, and a restart clears them.
LEMMA SwapMoves ==
  ASSUME WInv, [Next]_vars
  PROVE  \/ UNCHANGED <<app, taken, job>>
         \/ job' = None /\ app' \in {"off", "wiring"}
         \/ app = "wiring" /\ app' = "initial" /\ UNCHANGED <<taken, job>>
         \/ /\ app \in {"initial", "wait"} /\ app' = "apply"
            /\ taken' = update /\ UNCHANGED <<job, update>>
         \/ /\ app = "apply" /\ app' = "wait" /\ UNCHANGED <<taken, update>>
            /\ job' # None => job'.epoch = taken.epoch
<1> USE DEF watcherVars, appVars, chainVars
<1>1. CASE Start
  BY <1>1 DEF Start, StartHead, StartState, WInv, StartInv, Started
<1>2. CASE Poll \/ NewBlock \/ Reorg
  BY <1>2 DEF Poll, PollHead, PollState, PollStateFails, Publish, NewBlock, Reorg
<1>3. CASE Swap
  BY <1>3 DEF Swap, Subscribe, TakeUpdate, HotSwap
<1>4. CASE Restart
  BY <1>4 DEF Restart
<1>5. CASE UNCHANGED vars
  BY <1>5 DEF vars
<1> QED BY <1>1, <1>2, <1>3, <1>4, <1>5 DEF Next

\* The cache follows the chain, which does not go back.
LEMMA CacheMovesForward ==
  ASSUME WInv, [Next]_vars, reorgs = 0
  PROVE  NotBefore(lastState, lastState')
<1>1. \/ lastState' = lastState \/ lastState' = None
      \/ wpc = "fetch" /\ lastState = None
      \/ wpc = "state" /\ lastState' = MiningState
  <2>2. CASE Start
    BY <2>2 DEF Start, StartHead, StartState, WInv, StartInv, Started
  <2>3. CASE Poll
    BY <2>3 DEF Poll, PollHead, PollState, PollStateFails, Publish
  <2>4. CASE Swap \/ NewBlock \/ Reorg \/ Restart \/ UNCHANGED vars
    BY <2>4 DEF Swap, Subscribe, TakeUpdate, HotSwap, NewBlock, Reorg, Restart, vars, watcherVars
  <2> QED BY <2>2, <2>3, <2>4 DEF Next
<1>2. ASSUME wpc = "state", lastState' = MiningState
      PROVE  lastState.epoch =< lastState'.epoch
  BY <1>2, StateIsTyped DEF WInv, OrderInv, Started
<1>3. lastState # None => lastState.epoch \in Nat
  BY DEF WInv, TypeOK, States
<1> QED BY <1>1, <1>2, <1>3 DEF NotBefore

LEMMA ReorgsOnlyGrow ==
  ASSUME WInv, [Next]_vars, reorgs' = 0
  PROVE  reorgs = 0
<1>1. reorgs \in Nat
  BY DEF WInv, TypeOK
<1>2. CASE Reorg
  BY <1>1, <1>2 DEF Reorg
<1>3. reorgs' = reorgs \/ Reorg
  BY DEF Next, Start, Poll, Swap, StartHead, StartState, PollHead, PollState, PollStateFails,
         Publish, Subscribe, TakeUpdate, HotSwap, NewBlock, Restart, vars, chainVars
<1> QED BY <1>2, <1>3

LEMMA ForwardStep ==
  ASSUME WInv, WInv', ForwardInv, [Next]_vars, reorgs' = 0
  PROVE  ForwardInv' /\ NotBefore(job, job')
<1>1. reorgs = 0
  BY ReorgsOnlyGrow
<1>2. /\ app \in {"apply", "wait"} => taken.epoch \in Nat /\ update.epoch \in Nat
      /\ job # None => job.epoch \in Nat /\ app \in {"apply", "wait"}
  BY DEF WInv, TypeOK, StartInv, Started, Updates, Jobs
<1>3. /\ app' \in {"apply", "wait"} => taken'.epoch \in Nat /\ update'.epoch \in Nat
      /\ job' # None => app' \in {"apply", "wait"}
  BY DEF WInv, TypeOK, StartInv, Started, Updates, Jobs
<1>4. {app, app'} \subseteq {"apply", "wait"} => update.epoch =< update'.epoch
  BY <1>1, UpdateMovesForward
<1> USE DEF ForwardInv, NotBefore
<1>5. CASE UNCHANGED <<app, taken, job>>
  BY <1>1, <1>2, <1>3, <1>4, <1>5
<1>6. CASE job' = None /\ app' \in {"off", "wiring"}
  BY <1>6
<1>7. CASE app = "wiring" /\ app' = "initial" /\ UNCHANGED <<taken, job>>
  BY <1>2, <1>7
<1>8. CASE /\ app \in {"initial", "wait"} /\ app' = "apply"
           /\ taken' = update /\ UNCHANGED <<job, update>>
  BY <1>1, <1>2, <1>3, <1>8
<1>9. CASE /\ app = "apply" /\ app' = "wait" /\ UNCHANGED <<taken, update>>
           /\ job' # None => job'.epoch = taken.epoch
  BY <1>1, <1>2, <1>3, <1>9
<1> QED BY <1>5, <1>6, <1>7, <1>8, <1>9, SwapMoves

----------------------------------------------------------------------------
(* The theorems.                                                           *)

\* In every behaviour of poll loop, start-up, swap task and chain, the inductive
\* invariant holds.
THEOREM WatcherInvariant == Spec => []WInv
BY InitWInv, NextWInv, PTL DEF Spec

\* Every variable of ChainWatcher keeps its type.
THEOREM WatcherTypes == Spec => []TypeOK
<1>1. WInv => TypeOK BY DEF WInv
<1> QED BY <1>1, WatcherInvariant, PTL

\* No update is lost once the loop has reached the subscriber: at rest, channel
\* and grinder have the epoch that the submitter finds in the cache, whatever
\* arrived between borrow_and_update() and hot_swap(), and whatever calls failed.
THEOREM NoUpdateLost == Spec => []GrinderHasCachedEpoch
<1>1. WInv => GrinderHasCachedEpoch
  BY DEF WInv, TypeOK, StartInv, ChannelInv, GrinderHasCachedEpoch, AtRest,
         Started, Subscribed, Updates
<1> QED BY <1>1, WatcherInvariant, PTL

\* Until the chain rolls back, neither channel nor grinder is ahead of the cache.
THEOREM CacheComesFirst == Spec => []CachedBeforeAnnounced
<1>1. WInv => CachedBeforeAnnounced
  BY DEF WInv, TypeOK, StartInv, OrderInv, CachedBeforeAnnounced, Started
<1> QED BY <1>1, WatcherInvariant, PTL

\* Until the chain rolls back, the block an update names is not later than the
\* state it carries, although head and state come from two queries.
THEOREM BlockIsNotAhead == Spec => []BlockNotAfterState
<1>1. WInv => BlockNotAfterState
  BY DEF WInv, TypeOK, StartInv, OrderInv, BlockNotAfterState, Started
<1> QED BY <1>1, WatcherInvariant, PTL

\* Short of a reorg and a restart, cache, channel and the grinder's orders move
\* forward in epochs, however the loop, the swap task and the chain interleave.
THEOREM EpochsNeverGoBack == Spec => EpochsMoveForward
<1>1. Init => ForwardInv
  BY DEF Init, ForwardInv
<1>2. WInv /\ WInv' /\ ForwardInv /\ [Next]_vars => ForwardInv'
  <2> SUFFICES ASSUME WInv, WInv', ForwardInv, [Next]_vars, reorgs' = 0 PROVE ForwardInv'
    BY DEF ForwardInv
  <2> QED BY ForwardStep
<1>3. WInv /\ WInv' /\ ForwardInv /\ [Next]_vars
        => [ reorgs' = 0 => /\ NotBefore(lastState, lastState')
                            /\ NotBefore(update, update')
                            /\ NotBefore(job, job') ]_vars
  <2> SUFFICES ASSUME WInv, WInv', ForwardInv, [Next]_vars, reorgs' = 0
               PROVE  /\ NotBefore(lastState, lastState')
                      /\ NotBefore(update, update')
                      /\ NotBefore(job, job')
    OBVIOUS
  <2>1. reorgs = 0
    BY ReorgsOnlyGrow
  <2> QED BY <2>1, CacheMovesForward, UpdateMovesForward, ForwardStep
<1> QED
  BY <1>1, <1>2, <1>3, WatcherInvariant, PTL DEF Spec, EpochsMoveForward

=============================================================================
