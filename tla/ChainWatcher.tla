---------------------------- MODULE ChainWatcher ----------------------------
(***************************************************************************)
(* ChainWatcher (src/chain/watcher.rs): start(), the poll loop and the     *)
(* tokio watch channel it publishes on, with the start-up of run() and the *)
(* task of main.rs that hands each update to the grinder.                  *)
(*                                                                         *)
(* start() and the poll loop are one line of control, wpc: start() spawns  *)
(* the loop as its last act.  run() subscribes only after several more     *)
(* awaits, while the loop already polls: app is that second line of        *)
(* control.  A challenge is a hash of the epoch (and of constants), so an  *)
(* update carries its epoch only.                                          *)
(***************************************************************************)
EXTENDS Integers

CONSTANTS
  None,          \* Rust's Option::None
  EpochBlocks,   \* EPOCH_BLOCKS of contract.rs
  Targets,       \* values currentDifficulty takes
  TestTarget,    \* run()'s test_target_override: a target or None
  MaxBlock,      \* bound: the height the chain reaches
  MaxReorgs      \* bound: how often the chain rolls back

ASSUME NoneAssumption == None \notin Int \cup Targets
ASSUME EpochBlocksAssumption == EpochBlocks \in Nat \ {0}
ASSUME TargetsAssumption == Targets # {} /\ TestTarget \in Targets \cup {None}
ASSUME BoundsAssumption == MaxBlock \in Nat /\ MaxReorgs \in Nat

VARIABLES
  block,       \* the chain: its height,
  difficulty,  \*   the contract's currentDifficulty,
  reorgs,      \*   and how often it has rolled back
  wpc,         \* where start() and then the poll loop is
  bn,          \* its local block_number, later bn
  head,        \* ChainWatcher.head
  lastState,   \* ChainWatcher.last_state, the fields that steer the miner
  lastEpoch,   \* the poll loop's last_epoch
  update,      \* the value of the watch channel
  version,     \*   and how many sends have replaced it
  app,         \* where run() and then its swap task is
  seen,        \* the version the receiver rx has marked as seen
  taken,       \* the update the task has cloned out of the channel
  job          \* what hot_swap() was last given: the grinder's orders

chainVars   == <<block, difficulty, reorgs>>
watcherVars == <<wpc, bn, head, lastState, lastEpoch, update, version>>
appVars     == <<app, seen, taken, job>>
vars == <<chainVars, watcherVars, appVars>>

\* Faulty variant: the block within the epoch.
EpochOfRemainder(b) == b % EpochBlocks

\* Hash.sol's _epoch(), and epoch of a ChallengeUpdate.
EpochOf(b) == b \div EpochBlocks

\* miningState(), answered by the node at its current block.
MiningState == [epoch |-> EpochOf(block), difficulty |-> difficulty]

ChallengeUpdate(st, b) ==
  [epoch |-> st.epoch, target |-> st.difficulty, block |-> b]

\* The process is about to call start().
Init ==
  /\ block \in 0..EpochBlocks /\ block =< MaxBlock
  /\ difficulty \in Targets
  /\ reorgs = 0
  /\ wpc = "boot" /\ bn = 0 /\ head = 0 /\ lastState = None /\ lastEpoch = None
  /\ update = None /\ version = 0
  /\ app = "off" /\ seen = 0 /\ taken = None /\ job = None

----------------------------------------------------------------------------
(* start().  An error makes run() fail, and the process exits: see Restart.  *)

StartHead ==
  /\ wpc = "boot"
  /\ bn' = block /\ head' = block
  /\ wpc' = "fetch"
  /\ UNCHANGED <<lastState, lastEpoch, update, version, appVars, chainVars>>

\* The channel is created with the first update; the receiver that comes with it
\* is dropped.
StartState ==
  /\ wpc = "fetch"
  /\ lastState' = MiningState
  /\ update' = ChallengeUpdate(MiningState, bn)
  /\ wpc' = "tick"
  /\ app' = "wiring"
  /\ UNCHANGED <<bn, head, lastEpoch, version, seen, taken, job, chainVars>>

----------------------------------------------------------------------------
(* poll_loop().                                                            *)

\* A tick, and get_block_number().  (An error changes nothing: the next tick
\* tries again.)
PollHead ==
  /\ wpc = "tick"
  /\ bn' = block /\ head' = block
  /\ wpc' = "state"
  /\ UNCHANGED <<lastState, lastEpoch, update, version, appVars, chainVars>>

\* Faulty variant: a new epoch is announced before it is cached.
PollStateAnnouncesFirst ==
  /\ wpc = "state"
  /\ IF lastEpoch = MiningState.epoch
     THEN lastState' = MiningState /\ wpc' = "tick" /\ UNCHANGED <<update, version>>
     ELSE /\ update' = ChallengeUpdate(MiningState, bn)
          /\ version' = version + 1
          /\ wpc' = "publish"
          /\ UNCHANGED lastState
  /\ UNCHANGED <<bn, head, lastEpoch, appVars, chainVars>>

\* miningState() is answered and cached; a new epoch has yet to be published.
PollState ==
  /\ wpc = "state"
  /\ lastState' = MiningState
  /\ wpc' = IF lastEpoch = MiningState.epoch THEN "tick" ELSE "publish"
  /\ UNCHANGED <<bn, head, lastEpoch, update, version, appVars, chainVars>>

\* Faulty variant: the loop ends where it should go on.
PollStateBreaks ==
  /\ wpc = "state"
  /\ wpc' = "ended"
  /\ UNCHANGED <<bn, head, lastState, lastEpoch, update, version, appVars, chainVars>>

\* miningState() fails: a warning, and the next tick.
PollStateFails ==
  /\ wpc = "state"
  /\ wpc' = "tick"
  /\ UNCHANGED <<bn, head, lastState, lastEpoch, update, version, appVars, chainVars>>

\* run() has subscribed and its task holds the receiver.
Subscribed == app \in {"initial", "apply", "wait"}

\* Faulty variant: the update is labelled with the newest block.
PublishRelabelled ==
  /\ wpc = "publish"
  /\ update' = ChallengeUpdate(lastState, block) /\ version' = version + 1
  /\ lastEpoch' = lastState.epoch
  /\ wpc' = "tick"
  /\ UNCHANGED <<bn, head, lastState, appVars, chainVars>>

\* send() replaces the value and wakes the receivers, but when there is none it
\* fails and leaves the channel as it is.  The loop ignores that.
Publish ==
  /\ wpc = "publish"
  /\ IF Subscribed
     THEN update' = ChallengeUpdate(lastState, bn) /\ version' = version + 1
     ELSE UNCHANGED <<update, version>>
  /\ lastEpoch' = lastState.epoch
  /\ wpc' = "tick"
  /\ UNCHANGED <<bn, head, lastState, appVars, chainVars>>

----------------------------------------------------------------------------
(* run() and its swap task.                                                *)

\* genesis_complete(), the relays and the GPU are done: run() subscribes.
Subscribe ==
  /\ app = "wiring"
  /\ app' = "initial" /\ seen' = version
  /\ UNCHANGED <<taken, job, watcherVars, chainVars>>

\* rx.borrow_and_update(): for the initial value, and whenever changed() returns.
TakeUpdate ==
  /\ app = "initial" \/ (app = "wait" /\ seen # version)
  /\ taken' = update /\ seen' = version
  /\ app' = "apply"
  /\ UNCHANGED <<job, watcherVars, chainVars>>

\* Faulty variant: the update is marked as seen only once it has been applied.
HotSwapThenMark ==
  /\ app = "apply"
  /\ job' = [epoch |-> taken.epoch, target |-> taken.target]
  /\ seen' = version
  /\ app' = "wait"
  /\ UNCHANGED <<taken, watcherVars, chainVars>>

\* grinder.hot_swap(), with the target of the command line if there is one.
HotSwap ==
  /\ app = "apply"
  /\ job' = [epoch  |-> taken.epoch,
             target |-> IF TestTarget = None THEN taken.target ELSE TestTarget]
  /\ app' = "wait"
  /\ UNCHANGED <<seen, taken, watcherVars, chainVars>>

----------------------------------------------------------------------------
(* The environment.                                                        *)

\* A block, in which a mint may have adjusted the difficulty.
NewBlock ==
  /\ block < MaxBlock
  /\ block' = block + 1
  /\ difficulty' \in Targets
  /\ UNCHANGED <<reorgs, watcherVars, appVars>>

\* The chain rolls back, or a load balancer answers from a node that is behind.
Reorg ==
  /\ reorgs < MaxReorgs
  /\ block' \in {b \in 0..MaxBlock : b < block}
  /\ difficulty' \in Targets
  /\ reorgs' = reorgs + 1
  /\ UNCHANGED <<watcherVars, appVars>>

\* The process exits, on an error of start() or of run()'s other awaits or on
\* Ctrl-C, and is started again.
Restart ==
  /\ wpc # "boot"
  /\ wpc' = "boot" /\ bn' = 0 /\ head' = 0 /\ lastState' = None /\ lastEpoch' = None
  /\ update' = None /\ version' = 0
  /\ app' = "off" /\ seen' = 0 /\ taken' = None /\ job' = None
  /\ UNCHANGED chainVars

Start   == StartHead \/ StartState
Poll    == PollHead \/ PollState \/ PollStateFails \/ Publish
Swap    == Subscribe \/ TakeUpdate \/ HotSwap
Next    == Start \/ Poll \/ Swap \/ NewBlock \/ Reorg \/ Restart

Spec == Init /\ [][Next]_vars

\* Tasks are scheduled, the interval ticks, get_block_number() and the awaits of
\* the start-up end, and miningState() does not fail for ever.
FairSpec ==
  /\ Spec
  /\ WF_vars(StartHead) /\ SF_vars(StartState)
  /\ WF_vars(PollHead) /\ SF_vars(PollState) /\ WF_vars(Publish)
  /\ WF_vars(Swap)

----------------------------------------------------------------------------
(* What the watcher and its subscriber must keep.                          *)

States  == [epoch : Nat, difficulty : Targets]
Updates == [epoch : Nat, target : Targets, block : Nat]
Jobs    == [epoch : Nat, target : Targets]

TypeOK ==
  /\ block \in 0..MaxBlock /\ difficulty \in Targets /\ reorgs \in 0..MaxReorgs
  /\ wpc \in {"boot", "fetch", "tick", "state", "publish"}
  /\ bn \in Nat /\ head \in Nat
  /\ lastState \in States \cup {None}
  /\ lastEpoch \in Nat \cup {None}
  /\ update \in Updates \cup {None} /\ version \in Nat
  /\ app \in {"off", "wiring", "initial", "apply", "wait"}
  /\ seen \in Nat
  /\ taken \in Updates \cup {None}
  /\ job \in Jobs \cup {None}

\* The poll loop is between two polls and the swap task has nothing to do.
AtRest == wpc \in {"tick", "state"} /\ app = "wait" /\ seen = version

\* Once the loop has reached the subscriber, no epoch is lost between the cache,
\* the channel and the grinder: at rest the grinder works for the epoch the
\* submitter compares its hits with.
GrinderHasCachedEpoch ==
  AtRest /\ version > 0 =>
    update.epoch = lastState.epoch /\ job.epoch = lastState.epoch

\* last_state is written before the update is sent.  So, until a reorg makes a later
\* poll read an earlier state, the grinder never works for an epoch that the submitter
\* would call stale because its cache is behind.
CachedBeforeAnnounced ==
  reorgs = 0 =>
    /\ update # None => update.epoch =< lastState.epoch
    /\ job # None => job.epoch =< lastState.epoch

\* get_block_number() is asked before miningState(): the block an update names
\* is not later than the state it carries.
BlockNotAfterState ==
  reorgs = 0 /\ update # None => EpochOf(update.block) =< update.epoch

\* Short of a reorg and a restart, nothing goes back to an epoch that was left:
\* neither the cache nor the channel nor, although each update waits in the channel
\* and in the swap task while the loop polls on, the orders of the grinder.
NotBefore(x, y) == x = None \/ y = None \/ x.epoch =< y.epoch

EpochsMoveForward ==
  [][ reorgs' = 0 => /\ NotBefore(lastState, lastState')
                     /\ NotBefore(update, update')
                     /\ NotBefore(job, job') ]_vars

\* After the first update that reached it, the grinder catches up with the chain
\* again and again, whatever calls fail in between.
GrinderCatchesUp ==
  version > 0 ~> version = 0 \/ (job # None /\ job.epoch = EpochOf(block))

----------------------------------------------------------------------------
(* What the comments of the repository say, and the code does not do.        *)

\* watcher.rs:2: "publishes `ChallengeUpdate` events when the epoch changes".  An
\* epoch change between start() and run()'s subscription reaches the grinder too.
EpochChangeIsPublished == AtRest => job.epoch = lastState.epoch

\* chain/mod.rs:5: "What ChainWatcher publishes every time epoch or difficulty
\* changes".  At rest the published target is the cached difficulty.
DifficultyChangeIsPublished ==
  AtRest /\ version > 0 => update.target = lastState.difficulty

=============================================================================
