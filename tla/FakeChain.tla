----------------------------- MODULE FakeChain -----------------------------
(***************************************************************************)
(* FakeChain (src/chain/fake.rs): the ChainSource of the tests.  Its       *)
(* callers, threads or tasks that share it, advance the head and set the   *)
(* difficulty; both publish on a tokio watch channel.  advance_blocks()    *)
(* gives the lock back before it publishes a new epoch, so a caller has a  *)
(* program counter; everything else happens under one lock.                *)
(*                                                                         *)
(* A challenge is a hash of the epoch (and of constants): the epoch stands *)
(* for it.                                                                 *)
(***************************************************************************)
EXTENDS Integers

CONSTANTS
  EpochBlocks,  \* EPOCH_BLOCKS of contract.rs
  Targets,      \* the difficulties that occur
  Callers,      \* who calls advance_blocks() and set_difficulty()
  None,         \* the caller holds no epoch
  MaxHead,      \* bound: the height the head reaches
  MaxUpdates    \* bound: how many updates set_difficulty() may add to

VARIABLES
  head,        \* Inner.head
  difficulty,  \* Inner.difficulty
  rolled,      \* the new_epoch each caller has yet to publish, or None
  update,      \* the value of the watch channel
  version,     \*   how many sends have replaced it,
  listening,   \*   and whether it has a receiver
  overtaken    \* history: an epoch rolled while another was not yet published

vars == <<head, difficulty, rolled, update, version, listening, overtaken>>

EpochOf(b) == b \div EpochBlocks

Update(e, d, b) == [epoch |-> e, target |-> d, block |-> b]

\* FakeChain::new(): the receiver that comes with the channel is dropped.
Init ==
  /\ head \in 0..MaxHead
  /\ difficulty \in Targets
  /\ rolled = [c \in Callers |-> None]
  /\ update = Update(EpochOf(head), difficulty, head)
  /\ version = 0
  /\ listening = FALSE
  /\ overtaken = FALSE

\* watch::Sender::send(): without a receiver it fails, and keeps the old value.
Send(u) ==
  IF listening THEN update' = u /\ version' = version + 1
               ELSE UNCHANGED <<update, version>>

\* subscribe().
Subscribe ==
  /\ listening' = TRUE
  /\ UNCHANGED <<head, difficulty, rolled, update, version, overtaken>>

Idle(c) == rolled[c] = None

\* advance_blocks(n), first half.
Advance(c, n) ==
  /\ Idle(c)
  /\ head + n =< MaxHead
  /\ head' = head + n
  /\ IF EpochOf(head + n) = EpochOf(head)
     THEN UNCHANGED <<rolled, overtaken>>
     ELSE /\ rolled' = [rolled EXCEPT ![c] = EpochOf(head + n)]
          /\ overtaken' = (overtaken \/ \E o \in Callers : ~Idle(o))
  /\ UNCHANGED <<difficulty, update, version, listening>>

\* Faulty variant: the difficulty is not asked for again under the second lock.
PublishOldTarget(c) ==
  /\ ~Idle(c)
  /\ Send(Update(rolled[c], update.target, head))
  /\ rolled' = [rolled EXCEPT ![c] = None]
  /\ UNCHANGED <<head, difficulty, listening, overtaken>>

\* advance_blocks(n), second half: the epoch of the first, difficulty and head of
\* now.
Publish(c) ==
  /\ ~Idle(c)
  /\ Send(Update(rolled[c], difficulty, head))
  /\ rolled' = [rolled EXCEPT ![c] = None]
  /\ UNCHANGED <<head, difficulty, listening, overtaken>>

\* set_difficulty(d).
SetDifficulty(c, d) ==
  /\ Idle(c)
  /\ version < MaxUpdates
  /\ difficulty' = d
  /\ Send(Update(EpochOf(head), d, head))
  /\ UNCHANGED <<head, rolled, listening, overtaken>>

Step(c) ==
  \/ \E n \in 1..MaxHead : Advance(c, n)
  \/ Publish(c)
  \/ \E d \in Targets : SetDifficulty(c, d)

\* mining_state(), the fields that steer the miner.
MiningState == [epoch |-> EpochOf(head), difficulty |-> difficulty]

Updates == [epoch : Nat, target : Targets, block : Nat]

TypeOK ==
  /\ head \in 0..MaxHead
  /\ difficulty \in Targets
  /\ rolled \in [Callers -> Nat \cup {None}]
  /\ update \in Updates
  /\ version \in Nat
  /\ listening \in BOOLEAN
  /\ overtaken \in BOOLEAN

\* Every call has returned.
AtRest == \A c \in Callers : Idle(c)

\* Once something was sent on the channel it holds the chain's difficulty and no
\* epoch the chain has not reached, in whatever order the two halves of
\* advance_blocks() and the calls of set_difficulty() come.  Unless two callers
\* rolled the epoch at the same time, it holds the chain's epoch whenever every
\* call has returned: a set_difficulty() between the two halves of
\* advance_blocks() is not undone by the second.
UpdateIsCurrent ==
  version > 0 =>
    /\ update.target = MiningState.difficulty
    /\ update.epoch =< MiningState.epoch
    /\ AtRest /\ ~overtaken => update.epoch = MiningState.epoch

=============================================================================
