------------------------------- MODULE Miner -------------------------------
(***************************************************************************)
(* The miner as one system: the watcher's cache and announcements, the     *)
(* grinder, the hit channel, the consumer with the submitter's checks and  *)
(* its EV gate, and the contract that judges what was sent.                *)
(*                                                                         *)
(* The parts are taken at the grain at which they exchange data.  What     *)
(* happens inside them has modules of its own: ChainWatcher, GpuWorker,    *)
(* MineKernel, TxSubmitter.  Reorganisations are theirs too; here blocks   *)
(* are final.                                                              *)
(***************************************************************************)
EXTENDS HashContract, EvGate, Sequences

CONSTANTS
  None,        \* Rust's Option::None
  Costs,       \* gas costs that occur, in wei of ETH (the rewards are in units of HASH)
  Capacity,    \* of the hit channel, 16
  TestTarget   \* run()'s test_target_override: a target or None

ASSUME MinerAssumption ==
  /\ Costs \subseteq Nat /\ Capacity \in Nat \ {0}
  /\ TestTarget \in Nat \cup {None}
ASSUME NoneAssumption == None \notin Nat \cup [nonce : Nonces, epoch : Nat, target : Nat]

VARIABLES
  cached,   \* ChainWatcher.last_state
  watcher,  \* its poll loop: "start", "poll", or "publish" after a new epoch
  channel,  \* the watch channel: the update main has not seen, and whether it listens
  orders,   \* what hot_swap() was last given
  device,   \* the orders of the launch under way
  swept,    \* the nonces a launch has found, with their epoch
  hits,     \* the hit channel
  hand,     \* the hit submit() works on, or None
  sent,     \* submit() has sent it
  weighed,  \* st.reward_wei, as submit() read it
  pool,     \* the transactions that may still be executed, by their hits
  mined,    \* history: the executed ones, and how they fared
  decided   \* history: what submit() answered

minerVars == <<cached, watcher, channel, orders, device, swept, hits, hand, sent, weighed,
               pool, mined, decided>>
vars == <<contractVars, minerVars>>

OrdersOf(st) == [epoch  |-> st.epoch,
                 target |-> IF TestTarget = None THEN st.difficulty ELSE TestTarget]

\* start() has read the state and put it into the watch channel as its first value.
Init ==
  /\ ContractInit
  /\ cached = MiningState /\ watcher = "start"
  /\ channel = [update |-> OrdersOf(MiningState), heard |-> FALSE]
  /\ orders = None /\ device = None /\ swept = {}
  /\ hits = <<>>
  /\ hand = None /\ sent = FALSE /\ weighed = 0
  /\ pool = {} /\ mined = {} /\ decided = {}

----------------------------------------------------------------------------
(* ChainWatcher and the swap task.                                         *)

\* Faulty variant: a new epoch is announced before it is cached.
PollAnnouncesFirst ==
  /\ watcher \in {"start", "poll"}
  /\ IF watcher = "poll" /\ cached.epoch = MiningState.epoch
     THEN cached' = MiningState /\ UNCHANGED <<watcher, channel>>
     ELSE /\ channel' = [channel EXCEPT !.update = OrdersOf(MiningState)]
          /\ watcher' = "publish"
          /\ UNCHANGED cached
  /\ UNCHANGED <<contractVars, orders, device, swept, hits, hand, sent, weighed, pool,
                 mined, decided>>

\* miningState() is cached, and a new epoch is noticed: the first one always.
Poll ==
  /\ watcher \in {"start", "poll"}
  /\ cached' = MiningState
  /\ watcher' = IF watcher = "poll" /\ cached.epoch = MiningState.epoch THEN "poll"
                                                                       ELSE "publish"
  /\ UNCHANGED <<contractVars, channel, orders, device, swept, hits, hand, sent, weighed,
                 pool, mined, decided>>

\* update_tx.send(): it replaces an update that main has not seen yet, and is lost
\* while main has not subscribed.
Publish ==
  /\ watcher = "publish"
  /\ channel' = IF channel.heard THEN [channel EXCEPT !.update = OrdersOf(cached)] ELSE channel
  /\ watcher' = "poll"
  /\ UNCHANGED <<contractVars, cached, orders, device, swept, hits, hand, sent, weighed,
                 pool, mined, decided>>

\* main subscribes; its swap task takes the first value, then each new one.
Subscribe ==
  /\ ~channel.heard
  /\ channel' = [channel EXCEPT !.heard = TRUE]
  /\ UNCHANGED <<contractVars, cached, watcher, orders, device, swept, hits, hand, sent,
                 weighed, pool, mined, decided>>

\* The swap task hands the update to the grinder.
Swap ==
  /\ channel.heard /\ channel.update # None
  /\ orders' = channel.update
  /\ channel' = [channel EXCEPT !.update = None]
  /\ UNCHANGED <<contractVars, cached, watcher, device, swept, hits, hand, sent, weighed,
                 pool, mined, decided>>

----------------------------------------------------------------------------
(* GpuWorker.                                                              *)

\* A turn of the launch loop picks up the orders.
Launch ==
  /\ orders # None /\ device # orders
  /\ device' = orders
  /\ UNCHANGED <<contractVars, cached, watcher, channel, orders, swept, hits, hand, sent,
                 weighed, pool, mined, decided>>

\* Faulty variant: the hit is tagged with the epoch of the latest orders.
HitOfNow(n) == [nonce |-> n, epoch |-> orders.epoch, target |-> device.target]

\* What the launch loop sends: target is what the search was for, and no field of
\* the code's Hit.
HitOf(n) == [nonce |-> n, epoch |-> device.epoch, target |-> device.target]

\* A launch finds a nonce, and there is room in the channel.  A challenge's
\* batches do not overlap (RegionIsSwept of GpuWorker), nor, but for an accident
\* of 2^62, do the random starts of two orders of one epoch.
Find(n) ==
  /\ device # None
  /\ <<n, device.epoch>> \notin swept
  /\ Digest[<<device.epoch, n>>] < device.target
  /\ Len(hits) < Capacity
  /\ hits' = Append(hits, HitOf(n))
  /\ swept' = swept \cup {<<n, device.epoch>>}
  /\ UNCHANGED <<contractVars, cached, watcher, channel, orders, device, hand, sent, weighed,
                 pool, mined, decided>>

----------------------------------------------------------------------------
(* The consumer and submit().                                              *)

Decide(h, outcome, reward) ==
  decided' = decided \cup {[hit |-> h, outcome |-> outcome, reward |-> reward]}

\* recv(), and the stale-epoch check against the cache.
Take ==
  /\ hand = None /\ hits # <<>>
  /\ hits' = Tail(hits)
  /\ IF Head(hits).epoch = cached.epoch
     THEN /\ hand' = Head(hits)
          /\ weighed' = cached.reward
          /\ UNCHANGED decided
     ELSE Decide(Head(hits), "stale", 0) /\ UNCHANGED <<hand, weighed>>
  /\ UNCHANGED <<contractVars, cached, watcher, channel, orders, device, swept, sent, pool, mined>>

\* Faulty variant: the consumer tries a hit again, after those that wait.
ReturnAndRetry(outcome, reward) ==
  /\ Decide(hand, outcome, reward)
  /\ hits' = IF outcome = "dropped" /\ Len(hits) < Capacity THEN Append(hits, hand) ELSE hits
  /\ hand' = None /\ sent' = FALSE /\ weighed' = 0
  /\ UNCHANGED <<contractVars, cached, watcher, channel, orders, device, swept, pool, mined>>

\* submit() returns.
Return(outcome, reward) ==
  /\ Decide(hand, outcome, reward)
  /\ hand' = None /\ sent' = FALSE /\ weighed' = 0
  /\ UNCHANGED <<contractVars, cached, watcher, channel, orders, device, swept, hits, pool, mined>>

\* The gas price is asked for, and the EV gate asks for the mints of the head the
\* watcher has seen last.  Reward and cost enter it as they are, one counted in units
\* of HASH, the other in wei of ETH.
Weigh(cost, head) ==
  /\ hand # None /\ ~sent
  /\ Allow(mintsIn[head], weighed, cost)
  /\ sent' = TRUE
  /\ pool' = pool \cup {hand}
  /\ UNCHANGED <<contractVars, cached, watcher, channel, orders, device, swept, hits, hand,
                 weighed, mined, decided>>

Reject(cost, head) ==
  /\ hand # None /\ ~sent
  /\ ~Allow(mintsIn[head], weighed, cost)
  /\ Return("ev", 0)

\* Faulty variant: the receipt's status is not looked at.
ReceiptAnyStatus ==
  /\ hand # None /\ sent
  /\ \E m \in mined : m.hit = hand /\ m.block =< block
  /\ Return("included", weighed)

\* The receipt of a sealed block, with its status.
Receipt ==
  /\ hand # None /\ sent
  /\ \E m \in mined :
       /\ m.hit = hand /\ m.block =< block
       /\ IF m.causes = {} THEN Return("included", weighed)
                           ELSE Return("reverted", 0)

\* Faulty variant: the wait for a receipt has no timeout.
GiveUpUnsent == hand # None /\ ~sent /\ Return("dropped", 0)

\* Any await may fail, before or after the sending, and the receipt may time out.
GiveUp == hand # None /\ Return("dropped", 0)

Submit ==
  \/ \E cost \in Costs, head \in 0..block : Weigh(cost, head) \/ Reject(cost, head)
  \/ Receipt \/ GiveUp

Consumer == Take \/ Submit

----------------------------------------------------------------------------
(* The chain.                                                              *)

\* A sent transaction is executed in the open block.
Execute(h) ==
  /\ h \in pool
  /\ pool' = pool \ {h}
  /\ Mine(h.nonce)
  /\ mined' = mined \cup
       {[hit        |-> h,
         block      |-> Open,
         difficulty |-> difficulty,
         causes     |-> Closed \cup Unproved(h.nonce),
         paid       |-> Pay]}
  /\ UNCHANGED <<cached, watcher, channel, orders, device, swept, hits, hand, sent, weighed, decided>>

Others == (RivalMine \/ Seal) /\ UNCHANGED minerVars

Next ==
  \/ Poll \/ Publish \/ Subscribe \/ Swap \/ Launch \/ Consumer \/ Others
  \/ \E n \in Nonces : Find(n)
  \/ \E h \in pool : Execute(h)

Spec == Init /\ [][Next]_vars

\* The consumer runs, and every await of submit() ends: at the latest, the wait
\* for a receipt by its timeout.
FairSpec == Spec /\ WF_vars(Consumer)

----------------------------------------------------------------------------

Outcomes == {"stale", "ev", "included", "reverted", "dropped"}
Causes   == {"supply", "cap", "overflow", "work", "used"}
Orders   == [epoch : Nat, target : Nat]
Hits     == [nonce : Nonces, epoch : Nat, target : Nat]

TypeOK ==
  /\ ContractTypeOK
  /\ cached \in [epoch : Nat, difficulty : Nat, reward : Nat]
  /\ watcher \in {"start", "poll", "publish"}
  /\ channel \in [update : Orders \cup {None}, heard : BOOLEAN]
  /\ orders \in Orders \cup {None} /\ device \in Orders \cup {None}
  /\ swept \subseteq Nonces \X Nat
  /\ hits \in Seq(Hits) /\ Len(hits) =< Capacity
  /\ hand \in Hits \cup {None} /\ sent \in BOOLEAN
  /\ weighed \in Nat
  /\ pool \subseteq Hits
  /\ mined \subseteq [hit : Hits, block : Nat, difficulty : Nat,
                      causes : SUBSET Causes, paid : Nat]
  /\ decided \subseteq [hit : Hits, outcome : Outcomes, reward : Nat]

\* A hit that is dropped as stale is worth nothing any more: no block that is yet
\* to be sealed is of its epoch.
StaleIsDead ==
  \A d \in decided : d.outcome = "stale" => d.hit.epoch < EpochOf(Open)

\* The miner's transaction never reverts for a reason of its own: with
\* ProofAlreadyUsed only if another of its hits, of another epoch, had the same
\* nonce, and with InsufficientWork only if it came too late for its epoch, or
\* under a difficulty below the one it was searched for.
RevertHasCause ==
  \A m \in mined :
    /\ "used" \in m.causes =>
         \E o \in mined : o.hit.nonce = m.hit.nonce /\ o.hit.epoch # m.hit.epoch
    /\ "work" \in m.causes =>
         EpochOf(m.block) > m.hit.epoch \/ m.difficulty < m.hit.target

\* What submit() reports is what the contract did: a reported inclusion was
\* paid, and not more than was reported, a reported revert was none, and what was
\* held back never reached the chain.
ReportMatchesContract ==
  \A d \in decided, m \in mined :
    d.hit = m.hit =>
      /\ d.outcome \notin {"stale", "ev"}
      /\ d.outcome = "included" => m.causes = {} /\ m.paid =< d.reward
      /\ d.outcome = "reverted" => m.causes # {}

\* The difficulty follows the rate of the mints: it is not raised when they came
\* slower than wanted, not lowered when they came faster, and changes at most
\* fourfold.  (It is a target: the smaller, the harder.)
RetargetFollowsRate ==
  [][ adjMint' # adjMint =>
        /\ Taken < OnTime => difficulty' =< difficulty
        /\ Taken > OnTime => difficulty' >= difficulty
        /\ difficulty' =< 4 * difficulty /\ difficulty' * 4 + 3 >= difficulty
        /\ difficulty' > 0 ]_vars

\* What solves a challenge: the hit without the target it was searched for.
Key(h) == <<h.nonce, h.epoch>>

\* Channel and consumer as SerialCalls: a hit comes when it is found, is served
\* while submit() works on it, and is over when it is answered.
Unanswered == (IF hand = None THEN <<>> ELSE <<Key(hand)>>)
                \o [i \in 1..Len(hits) |-> Key(hits[i])]
Submitting == {Key(h) : h \in {hand} \ {None}}
Answered   == {Key(d.hit) : d \in decided}

Answers == INSTANCE SerialCalls WITH
  Calls <- Nonces \X (0..EpochOf(MaxBlock)),
  queue <- Unanswered, serving <- Submitting, over <- Answered

\* The hits are answered one at a time, in the order in which they were found, and
\* each of them once, whatever became of it: none is lost on the way, and none is
\* tried again.
AnswersSpec == Answers!Spec

\* Once mining has ended, because the supply is minted or because the adjustment
\* that is due overflows, it has ended for good: the blocks that pass only make the
\* overflow worse.
Ended == Exhausted \/ (Due /\ Overflows)

MiningEndsForGood ==
  [][Ended => Ended' /\ UNCHANGED <<totalMints, minted, difficulty>>]_vars

\* Every hit the grinder sends is decided, once the one before it is.
HitIsDecided ==
  \A n \in Nonces, e \in 0..EpochOf(MaxBlock) :
    <<n, e>> \in swept ~>
      \E d \in decided : d.hit.nonce = n /\ d.hit.epoch = e

=============================================================================
