# hashminer in TLA+

TLA+ specifications of the HASH256 miner in `src/`: what its concurrent parts
do, what they promise, TLC runs that check the promises on small instances and
TLAPS proofs that establish the safety promises for every instance.

Paths below are relative to the crate, `src/` (so `tx/submitter.rs` is
`src/src/tx/submitter.rs` seen from the repository's top).

## 1. The system

The miner is one process with a tokio runtime and one OS thread.

```
   chain (JSON-RPC)                                  relays, mempools, chain
        |  poll every 4 s                                     ^
        v                                                     | submit()
  ChainWatcher --watch channel--> swap task --> GpuWorker --mpsc(16)--> consumer task
        |   (last_state cache)                   (OS thread)              |
        +------------------ mining_state(), head() -----------------------+
```

`run()` in `main.rs` wires it: unlock the keystore, connect, `ChainWatcher::start`,
ask `genesis_complete()`, build the relays, start the GPU, **then** subscribe to
the watcher, spawn the swap task, the hit consumer, a heartbeat and the metrics
sinks, and wait for Ctrl-C.

| Part | Source | State | Operations | Talks to |
|---|---|---|---|---|
| Chain watcher | `chain/watcher.rs` | `head`, `last_state`, the poll loop's `last_epoch`, the watch channel | `start`, `poll_loop`, `subscribe`, `mining_state`, `head` | node (calls), swap task (watch channel), submitter (cache) |
| Swap task | `main.rs:193-239` | the receiver's seen version | `borrow_and_update`, `hot_swap` | watcher, GPU worker |
| GPU worker | `gpu/worker.rs` | `pending`, `shutdown`, the loop's `current_epoch`, `nonce_start` | `launch_loop`, `hot_swap`, `shutdown`, `hashrate` | runtime, hit channel |
| GPU runtime | `gpu/kernel_ffi.rs` | device buffers: challenge, target, found, result | `hot_swap`, `launch_mine` | kernel |
| Kernel | `kernel/*.cu*` | the launch's threads, `found`, `result` | `mine_kernel`, `keccak_f1600` | runtime |
| Hit consumer | `main.rs:242-277` | the hit it is submitting | `recv`, `submit().await` | worker (channel), submitter |
| Submitter | `tx/submitter.rs` | `seq_gate`, the locals of each call | `submit`, `wait_for_receipt` | watcher's cache, nonce gate, EV gate, relays, node |
| Nonce gate | `tx/nonce_manager.rs` | `next: Mutex<Option<u64>>` | `reserve`, `resync` | node |
| EV gate | `tx/ev_gate.rs` | - | `allow` | watcher (head, mints of a block) |
| Relays | `tx/relay.rs` | - | `send_raw` | MEV-Blocker, Flashbots, public node |
| Builder | `tx/builder.rs` | - | `build_mine_tx` | - |
| Mining contract | `Hash.sol` (docs), `chain/contract.rs` | `currentDifficulty`, `usedProofs`, `totalMints`, mints per block | `mine`, `miningState`, `getChallenge`, `_adjustDifficulty` | - |
| Metrics | `metrics/*.rs` | bounded channel, the appender's file | `emit`, `run_appender` | swap task, consumer and heartbeat emit |
| State machine | `state.rs` | one atomic | `set`, `get` | nobody uses it |
| Fakes | `*/fake.rs` | their own | test drivers of the three traits | tests |
| Wallet, config, RPC, errors, CLI, bench, build script | `wallet/`, `config.rs`, `rpc.rs`, `error.rs`, `main.rs`, `bin/`, `build.rs` | - | parsing, cryptography of libraries, plain data | - |

### What is hard, and what makes each part correct

* **Submitter and nonce gate.** `reserve()` takes its lock twice with an await
  in between; `submit()` can end by `?` at every await, some of them after a
  transaction was sent; a transaction can be mined after its timeout, evicted,
  rolled back, or survive the process; and the endpoint that answers may be behind
  the chain. Correct means: the two-step counter is safe under the gate, nonces
  leave no gap that would block the account, a settled nonce is not signed again
  (short of a reorg, and of an endpoint that is further behind than confirmations
  are waited for), what is reported as mined is, and every caller gets an answer.
* **Chain watcher and swap task.** Head and state come from two queries; cache
  and channel are two writes; the channel drops what is sent without a receiver;
  the receiver marks before it applies. Correct means: no epoch is lost, and
  cache, channel and grinder agree in the order the submitter relies on.
* **GPU worker.** `hot_swap()` at any moment of a launch, orders copied to the
  device in two calls that may fail, a bounded channel that blocks the thread, a
  nonce that wraps. Correct means: a hit carries the epoch it was found for, the
  last orders arrive, nonces are left out only where a batch has a hit or the grid
  is rounded, none is tried twice, and the thread ends.
* **Kernel.** Threads race for `found` and `result`; the host reads both.
* **Contract, and the miner around it.** What the miner knows is always a little
  old: the cache lags behind the chain, orders behind the cache, hits behind the
  orders, and a transaction is executed in a later block than it was weighed for.
  Correct means: what is thrown away as stale was worthless, what is sent fails
  only for what changed under it, and what is reported is what the contract did.
  The difficulty's arithmetic must follow the rate of the mints at its edges: no
  block taken, a difficulty of one, a checked `* 4`.
* **EV gate.** A strict comparison, a cap, a cost of zero; two amounts in different
  units.
* **Metrics.** A full bus drops events, a failed file ends the sink. Correct means
  that nobody else notices.
* **Fakes.** `drive_one_hit` and `advance_blocks` give up locks half-way. They
  stand behind every test of the wiring, and `FakeGrinder` in builds without CUDA.
  Correct means: hits solve the epoch they name, no nonce is skipped, the channel
  holds the chain's epoch and difficulty.

PROJECT.json lists every hazard at the line where it bites, with the properties
that would catch it going wrong.

## 2. Plan

Most important first; each module is one component, with constants for its
parameters, one action per step between two awaits, and no RECURSIVE operator.

| # | Module | Models | Status |
|---|---|---|---|
| 1 | `TxSubmitter`, `SerialCalls`, `MCTxSubmitter`, `TxSubmitter_proofs`, `TxSubmitterChain_proofs` | submitter, nonce gate, relays, chain, crashes; what the gate promises its callers | done, safety and refinement proved |
| 2 | `ChainWatcher`, `MCChainWatcher`, `ChainWatcher_proofs` | watcher, watch channel, start-up, swap task | done, safety proved |
| 3 | `GpuWorker`, `MCGpuWorker`, `GpuWorker_proofs` | launch loop, runtime, hit channel, shutdown | done, safety proved |
| 4 | `MineKernel`, `MCMineKernel`, `BatchSearch`, `MineKernel_proofs` | a launch's threads, the race for `found` and `result`, the host's reads; what a launch promises | done, refinement proved |
| 5 | `FakeChain`, `FakeGrinder`, `MetricsBus`, `FakePipeline`, `HitStream`, `MCFakePipeline`, `FakePipeline_proofs` | the fakes behind the tasks of `run()`, the metrics bus and its appender; what channel and consumer promise | done, safety and refinement proved |
| 6 | `HashContract`, `EvGate`, `Miner`, `MCMiner`, `Miner_proofs` | `mine()`, its limits and its difficulty; the gate's arithmetic; watcher, grinder, consumer and contract composed, and what they promise the hits (`SerialCalls` again) | done, safety and refinement proved |
| 7 | more proofs | the refinements of `SerialCalls`, the order of epochs in the watcher, the end of mining, `overtaken` as a bound: done. Left: `raced` of `FakeGrinder` as a bound rather than an exception; that a launch of `GpuWorker` is one of `BatchSearch` | partly |
| 8 | faults of the composed miner | restarts and reorgs in `Miner`, which 1 and 2 have and 6 leaves to them | later |

Theorems worth proving: the type invariant and the safety properties of 1 to 6
(done, section 6), and those of 7 and 8.

## 3. The modules

Each module's header says what its variables stand for, and PROJECT.json "map"
gives the source lines of each definition.

**Conventions.** An action is the code between two points at which another task,
thread, relay or block can interfere: an `.await`, an unlock, a CUDA call. The
program point is a variable (`pc`, `wpc`, `app`). An RPC call fails by a disjunct
of its action. Operators called *Faulty variant* are not part of the
specification: each is a plausible slip in the code, and PROJECT.json "mutants"
says which property catches it when it replaces the definition next to it.

### TxSubmitter

One call of `submit()` per hit, any number at once. In `main.rs` the only caller
is a task that awaits each call before it takes the next hit, so there one call
runs at a time; but `submit` takes `&self` behind an `Arc`, the trait says that
implementations "gate concurrency internally" (`tx/mod.rs:15`), and `seq_gate` is
there for exactly that, so the model lets calls arrive together. Every behaviour
of the sequential caller is among the modelled ones.

* `gate` is the FIFO queue of the tokio Mutex, its holder first. `Return` drops
  the guard whatever the outcome: it is released by scope.
* `next`, `nonce` : `reserve()` is `ReserveRead` then `ReserveWrite`, because the
  lock on `next` is released in between. `Resync` is one step: `seq_gate` is held.
* `SendRelay` is one turn of the fan-out loop. A relay's answer may be lost after
  it took the transaction, so acceptance and answer are independent. A node
  refuses a nonce that the chain has used.
* `Poll`, `Confirm` are the two queries of `wait_for_receipt`; `DeepEnough` is its
  `saturating_sub`.
* `HeadLag` is by how many blocks the endpoint may be behind: the head in `Confirm`
  and the account's count in `ReserveRead` and `Resync` are then answered as of one
  of the last blocks (`Views`, `Counts`), each answer of another one, and a relay's
  node judges a nonce by what it sees.
* The chain is external: a block takes the account's pending transactions in
  nonce order (`NewBlock`), may be rolled back (`Reorg`), mempools forget
  (`Evict`). The account is the miner's own: nobody else sends from it.
* `Crash` is the end of the process and its restart: calls are gone, the counter
  is `None`, the pool and the chain stay.

Abstracted: prices and fees (they decide outcomes, and each outcome is possible),
calldata, signatures, the sleeps of polling loops.

`SerialCalls` is what the gate promises: calls queue, are served one at a time in
the order in which they came, and each is over once; a stop of the process ends
those that wait with the one that is served. A call is being served from its first
step past the lock; one that the epoch check turns away is never served.
`SerialSpec` says that `TxSubmitter` implements it, with `gate` as the queue.

### ChainWatcher

`wpc` is the line of control of `start()` and then `poll_loop()`; `app` that of
`run()` from `start()`'s return to the end of the swap task. A tokio watch channel is a value with a
version: `send` replaces the value only if there is a receiver, and `main.rs`
drops the one that `channel()` made. `seen # version` is `changed()`. A challenge
is a hash of the epoch, the contract and the miner, so it is named by the epoch.

### GpuWorker

`launch_loop` is an OS thread: `Top` (flag and `pending.take()`), the two copies
of `GpuRuntime::hot_swap`, `Launch`, `Send`. A hit remembers, beside its
`epoch_id`, what the device held when it was found. The histories `orders`,
`first`, `launches`, `found`, `tried` and `repeated` serve the properties only.
`NonceSpace` is 2^64 in the code; the random start is below its quarter (`0..1<<62`).

The grid has `(batch_size / block_size) as u32` blocks, rounded down and cut to 32
bits (`GridCount`), while `nonce_start` moves on by `batch_size`: nothing checks that
the one divides the other, and the remainder is never tried. In a launch that finds
a nonce, the threads that look at `found` late return without having tried theirs, so
any nonempty part of the grid may have tried; the rest is left out, too, although the
challenge may go on for many more hits. `RegionIsSwept` says what is left: launches
without a hit go through their batches up to the remainder, and no nonce is tried
twice before `batch_size` times the launches exceeds the nonces. A grid without a
block is refused by CUDA, which only `Fault` then answers. That a launch finds a
nonce if its grid has one is what `MineKernel` shows; here `Launch` leaves it open
whether there is one.

### MineKernel and BatchSearch

`launch_mine()` call by call (`host`) and the threads of the grid it starts, each
in three steps: the early exit, the hash with its `atomicCAS`, the write of
`result`. `found` is loaded without synchronising beside the others' `atomicCAS`,
so `Enter` may see its value or the zero from before the launch. `found_buf` and
`result_buf` live from launch to launch, as in the code. `digest` gives every
nonce some number; `Limbs` is `to_be_bytes` in words on the host and `bswap64` of
the sponge's lanes in the kernel, and `Less` is the kernel's comparison of four
words. What Keccak computes, and that the challenge's lanes are loaded in its byte
order, is left out. `winner` is a history.

`BatchSearch` is what the launch loop relies on: a call picks, in one step, a
nonce that the grid covers whose digest is below the difficulty as the contract compares
them (`Hash.sol:355`), or none if there is none, or fails. `MineKernel` implements
it, with every `host` point between call and return mapped to "searching".

### FakeChain, FakeGrinder, MetricsBus, FakePipeline and HitStream

`FakePipeline` instantiates the two fakes and the bus and adds the tasks of
`run()`: `swap`, `seen` and `taken` are the swap task and its receiver, `inHand`
is the hit between `recv()` and the end of `submit()`, `submitted` is
`FakeSubmitter.submitted`. Callers of `FakeChain` and drivers of `FakeGrinder` are
processes of their own, because both types are shared (`Arc`, `Clone`).

* `FakeChain.Advance` and `Publish` are the halves of `advance_blocks()` around its
  `drop(g)`; the second reads difficulty and head again, and not the epoch. `Send`
  is tokio's: without a receiver nothing is replaced. `overtaken` remembers that
  two callers rolled the epoch at once, after which the channel may hold the older
  epoch: the code does not prevent it. Even then it holds the chain's difficulty,
  and no epoch that the chain has not reached.
* `FakeGrinder.Search` is the locked read with the search it determines, `Send` the
  awaited slot, `Bump` the second lock. `raced` remembers that the last
  `hot_swap()` came under a call, whose `Bump` then moves the new search on.
* `MetricsBus` is a number and the state of its appender, which may hang, end with
  a file error, or write.
* `HitStream` is what channel and consumer promise: what is submitted is what was
  sent, in that order, once, and eventually all of it. `found` is its `sent`.

### HashContract, EvGate and Miner

`HashContract` is `mine()` with all its reverts (`Closed` for those of every
sender, `Unproved` for the miner's own), the adjustment of the difficulty and the
halving. A transaction executes in the open block; nodes answer `miningState()`
from the last sealed one. `reward == 0` reverts as "supply", as in the code; the
supply is checked before the mint and clipped in it (`Exhausted`). Rival miners need only a good
proof; proofs of different senders never meet in `usedProofs`.

`EvGate.Allow` is exact where the code uses `f64`: reward and cost are integers, and
the ratio is a fraction of either sign (the configuration does not refuse one that
is zero or negative; NaN and infinity are left out). The reward is in base units of
HASH and the cost in wei of ETH, and gate and model compare the numbers as they are:
nothing here says that what is sent is worth its gas.

`Miner` EXTENDS both and takes the other parts at the grain at which they exchange
data: `Poll` and `Publish` (cache, then announcement), `Subscribe` and `Swap` (the
update waits in the watch channel while polls go on, is replaced by the next, or is
lost before main listens), `Launch` and `Find` (device orders, then hits), `Take`, `Weigh`, `Reject`, `Receipt` and `GiveUp` of
`submit()`, and `Execute` at any later time, also after the receipt's timeout.
`target` of a hit is a history: the code's `Hit` does not carry it. `decided` and
`mined` are histories of what `submit()` answered and what the contract did. A hit
waits in the channel, is served while `submit()` works on it, and is over when it is
answered: `AnswersSpec` says that this implements `SerialCalls`. The
account's nonces, relays, reorganisations and restarts are in `TxSubmitter` and
`ChainWatcher`; here a sent transaction is executed once or not at all, in any
order.

### WrapArithmetic

`WrapArithmetic` has no state: lemmas about wrapping integers for the proofs of
GpuWorker.

## 4. The runs

| Run | Instance | Shows |
|---|---|---|
| `submit_safety` | 2 hits, 2 relays, 1 confirmation, head lag 1, 2 blocks, 1 epoch change, 1 reorg, any crashes; hits symmetric; 2.2 M states | `TypeOK`, `GateProtectsCounter`, `CounterLeavesNoGap`, `SettledNonceNeverReissued`, `SettledIsBuried`, `SerialSpec` (refinement of `SerialCalls`) |
| `submit_liveness` | the same without reorgs, under `FairSpec` | `SubmitReturns` |
| `watcher` | epochs of 2 blocks, 5 blocks, 1 reorg, failing calls, restarts, under `FairSpec` | `TypeOK`, `GrinderHasCachedEpoch`, `CachedBeforeAnnounced`, `BlockNotAfterState`, `EpochsMoveForward`, `GrinderCatchesUp` |
| `worker` | 7 nonces in batches of 3 of which the blocks of 2 cover 2, 2 epochs, 2 targets, 2 hot swaps, 3 counted launches for each, a channel of 1, CUDA faults, Ctrl-C, under `FairSpec` | `TypeOK`, `HitsMatchOrders`, `RegionIsSwept`, `LastOrdersReachDevice`, `ShutdownEndsThread` |
| `kernel` | 2 blocks of 2 threads for batches of 5, 5 nonces, limbs of one bit, every assignment of 3 digests, any launches one after the other, CUDA faults | `TypeOK`, `FirstWinnerWins`, `SearchSpec` (refinement of `BatchSearch`) |
| `fakes` | epochs of 2 blocks, 2 targets, 2 callers, 1 driver, 3 nonces, a channel and a bus of one slot, an appender that may hang or fail, under `FairSpec` | `TypeOK`, `UpdateIsCurrent`, `HitsAreConsistent`, `NothingSkipped`, `LastUpdateIsApplied`, `StreamSpec` (refinement of `HitStream`) |
| `miner` | 3 blocks in epochs of 2, an adjustment every 2 mints, a halving every 2 mints, 3 mints a block, a supply of 17, words up to 11, 2 nonces, 2 gas costs, under `FairSpec` | `TypeOK`, `StaleIsDead`, `RevertHasCause`, `ReportMatchesContract`, `RetargetFollowsRate`, `MiningEndsForGood`, `AnswersSpec` (refinement of `SerialCalls`), `HitIsDecided` |
| `two_in_flight` | violation | a failed receipt poll leaves its transaction pending, and the next call sends another: "one in-flight tx at a time" (`submitter.rs:31`) does not hold |
| `silent_relay` | violation | the relays are asked one after the other, so one that never answers starves the rest and holds the gate: not "in parallel" (`submitter.rs:118`) |
| `lost_epoch` | violation | an epoch that changes before `run()` subscribes is never published, and the grinder works for the old one until the next change |
| `retarget_not_published` | violation | a difficulty change within an epoch is not published, against `chain/mod.rs:5` |
| `kernel_stopped_by_rpc` | violation | a `submit()` that waits for an RPC answer fills the channel and stops the GPU: the design says "RPC loss never stops the kernel" |

**Why the bounds are enough.** Two calls are the least that race, queue, and
follow one another after a failure; two relays make "accepted by one, refused by
the other" and "answer lost" differ; two blocks let both transactions be mined,
in one block or in two, and let one confirmation pass; one reorg separates every
property's before and after; an endpoint one block behind with one confirmation is the
boundary of `SettledNonceNeverReissued` (two blocks behind, and without its premise,
TLC finds a settled nonce handed out again). In the watcher five blocks of two-block epochs give
three epochs, so that an update can be overtaken; crossing several epochs at once
is included since polls may be slow. In the worker two swaps are one applied and
one that comes during a launch, or one overtaken while pending; a channel of one
together with the hit being submitted holds hits of two epochs; seven nonces in
batches of three make the third launch wrap between its two threads.
`MaxLaunches` only stops the histories from counting. In the kernel two threads
race within a block and across blocks, a third sees the race lost, and of five
nonces the grid of four wraps and leaves one out; two digests differ in
the last limb, and the third is greater by its first limb and less by the others.
Two callers are the least that can interleave in `FakeChain`; the second driver,
which multiplies the states and adds no new step between two of the first, is
covered by the proofs, which hold for any number. In `miner` the numbers are
chosen so that all causes of a revert occur, each probed by an invariant that
denies it: three mints fill a block; the second and the fourth mint in one block
make two adjustments with no block taken between them; 4 times a difficulty of 3
exceeds the word of 11; the mints pay 8, 4, 4 and, clipped by the supply of 17, 1,
where `miningState()` announced 8, 8, 4 and 4, and the fifth reverts; the second
nonce solves one difficulty and not the next. Three blocks hold an epoch
change with hits of both epochs under way.

`CHECK_DEADLOCK FALSE` everywhere, since each bounded system really stops: every
call has returned and no block is left, the process has ended, or a CUDA call has
failed.

**Fairness.** `FairSpec` of TxSubmitter: a call's next step happens unless it is
the failing one (`Progress`), which says that the runtime schedules the task, and
that RPC calls and relays answer; `Expire` says that time passes. No fairness is
assumed of the chain, so `SubmitReturns` holds although nothing may ever be mined.
ChainWatcher: tasks run and the interval ticks; `miningState()` may fail
infinitely often, not for ever (strong fairness of `PollState`, `StartState`).
GpuWorker: the thread runs, and a `submit()` that main awaits returns, which is
what `SubmitReturns` gives; no fairness of `Fault`, `Shutdown` or `HotSwap`.
FakePipeline: swap task and consumer are scheduled; none of the appender, whose
disk may hang (`jsonl.rs` blocks its tokio worker in file I/O, so this rests on the
multi-threaded runtime that `main` starts). Miner: the consumer is scheduled and every await of `submit()`
ends, the receipt's at its timeout; none of chain, watcher or grinder.

## 5. What the code does and its comments do not say

The five violation runs of section 4 each refute a sentence of the repository;
PROJECT.json "findings" quotes it. Besides those, met while modelling and not given a run:

* `nonce_manager.rs:19` says the caller must resync on failure. When building or
  signing fails after `reserve()` (`submitter.rs:115`), and when `resync()` itself
  fails (`.ok()`), the counter stays ahead of the chain until a later resync. The
  model counts these calls in `leaked`, and `CounterLeavesNoGap` bounds what they do.
* The epoch is compared once, before the gas price and the EV gate are awaited
  (`submitter.rs:66`); the design document puts a second check after the EV gate.
* The public endpoint is the last relay of the list and always gets the
  transaction: not the "fallback" of `README.md:8`.
* The depth of a receipt is computed from two queries (`submitter.rs:199-204`), and
  the block hash is not compared: a reorg in between makes a rolled-back
  transaction count as won. `SettledIsBuried` holds for the calls without such a
  reorg, and says so.
* With an endpoint that is further behind than `confirmations` (2 in the example
  configuration), `resync()` after a settled call, and `reserve()` after a restart, can
  get a count that hands the settled nonce out again: `nonce_manager.rs:26` and `:36`
  ask the same provider whose head `submitter.rs:199` guards against.
* The EV gate compares a reward in units of HASH with a cost in wei of ETH without a
  price (`submitter.rs:81`, `:91`, `ev_gate.rs:30-35`). Its comparison is strict: at
  exactly `min_ratio` it refuses, where the comment says "at least" (`ev_gate.rs:9`) and
  `README.md:254` says to refuse what is below; the design document (lines 351 and 439)
  has the strict comparison. The gate's theorem here, `GateIsMonotone`, says nothing
  about profit.
* `batch_size` is divided by `threads_per_block` without a check
  (`kernel_ffi.rs:161`), while `nonce_start` moves on by the whole `batch_size`
  (`worker.rs:144`): the remainder is never tried, nor are the nonces of threads that
  give up after a hit (`keccak_grinder.cu:138`).
* `shutdown()` sets a flag and returns; `gpu/mod.rs:22` says that it waits.
* A CUDA error ends the launch thread, and the process goes on without it.
* The design document says the hit channel and the bus drop the **oldest** entry when
  full (lines 135-136). The hit channel blocks the sender, and the bus drops the
  newest (`try_send`, `metrics/mod.rs:31`).
* `remaining_wei` is cached and never read: after the end of the supply the EV gate
  goes on weighing the nominal reward, and lets transactions pass that revert
  (cause "supply" in `RevertHasCause`'s runs).
* The EV gate asks for the mints of the head, a block that is already sealed
  (`ev_gate.rs:22`). The cap of the block that will execute the transaction is met
  with a revert.
* `miningState()` reports the reward of the mints so far, while `mine()` pays that of
  the next mint: the mint that opens an era pays half of what was reported
  (`Hash.sol:449` and `:368`). `ReportMatchesContract` therefore says "not more".
* Two `advance_blocks()` that roll the epoch at once can publish in the wrong order,
  and `FakeChain`'s channel then holds the older epoch (`chain/fake.rs:59`). A
  `hot_swap()` under `drive_one_hit()` is followed by a write of the old search's
  `next_nonce` (`gpu/fake.rs:59`), and the new search skips what is below it.
  `NothingSkipped` and the epoch in `UpdateIsCurrent` hold for the runs without, and
  say so.
* An adjustment that overflows reverts the mint that was due to make it
  (`Hash.sol:402-407`), and with it every later one, since time makes the scaled
  difficulty only larger (`MiningEndsForGood`). The contract's numbers leave a wide
  margin: at the genesis difficulty the mints would have to come 2^32 times slower
  than wanted.
* `worker.rs:133` says the submitter verifies the hash on the CPU; it does not.

## 6. Proofs

Every safety property that the passing runs check is also proved, for all values
of the constants. The assumptions are those that the modules state by name and
TLC evaluates in every run: that `None` is none of the values it stands beside, and
that sizes and bounds are natural numbers.

| Module | Theorems | Invariant |
|---|---|---|
| `TxSubmitter_proofs` | `TypeCorrect`, `CounterIsProtected`, `ServesOneAtATime` | `IInv` |
| `TxSubmitterChain_proofs` | `NoGap`, `SettledNoncesAreSpent`, `SettledAreBuried` | `JInv` |
| `ChainWatcher_proofs` | `WatcherTypes`, `NoUpdateLost`, `CacheComesFirst`, `BlockIsNotAhead`, `EpochsNeverGoBack` | `WInv`, `ForwardInv` |
| `GpuWorker_proofs` | `WorkerTypes`, `HitsAreRight`, `RegionSwept` | `GInv`, `SweepInv` |
| `FakePipeline_proofs` | `TypeIsCorrect`, `UpdateStaysCurrent`, `HitsStayConsistent`, `NothingIsSkipped`, `ImplementsHitStream` | `Typed`, `ChannelInv`, `GrinderInv`, `StreamInv` |
| `Miner_proofs` | `TypeIsCorrect`, `StaleStaysDead`, `RevertsHaveCause`, `ReportsMatchContract`, `DifficultyFollowsRate`, `EndIsForGood`, `HitsAreAnsweredInOrder`, `GateIsMonotone` | `Typed`, `EpochInv`, `OnceInv`, `UsedInv`, `RewardInv`, `PaidInv` |
| `MineKernel_proofs` | `KernelTypes`, `FirstWinner`, `KernelSearchesBatch` | `KInv` |

**The gate (`IInv`).** `GateProtectsCounter` is not inductive alone. `IInv` adds
the queue's discipline: no call is queued twice, exactly the calls between their
first await and their return are queued, and only the first of them is past the
lock (`OneInside`). Then a step of a call can only be a step of the holder, so no
two calls are between `ReserveRead` and the end: the counter that one read is the
one it writes. With it every step is one of `SerialCalls` or a stutter
(`ServesOneAtATime`): a call that enters the queue is new, the call that moves past
the lock is the head of the queue and alone, the one that returns is the head, and a
crash ends exactly those that are queued.

**Counter and chain (`JInv`).** `SettledIsBuried` needs that a receipt still says
what the chain holds as long as no reorg came after it, and that nobody has an
outcome before it is decided (`ReceiptInv`). The counter's two properties need
what holds of a nonce while it is only read and not yet written, and that every
nonce in the chain is below the account's count (`CountInv`). `leaked` counts the
calls that ended without a resync since the last one: `CounterLeavesNoGap` bounds
by it how far the counter can run ahead, so failures add up by one each and one
resync heals them all. A count that lags can only be lower, so it does not undo that.
A nonce is settled once its receipt is `Confirmations` blocks deep, so an
endpoint that is behind by no more than that has seen it: each count it answers
is above the nonce, and neither resync nor the first `reserve()` after a crash can
bring it back. That is the premise `HeadLag =< Confirmations`; a reorg ends the
argument, and the property says so.

**The watcher (`WInv`).** `ChannelInv` says what the receiver's seen version
promises: if it has seen the newest, what it took is what the channel holds.
`OrderInv` puts chain, cache, channel and grinder in one order; it holds until a
reorg, because what is read later is then not older. `ForwardInv` adds what
`EpochsNeverGoBack` needs of the values on their way to the grinder: until the
chain rolls back, the epoch the swap task has taken is not newer than the channel's,
and the grinder's orders are not newer than what the task has taken. That the
channel itself does not go back follows from `OrderInv`.

**The worker (`GInv`, `SweepInv`).** `DeviceInv` follows orders from `hot_swap()`
to the device and says that between the two copies no launch can happen. With it
a hit is right when it is made, and orders are never unmade. `SweepInv` says that
`start` is `first` plus the launches' batches, modulo the nonce space, that what was
tried lies in these batches, and that a launch without a hit has tried its whole
grid. It rests on the lemmas of `WrapArithmetic`: wrapping may be put off
(`WrapLater`), and within one turn different offsets are different nonces
(`WrapIsInjective`), so a launch within the first turn repeats nothing.
`ThreadsCover` bounds the grid by the batch for any sizes, with the rounding and
the cut to 32 bits.

**The kernel (`KInv`).** Either nobody has won and every thread that is through
has a nonce that loses, or exactly one thread has won and no other writes
(`RaceInv`). `LessIsLess` shows that comparing limbs is comparing numbers, for
limbs of any width, and `GridNumbers` that blocks and threads number the grid.
`KernelSearchesBatch` maps the host's last read to the search's `Reply` and every
other step, except call and failure, to a stutter.

**The fakes.** `ChannelInv` says that what was sent and what is yet to be published
is of an epoch that the chain has reached and that the channel's target is the
chain's difficulty, and that, short of two rolls at once, a caller that has yet to
publish holds the chain's epoch, and otherwise the channel holds it. `GrinderInv` gives every call of `drive_one_hit()` what its locals promise: a
nonce that solves the orders it read, below which, while no swap came, every
solution has been sent. `StreamInv` cuts `found` in three: submitted, in hand, queued.
From it every step is a step of `HitStream` or a stutter. The fairness in
`HitStream!FairSpec` is left to TLC.

**The miner.** `EpochInv` orders the epochs of hits, device, orders, channel, cache and
sealed block; a hit that the cache calls stale is then older than every block to
come. `OnceInv` follows a hit from `swept` to one of hand, pool and `mined` and
shows that it is in the contract at most once. It is also why a find is an arrival of
`SerialCalls`: its nonce and epoch are neither queued, served nor answered yet; the
lemmas on `KeysOf` say that the channel and the consumer's hand together are the
queue. `UsedInv` says that a used proof
has a transaction of the miner that used it. `RewardInv` and `PaidInv` bound what
is paid by what was cached before, because the total of mints only grows and
rewards only fall. `Adjustment` is the arithmetic of the difficulty, over the
lemmas about integer quotients. `EndIsForGood` needs no invariant but the types: while
mining has ended, nothing it depends on changes except the blocks that pass, in which
the scaled difficulty grows (`OverflowStays`). `GateIsMonotone` compares products of
larger factors (`ProductsGrow`); with a ratio below zero everything passes that the cap lets pass. That rewards fall with the era follows from the
halving by induction, which the prover cannot do; `HalvedAssumption` states it
beside the halving, and TLC evaluates both.

**Model-checked only.** `SubmitReturns`, `GrinderCatchesUp`,
`LastOrdersReachDevice`, `ShutdownEndsThread`, `LastUpdateIsApplied`,
`HitIsDecided` and the fairness in `StreamSpec`: liveness rests on fairness and
ENABLED, which are outside the prover. The properties of the five violation runs
are refuted by TLC.

## 7. Not modelled

* The Keccak permutation and the ABI layout of the challenge: fixed data flow
  without state. Every property holds for any digest of epoch and nonce.
* `state.rs`: nothing in the program uses it, and it is one atomic cell.
* Wallet, configuration, RPC connection and error types: parsing, libraries, plain
  data. The command line and the pre-flight checks of `main.rs`.
* The benchmark and the build script.
* The genesis sale and the Uniswap hook of the contract, which mining never calls;
  `claimFees()` and the ERC-20 part.
* The contents, the layout and the redaction of metrics and log lines; the bus is
  the number of its events.
* In `Miner`: restarts, reorganisations, relays and account nonces, which
  `TxSubmitter` and `ChainWatcher` have; a transaction that runs out of its 120 000
  gas (`submitter.rs:73`), which would revert for none of the causes of
  `RevertHasCause`; rounding of the EV gate's `f64`; a second
  random start of an epoch that meets a nonce of the first.
