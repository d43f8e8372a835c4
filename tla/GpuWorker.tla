------------------------------ MODULE GpuWorker ------------------------------
(***************************************************************************)
(* GpuWorker (src/gpu/worker.rs): the launch loop on its own OS thread,    *)
(* the GpuRuntime it drives (src/gpu/kernel_ffi.rs), the hot_swap() and    *)
(* shutdown() calls of other tasks, and the bounded channel of hits that   *)
(* main.rs empties, one submit() at a time.                                *)
(*                                                                         *)
(* A challenge is a hash of its epoch, so epoch e names it, and None is    *)
(* B256::ZERO.  Whether a launch finds a nonce is up to the hash; which of *)
(* several solutions it reports, and which threads give up because another *)
(* has found one, is the kernel's affair.                                  *)
(***************************************************************************)
EXTENDS Integers, Sequences, FiniteSets

CONSTANTS
  None,         \* Rust's Option::None, and B256::ZERO
  MaxEpoch,     \* bound: the epochs hot_swap() is called with
  Targets,      \* the targets it is called with
  NonceSpace,   \* how many nonces a u64 holds
  BatchSize,    \* cfg.gpu.batch_size
  BlockSize,    \* cfg.gpu.threads_per_block
  GridWord,     \* how many values a u32 holds, grid_count's type
  Capacity,     \* capacity of the hit channel, 16 in start()
  MaxSwaps,     \* bound: how often hot_swap() is called
  MaxLaunches   \* bound: how many launches per challenge the history counts

ASSUME NoneAssumption == None \notin Int \cup Targets
ASSUME SizesAssumption ==
  /\ {NonceSpace, BatchSize, BlockSize, GridWord, Capacity} \subseteq Nat \ {0}
  /\ {MaxEpoch, MaxSwaps, MaxLaunches} \subseteq Nat
  /\ 4 =< NonceSpace /\ BatchSize =< NonceSpace

VARIABLES
  pc,         \* where the launch loop is
  pending,    \* WorkerState.pending
  taken,      \* pending_opt, the orders being applied
  device,     \* GpuRuntime's challenge_buf and target_buf
  current,    \* current_epoch, with the challenge it stands for
  start,      \* nonce_start
  hits,       \* the channel of hits, oldest first
  receiving,  \* the hit main's consumer is submitting
  shutdown,   \* the shutdown flag
  main,       \* run(): "running", then "returned"
  orders,     \* history: every pair hot_swap() was given, oldest first
  first,      \* history: nonce_start of the current region
  launches,   \* history: how many launches it has had
  found,      \* history: which of them, counted from 0, found a nonce
  tried,      \* history: the nonces they tried
  repeated    \* history: whether they tried one twice

history  == <<first, launches, found, tried, repeated>>
loopVars == <<taken, device, current, start, history>>
vars == <<pc, pending, loopVars, hits, receiving, shutdown, main, orders>>

Epochs == 0..MaxEpoch
Order(e, t) == [epoch |-> e, target |-> t]
Orders == [epoch : Epochs, target : Targets]

\* A hit: epoch_id, and what the device held when the kernel found it.
HitOf(e, d) == [epoch |-> e, challenge |-> d.challenge, target |-> d.target]

\* rand::thread_rng().gen_range(0..(1u64 << 62)).
RandomStart == 0..(NonceSpace \div 4 - 1)

Init ==
  /\ pc = "top"
  /\ pending = None /\ taken = None
  /\ device = [challenge |-> None, target |-> None]
  /\ current = None
  /\ start \in RandomStart
  /\ hits = <<>> /\ receiving = None
  /\ shutdown = FALSE /\ main = "running"
  /\ orders = <<>>
  /\ first = start /\ launches = 0
  /\ found = {} /\ tried = {} /\ repeated = FALSE

----------------------------------------------------------------------------
(* launch_loop().                                                          *)

\* while !shutdown, and pending.take().
Top ==
  /\ pc = "top"
  /\ IF shutdown
     THEN pc' = "ended" /\ UNCHANGED <<pending, taken>>
     ELSE /\ pc' = IF pending = None THEN "ready" ELSE "challenge"
          /\ taken' = pending
          /\ pending' = None
  /\ UNCHANGED <<device, current, start, hits, receiving, shutdown, main,
                 orders, history>>

\* GpuRuntime::hot_swap(), first half: the challenge is copied to the device.
CopyChallenge ==
  /\ pc = "challenge"
  /\ device' = [device EXCEPT !.challenge = taken.epoch]
  /\ pc' = "target"
  /\ UNCHANGED <<pending, taken, current, start, hits, receiving, shutdown,
                 main, orders, history>>

\* Second half: the target is copied and the stream synchronised.  The loop then
\* moves to the new epoch and to a fresh region of nonces.
CopyTarget ==
  /\ pc = "target"
  /\ device' = [device EXCEPT !.target = taken.target]
  /\ current' = taken.epoch
  /\ start' \in RandomStart
  /\ first' = start' /\ launches' = 0
  /\ found' = {} /\ tried' = {} /\ repeated' = FALSE
  /\ pc' = "ready"
  /\ UNCHANGED <<pending, taken, hits, receiving, shutdown, main, orders>>

\* No challenge yet: sleep, and look again.
Idle ==
  /\ pc = "ready" /\ current = None
  /\ pc' = "top"
  /\ UNCHANGED <<pending, loopVars, hits, receiving, shutdown, main, orders>>

\* (batch_size / block_size) as u32.
GridCount == (BatchSize \div BlockSize) % GridWord

\* Faulty variant: one thread per block.
GridThreads == 0..(GridCount - 1)

\* The threads of a launch: grid_count blocks of block_size.
Threads == 0..(GridCount * BlockSize - 1)

\* Faulty variant: a plain + where nonce_start has to wrap.
NextStartUnwrapped == start + BatchSize

\* nonce_start.wrapping_add(batch_size).
NextStart == (start + BatchSize) % NonceSpace

\* What the history notes of a launch whose threads S tried their nonces: thread
\* gid tries nonce_start + gid, in u64 arithmetic.  (It stops after MaxLaunches.)
Note(S) ==
  LET now == {(start + gid) % NonceSpace : gid \in S}
  IN  /\ tried' = tried \cup now
      /\ repeated' = (repeated \/ now \cap tried # {})
      /\ launches' = launches + 1

\* launch_mine(), which CUDA refuses for a grid without a block (Fault).  If no thread
\* finds a solution, all of them try; if one does, those that look at found after it
\* return without having tried.  The loop moves on by batch_size all the same.
Launch ==
  /\ pc = "ready" /\ current # None /\ GridCount > 0
  /\ start' = NextStart
  /\ \/ pc' = "top"
        /\ IF launches < MaxLaunches THEN Note(Threads) /\ UNCHANGED found
                                     ELSE UNCHANGED <<launches, found, tried, repeated>>
     \/ pc' = "send"
        /\ IF launches < MaxLaunches
           THEN /\ \E S \in SUBSET Threads \ {{}} : Note(S)
                /\ found' = found \cup {launches}
           ELSE UNCHANGED <<launches, found, tried, repeated>>
  /\ UNCHANGED <<pending, taken, device, current, hits, receiving, shutdown,
                 main, orders, first>>

\* Faulty variant: the hit is tagged with the orders that wait to be applied.
TagPending == IF pending = None THEN current ELSE pending.epoch

\* Hit.epoch_id.
Tag == current

\* Faulty variant: the loop insists on sending.
SendInsisting ==
  /\ pc = "send"
  /\ main = "running" /\ Len(hits) < Capacity
  /\ hits' = Append(hits, HitOf(Tag, device))
  /\ pc' = "top"
  /\ UNCHANGED <<pending, loopVars, receiving, shutdown, main, orders>>

\* blocking_send(): it waits for a free slot, and fails once the receiver is gone.
Send ==
  /\ pc = "send"
  /\ \/ /\ main = "running" /\ Len(hits) < Capacity
        /\ hits' = Append(hits, HitOf(Tag, device))
        /\ pc' = "top"
     \/ /\ main = "returned"
        /\ pc' = "ended"
        /\ UNCHANGED hits
  /\ UNCHANGED <<pending, loopVars, receiving, shutdown, main, orders>>

\* A CUDA call fails: ? ends the loop, an error is logged, the thread is gone.
Fault ==
  /\ pc \in {"challenge", "target"} \/ (pc = "ready" /\ current # None)
  /\ pc' = "faulted"
  /\ UNCHANGED <<pending, loopVars, hits, receiving, shutdown, main, orders>>

----------------------------------------------------------------------------
(* The other tasks.                                                        *)

\* Faulty variant: orders that are already waiting are kept.
HotSwapIfFree(e, t) ==
  /\ main = "running" /\ Len(orders) < MaxSwaps
  /\ pending' = IF pending = None THEN Order(e, t) ELSE pending
  /\ orders' = Append(orders, Order(e, t))
  /\ UNCHANGED <<pc, loopVars, hits, receiving, shutdown, main>>

\* Grinder::hot_swap().
HotSwap(e, t) ==
  /\ main = "running" /\ Len(orders) < MaxSwaps
  /\ pending' = Order(e, t)
  /\ orders' = Append(orders, Order(e, t))
  /\ UNCHANGED <<pc, loopVars, hits, receiving, shutdown, main>>

\* main's consumer: hit_rx.recv(), and the end of the submit() it awaits.
Receive ==
  /\ main = "running" /\ receiving = None /\ hits # <<>>
  /\ receiving' = Head(hits)
  /\ hits' = Tail(hits)
  /\ UNCHANGED <<pc, pending, loopVars, shutdown, main, orders>>

Submitted ==
  /\ main = "running" /\ receiving # None
  /\ receiving' = None
  /\ UNCHANGED <<pc, pending, loopVars, hits, shutdown, main, orders>>

\* Ctrl-C: run() calls shutdown(), which sets the flag and returns at once.
Shutdown ==
  /\ main = "running" /\ ~shutdown
  /\ shutdown' = TRUE
  /\ UNCHANGED <<pc, pending, loopVars, hits, receiving, main, orders>>

\* run() returns: the runtime drops its tasks, the hit receiver with them.
Return ==
  /\ main = "running" /\ shutdown
  /\ main' = "returned"
  /\ hits' = <<>> /\ receiving' = None
  /\ UNCHANGED <<pc, pending, loopVars, shutdown, orders>>

LaunchLoop == Top \/ CopyChallenge \/ CopyTarget \/ Idle \/ Launch \/ Send
Consumer   == Receive \/ Submitted
Next ==
  \/ LaunchLoop \/ Fault \/ Consumer \/ Shutdown \/ Return
  \/ \E e \in Epochs, t \in Targets : HotSwap(e, t)

Spec == Init /\ [][Next]_vars

\* The thread runs, and submit() returns (TxSubmitter's SubmitReturns).
FairSpec ==
  Spec /\ WF_vars(LaunchLoop) /\ WF_vars(Receive) /\ WF_vars(Submitted) /\ WF_vars(Return)

----------------------------------------------------------------------------
(* What the worker must keep.                                              *)

Hits == [epoch : Epochs, challenge : Epochs, target : Targets]

TypeOK ==
  /\ pc \in {"top", "challenge", "target", "ready", "send", "faulted", "ended"}
  /\ pending \in Orders \cup {None}
  /\ taken \in Orders \cup {None}
  /\ device \in [challenge : Epochs \cup {None}, target : Targets \cup {None}]
  /\ current \in Epochs \cup {None}
  /\ start \in 0..(NonceSpace - 1)
  /\ hits \in Seq(Hits) /\ Len(hits) =< Capacity
  /\ receiving \in Hits \cup {None}
  /\ shutdown \in BOOLEAN
  /\ main \in {"running", "returned"}
  /\ orders \in Seq(Orders)
  /\ first \in RandomStart
  /\ launches \in 0..MaxLaunches
  /\ found \subseteq 0..(MaxLaunches - 1)
  /\ tried \subseteq 0..(NonceSpace - 1)
  /\ repeated \in BOOLEAN

\* A hit that anybody holds carries the epoch of the challenge the device had,
\* although hot_swap() replaces the orders in the middle of a launch; and that
\* challenge and target came from one hot_swap() call, although they are copied
\* to the device one after the other and either copy may fail.
HitsMatchOrders ==
  \A h \in {hits[i] : i \in 1..Len(hits)} \cup ({receiving} \ {None}) :
    /\ h.epoch = h.challenge
    /\ \E i \in 1..Len(orders) : orders[i] = Order(h.challenge, h.target)

\* The launches of one challenge go through its nonces batch by batch, also where
\* nonce_start wraps.  What they leave out is the rest of a batch in which a nonce
\* was found; the remainder at the end of each batch, if block_size does not divide
\* it; and what the u32 cuts off a grid that does not fit it.  They try none twice
\* before the nonces are used up.
RegionIsSwept ==
  /\ BatchSize \div BlockSize < GridWord =>
       \A n \in (0..(launches - 1)) \ found,
          i \in 0..(BatchSize - (BatchSize % BlockSize) - 1) :
            (first + n * BatchSize + i) % NonceSpace \in tried
  /\ launches * BatchSize =< NonceSpace => ~repeated

\* The orders of the last hot_swap() reach the device, whatever calls came in
\* between, unless others replace them or the thread ends.
LastOrder == IF orders = <<>> THEN None ELSE orders[Len(orders)]

LastOrdersReachDevice ==
  \A e \in Epochs, t \in Targets :
    LastOrder = Order(e, t) ~>
      \/ pc \in {"faulted", "ended"}
      \/ device = [challenge |-> e, target |-> t]
      \/ LastOrder # Order(e, t)

\* After Ctrl-C the thread ends, also when it waits for a slot in the channel.
ShutdownEndsThread == shutdown ~> pc \in {"faulted", "ended"}

----------------------------------------------------------------------------
(* What the documents and comments of the repository say, and the code does  *)
(* not do.                                                                   *)

\* Design document 3.3: "RPC loss never stops the kernel", and 3.1: a full hit
\* channel drops its oldest hit.  The launch loop gets past a hit it has found,
\* even if submit() never returns.
KernelOutlivesSubmitter == pc = "send" ~> pc # "send"

\* FairSpec, but submit() may wait for an RPC answer for ever.
StuckSubmitterSpec ==
  Spec /\ WF_vars(LaunchLoop) /\ WF_vars(Receive) /\ WF_vars(Return)

=============================================================================
