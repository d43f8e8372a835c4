---------------------------- MODULE TxSubmitter ----------------------------
(***************************************************************************)
(* TxSubmitter::submit (src/tx/submitter.rs) with the NonceGate            *)
(* (src/tx/nonce_manager.rs) and the relay fan-out it drives, against a    *)
(* node, mempools and a chain that may lose, delay or roll back what they  *)
(* were sent.                                                              *)
(*                                                                         *)
(* submit() is called once per hit, so a call is named by its hit.  Every  *)
(* .await of the code at which another task, a relay or the chain can run  *)
(* ends an action.  submit() keeps its locals (the tx nonce, the relay     *)
(* that won, the receipt) on its own stack: they are functions of the hit. *)
(* The transaction a call signs is determined by its hit and its nonce, so *)
(* it is named by its hit too.                                             *)
(***************************************************************************)
EXTENDS Integers, Sequences, FiniteSets

CONSTANTS
  Hits,            \* the hits handed to submit(), one call each
  None,            \* Rust's Option::None
  RelayCount,      \* how many relays TxSubmitter was built with
  Confirmations,   \* TxSubmitter.confirmations, cfg.mining.confirmations
  HeadLag,         \* how many blocks an endpoint's answer may be behind the head when used
  MaxEpoch,        \* bound: the last epoch the watcher caches
  MaxHead,         \* bound: the height the chain reaches
  MaxReorgs        \* bound: how often the chain rolls back

ASSUME HitsAssumption == IsFiniteSet(Hits) /\ None \notin Hits
ASSUME NumbersAssumption ==
  /\ RelayCount \in Nat \ {0}
  /\ {Confirmations, HeadLag, MaxEpoch, MaxHead, MaxReorgs} \subseteq Nat

VARIABLES
  pc,         \* where each call is
  epochOf,    \* Hit.epoch_id
  gate,       \* seq_gate: a tokio Mutex, its FIFO queue with the holder first
  next,       \* NonceGate.next
  nonce,      \* each call's tx_nonce, and the nonce of the tx it signed
  fan,        \* the relay whose future each call is awaiting
  winner,     \* each call's winner_tx: the relay, None while there is none
  expired,    \* each call: start.elapsed() > timeout
  receipt,    \* the receipt each call holds
  outcome,    \* what each call has decided to return
  cached,     \* the epoch of ChainWatcher's last_state
  head,       \* the chain: its height,
  minedAt,    \*   the block each call's transaction is in, 0 for none,
  succeeded,  \*   the calls whose transaction was mined with status 1,
  reorgs,     \*   and how often it has rolled back
  pool,       \* the calls whose transaction some mempool or relay holds
  leaked      \* history: the calls that reserved and ended without a resync since
              \*   the last one that succeeded

callVars  == <<epochOf, nonce, fan, winner, receipt, outcome>>
chainVars == <<head, minedAt, succeeded, reorgs>>
vars == <<pc, gate, next, expired, cached, pool, leaked, callVars, chainVars>>

----------------------------------------------------------------------------

\* The program points of submit() at which a call holds a reserved nonce.
Reserved == {"sign", "fan", "unsent", "poll", "confirm", "settle"}
\* The program points of submit() that the seq_gate guard covers.
Inside   == {"gas", "ev", "reserve", "advance"} \cup Reserved
\* "done" has returned; "lost" died with the process.
Points   == {"new", "gate", "done", "lost"} \cup Inside
Outcomes == {"included", "reverted", "stale", "ev", "relays", "timeout", "error"}
Settled  == {"included", "reverted"}

\* The transactions on the chain, and the miner account's transaction count.
Mined   == {h \in Hits : minedAt[h] # 0}
TxCount == Cardinality(Mined)

\* The blocks as of which an RPC endpoint may answer: it can be behind the head.
Views == {v \in 0..head : v >= head - HeadLag}

\* The account's count as of block v, and get_transaction_count()'s answers.
CountAt(v) == Cardinality({h \in Mined : minedAt[h] =< v})
Counts     == {CountAt(v) : v \in Views}

Receipts == [block : Nat, ok : BOOLEAN, fork : Nat]

\* None is neither a number nor an outcome nor a receipt.
ASSUME NoneAssumption == None \notin Int \cup Outcomes \cup Receipts

\* Faulty variant: nothing serialises the callers that queue on the gate.
HoldsUnlocked(h) == \E i \in 1..Len(gate) : gate[i] = h

\* The call for h has acquired seq_gate.
Holds(h) == gate # <<>> /\ Head(gate) = h
At(h, p) == pc[h] = p
Goto(h, p) == pc' = [pc EXCEPT ![h] = p]

\* submit() returns o: the guard is dropped and the next waiter gets the lock.
Return(h, o) ==
  /\ Goto(h, "done")
  /\ outcome' = [outcome EXCEPT ![h] = o]
  /\ gate' = Tail(gate)

Init ==
  /\ pc        = [h \in Hits |-> "new"]
  /\ epochOf   = [h \in Hits |-> 0]
  /\ gate      = <<>>
  /\ next      = None
  /\ nonce     = [h \in Hits |-> None]
  /\ fan       = [h \in Hits |-> 1]
  /\ winner    = [h \in Hits |-> None]
  /\ expired   = [h \in Hits |-> FALSE]
  /\ receipt   = [h \in Hits |-> None]
  /\ outcome   = [h \in Hits |-> None]
  /\ cached    = 0
  /\ head      = 0
  /\ minedAt   = [h \in Hits |-> 0]
  /\ succeeded = {}
  /\ reorgs    = 0
  /\ pool      = {}
  /\ leaked    = 0

----------------------------------------------------------------------------
(* submit(), in program order.                                             *)

\* The caller hands over a hit, tagged with an epoch the watcher has cached by
\* now, and queues on seq_gate.lock().await.
Submit(h) ==
  /\ At(h, "new")
  /\ \E e \in 0..cached : epochOf' = [epochOf EXCEPT ![h] = e]
  /\ gate' = Append(gate, h)
  /\ Goto(h, "gate")
  /\ UNCHANGED <<next, expired, cached, pool, leaked, chainVars,
                 nonce, fan, winner, receipt, outcome>>

\* The guard is acquired and the stale-epoch check reads the cached state.
\* (mining_state() answers from the cache, which start() fills: it cannot fail.)
CheckEpoch(h) ==
  /\ At(h, "gate") /\ Holds(h)
  /\ \/ epochOf[h] # cached /\ Return(h, "stale")
     \/ epochOf[h] = cached /\ Goto(h, "gas") /\ UNCHANGED <<gate, outcome>>
  /\ UNCHANGED <<next, expired, cached, pool, leaked, chainVars,
                 epochOf, nonce, fan, winner, receipt>>

\* get_gas_price().
GasPrice(h) ==
  /\ At(h, "gas")
  /\ \/ Goto(h, "ev") /\ UNCHANGED <<gate, outcome>>
     \/ Return(h, "error")
  /\ UNCHANGED <<next, expired, cached, pool, leaked, chainVars,
                 epochOf, nonce, fan, winner, receipt>>

\* EvGate::allow(): its mints_in_block() call may fail, and its verdict depends
\* on prices and on other miners.
EvCheck(h) ==
  /\ At(h, "ev")
  /\ \/ Goto(h, "reserve") /\ UNCHANGED <<gate, outcome>>
     \/ \E o \in {"ev", "error"} : Return(h, o)
  /\ UNCHANGED <<next, expired, cached, pool, leaked, chainVars,
                 epochOf, nonce, fan, winner, receipt>>

\* NonceGate::reserve(), first half: the counter, or the count that the endpoint
\* answers when the counter was never set.
ReserveRead(h) ==
  /\ At(h, "reserve")
  /\ \/ /\ \E n \in IF next = None THEN Counts ELSE {next} :
             nonce' = [nonce EXCEPT ![h] = n]
        /\ Goto(h, "advance")
        /\ UNCHANGED <<gate, outcome>>
     \/ /\ next = None
        /\ Return(h, "error")
        /\ UNCHANGED nonce
  /\ UNCHANGED <<next, expired, cached, pool, leaked, chainVars,
                 epochOf, fan, winner, receipt>>

\* NonceGate::reserve(), second half: the counter is locked again and written.
ReserveWrite(h) ==
  /\ At(h, "advance")
  /\ next' = nonce[h] + 1
  /\ Goto(h, "sign")
  /\ UNCHANGED <<gate, expired, cached, pool, leaked, callVars, chainVars>>

\* The transaction is built and signed.  A failure returns with ?, and does not
\* resync the counter.
Sign(h) ==
  /\ At(h, "sign")
  /\ \/ /\ Goto(h, "fan")
        /\ fan' = [fan EXCEPT ![h] = 1]
        /\ winner' = [winner EXCEPT ![h] = None]
        /\ UNCHANGED <<gate, outcome, leaked>>
     \/ /\ Return(h, "error")
        /\ leaked' = leaked + 1
        /\ UNCHANGED <<fan, winner>>
  /\ UNCHANGED <<next, expired, cached, pool, chainVars,
                 epochOf, nonce, receipt>>

\* Faulty variant: one turn too many.
MoreRelaysOffByOne(h) == fan[h] =< RelayCount

\* relay_futs still has a future after the one being awaited.
MoreRelays(h) == fan[h] < RelayCount

\* One turn of the fan-out loop: the relay's future is awaited to its answer.
\* A relay refuses a nonce that the chain, as it sees it, has used; the answer of
\* one that took the transaction may be lost.  The first relay in list order to
\* answer Ok wins.
SendRelay(h) ==
  LET accepts == pool' = pool \cup {h} /\ \E c \in Counts : nonce[h] >= c
      taken(w) ==
        /\ winner' = [winner EXCEPT ![h] = w]
        /\ IF MoreRelays(h)
           THEN fan' = [fan EXCEPT ![h] = @ + 1] /\ UNCHANGED pc
           ELSE Goto(h, IF w = None THEN "unsent" ELSE "poll") /\ UNCHANGED fan
  IN /\ At(h, "fan")
     /\ \/ accepts /\ taken(IF winner[h] = None THEN fan[h] ELSE winner[h])
        \/ accepts /\ taken(winner[h])
        \/ UNCHANGED pool /\ taken(winner[h])
     /\ UNCHANGED <<gate, next, expired, cached, leaked, chainVars,
                    epochOf, nonce, receipt, outcome>>

\* Faulty variant: the counter is left alone.
ResyncSkipped == UNCHANGED <<next, leaked>>

\* NonceGate::resync(); the caller discards its error with .ok().  The count that
\* the endpoint answers is written in the same step: seq_gate is held, so nobody
\* sees next between.
Resync ==
  \/ next' \in Counts /\ leaked' = 0
  \/ leaked' = leaked + 1 /\ UNCHANGED next

\* No relay answered Ok: resync, then Dropped("all relays failed").
DropUnsent(h) ==
  /\ At(h, "unsent")
  /\ Resync
  /\ Return(h, "relays")
  /\ UNCHANGED <<expired, cached, pool, chainVars,
                 epochOf, nonce, fan, winner, receipt>>

\* Faulty variant: the timeout starts anew in each turn and is never reached.
NeverTimedOut(h) == h \notin Hits

\* start.elapsed() > timeout.
TimedOut(h) == expired[h]

\* A turn of wait_for_receipt()'s loop: the timeout is tested first, then the
\* receipt is asked for.  (A turn that finds none sleeps and changes nothing.)
Poll(h) ==
  /\ At(h, "poll")
  /\ \/ /\ TimedOut(h)
        /\ outcome' = [outcome EXCEPT ![h] = "timeout"]
        /\ Goto(h, "settle")
        /\ UNCHANGED <<gate, receipt, leaked>>
     \/ /\ ~TimedOut(h) /\ minedAt[h] # 0
        /\ receipt' = [receipt EXCEPT ![h] = [block |-> minedAt[h],
                                              ok    |-> h \in succeeded,
                                              fork  |-> reorgs]]
        /\ Goto(h, "confirm")
        /\ UNCHANGED <<gate, outcome, leaked>>
     \/ /\ ~TimedOut(h)
        /\ Return(h, "error")
        /\ leaked' = leaked + 1
        /\ UNCHANGED receipt
  /\ UNCHANGED <<next, expired, cached, pool, chainVars,
                 epochOf, nonce, fan, winner>>

\* Faulty variant: the block of the receipt counts as a confirmation.
DeepEnoughInclusive(reported, block) ==
  (IF reported >= block THEN reported - block + 1 ELSE 0) >= Confirmations

\* head.saturating_sub(included_at) >= confirmations, with the head the
\* endpoint reports.
DeepEnough(reported, block) ==
  (IF reported >= block THEN reported - block ELSE 0) >= Confirmations

\* The head is asked for and compared with the receipt's block.
Confirm(h) ==
  /\ At(h, "confirm")
  /\ \/ \E reported \in Views :
          \/ /\ DeepEnough(reported, receipt[h].block)
             /\ outcome' = [outcome EXCEPT ![h] =
                              IF receipt[h].ok THEN "included" ELSE "reverted"]
             /\ Goto(h, "settle")
             /\ UNCHANGED <<gate, leaked>>
          \/ /\ ~DeepEnough(reported, receipt[h].block)
             /\ Goto(h, "poll")
             /\ UNCHANGED <<gate, outcome, leaked>>
     \/ Return(h, "error") /\ leaked' = leaked + 1
  /\ UNCHANGED <<next, expired, cached, pool, chainVars,
                 epochOf, nonce, fan, winner, receipt>>

\* After the receipt or the timeout: resync, then the outcome is returned.
Settle(h) ==
  /\ At(h, "settle")
  /\ Resync
  /\ Return(h, outcome[h])
  /\ UNCHANGED <<expired, cached, pool, chainVars,
                 epochOf, nonce, fan, winner, receipt>>

\* One step of the call for h.
Call(h) ==
  \/ CheckEpoch(h)  \/ GasPrice(h)  \/ EvCheck(h)
  \/ ReserveRead(h) \/ ReserveWrite(h)
  \/ Sign(h)        \/ SendRelay(h) \/ DropUnsent(h)
  \/ Poll(h)        \/ Confirm(h)   \/ Settle(h)

----------------------------------------------------------------------------
(* The environment.                                                        *)

\* 90 s have passed since wait_for_receipt() took its start time.
Expire(h) ==
  /\ pc[h] \in {"poll", "confirm"} /\ ~expired[h]
  /\ expired' = [expired EXCEPT ![h] = TRUE]
  /\ UNCHANGED <<pc, gate, next, cached, pool, leaked, callVars, chainVars>>

\* ChainWatcher caches a later epoch while calls are under way.
WatcherUpdate ==
  /\ cached < MaxEpoch
  /\ cached' = cached + 1
  /\ UNCHANGED <<pc, gate, next, expired, pool, leaked, callVars, chainVars>>

\* A block: it takes transactions of the account in nonce order from the count.
NewBlock ==
  /\ head < MaxHead
  /\ \E S \in SUBSET (pool \ Mined) :
       /\ {nonce[h] : h \in S} = TxCount .. (TxCount + Cardinality(S) - 1)
       /\ head' = head + 1
       /\ minedAt' = [h \in Hits |-> IF h \in S THEN head + 1 ELSE minedAt[h]]
       /\ pool' = pool \ S
       /\ \E ok \in SUBSET S : succeeded' = succeeded \cup ok
  /\ UNCHANGED <<pc, gate, next, expired, cached, leaked, reorgs, callVars>>

\* The chain rolls back d blocks; what they held returns to the mempools.
Reorg ==
  /\ reorgs < MaxReorgs
  /\ \E d \in 1..head :
       LET undone == {h \in Hits : minedAt[h] > head - d}
       IN /\ head' = head - d
          /\ minedAt' = [h \in Hits |-> IF h \in undone THEN 0 ELSE minedAt[h]]
          /\ succeeded' = succeeded \ undone
          /\ pool' = pool \cup undone
          /\ reorgs' = reorgs + 1
  /\ UNCHANGED <<pc, gate, next, expired, cached, leaked, callVars>>

\* A private relay gives up on a transaction, or a mempool evicts it.
Evict(h) ==
  /\ h \in pool
  /\ pool' = pool \ {h}
  /\ UNCHANGED <<pc, gate, next, expired, cached, leaked, callVars, chainVars>>

\* The process stops (Ctrl-C, a fault) and is started again by the supervisor:
\* every call is gone and the counter is None, as NonceGate::new makes it.
Crash ==
  /\ gate # <<>> \/ next # None
  /\ pc' = [h \in Hits |-> IF pc[h] \in Inside \cup {"gate"} THEN "lost" ELSE pc[h]]
  /\ gate' = <<>>
  /\ next' = None
  /\ leaked' = 0
  /\ UNCHANGED <<expired, cached, pool, callVars, chainVars>>

Environment ==
  \/ \E h \in Hits : Submit(h) \/ Expire(h) \/ Evict(h)
  \/ WatcherUpdate \/ NewBlock \/ Reorg \/ Crash

Next == Environment \/ \E h \in Hits : Call(h)

Spec == Init /\ [][Next]_vars

\* Every call runs on, every RPC call and every relay answers, and time passes.
\* (A call is not promised an error: waiting for a receipt may go on until the
\* timeout.)
Progress(h) == Call(h) /\ outcome'[h] # "error"

FairSpec ==
  Spec /\ \A h \in Hits : WF_vars(Progress(h)) /\ WF_vars(Expire(h))

----------------------------------------------------------------------------
(* What submit() must keep.                                                *)

TypeOK ==
  /\ pc        \in [Hits -> Points]
  /\ epochOf   \in [Hits -> 0..MaxEpoch]
  /\ gate      \in Seq(Hits)
  /\ next      \in Nat \cup {None}
  /\ nonce     \in [Hits -> Nat \cup {None}]
  /\ fan       \in [Hits -> 1..RelayCount]
  /\ winner    \in [Hits -> 1..RelayCount \cup {None}]
  /\ expired   \in [Hits -> BOOLEAN]
  /\ receipt   \in [Hits -> Receipts \cup {None}]
  /\ outcome   \in [Hits -> Outcomes \cup {None}]
  /\ cached    \in 0..MaxEpoch
  /\ head      \in 0..MaxHead
  /\ minedAt   \in [Hits -> 0..MaxHead]
  /\ succeeded \subseteq Hits
  /\ reorgs    \in 0..MaxReorgs
  /\ pool      \subseteq Hits
  /\ leaked    \in Nat

\* reserve() unlocks the counter between reading it and writing it, and awaits
\* the chain in between.  It is seq_gate, held around it, that keeps what was
\* read true until the write, and the write true until the transaction is over.
GateProtectsCounter ==
  \A h \in Hits :
    /\ At(h, "advance") => next \in {None, nonce[h]}
    /\ pc[h] \in Reserved => next = nonce[h] + 1

\* Until the chain rolls back: a call that fails after it reserved, or whose resync
\* fails, puts the counter ahead of the account's count by one nonce at most, and
\* the next resync that succeeds takes back all of it, also when the count that it
\* reads is behind.  In particular, while no call has failed so, the nonce of a
\* transaction being sent leaves no gap below it.
CounterLeavesNoGap ==
  reorgs = 0 =>
    /\ (\A h \in Hits : pc[h] \notin Reserved) =>
         next = None \/ next =< TxCount + leaked
    /\ \A h \in Hits : pc[h] \in Reserved => nonce[h] =< TxCount + leaked

\* Until the chain rolls back, the nonce of a transaction that was reported mined is
\* used, and if the endpoint lags by no more blocks than confirmations were waited
\* for, no count it answers, to resync() or after a restart, hands it out again.
SettledNonceNeverReissued ==
  \A h \in Hits :
    outcome[h] \in Settled /\ reorgs = 0 =>
      /\ nonce[h] < TxCount
      /\ HeadLag =< Confirmations =>
           /\ next = None \/ next > nonce[h]
           /\ \A g \in Hits : At(g, "advance") => nonce[g] > nonce[h]

\* Unless the chain rolled back since its receipt was read, a transaction that is
\* reported is on the chain in the receipt's block, under the confirmations the
\* operator asked for, and was reported with the status it has there.
SettledIsBuried ==
  \A h \in Hits :
    outcome[h] \in Settled /\ receipt[h].fork = reorgs =>
      /\ minedAt[h] = receipt[h].block /\ minedAt[h] > 0
      /\ head - minedAt[h] >= Confirmations
      /\ (outcome[h] = "included") <=> (h \in succeeded)

\* However calls, failures and crashes interleave, seq_gate serves the calls one at
\* a time and in the order they queued, and a call that is over has left the queue
\* to the next: it serves SerialCalls.
Serial == INSTANCE SerialCalls WITH
  Calls   <- Hits,
  queue   <- gate,
  serving <- {h \in Hits : pc[h] \in Inside},
  over    <- {h \in Hits : pc[h] \in {"done", "lost"}}
SerialSpec == Serial!Spec

\* A caller that queues on seq_gate gets an answer: the calls before it end, in
\* the worst case by their receipt timeout, and each of them releases the gate.
SubmitReturns == \A h \in Hits : At(h, "gate") ~> pc[h] \in {"done", "lost"}

----------------------------------------------------------------------------
(* What the comments and documents of the repository say, and the code does  *)
(* not do.                                                                   *)

\* submitter.rs:31, nonce_manager.rs:7: "one in-flight tx at a time".  (A
\* restarted process is allowed to find a transaction of its predecessor.)
NeverTwoInFlight ==
  (\A h \in Hits : pc[h] # "lost") =>
    Cardinality({h \in pool : nonce[h] >= TxCount}) =< 1

\* submitter.rs:118: "Fan out to all relays in parallel".  A relay that does not
\* answer holds up neither the other relays nor the call.
FanOutReachesEveryRelay ==
  \A h \in Hits : At(h, "fan") ~> fan[h] > 1 \/ ~At(h, "fan")

\* FairSpec, but the first relay in the list may accept the connection and never
\* answer.
SilentRelaySpec ==
  Spec /\ \A h \in Hits :
    /\ WF_vars(Expire(h))
    /\ WF_vars((~At(h, "fan") \/ fan[h] > 1) /\ Progress(h))

=============================================================================
