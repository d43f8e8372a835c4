---------------------- MODULE TxSubmitterChain_proofs ----------------------
(***************************************************************************)
(* Proofs about TxSubmitter and the chain, for any hits, relays and        *)
(* bounds: what is reported as mined is buried, the nonce counter leaves   *)
(* no gap, and the nonce of a settled transaction is not handed out        *)
(* again.  They rest on the inductive invariant of TxSubmitter_proofs.     *)
(***************************************************************************)
EXTENDS TxSubmitter_proofs

USE NoneAssumption, NumbersAssumption

----------------------------------------------------------------------------
(* The inductive invariants.                                               *)

\* The program points at which a call has not decided what to return.
Undecided == {"new", "gate"} \cup (Inside \ {"settle"})

\* The program points before a call hands its transaction to a relay.
Unsent == {"new", "gate", "gas", "ev", "reserve", "advance", "sign"}

\* A receipt says what the chain holds, until the chain rolls back.
ReceiptInv ==
  \A h \in Hits :
    /\ pc[h] \in Undecided => outcome[h] = None
    /\ minedAt[h] =< head
    /\ At(h, "confirm") \/ outcome[h] \in Settled => receipt[h] # None
    /\ receipt[h] # None =>
         /\ receipt[h].fork =< reorgs
         /\ receipt[h].fork = reorgs =>
              /\ minedAt[h] = receipt[h].block /\ minedAt[h] > 0
              /\ receipt[h].ok <=> h \in succeeded

\* While the chain has not rolled back: a nonce on the chain is below the account's
\* count as of its block; counter and nonces in use are above every settled nonce, if
\* the lag of the endpoint is covered by the confirmations; and the nonce reserve()
\* has read is no further ahead than the failures explain.
CountInv ==
  /\ \A h \in Hits : pc[h] \in Unsent => h \notin pool /\ minedAt[h] = 0
  /\ reorgs = 0 =>
       /\ \A h \in Mined : nonce[h] \in Nat /\ nonce[h] < CountAt(minedAt[h])
       /\ HeadLag =< Confirmations => \A h \in Hits : outcome[h] \in Settled =>
            /\ next = None \/ next > nonce[h]
            /\ \A g \in Hits : At(g, "advance") => nonce[g] > nonce[h]
       /\ \A h \in Hits : At(h, "advance") => nonce[h] =< TxCount + leaked

BuriedInv == ReceiptInv /\ SettledIsBuried
JInv == IInv /\ BuriedInv /\ CountInv /\ CounterLeavesNoGap

----------------------------------------------------------------------------
(* What a step of a call leaves alone.                                     *)

LEMMA CallIsLocal ==
  ASSUME IInv, NEW h \in Hits, Call(h)
  PROVE  /\ UNCHANGED chainVars
         /\ \A g \in Hits \ {h} :
              /\ pc'[g] = pc[g] /\ nonce'[g] = nonce[g]
              /\ receipt'[g] = receipt[g] /\ outcome'[g] = outcome[g]
              /\ g \in pool' <=> g \in pool
<1>1. \A g \in Hits \ {h} : pc'[g] = pc[g]
  BY CallKeepsGate DEF IInv
<1> USE DEF IInv, TypeOK, callVars, Return
<1>2. CASE CheckEpoch(h) \/ GasPrice(h) \/ EvCheck(h)
  BY <1>1, <1>2 DEF CheckEpoch, GasPrice, EvCheck
<1>3. CASE ReserveRead(h) \/ ReserveWrite(h)
  BY <1>1, <1>3 DEF ReserveRead, ReserveWrite
<1>4. CASE Sign(h)      BY <1>1, <1>4 DEF Sign
<1>5. CASE SendRelay(h)
  <2>1. /\ UNCHANGED <<chainVars, nonce, receipt, outcome>>
        /\ pool' = pool \cup {h} \/ pool' = pool
    BY <1>5 DEF SendRelay
  <2> QED BY <1>1, <2>1
<1>6. CASE DropUnsent(h) \/ Settle(h)
  BY <1>1, <1>6 DEF DropUnsent, Settle
<1>7. CASE Poll(h)      BY <1>1, <1>7 DEF Poll
<1>8. CASE Confirm(h)   BY <1>1, <1>8 DEF Confirm
<1> QED
  BY <1>2, <1>3, <1>4, <1>5, <1>6, <1>7, <1>8 DEF Call

\* Where a call is when it takes a step, and what the step does to its decision:
\* only Poll, Confirm and Settle come near a settled outcome.
LEMMA CallDecides ==
  ASSUME IInv, NEW h \in Hits, Call(h)
  PROVE  /\ pc[h] \in Inside \cup {"gate"}
         /\ \/ /\ ~Poll(h) /\ ~Confirm(h) /\ ~Settle(h)
               /\ receipt'[h] = receipt[h] /\ pc[h] \in Undecided
               /\ \/ pc'[h] \in Inside \ {"settle", "confirm"} /\ outcome'[h] = outcome[h]
                  \/ pc'[h] = "done" /\ outcome'[h] \notin Settled
            \/ Poll(h) /\ pc[h] = "poll"
            \/ Confirm(h) /\ pc[h] = "confirm"
            \/ Settle(h) /\ pc[h] = "settle" /\ pc'[h] = "done"
                /\ receipt'[h] = receipt[h] /\ outcome'[h] = outcome[h]
<1>1. \A p \in Points : Goto(h, p) => pc'[h] = p
  BY CallMoves DEF IInv
<1>2. ASSUME NEW o \in Outcomes \cup {None}, Return(h, o)
      PROVE  pc'[h] = "done" /\ outcome'[h] = o
  BY <1>2, CallReturns DEF IInv, Return, TypeOK
<1>3. ASSUME NEW p, At(h, p), Poll(h) \/ Confirm(h) \/ Settle(h)
      PROVE  p \in {"poll", "confirm", "settle"}
  BY <1>3 DEF Poll, Confirm, Settle, At
<1> USE DEF At, Points, Inside, Reserved, Undecided, Outcomes, Settled
<1>4. CASE CheckEpoch(h) BY <1>1, <1>2, <1>3, <1>4 DEF CheckEpoch
<1>5. CASE GasPrice(h)   BY <1>1, <1>2, <1>3, <1>5 DEF GasPrice
<1>6. CASE EvCheck(h)
  <2>1. pc[h] = "ev" /\ UNCHANGED receipt
    BY <1>6 DEF EvCheck
  <2>2. \/ pc'[h] = "reserve" /\ outcome' = outcome
        \/ pc'[h] = "done" /\ outcome'[h] \in {"ev", "error"}
    BY <1>1, <1>2, <1>6 DEF EvCheck
  <2> QED BY <1>3, <2>1, <2>2
<1>7. CASE ReserveRead(h)  BY <1>1, <1>2, <1>3, <1>7 DEF ReserveRead
<1>8. CASE ReserveWrite(h) BY <1>1, <1>3, <1>8 DEF ReserveWrite, callVars
<1>9. CASE Sign(h)         BY <1>1, <1>2, <1>3, <1>9 DEF Sign
<1>10. CASE SendRelay(h)
  <2>1. UNCHANGED <<receipt, outcome>> /\ pc[h] = "fan"
    BY <1>10 DEF SendRelay
  <2>2. UNCHANGED pc \/ Goto(h, "unsent") \/ Goto(h, "poll")
    BY <1>10 DEF SendRelay
  <2> QED BY <1>1, <1>3, <2>1, <2>2
<1>11. CASE DropUnsent(h)  BY <1>2, <1>3, <1>11 DEF DropUnsent
<1>12. CASE Poll(h)        BY <1>12 DEF Poll
<1>13. CASE Confirm(h)     BY <1>13 DEF Confirm
<1>14. CASE Settle(h)
  <2>1. outcome[h] \in Outcomes \cup {None}
    BY DEF IInv, TypeOK
  <2> QED BY <1>2, <1>14, <2>1 DEF Settle
<1> QED
  BY <1>4, <1>5, <1>6, <1>7, <1>8, <1>9, <1>10, <1>11, <1>12, <1>13, <1>14 DEF Call

----------------------------------------------------------------------------
(* Receipts, and what is reported.                                         *)

\* The depth that Confirm computes is the depth on the chain, or less.
LEMMA DeepIsBuried ==
  ASSUME NEW reported \in Views, NEW block \in Nat,
         head \in Nat, block =< head, DeepEnough(reported, block)
  PROVE  head - block >= Confirmations
BY DEF DeepEnough, Views

LEMMA ReceiptFields ==
  ASSUME NEW b \in Nat, NEW k, NEW S, NEW f \in Nat,
         NEW r, r = [block |-> b, ok |-> k \in S, fork |-> f]
  PROVE  r # None /\ r.fork = f /\ r.block = b /\ (r.ok <=> k \in S)
<1>1. r \in Receipts
  BY DEF Receipts
<1> QED BY <1>1

\* One call's part of BuriedInv.
Buried(h) ==
  /\ pc[h] \in Undecided => outcome[h] = None
  /\ minedAt[h] =< head
  /\ At(h, "confirm") \/ outcome[h] \in Settled => receipt[h] # None
  /\ receipt[h] # None =>
       /\ receipt[h].fork =< reorgs
       /\ receipt[h].fork = reorgs =>
            /\ minedAt[h] = receipt[h].block /\ minedAt[h] > 0
            /\ receipt[h].ok <=> h \in succeeded
  /\ outcome[h] \in Settled /\ receipt[h].fork = reorgs =>
       /\ minedAt[h] = receipt[h].block /\ minedAt[h] > 0
       /\ head - minedAt[h] >= Confirmations
       /\ (outcome[h] = "included") <=> (h \in succeeded)

LEMMA BuriedByCall == BuriedInv <=> \A h \in Hits : Buried(h)
BY DEF BuriedInv, ReceiptInv, SettledIsBuried, Buried

LEMMA CallKeepsBuried ==
  ASSUME IInv, BuriedInv, NEW h \in Hits, Call(h)
  PROVE  BuriedInv'
<1>1. /\ UNCHANGED chainVars
      /\ \A g \in Hits \ {h} :
           /\ pc'[g] = pc[g] /\ receipt'[g] = receipt[g] /\ outcome'[g] = outcome[g]
  BY CallIsLocal
<1>2. \A g \in Hits \ {h} : Buried(g)'
  BY <1>1, BuriedByCall DEF Buried, At, chainVars
<1>3. Buried(h)
  BY BuriedByCall
<1>4. Buried(h)'
  <2>1. CASE /\ receipt'[h] = receipt[h] /\ pc[h] \in Undecided
             /\ \/ pc'[h] \in Inside \ {"settle", "confirm"} /\ outcome'[h] = outcome[h]
                \/ pc'[h] = "done" /\ outcome'[h] \notin Settled
    <3>1. outcome[h] \notin Settled
      BY <1>3, <2>1 DEF Buried, Settled, Outcomes
    <3>2. outcome'[h] \notin Settled /\ pc'[h] # "confirm"
      BY <2>1, <3>1
    <3>3. pc'[h] \in Undecided => outcome'[h] = None
      BY <1>3, <2>1 DEF Buried, Undecided, Inside, Reserved
    <3> QED BY <1>1, <1>3, <2>1, <3>2, <3>3 DEF Buried, At, chainVars
  <2>2. CASE Poll(h) /\ pc[h] = "poll"
    <3>1. outcome[h] = None
      BY <1>3, <2>2 DEF Buried, Undecided, Inside, Reserved
    <3>2. \/ /\ pc'[h] \in {"settle", "done"} /\ outcome'[h] \in {"timeout", "error"}
             /\ receipt' = receipt
          \/ /\ pc'[h] = "confirm" /\ outcome'[h] = None /\ minedAt[h] # 0
             /\ receipt'[h] = [block |-> minedAt[h], ok |-> h \in succeeded,
                               fork |-> reorgs]
      BY <2>2, <3>1 DEF Poll, IInv, TypeOK, Return, Goto
    <3>3. minedAt[h] \in Nat /\ reorgs \in Nat
      BY DEF IInv, TypeOK
    <3>4. CASE receipt' = receipt /\ pc'[h] \in {"settle", "done"}
                 /\ outcome'[h] \in {"timeout", "error"}
      BY <1>1, <1>3, <3>4 DEF Buried, At, chainVars, Settled, Undecided, Inside, Reserved
    <3>5. CASE /\ pc'[h] = "confirm" /\ outcome'[h] = None /\ minedAt[h] # 0
               /\ receipt'[h] = [block |-> minedAt[h], ok |-> h \in succeeded,
                                 fork |-> reorgs]
      <4>1. outcome'[h] \notin Settled
        BY <3>5 DEF Settled, Outcomes
      <4>2. /\ receipt'[h] # None
            /\ receipt'[h].fork = reorgs /\ receipt'[h].block = minedAt[h]
            /\ receipt'[h].ok <=> h \in succeeded
        BY <3>3, <3>5, ReceiptFields
      <4> QED BY <1>1, <1>3, <3>3, <3>5, <4>1, <4>2 DEF Buried, chainVars
    <3> QED BY <3>2, <3>4, <3>5
  <2>3. CASE Confirm(h) /\ pc[h] = "confirm"
    <3>1. outcome[h] = None /\ receipt[h] # None
      BY <1>3, <2>3 DEF Buried, Undecided, Inside, Reserved, At
    <3>2. /\ receipt' = receipt
          /\ \/ pc'[h] = "poll" /\ outcome'[h] = None
             \/ pc'[h] = "done" /\ outcome'[h] = "error"
             \/ /\ pc'[h] = "settle"
                /\ outcome'[h] = IF receipt[h].ok THEN "included" ELSE "reverted"
                /\ \E reported \in Views :
                      DeepEnough(reported, receipt[h].block)
      BY <2>3, <3>1 DEF Confirm, IInv, TypeOK, Return, Goto
    <3>3. CASE outcome'[h] \notin Settled /\ pc'[h] \in {"poll", "done"}
      <4>1. pc'[h] \in Undecided => outcome'[h] = None
        BY <3>2, <3>3 DEF Undecided, Inside, Reserved
      <4> QED BY <1>1, <1>3, <3>2, <3>3, <4>1 DEF Buried, At, chainVars
    <3>4. CASE /\ pc'[h] = "settle"
               /\ outcome'[h] = IF receipt[h].ok THEN "included" ELSE "reverted"
               /\ \E reported \in Views :
                      DeepEnough(reported, receipt[h].block)
      <4>1. receipt[h] \in Receipts /\ head \in Nat
        BY <3>1 DEF IInv, TypeOK
      <4>2. receipt[h].block \in Nat
        BY <4>1 DEF Receipts
      <4>3. receipt[h].block =< head => head - receipt[h].block >= Confirmations
        BY <3>4, <4>1, <4>2, DeepIsBuried
      <4>4. pc'[h] \notin Undecided /\ outcome'[h] \in {"included", "reverted"}
            /\ (outcome'[h] = "included" <=> receipt[h].ok)
        BY <3>4 DEF Undecided, Inside, Reserved
      <4> QED BY <1>1, <1>3, <3>1, <3>2, <4>3, <4>4 DEF Buried, At, chainVars
    <3> QED BY <3>2, <3>3, <3>4 DEF Settled, Outcomes
  <2>4. CASE pc'[h] = "done" /\ receipt'[h] = receipt[h] /\ outcome'[h] = outcome[h]
    BY <1>1, <1>3, <2>4 DEF Buried, At, chainVars, Undecided, Inside, Reserved
  <2> QED BY <2>1, <2>2, <2>3, <2>4, CallDecides
<1> QED
  BY <1>2, <1>4 DEF BuriedInv, ReceiptInv, SettledIsBuried, Buried

LEMMA EnvironmentKeepsBuried ==
  ASSUME IInv, BuriedInv, Environment
  PROVE  BuriedInv'
<1> SUFFICES ASSUME NEW h \in Hits PROVE Buried(h)'
  BY DEF BuriedInv, ReceiptInv, SettledIsBuried, Buried
<1>1. Buried(h)
  BY BuriedByCall
<1>2. /\ minedAt[h] \in Nat /\ head \in Nat /\ reorgs \in Nat
      /\ receipt[h] # None => receipt[h].fork \in Int
  BY DEF IInv, TypeOK, Receipts
<1>3. CASE \E g \in Hits : Submit(g)
  <2>1. PICK g \in Hits : Submit(g)
    BY <1>3
  <2>2. /\ UNCHANGED <<receipt, outcome, chainVars>>
        /\ pc'[h] = pc[h] \/ (pc[h] = "new" /\ pc'[h] = "gate")
    BY <2>1 DEF Submit, Goto, At, IInv, TypeOK
  <2> QED BY <1>1, <2>2 DEF Buried, Undecided, At, chainVars
<1>4. CASE (\E g \in Hits : Expire(g) \/ Evict(g)) \/ WatcherUpdate
  <2>1. UNCHANGED <<pc, receipt, outcome, chainVars>>
    BY <1>4 DEF Expire, Evict, WatcherUpdate, callVars
  <2> QED BY <1>1, <2>1 DEF Buried, At, chainVars
<1>5. CASE NewBlock
  <2>1. PICK S \in SUBSET (pool \ Mined) :
          /\ head' = head + 1
          /\ minedAt' = [g \in Hits |-> IF g \in S THEN head + 1 ELSE minedAt[g]]
          /\ \E ok \in SUBSET S : succeeded' = succeeded \cup ok
    BY <1>5 DEF NewBlock
  <2>2. UNCHANGED <<pc, receipt, outcome, reorgs>>
    BY <1>5 DEF NewBlock, callVars
  <2>3. minedAt'[h] =< head'
    BY <1>1, <1>2, <2>1 DEF Buried
  <2>4. minedAt[h] > 0 => minedAt'[h] = minedAt[h] /\ (h \in succeeded' <=> h \in succeeded)
    BY <1>2, <2>1 DEF Mined
  <2>5. \A d \in Int : head - d >= Confirmations => head' - d >= Confirmations
    BY <1>2, <2>1
  <2> QED BY <1>1, <1>2, <2>2, <2>3, <2>4, <2>5 DEF Buried, At
<1>6. CASE Reorg
  <2>1. PICK d \in 1..head :
          LET undone == {g \in Hits : minedAt[g] > head - d}
          IN /\ head' = head - d
             /\ minedAt' = [g \in Hits |-> IF g \in undone THEN 0 ELSE minedAt[g]]
             /\ reorgs' = reorgs + 1
    BY <1>6 DEF Reorg
  <2>2. UNCHANGED <<pc, receipt, outcome>>
    BY <1>6 DEF Reorg, callVars
  <2>3. minedAt'[h] =< head'
    BY <1>2, <2>1
  <2>4. receipt[h] # None => receipt'[h].fork =< reorgs' /\ receipt'[h].fork # reorgs'
    BY <1>1, <1>2, <2>1, <2>2 DEF Buried
  <2> QED BY <1>1, <2>2, <2>3, <2>4 DEF Buried, At
<1>7. CASE Crash
  <2>1. /\ UNCHANGED <<receipt, outcome, chainVars>>
        /\ pc'[h] = pc[h] \/ pc'[h] = "lost"
    BY <1>7 DEF Crash, callVars, IInv, TypeOK
  <2> QED BY <1>1, <2>1 DEF Buried, Undecided, Inside, Reserved, At, chainVars
<1> QED
  BY <1>3, <1>4, <1>5, <1>6, <1>7 DEF Environment

LEMMA InitBuried == Init => BuriedInv
BY DEF Init, BuriedInv, ReceiptInv, SettledIsBuried, At, Settled, Outcomes

LEMMA NextBuried == IInv /\ BuriedInv /\ [Next]_vars => BuriedInv'
<1> SUFFICES ASSUME IInv, BuriedInv, [Next]_vars PROVE BuriedInv'
  OBVIOUS
<1>1. CASE UNCHANGED vars
  BY <1>1 DEF vars, callVars, chainVars, BuriedInv, ReceiptInv, SettledIsBuried, At
<1> QED
  BY <1>1, CallKeepsBuried, EnvironmentKeepsBuried DEF Next

\* Whatever the chain and the relays do, a transaction that submit() reports as
\* included or reverted is on the chain with that status, in the block of its
\* receipt and under the confirmations asked for, unless the chain rolled back
\* after the receipt was read.
THEOREM SettledAreBuried == Spec => []SettledIsBuried
<1>1. Init => IInv /\ BuriedInv
  BY InitIInv, InitBuried
<1>2. IInv /\ BuriedInv /\ [Next]_vars => (IInv /\ BuriedInv)'
  BY NextIInv, NextBuried
<1>3. IInv /\ BuriedInv => SettledIsBuried
  BY DEF BuriedInv
<1> QED
  BY <1>1, <1>2, <1>3, PTL DEF Spec

----------------------------------------------------------------------------
(* The counter and the account's transaction count.                        *)

\* The ways in which a step of a call moves its nonce and the counter: before
\* reserve(), its two halves, with the nonce in hand, and the two ways out.
Before(h) ==
  /\ pc[h] \in Unsent \ {"new", "advance", "sign"}
  /\ pc'[h] \in {"gas", "ev", "reserve", "done"}
  /\ UNCHANGED <<next, leaked, pool, nonce>>
  /\ outcome'[h] \in Settled => outcome'[h] = outcome[h]

Reads(h) ==
  /\ pc[h] = "reserve" /\ pc'[h] = "advance"
  /\ UNCHANGED <<next, leaked, pool, outcome>>
  /\ nonce'[h] \in IF next = None THEN Counts ELSE {next}

Writes(h) ==
  /\ pc[h] = "advance" /\ pc'[h] = "sign"
  /\ next' = nonce[h] + 1
  /\ UNCHANGED <<leaked, pool, outcome, nonce>>

Keeps(h) ==
  /\ pc[h] \in Reserved /\ pc'[h] \in Reserved \ {"sign"}
  /\ UNCHANGED <<next, leaked, nonce>>

Fails(h) ==
  /\ pc[h] \in Reserved /\ pc'[h] = "done"
  /\ leaked' = leaked + 1 /\ outcome'[h] = "error" /\ UNCHANGED <<next, nonce>>

Ends(h) ==
  /\ pc[h] \in Reserved /\ pc'[h] = "done"
  /\ Resync /\ UNCHANGED nonce
  /\ outcome'[h] \in Settled => outcome'[h] = outcome[h]

LEMMA CallMovesCounter ==
  ASSUME IInv, NEW h \in Hits, Call(h)
  PROVE  Before(h) \/ Reads(h) \/ Writes(h) \/ Keeps(h) \/ Fails(h) \/ Ends(h)
<1>1. \A p \in Points : Goto(h, p) => pc'[h] = p
  BY CallMoves DEF IInv
<1>2. ASSUME NEW o \in Outcomes \cup {None}, Return(h, o)
      PROVE  pc'[h] = "done" /\ outcome'[h] = o
  BY <1>2, CallReturns DEF IInv, Return, TypeOK
<1> USE DEF At, Points, Inside, Reserved, Unsent, Outcomes, Settled, callVars
<1>3. CASE CheckEpoch(h)
  <2>1. pc[h] = "gate" /\ UNCHANGED <<next, leaked, pool, nonce>>
    BY <1>3 DEF CheckEpoch
  <2>2. \/ pc'[h] = "gas" /\ outcome' = outcome
        \/ pc'[h] = "done" /\ outcome'[h] = "stale"
    BY <1>1, <1>2, <1>3 DEF CheckEpoch
  <2> QED BY <2>1, <2>2 DEF Before
<1>4. CASE GasPrice(h)
  <2>1. pc[h] = "gas" /\ UNCHANGED <<next, leaked, pool, nonce>>
    BY <1>4 DEF GasPrice
  <2>2. \/ pc'[h] = "ev" /\ outcome' = outcome
        \/ pc'[h] = "done" /\ outcome'[h] = "error"
    BY <1>1, <1>2, <1>4 DEF GasPrice
  <2> QED BY <2>1, <2>2 DEF Before
<1>5. CASE EvCheck(h)
  <2>1. pc[h] = "ev" /\ UNCHANGED <<next, leaked, pool, nonce>>
    BY <1>5 DEF EvCheck
  <2>2. \/ pc'[h] = "reserve" /\ outcome' = outcome
        \/ pc'[h] = "done" /\ outcome'[h] \in {"ev", "error"}
    BY <1>1, <1>2, <1>5 DEF EvCheck
  <2> QED BY <2>1, <2>2 DEF Before
<1>6. CASE ReserveRead(h)
  <2>1. pc[h] = "reserve" /\ UNCHANGED <<next, leaked, pool>>
    BY <1>6 DEF ReserveRead
  <2>2. \/ /\ pc'[h] = "advance" /\ outcome' = outcome
           /\ nonce'[h] \in IF next = None THEN Counts ELSE {next}
        \/ pc'[h] = "done" /\ outcome'[h] = "error" /\ nonce' = nonce
    BY <1>1, <1>2, <1>6 DEF ReserveRead, IInv, TypeOK
  <2> QED BY <2>1, <2>2 DEF Before, Reads
<1>7. CASE ReserveWrite(h)
  BY <1>1, <1>7 DEF ReserveWrite, Writes
<1>8. CASE Sign(h)
  <2>1. pc[h] = "sign" /\ UNCHANGED <<next, nonce>>
    BY <1>8 DEF Sign
  <2>2. \/ pc'[h] = "fan" /\ leaked' = leaked
        \/ pc'[h] = "done" /\ outcome'[h] = "error" /\ leaked' = leaked + 1
    BY <1>1, <1>2, <1>8 DEF Sign
  <2> QED BY <2>1, <2>2 DEF Keeps, Fails
<1>9. CASE SendRelay(h)
  <2>1. pc[h] = "fan" /\ UNCHANGED <<next, nonce, leaked>>
    BY <1>9 DEF SendRelay
  <2>2. UNCHANGED pc \/ Goto(h, "unsent") \/ Goto(h, "poll")
    BY <1>9 DEF SendRelay
  <2> QED BY <1>1, <2>1, <2>2 DEF Keeps
<1>10. CASE DropUnsent(h)
  <2>1. pc[h] = "unsent" /\ UNCHANGED nonce /\ Resync
    BY <1>10 DEF DropUnsent
  <2>2. pc'[h] = "done" /\ outcome'[h] = "relays"
    BY <1>2, <1>10 DEF DropUnsent
  <2> QED BY <2>1, <2>2 DEF Ends
<1>11. CASE Poll(h) \/ Confirm(h)
  <2>1. pc[h] \in {"poll", "confirm"} /\ UNCHANGED <<next, nonce>>
    BY <1>11 DEF Poll, Confirm
  <2>2. \/ pc'[h] \in {"poll", "confirm", "settle"} /\ leaked' = leaked
        \/ pc'[h] = "done" /\ outcome'[h] = "error" /\ leaked' = leaked + 1
    <3>1. CASE Poll(h)    BY <1>1, <1>2, <3>1 DEF Poll
    <3>2. CASE Confirm(h) BY <1>1, <1>2, <3>2 DEF Confirm
    <3> QED BY <1>11, <3>1, <3>2
  <2> QED BY <2>1, <2>2 DEF Keeps, Fails
<1>12. CASE Settle(h)
  <2>1. pc[h] = "settle" /\ UNCHANGED nonce /\ Resync
    BY <1>12 DEF Settle
  <2>2. outcome[h] \in Outcomes \cup {None}
    BY DEF IInv, TypeOK
  <2>3. pc'[h] = "done" /\ outcome'[h] = outcome[h]
    BY <1>2, <1>12, <2>2 DEF Settle
  <2> QED BY <2>1, <2>3 DEF Ends
<1> QED
  BY <1>3, <1>4, <1>5, <1>6, <1>7, <1>8, <1>9, <1>10, <1>11, <1>12 DEF Call

\* Before the first reorg, a settled transaction is on the chain.
LEMMA SettledIsMined ==
  ASSUME IInv, BuriedInv, reorgs = 0, NEW g \in Hits, outcome[g] \in Settled
  PROVE  g \in Mined
<1>1. receipt[g] \in Receipts
  BY DEF IInv, TypeOK, BuriedInv, ReceiptInv
<1>2. receipt[g].fork = 0
  BY <1>1 DEF Receipts, BuriedInv, ReceiptInv
<1> QED
  BY <1>2 DEF BuriedInv, SettledIsBuried, Mined

\* The account's count does not fall from block to block.
LEMMA CountsGrow ==
  ASSUME NEW a \in Int, NEW b \in Int, a =< b, TypeOK
  PROVE  /\ CountAt(a) \in Nat /\ CountAt(b) \in Nat
         /\ CountAt(a) =< CountAt(b) /\ CountAt(b) =< TxCount
<1> DEFINE Until(n) == {h \in Mined : minedAt[h] =< n}
<1>1. Until(a) \subseteq Until(b) /\ Until(b) \subseteq Mined
  BY DEF TypeOK, Mined
<1>2. IsFiniteSet(Mined) /\ IsFiniteSet(Until(b))
  BY <1>1, HitsAssumption, FS_Subset DEF Mined
<1>3. /\ Cardinality(Until(a)) \in Nat /\ Cardinality(Until(b)) \in Nat
      /\ Cardinality(Until(a)) =< Cardinality(Until(b))
      /\ Cardinality(Until(b)) =< Cardinality(Mined)
  BY <1>1, <1>2, FS_Subset, FS_CardinalityType
<1> QED BY <1>3 DEF CountAt, TxCount

\* What the chain keeps when nothing is mined or undone.
LEMMA CountsKeep ==
  ASSUME UNCHANGED chainVars
  PROVE  /\ Mined' = Mined /\ TxCount' = TxCount
         /\ \A h \in Hits : CountAt(minedAt[h])' = CountAt(minedAt[h])
<1>1. minedAt' = minedAt
  BY DEF chainVars
<1>2. Mined' = Mined
  BY <1>1 DEF Mined
<1> QED BY <1>1, <1>2 DEF TxCount, CountAt

\* Under enough confirmations, every count the endpoint answers includes a settled
\* transaction.
LEMMA CountsCoverSettled ==
  ASSUME IInv, BuriedInv, CountInv, reorgs = 0, HeadLag =< Confirmations,
         NEW g \in Hits, outcome[g] \in Settled, NEW c \in Counts
  PROVE  nonce[g] < c
<1>1. receipt[g] \in Receipts
  BY DEF IInv, TypeOK, BuriedInv, ReceiptInv
<1>2. receipt[g].fork = 0
  BY <1>1 DEF Receipts, BuriedInv, ReceiptInv
<1>3. head - minedAt[g] >= Confirmations
  BY <1>2 DEF BuriedInv, SettledIsBuried
<1>4. PICK v \in Views : c = CountAt(v)
  BY DEF Counts
<1>5. head \in Nat /\ minedAt[g] \in Nat /\ v \in Nat /\ v >= head - HeadLag
  BY <1>4 DEF IInv, TypeOK, Views
<1>6. minedAt[g] =< v
  BY <1>3, <1>5
<1>7. CountAt(minedAt[g]) \in Nat /\ c \in Nat /\ CountAt(minedAt[g]) =< c
  BY <1>4, <1>5, <1>6, CountsGrow DEF IInv
<1>8. nonce[g] \in Nat /\ nonce[g] < CountAt(minedAt[g])
  BY SettledIsMined DEF CountInv
<1> QED BY <1>7, <1>8

LEMMA CallKeepsUnsent ==
  ASSUME IInv, CountInv, NEW h \in Hits, Call(h), NEW g \in Hits,
         pc'[g] \in Unsent
  PROVE  g \notin pool' /\ minedAt'[g] = 0
<1>1. CASE g # h
  BY <1>1, CallIsLocal DEF CountInv, chainVars
<1>2. CASE g = h
  <2>1. pc[h] \in Unsent /\ pool' = pool
    BY <1>2, CallMovesCounter
       DEF Before, Reads, Writes, Keeps, Fails, Ends, Unsent, Reserved
  <2> QED BY <1>2, <2>1, CallIsLocal DEF CountInv, chainVars
<1> QED BY <1>1, <1>2

LEMMA CallKeepsMinedNonces ==
  ASSUME IInv, CountInv, reorgs = 0, NEW h \in Hits, Call(h), NEW g \in Mined'
  PROVE  nonce'[g] \in Nat /\ nonce'[g] < CountAt(minedAt[g])'
<1>1. /\ Mined' = Mined
      /\ \A k \in Hits : CountAt(minedAt[k])' = CountAt(minedAt[k])
  BY CallIsLocal, CountsKeep
<1>2. g \in Hits /\ minedAt[g] # 0
  BY <1>1 DEF Mined
<1>3. nonce'[g] = nonce[g]
  <2>1. CASE g # h
    BY <1>2, <2>1, CallIsLocal
  <2>2. CASE g = h
    <3>1. pc[h] \notin Unsent
      BY <1>2, <2>2 DEF CountInv
    <3> QED BY <2>2, <3>1, CallMovesCounter
            DEF Before, Reads, Writes, Keeps, Fails, Ends, Unsent
  <2> QED BY <2>1, <2>2
<1> QED BY <1>1, <1>2, <1>3 DEF CountInv

\* A settled nonce stays below the counter and below the nonces read from it.
LEMMA CallKeepsSettledNonces ==
  ASSUME IInv, BuriedInv, CountInv, reorgs = 0, HeadLag =< Confirmations,
         NEW h \in Hits, Call(h), NEW g \in Hits, outcome'[g] \in Settled
  PROVE  /\ next' = None \/ next' > nonce'[g]
         /\ \A k \in Hits : At(k, "advance")' => nonce'[k] > nonce'[g]
<1>1. Counts \subseteq Nat /\ next \in Nat \cup {None}
  BY CountsAreBehind DEF IInv, TypeOK
<1>2. \A k \in Hits : At(k, "advance")' => k = h
  BY CallKeepsGate DEF IInv, Inside, At
<1>3. CASE outcome[g] \in Settled
  <2>1. g \in Mined
    BY <1>3, SettledIsMined
  <2>2. nonce[g] \in Nat /\ \A c \in Counts : nonce[g] < c
    BY <1>3, <2>1, CountsCoverSettled DEF CountInv
  <2>3. nonce'[g] = nonce[g]
    <3>1. g # h => nonce'[g] = nonce[g]
      BY CallIsLocal
    <3>2. g = h => pc[h] \notin Unsent
      BY <2>1 DEF CountInv, Mined
    <3> QED BY <3>1, <3>2, CallMovesCounter
            DEF Before, Reads, Writes, Keeps, Fails, Ends, Unsent
  <2>4. /\ next = None \/ next > nonce[g]
        /\ At(h, "advance") => nonce[h] > nonce[g]
    BY <1>3 DEF CountInv
  <2>5. CASE Before(h) \/ Keeps(h) \/ Fails(h)
    BY <1>2, <2>3, <2>4, <2>5 DEF Before, Keeps, Fails, Reserved, At
  <2>6. CASE Reads(h)
    BY <1>1, <1>2, <2>2, <2>3, <2>4, <2>6 DEF Reads, At
  <2>7. CASE Writes(h)
    <3>1. nonce[h] \in Nat /\ nonce[h] > nonce[g]
      BY <2>4, <2>7 DEF Writes, IInv, NonceInv, At
    <3>2. next' = nonce[h] + 1 /\ pc'[h] = "sign"
      BY <2>7 DEF Writes
    <3> QED BY <1>2, <2>2, <2>3, <3>1, <3>2 DEF At
  <2>8. CASE Ends(h)
    BY <1>1, <1>2, <2>2, <2>3, <2>4, <2>8 DEF Ends, Resync, At
  <2> QED BY <2>5, <2>6, <2>7, <2>8, CallMovesCounter
<1>4. CASE outcome[g] \notin Settled
  <2>1. g = h
    BY <1>4, CallIsLocal
  <2>2. Keeps(h)
    BY <1>4, <2>1, CallMovesCounter
       DEF Before, Reads, Writes, Fails, Ends, Settled
  <2>3. next' = nonce[h] + 1 /\ nonce'[h] = nonce[h] /\ nonce[h] \in Nat
    BY <2>2 DEF Keeps, IInv, GateProtectsCounter, NonceInv
  <2>4. ~At(h, "advance")'
    BY <2>2 DEF Keeps, Reserved, At
  <2> QED BY <1>2, <2>1, <2>3, <2>4
<1> QED BY <1>3, <1>4

\* No gap, as far as one step of a call goes.
LEMMA CallLeavesNoGap ==
  ASSUME IInv, CountInv, CounterLeavesNoGap, NEW h \in Hits, Call(h),
         reorgs = 0
  PROVE  /\ (\A g \in Hits : pc'[g] \notin Reserved) =>
              next' = None \/ next' =< TxCount' + leaked'
         /\ \A g \in Hits : pc'[g] \in Reserved \cup {"advance"} =>
              nonce'[g] =< TxCount' + leaked'
<1>1. /\ TxCount \in Nat /\ leaked \in Nat /\ next \in Nat \cup {None}
      /\ TxCount' = TxCount
      /\ \A c \in Counts : c \in Nat /\ c =< TxCount
  BY TxCountIsNat, CountsAreBehind, CallIsLocal, CountsKeep DEF IInv, TypeOK
<1>2. \A g \in Hits : pc'[g] \in Reserved \cup {"advance"} => g = h
  BY CallKeepsGate DEF IInv, Inside
<1>3. ASSUME pc[h] \notin Reserved PROVE \A g \in Hits : pc[g] \notin Reserved
  BY <1>3, CallHolds, OneInside DEF IInv, Inside
<1>4. CASE Before(h)
  <2>1. /\ UNCHANGED <<leaked, next>> /\ pc[h] \notin Reserved
        /\ pc'[h] \notin Reserved \cup {"advance"}
    BY <1>4 DEF Before, Unsent, Reserved
  <2> QED BY <1>1, <1>2, <1>3, <2>1 DEF CounterLeavesNoGap
<1>5. CASE Reads(h)
  <2>1. UNCHANGED <<leaked, next>> /\ pc[h] \notin Reserved /\ pc'[h] = "advance"
    BY <1>5 DEF Reads, Reserved
  <2>2. next = None \/ next =< TxCount + leaked
    BY <1>3, <2>1 DEF CounterLeavesNoGap
  <2>3. nonce'[h] =< TxCount + leaked
    BY <1>1, <1>5, <2>2 DEF Reads
  <2> QED BY <1>1, <1>2, <2>1, <2>2, <2>3
<1>6. CASE Writes(h)
  <2>1. leaked' = leaked /\ nonce'[h] =< TxCount + leaked
    BY <1>6 DEF Writes, CountInv, At
  <2>2. pc'[h] \in Reserved
    BY <1>6 DEF Writes, Reserved
  <2> QED BY <1>1, <1>2, <2>1, <2>2
<1>7. CASE Keeps(h)
  <2>1. leaked' = leaked /\ nonce'[h] =< TxCount + leaked /\ pc'[h] \in Reserved
    BY <1>7 DEF Keeps, CounterLeavesNoGap
  <2> QED BY <1>1, <1>2, <2>1
<1>8. ASSUME pc[h] \in Reserved
      PROVE  next \in Nat /\ next =< TxCount + leaked + 1
  <2>1. next = nonce[h] + 1 /\ nonce[h] \in Nat
    BY <1>8 DEF IInv, GateProtectsCounter, NonceInv
  <2>2. nonce[h] =< TxCount + leaked
    BY <1>8 DEF CounterLeavesNoGap
  <2> QED BY <1>1, <2>1, <2>2
<1>9. CASE Fails(h)
  <2>1. pc[h] \in Reserved /\ pc'[h] = "done" /\ leaked' = leaked + 1 /\ next' = next
    BY <1>9 DEF Fails
  <2> QED BY <1>1, <1>2, <1>8, <2>1 DEF Reserved
<1>10. CASE Ends(h)
  <2>1. pc[h] \in Reserved /\ pc'[h] = "done"
    BY <1>10 DEF Ends
  <2>2. \/ next' \in Counts /\ leaked' = 0
        \/ next' = next /\ leaked' = leaked + 1
    BY <1>10 DEF Ends, Resync
  <2>3. next' =< TxCount' + leaked'
    BY <1>1, <1>8, <2>1, <2>2
  <2> QED BY <1>2, <2>1, <2>3 DEF Reserved
<1> QED
  BY <1>4, <1>5, <1>6, <1>7, <1>9, <1>10, CallMovesCounter

LEMMA CallKeepsCount ==
  ASSUME JInv, NEW h \in Hits, Call(h)
  PROVE  CountInv' /\ CounterLeavesNoGap'
<1> USE DEF JInv
<1>1. reorgs' = reorgs
  BY CallIsLocal DEF chainVars
<1>2. CountInv'
  <2>1. \A g \in Hits : pc'[g] \in Unsent => g \notin pool' /\ minedAt'[g] = 0
    BY CallKeepsUnsent
  <2>2. reorgs = 0 =>
          \A g \in Mined' : nonce'[g] \in Nat /\ nonce'[g] < CountAt(minedAt[g])'
    BY CallKeepsMinedNonces
  <2>3. reorgs = 0 /\ HeadLag =< Confirmations => \A g \in Hits : outcome'[g] \in Settled =>
          /\ next' = None \/ next' > nonce'[g]
          /\ \A k \in Hits : At(k, "advance")' => nonce'[k] > nonce'[g]
    BY CallKeepsSettledNonces
  <2>4. reorgs = 0 =>
          \A g \in Hits : pc'[g] = "advance" => nonce'[g] =< TxCount' + leaked'
    BY CallLeavesNoGap
  <2> QED BY <1>1, <2>1, <2>2, <2>3, <2>4 DEF CountInv, At
<1>3. CounterLeavesNoGap'
  BY <1>1, CallLeavesNoGap DEF CounterLeavesNoGap
<1> QED BY <1>2, <1>3

\* A block raises the count by the transactions it takes; their nonces are below
\* the new count, and the counts of the blocks before it stay.
LEMMA BlockCounts ==
  ASSUME TypeOK, ReceiptInv, NewBlock
  PROVE  /\ TxCount \in Nat /\ TxCount' \in Nat /\ TxCount =< TxCount'
         /\ \A h \in Mined : CountAt(minedAt[h])' = CountAt(minedAt[h])
         /\ \A h \in Mined' \ Mined :
              nonce[h] \in Nat /\ nonce[h] < CountAt(minedAt[h])'
<1>1. PICK S \in SUBSET (pool \ Mined) :
        /\ {nonce[h] : h \in S} = TxCount .. (TxCount + Cardinality(S) - 1)
        /\ minedAt' = [h \in Hits |-> IF h \in S THEN head + 1 ELSE minedAt[h]]
  BY DEF NewBlock
<1>2. S \subseteq Hits /\ head + 1 # 0 /\ S \cap Mined = {}
  BY DEF TypeOK
<1>3. Mined' = Mined \cup S
  BY <1>1, <1>2 DEF Mined
<1>4. IsFiniteSet(Mined) /\ IsFiniteSet(S)
  BY <1>2, HitsAssumption, FS_Subset DEF Mined
<1>5. /\ Cardinality(Mined) \in Nat /\ Cardinality(S) \in Nat
      /\ Cardinality(Mined \cup S) = Cardinality(Mined) + Cardinality(S)
  <2>1. Cardinality(Mined \cap S) = 0
    BY <1>2, FS_EmptySet
  <2>2. Cardinality(Mined) \in Nat /\ Cardinality(S) \in Nat
    BY <1>4, FS_CardinalityType
  <2>3. Cardinality(Mined \cup S)
          = Cardinality(Mined) + Cardinality(S) - Cardinality(Mined \cap S)
    BY <1>4, FS_Union
  <2> QED BY <2>1, <2>2, <2>3
<1>6. TxCount' = TxCount + Cardinality(S) /\ TxCount \in Nat
  BY <1>3, <1>5 DEF TxCount
<1>7. \A h \in S : nonce[h] \in TxCount .. (TxCount + Cardinality(S) - 1)
  BY <1>1
<1>8. /\ head \in Nat
      /\ \A h \in Mined : minedAt'[h] = minedAt[h] /\ minedAt[h] \in 0..head
      /\ \A h \in S : minedAt'[h] = head + 1
  BY <1>1, <1>2 DEF TypeOK, ReceiptInv, Mined
<1>9. \A h \in Mined : CountAt(minedAt[h])' = CountAt(minedAt[h])
  <2>1. ASSUME NEW h \in Mined
        PROVE  {g \in Mined' : minedAt'[g] =< minedAt'[h]}
                 = {g \in Mined : minedAt[g] =< minedAt[h]}
    BY <1>3, <1>8
  <2> QED BY <2>1 DEF CountAt
<1>10. \A h \in S : CountAt(minedAt[h])' = TxCount'
  <2>1. ASSUME NEW h \in S
        PROVE  {g \in Mined' : minedAt'[g] =< minedAt'[h]} = Mined'
    BY <1>3, <1>8
  <2> QED BY <2>1 DEF CountAt, TxCount
<1> QED
  BY <1>3, <1>5, <1>6, <1>7, <1>9, <1>10

LEMMA EnvironmentKeepsCount ==
  ASSUME JInv, Environment
  PROVE  CountInv' /\ CounterLeavesNoGap'
<1> USE DEF JInv
<1>1. CASE \E h \in Hits : Submit(h)
  <2>1. PICK h \in Hits : Submit(h)
    BY <1>1
  <2>2. /\ UNCHANGED <<next, leaked, pool, nonce, outcome, chainVars>>
        /\ pc[h] = "new" /\ pc'[h] = "gate"
        /\ \A g \in Hits \ {h} : pc'[g] = pc[g]
    BY <2>1 DEF Submit, Goto, At, IInv, TypeOK
  <2>3. /\ TxCount' = TxCount /\ Mined' = Mined
        /\ \A g \in Hits : CountAt(minedAt[g])' = CountAt(minedAt[g])
    BY <2>2, CountsKeep
  <2>5. Mined \subseteq Hits
    BY DEF Mined
  <2>4. \A g \in Hits :
          /\ pc'[g] \in Unsent <=> pc[g] \in Unsent
          /\ At(g, "advance")' <=> At(g, "advance")
          /\ pc'[g] \in Reserved <=> pc[g] \in Reserved
    BY <2>2 DEF Unsent, At, Reserved
  <2> QED BY <2>2, <2>3, <2>4, <2>5 DEF CountInv, CounterLeavesNoGap, chainVars
<1>2. CASE (\E h \in Hits : Expire(h) \/ Evict(h)) \/ WatcherUpdate
  <2>1. /\ UNCHANGED <<pc, next, leaked, nonce, outcome, chainVars>>
        /\ pool' \subseteq pool
    BY <1>2 DEF Expire, Evict, WatcherUpdate, callVars
  <2>2. /\ TxCount' = TxCount /\ Mined' = Mined /\ Mined \subseteq Hits
        /\ \A g \in Hits : CountAt(minedAt[g])' = CountAt(minedAt[g])
    BY <2>1, CountsKeep DEF Mined
  <2> QED BY <2>1, <2>2 DEF CountInv, CounterLeavesNoGap, At, chainVars
<1>3. CASE NewBlock
  <2>1. /\ TxCount \in Nat /\ TxCount' \in Nat /\ TxCount =< TxCount'
        /\ \A h \in Mined : CountAt(minedAt[h])' = CountAt(minedAt[h])
        /\ \A h \in Mined' \ Mined :
             nonce[h] \in Nat /\ nonce[h] < CountAt(minedAt[h])'
    BY <1>3, BlockCounts DEF IInv, BuriedInv
  <2>2. /\ UNCHANGED <<pc, next, leaked, nonce, outcome, reorgs>>
        /\ \A h \in Hits : h \notin pool => h \notin pool' /\ minedAt'[h] = minedAt[h]
    BY <1>3 DEF NewBlock, callVars
  <2>3. CASE reorgs = 0
    <3>1. \A h \in Mined' : nonce[h] \in Nat /\ nonce[h] < CountAt(minedAt[h])'
      BY <2>1, <2>3 DEF CountInv
    <3>2. ASSUME NEW h \in Hits, pc[h] \in Reserved \cup {"advance"}
          PROVE  nonce[h] =< TxCount' + leaked
      <4>1. nonce[h] \in Nat /\ leaked \in Nat
        BY <3>2 DEF IInv, NonceInv, TypeOK
      <4>2. nonce[h] =< TxCount + leaked
        BY <2>3, <3>2 DEF CountInv, CounterLeavesNoGap, At
      <4> QED BY <2>1, <4>1, <4>2
    <3>3. ASSUME \A h \in Hits : pc[h] \notin Reserved
          PROVE  next = None \/ next =< TxCount' + leaked
      <4>1. leaked \in Nat /\ (next = None \/ (next \in Nat /\ next =< TxCount + leaked))
        BY <2>3, <3>3 DEF CounterLeavesNoGap, IInv, TypeOK
      <4> QED BY <2>1, <4>1
    <3>4. CounterLeavesNoGap'
      BY <2>2, <3>2, <3>3 DEF CounterLeavesNoGap
    <3>5. CountInv'
      BY <2>2, <2>3, <3>1, <3>2 DEF CountInv, At
    <3> QED BY <3>4, <3>5
  <2>4. CASE reorgs # 0
    BY <2>2, <2>4 DEF CountInv, CounterLeavesNoGap
  <2> QED BY <2>3, <2>4
<1>4. CASE Reorg
  <2>1. PICK d \in 1..head :
          LET undone == {h \in Hits : minedAt[h] > head - d}
          IN /\ minedAt' = [h \in Hits |-> IF h \in undone THEN 0 ELSE minedAt[h]]
             /\ pool' = pool \cup undone
    BY <1>4 DEF Reorg
  <2>2. pc' = pc /\ reorgs' # 0
    BY <1>4 DEF Reorg, IInv, TypeOK
  <2>3. \A h \in Hits : h \notin pool /\ minedAt[h] = 0 =>
                        h \notin pool' /\ minedAt'[h] = 0
    BY <2>1 DEF IInv, TypeOK
  <2> QED BY <2>2, <2>3 DEF CountInv, CounterLeavesNoGap
<1>5. CASE Crash
  <2>1. /\ UNCHANGED <<pool, nonce, outcome, chainVars>> /\ next' = None
        /\ \A h \in Hits : /\ pc'[h] \in {"lost", "new", "done"}
                           /\ pc'[h] \in Unsent => pc'[h] = pc[h]
    BY <1>5 DEF Crash, callVars, IInv, TypeOK, Points, Unsent
  <2>2. /\ TxCount' = TxCount /\ Mined' = Mined /\ Mined \subseteq Hits
        /\ \A g \in Hits : CountAt(minedAt[g])' = CountAt(minedAt[g])
    BY <2>1, CountsKeep DEF Mined
  <2>3. \A h \in Hits : pc'[h] \notin Reserved \cup {"advance"}
    BY <2>1 DEF Reserved
  <2> QED BY <2>1, <2>2, <2>3 DEF CountInv, CounterLeavesNoGap, At, chainVars
<1> QED
  BY <1>1, <1>2, <1>3, <1>4, <1>5 DEF Environment

LEMMA InitJInv == Init => JInv
<1> SUFFICES ASSUME Init PROVE JInv
  OBVIOUS
<1>1. IInv /\ BuriedInv
  BY InitIInv, InitBuried
<1>2. \A h \in Hits : outcome[h] \notin Settled /\ ~At(h, "advance") /\ pc[h] \notin Reserved
  BY DEF Init, Settled, Outcomes, At, Reserved
<1>3. Mined = {}
  BY DEF Init, Mined
<1> QED
  BY <1>1, <1>2, <1>3 DEF JInv, CountInv, CounterLeavesNoGap, Init

LEMMA NextJInv == JInv /\ [Next]_vars => JInv'
<1> SUFFICES ASSUME JInv, [Next]_vars PROVE JInv'
  OBVIOUS
<1>1. IInv' /\ BuriedInv'
  BY NextIInv, NextBuried DEF JInv
<1>2. CASE UNCHANGED vars
  <2>1. /\ TxCount' = TxCount /\ Mined' = Mined /\ Mined \subseteq Hits
        /\ \A g \in Hits : CountAt(minedAt[g])' = CountAt(minedAt[g])
    BY <1>2, CountsKeep DEF vars, Mined
  <2>2. CountInv' /\ CounterLeavesNoGap'
    BY <1>2, <2>1 DEF JInv, vars, callVars, chainVars, CountInv, CounterLeavesNoGap, At
  <2> QED BY <1>1, <2>2 DEF JInv
<1> QED
  BY <1>1, <1>2, CallKeepsCount, EnvironmentKeepsCount DEF JInv, Next

\* The strengthened invariant of the counter and the chain holds in every
\* behaviour of TxSubmitter.
THEOREM CountingInvariant == Spec => []JInv
BY InitJInv, NextJInv, PTL DEF Spec

\* Until the chain rolls back, the counter between calls, and the nonce a call
\* uses, are ahead of the account's transaction count by at most the number of
\* calls that have ended without a resync since the last one that succeeded.
THEOREM NoGap == Spec => []CounterLeavesNoGap
<1>1. JInv => CounterLeavesNoGap BY DEF JInv
<1> QED BY <1>1, CountingInvariant, PTL

\* Until the chain rolls back, the nonce of a transaction that submit() reported
\* as included or reverted is used; and if the endpoint is never further behind than
\* the confirmations waited for, resync() and reserve() are past it: they do not hand
\* it out again, whatever failed, expired or crashed in between.
THEOREM SettledNoncesAreSpent == Spec => []SettledNonceNeverReissued
<1>1. ASSUME JInv, reorgs = 0, NEW h \in Hits, outcome[h] \in Settled
      PROVE  nonce[h] < TxCount
  <2>1. h \in Mined
    BY <1>1, SettledIsMined DEF JInv
  <2>2. TypeOK /\ TxCount \in Nat
    BY <1>1, TxCountIsNat DEF JInv, IInv
  <2>3. minedAt[h] \in Int
    BY <2>2 DEF TypeOK
  <2>4. nonce[h] \in Nat /\ nonce[h] < CountAt(minedAt[h])
    BY <1>1, <2>1 DEF JInv, CountInv
  <2>5. CountAt(minedAt[h]) \in Nat /\ CountAt(minedAt[h]) =< TxCount
    BY <2>2, <2>3, CountsGrow
  <2> QED BY <2>2, <2>4, <2>5
<1>2. JInv => SettledNonceNeverReissued
  BY <1>1 DEF JInv, CountInv, SettledNonceNeverReissued
<1> QED BY <1>2, CountingInvariant, PTL

=============================================================================
