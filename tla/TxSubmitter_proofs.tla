------------------------ MODULE TxSubmitter_proofs ------------------------
(***************************************************************************)
(* Proofs about TxSubmitter, for any hits, relays and bounds: the type     *)
(* invariant, what seq_gate guarantees, and that it protects the nonce     *)
(* counter.                                                                *)
(***************************************************************************)
EXTENDS TxSubmitter, FiniteSetTheorems, TLAPS

LEMMA NoneIsNoNumber == None \notin Int
BY NoneAssumption

USE NoneIsNoNumber, NumbersAssumption

----------------------------------------------------------------------------
(* The inductive invariant.                                                *)

\* The queue of seq_gate: the callers that wait or are inside, each once; a call
\* inside is at its head.
Waiting(h) == pc[h] \in Inside \cup {"gate"}

GateInv ==
  /\ \A h \in Hits : Waiting(h) <=> \E i \in 1..Len(gate) : gate[i] = h
  /\ \A i, j \in 1..Len(gate) : gate[i] = gate[j] => i = j
  /\ \A h \in Hits : pc[h] \in Inside => Holds(h)

\* From reserve()'s read on, a call has a nonce.
NonceInv ==
  \A h \in Hits : pc[h] \in Reserved \cup {"advance"} => nonce[h] \in Nat

IInv == TypeOK /\ GateInv /\ NonceInv /\ GateProtectsCounter

----------------------------------------------------------------------------
(* seq_gate.                                                               *)

\* seq_gate is a mutex: only one call is inside.
LEMMA OneInside ==
  ASSUME GateInv, NEW g \in Hits, NEW h \in Hits,
         pc[g] \in Inside, Holds(h)
  PROVE  g = h
BY DEF GateInv, Holds

\* A call that holds the gate and moves on keeps it.
LEMMA StayInside ==
  ASSUME TypeOK, GateInv, NEW h \in Hits, Waiting(h), Holds(h),
         NEW p \in Inside, Goto(h, p), UNCHANGED gate
  PROVE  GateInv'
<1>1. ASSUME NEW g \in Hits, g # h PROVE pc'[g] = pc[g]
  BY <1>1 DEF Goto, TypeOK
<1>2. pc'[h] = p
  BY DEF Goto, TypeOK
<1>3. \A g \in Hits : Waiting(g)' <=> Waiting(g)
  BY <1>1, <1>2 DEF Waiting
<1>4. \A g \in Hits : pc'[g] \in Inside => Holds(g)'
  BY <1>1 DEF GateInv, Holds
<1> QED
  BY <1>3, <1>4 DEF GateInv

\* A call that returns leaves the gate to the next in the queue.
LEMMA ReturnPassesOn ==
  ASSUME TypeOK, GateInv, NEW h \in Hits, Waiting(h), Holds(h),
         NEW o, Return(h, o)
  PROVE  gate' \in Seq(Hits) /\ GateInv'
<1>1. gate \in Seq(Hits) /\ gate # <<>> /\ gate[1] = h /\ gate' = Tail(gate)
  BY DEF TypeOK, Holds, Return
<1>2. /\ gate' \in Seq(Hits)
      /\ Len(gate') = Len(gate) - 1 /\ Len(gate) \in Nat \ {0}
      /\ \A i \in 1..Len(gate') : gate'[i] = gate[i + 1]
  BY <1>1
<1>3. \A g \in Hits \ {h} : pc'[g] = pc[g]
  BY DEF Return, Goto, TypeOK
<1>4. pc'[h] = "done"
  BY DEF Return, Goto, TypeOK
<1>5. \A i, j \in 1..Len(gate') : gate'[i] = gate'[j] => i = j
  BY <1>2 DEF GateInv
<1>6. ASSUME NEW g \in Hits
      PROVE  Waiting(g)' <=> \E i \in 1..Len(gate') : gate'[i] = g
  <2>1. CASE g = h
    <3>1. ~Waiting(g)'
      BY <1>4, <2>1 DEF Waiting, Inside, Reserved
    <3>2. \A i \in 1..Len(gate') : gate'[i] # h
      BY <1>1, <1>2 DEF GateInv
    <3> QED BY <3>1, <3>2, <2>1
  <2>2. CASE g # h
    <3>1. Waiting(g)' <=> Waiting(g)
      BY <1>3, <2>2 DEF Waiting
    <3>2. Waiting(g) <=> \E i \in 1..Len(gate) : gate[i] = g
      BY DEF GateInv
    <3>3. ASSUME NEW i \in 1..Len(gate), gate[i] = g
          PROVE  i - 1 \in 1..Len(gate') /\ gate'[i - 1] = g
      BY <1>1, <1>2, <2>2, <3>3
    <3>4. ASSUME NEW i \in 1..Len(gate'), gate'[i] = g
          PROVE  i + 1 \in 1..Len(gate) /\ gate[i + 1] = g
      BY <1>2, <3>4
    <3> QED BY <3>1, <3>2, <3>3, <3>4
  <2> QED BY <2>1, <2>2
<1>7. \A g \in Hits : pc'[g] \notin Inside
  BY <1>3, <1>4, OneInside DEF Inside, Reserved
<1> QED
  BY <1>2, <1>5, <1>6, <1>7 DEF GateInv

\* A new caller queues at the end.
LEMMA SubmitQueues ==
  ASSUME TypeOK, GateInv, NEW h \in Hits, Submit(h)
  PROVE  gate' \in Seq(Hits) /\ GateInv'
<1>1. /\ gate \in Seq(Hits) /\ gate' = Append(gate, h)
      /\ pc[h] = "new" /\ pc'[h] = "gate"
      /\ \A g \in Hits \ {h} : pc'[g] = pc[g]
  BY DEF TypeOK, Submit, Goto, At
<1>2. /\ gate' \in Seq(Hits)
      /\ Len(gate') = Len(gate) + 1 /\ Len(gate) \in Nat
      /\ \A i \in 1..Len(gate) : gate'[i] = gate[i]
      /\ gate'[Len(gate) + 1] = h
  BY <1>1
<1>3. ~Waiting(h) /\ \A i \in 1..Len(gate) : gate[i] # h
  BY <1>1 DEF Waiting, Inside, Reserved, GateInv
<1>4. \A i, j \in 1..Len(gate') : gate'[i] = gate'[j] => i = j
  BY <1>2, <1>3 DEF GateInv
<1>5. \A g \in Hits : Waiting(g)' <=> \E i \in 1..Len(gate') : gate'[i] = g
  <2>1. Waiting(h)' /\ gate'[Len(gate')] = h /\ Len(gate') \in 1..Len(gate')
    BY <1>1, <1>2 DEF Waiting
  <2>2. ASSUME NEW g \in Hits \ {h}
        PROVE  Waiting(g)' <=> \E i \in 1..Len(gate') : gate'[i] = g
    <3>1. Waiting(g)' <=> \E i \in 1..Len(gate) : gate[i] = g
      BY <1>1 DEF Waiting, GateInv
    <3> QED BY <1>2, <3>1
  <2> QED BY <2>1, <2>2
<1>6. ASSUME NEW g \in Hits, pc'[g] \in Inside PROVE Holds(g)'
  <2>1. g # h /\ pc[g] \in Inside
    BY <1>1, <1>6 DEF Inside, Reserved
  <2>2. gate # <<>> /\ gate[1] = g
    BY <2>1 DEF GateInv, Holds
  <2> QED BY <1>1, <1>2, <2>2 DEF Holds
<1> QED BY <1>2, <1>4, <1>5, <1>6 DEF GateInv

----------------------------------------------------------------------------
(* The steps of a call.                                                    *)

LEMMA OneValueChanges ==
  ASSUME NEW S, NEW T, NEW f \in [S -> T], NEW s \in S, NEW v \in T
  PROVE  /\ [f EXCEPT ![s] = v] \in [S -> T]
         /\ [f EXCEPT ![s] = v][s] = v
         /\ \A r \in S \ {s} : [f EXCEPT ![s] = v][r] = f[r]
OBVIOUS

\* What the types say of a call that is somewhere inside submit().
LEMMA CallMoves ==
  ASSUME TypeOK, NEW h \in Hits, NEW p \in Points, Goto(h, p)
  PROVE  /\ pc' \in [Hits -> Points]
         /\ pc'[h] = p
         /\ \A g \in Hits \ {h} : pc'[g] = pc[g]
BY DEF Goto, TypeOK

LEMMA CallReturns ==
  ASSUME TypeOK, NEW h \in Hits, NEW o \in Outcomes \cup {None}, Return(h, o)
  PROVE  /\ pc' \in [Hits -> Points]
         /\ outcome' \in [Hits -> Outcomes \cup {None}]
         /\ pc'[h] = "done"
         /\ \A g \in Hits \ {h} : pc'[g] = pc[g]
BY DEF Return, Goto, TypeOK, Points, Inside, Reserved

LEMMA TxCountIsNat == TypeOK => TxCount \in Nat
BY HitsAssumption, FS_Subset, FS_CardinalityType DEF TxCount, Mined

\* An endpoint that lags answers a number no higher than the account's count.
LEMMA CountsAreBehind ==
  Counts \subseteq Nat /\ \A c \in Counts : c =< TxCount
<1> SUFFICES ASSUME NEW v \in Views PROVE CountAt(v) \in Nat /\ CountAt(v) =< TxCount
  BY DEF Counts
<1> DEFINE Until == {h \in Mined : minedAt[h] =< v}
<1>1. Until \subseteq Mined
  OBVIOUS
<1>2. IsFiniteSet(Mined) /\ IsFiniteSet(Until)
  BY <1>1, HitsAssumption, FS_Subset DEF Mined
<1>3. Cardinality(Until) \in Nat /\ Cardinality(Until) =< Cardinality(Mined)
  BY <1>1, <1>2, FS_Subset, FS_CardinalityType
<1> QED BY <1>3 DEF CountAt, TxCount

\* A call runs only while it holds the gate.
LEMMA CallHolds ==
  ASSUME GateInv, NEW h \in Hits, Call(h)
  PROVE  Waiting(h) /\ Holds(h)
BY DEF Call, CheckEpoch, GasPrice, EvCheck, ReserveRead, ReserveWrite, Sign,
       SendRelay, DropUnsent, Poll, Confirm, Settle, At, Waiting, Inside,
       Reserved, GateInv

\* Every step of a call moves it on inside, or returns.
LEMMA CallStaysOrReturns ==
  ASSUME TypeOK, NEW h \in Hits, Call(h)
  PROVE  \/ \E p \in Inside : Goto(h, p) /\ UNCHANGED <<gate, outcome>>
         \/ /\ Goto(h, "settle") /\ UNCHANGED gate
            /\ \E o \in Outcomes : outcome' = [outcome EXCEPT ![h] = o]
         \/ \E o \in Outcomes \cup {None} : Return(h, o)
<1> USE DEF Inside, Reserved, Outcomes
<1>1. CASE CheckEpoch(h)   BY <1>1 DEF CheckEpoch
<1>2. CASE GasPrice(h)     BY <1>2 DEF GasPrice
<1>3. CASE EvCheck(h)      BY <1>3 DEF EvCheck
<1>4. CASE ReserveRead(h)  BY <1>4 DEF ReserveRead
<1>5. CASE ReserveWrite(h) BY <1>5 DEF ReserveWrite, callVars
<1>6. CASE Sign(h)         BY <1>6 DEF Sign
<1>7. CASE SendRelay(h)
  <2>1. UNCHANGED <<gate, outcome>> /\ At(h, "fan")
    BY <1>7 DEF SendRelay
  <2>2. UNCHANGED pc \/ Goto(h, "unsent") \/ Goto(h, "poll")
    BY <1>7 DEF SendRelay, Goto
  <2>3. UNCHANGED pc => Goto(h, "fan")
    BY <2>1 DEF Goto, At, TypeOK
  <2> QED BY <2>1, <2>2, <2>3
<1>8. CASE DropUnsent(h)   BY <1>8 DEF DropUnsent
<1>9. CASE Poll(h)         BY <1>9 DEF Poll
<1>10. CASE Confirm(h)     BY <1>10 DEF Confirm
<1>11. CASE Settle(h)
  <2>1. outcome[h] \in Outcomes \cup {None}
    BY DEF TypeOK
  <2> QED BY <1>11, <2>1 DEF Settle
<1> QED
  BY <1>1, <1>2, <1>3, <1>4, <1>5, <1>6, <1>7, <1>8, <1>9, <1>10, <1>11 DEF Call

\* So a step of a call keeps the gate's queue, and nobody but the holder moves.
LEMMA CallKeepsGate ==
  ASSUME TypeOK, GateInv, NEW h \in Hits, Call(h)
  PROVE  /\ pc' \in [Hits -> Points]
         /\ outcome' \in [Hits -> Outcomes \cup {None}]
         /\ gate' \in Seq(Hits)
         /\ GateInv'
         /\ \A g \in Hits \ {h} : pc'[g] = pc[g]
         /\ \A g \in Hits : pc'[g] \in Inside => g = h
<1>1. Waiting(h) /\ Holds(h)
  BY CallHolds
<1>2. \A g \in Hits : pc[g] \in Inside => g = h
  BY <1>1, OneInside
<1>3. CASE \E p \in Inside : Goto(h, p) /\ UNCHANGED <<gate, outcome>>
  <2>1. PICK p \in Inside : Goto(h, p) /\ UNCHANGED <<gate, outcome>>
    BY <1>3
  <2>2. GateInv'
    BY <1>1, <2>1, StayInside
  <2>3. pc' \in [Hits -> Points] /\ \A g \in Hits \ {h} : pc'[g] = pc[g]
    BY <2>1, CallMoves DEF Points
  <2>4. gate' \in Seq(Hits) /\ outcome' \in [Hits -> Outcomes \cup {None}]
    BY <2>1 DEF TypeOK
  <2>5. \A g \in Hits : pc'[g] \in Inside => g = h
    BY <1>2, <2>3
  <2> QED BY <2>2, <2>3, <2>4, <2>5
<1>4. CASE /\ Goto(h, "settle") /\ UNCHANGED gate
           /\ \E o \in Outcomes : outcome' = [outcome EXCEPT ![h] = o]
  <2>1. "settle" \in Inside /\ "settle" \in Points
    BY DEF Inside, Reserved, Points
  <2>2. GateInv'
    BY <1>1, <1>4, <2>1, StayInside
  <2>3. pc' \in [Hits -> Points] /\ \A g \in Hits \ {h} : pc'[g] = pc[g]
    BY <1>4, <2>1, CallMoves
  <2>4. gate' \in Seq(Hits)
    BY <1>4 DEF TypeOK
  <2>5. outcome' \in [Hits -> Outcomes \cup {None}]
    <3>1. PICK o \in Outcomes \cup {None} : outcome' = [outcome EXCEPT ![h] = o]
      BY <1>4
    <3>2. outcome \in [Hits -> Outcomes \cup {None}]
      BY DEF TypeOK
    <3> HIDE DEF TypeOK
    <3> QED BY <3>1, <3>2, OneValueChanges
  <2>6. \A g \in Hits : pc'[g] \in Inside => g = h
    BY <1>2, <2>3
  <2> QED BY <2>2, <2>3, <2>4, <2>5, <2>6
<1>5. CASE \E o \in Outcomes \cup {None} : Return(h, o)
  <2>1. PICK o \in Outcomes \cup {None} : Return(h, o)
    BY <1>5
  <2>2. gate' \in Seq(Hits) /\ GateInv'
    BY <1>1, <2>1, ReturnPassesOn
  <2>3. /\ pc' \in [Hits -> Points]
        /\ outcome' \in [Hits -> Outcomes \cup {None}]
        /\ pc'[h] = "done"
        /\ \A g \in Hits \ {h} : pc'[g] = pc[g]
    BY <2>1, CallReturns
  <2>4. \A g \in Hits : pc'[g] \in Inside => g = h
    BY <1>2, <2>3
  <2> QED BY <2>2, <2>3, <2>4
<1> QED
  BY <1>3, <1>4, <1>5, CallStaysOrReturns

LEMMA LeaksAreCounted ==
  ASSUME leaked \in Nat, NEW h \in Hits, Call(h)
  PROVE  leaked' \in Nat
<1>1. CASE CheckEpoch(h) \/ GasPrice(h) \/ EvCheck(h)
  BY <1>1 DEF CheckEpoch, GasPrice, EvCheck
<1>2. CASE ReserveRead(h) \/ ReserveWrite(h) \/ SendRelay(h)
  BY <1>2 DEF ReserveRead, ReserveWrite, SendRelay
<1>3. CASE Sign(h) \/ Poll(h) \/ Confirm(h)
  <2>1. leaked' = leaked \/ leaked' = leaked + 1
    BY <1>3 DEF Sign, Poll, Confirm
  <2> QED BY <2>1
<1>4. CASE DropUnsent(h) \/ Settle(h)
  <2>1. leaked' = 0 \/ leaked' = leaked + 1
    BY <1>4 DEF DropUnsent, Settle, Resync
  <2> QED BY <2>1
<1> QED
  BY <1>1, <1>2, <1>3, <1>4 DEF Call

\* What a step of a call may write, besides pc, outcome, gate and leaked.
LEMMA CallWrites ==
  ASSUME NEW h \in Hits, Call(h)
  PROVE  /\ UNCHANGED <<epochOf, expired, cached, chainVars>>
         /\ \/ next' = next \/ next' \in Counts
            \/ At(h, "advance") /\ next' = nonce[h] + 1
         /\ \/ nonce' = nonce
            \/ \E n \in Counts \cup ({next} \ {None}) : nonce' = [nonce EXCEPT ![h] = n]
         /\ \/ fan' = fan \/ fan' = [fan EXCEPT ![h] = 1]
            \/ MoreRelays(h) /\ fan' = [fan EXCEPT ![h] = fan[h] + 1]
         /\ \/ winner' = winner
            \/ \E w \in {None, fan[h], winner[h]} : winner' = [winner EXCEPT ![h] = w]
         /\ \/ receipt' = receipt
            \/ receipt' = [receipt EXCEPT ![h] = [block |-> minedAt[h],
                                                  ok    |-> h \in succeeded,
                                                  fork  |-> reorgs]]
         /\ pool' = pool \/ pool' = pool \cup {h}
<1> USE DEF callVars, chainVars
<1>1. CASE CheckEpoch(h) \/ GasPrice(h) \/ EvCheck(h) \/ Confirm(h)
  BY <1>1 DEF CheckEpoch, GasPrice, EvCheck, Confirm
<1>2. CASE ReserveRead(h)
  <2>1. UNCHANGED <<epochOf, expired, cached, chainVars, next, fan, winner, receipt, pool>>
    BY <1>2 DEF ReserveRead
  <2>2. \/ nonce' = nonce
        \/ \E n \in Counts \cup ({next} \ {None}) : nonce' = [nonce EXCEPT ![h] = n]
    BY <1>2, CountsAreBehind DEF ReserveRead
  <2> QED BY <2>1, <2>2
<1>3. CASE ReserveWrite(h)
  BY <1>3 DEF ReserveWrite
<1>4. CASE Sign(h)
  BY <1>4 DEF Sign
<1>5. CASE SendRelay(h)
  BY <1>5 DEF SendRelay
<1>6. CASE DropUnsent(h) \/ Settle(h)
  BY <1>6 DEF DropUnsent, Settle, Resync
<1>7. CASE Poll(h)
  BY <1>7 DEF Poll
<1> QED
  BY <1>1, <1>2, <1>3, <1>4, <1>5, <1>6, <1>7 DEF Call

\* A call's step keeps the types.
LEMMA CallKeepsTypes ==
  ASSUME IInv, NEW h \in Hits, Call(h)
  PROVE  TypeOK'
<1>1. /\ pc' \in [Hits -> Points]
      /\ outcome' \in [Hits -> Outcomes \cup {None}]
      /\ gate' \in Seq(Hits)
  BY CallKeepsGate DEF IInv
<1>2. leaked' \in Nat
  BY LeaksAreCounted DEF IInv, TypeOK
<1>3. TypeOK /\ Counts \subseteq Nat
  BY CountsAreBehind DEF IInv
<1>4. /\ epochOf' \in [Hits -> 0..MaxEpoch] /\ expired' \in [Hits -> BOOLEAN]
      /\ cached' \in 0..MaxEpoch            /\ head' \in 0..MaxHead
      /\ minedAt' \in [Hits -> 0..MaxHead]  /\ succeeded' \subseteq Hits
      /\ reorgs' \in 0..MaxReorgs
  <2>1. UNCHANGED <<epochOf, expired, cached, head, minedAt, succeeded, reorgs>>
    BY CallWrites DEF chainVars
  <2> QED BY <1>3, <2>1 DEF TypeOK
<1>5. next' \in Nat \cup {None}
  <2>1. At(h, "advance") => nonce[h] \in Nat
    BY DEF IInv, NonceInv, At
  <2>2. next \in Nat \cup {None}
    BY <1>3 DEF TypeOK
  <2>3. \/ next' = next \/ next' \in Counts
        \/ At(h, "advance") /\ next' = nonce[h] + 1
    BY CallWrites
  <2>4. next' \in Counts => next' \in Nat
    BY <1>3
  <2>5. At(h, "advance") /\ next' = nonce[h] + 1 => next' \in Nat
    BY <2>1
  <2> QED BY <2>2, <2>3, <2>4, <2>5
<1>6. nonce' \in [Hits -> Nat \cup {None}]
  <2>1. nonce \in [Hits -> Nat \cup {None}] /\ next \in Nat \cup {None}
    BY <1>3 DEF TypeOK
  <2>2. Counts \cup ({next} \ {None}) \subseteq Nat \cup {None}
    BY <1>3, <2>1
  <2> QED BY <2>1, <2>2, CallWrites, OneValueChanges
<1>7. fan' \in [Hits -> 1..RelayCount]
  <2>1. fan \in [Hits -> 1..RelayCount] /\ fan[h] \in 1..RelayCount
    BY <1>3 DEF TypeOK
  <2>2. 1 \in 1..RelayCount /\ (MoreRelays(h) => fan[h] + 1 \in 1..RelayCount)
    BY <2>1 DEF MoreRelays
  <2>3. \E n \in 1..RelayCount : fan' = fan \/ fan' = [fan EXCEPT ![h] = n]
    BY <2>2, CallWrites
  <2> QED BY <2>1, <2>3, OneValueChanges
<1>8. winner' \in [Hits -> 1..RelayCount \cup {None}]
  <2>1. winner \in [Hits -> 1..RelayCount \cup {None}]
    BY <1>3 DEF TypeOK
  <2>2. {None, fan[h], winner[h]} \subseteq 1..RelayCount \cup {None}
    BY <1>3 DEF TypeOK
  <2> QED BY <2>1, <2>2, CallWrites, OneValueChanges
<1>9. receipt' \in [Hits -> Receipts \cup {None}]
  <2>1. receipt \in [Hits -> Receipts \cup {None}]
    BY <1>3 DEF TypeOK
  <2>2. [block |-> minedAt[h], ok |-> h \in succeeded, fork |-> reorgs] \in Receipts
    BY <1>3 DEF TypeOK, Receipts
  <2> QED BY <2>1, <2>2, CallWrites, OneValueChanges
<1>10. pool' \subseteq Hits
  <2>1. pool' = pool \/ pool' = pool \cup {h}
    BY CallWrites
  <2>2. pool \subseteq Hits
    BY <1>3 DEF TypeOK
  <2> QED BY <2>1, <2>2
<1> QED
  BY <1>1, <1>2, <1>4, <1>5, <1>6, <1>7, <1>8, <1>9, <1>10 DEF TypeOK

\* While a call is inside, the counter and the nonces are its own: nobody else
\* holds a nonce, and its own steps keep the counter at the nonce it holds.
LEMMA CallKeepsCounter ==
  ASSUME IInv, NEW h \in Hits, Call(h)
  PROVE  NonceInv' /\ GateProtectsCounter'
<1>1. \A g \in Hits : pc'[g] \in Inside => g = h
  BY CallKeepsGate DEF IInv
<1>2. Counts \subseteq Nat
  BY CountsAreBehind
<1> SUFFICES /\ pc'[h] \in Reserved \cup {"advance"} => nonce'[h] \in Nat
             /\ pc'[h] = "advance" => next' \in {None, nonce'[h]}
             /\ pc'[h] \in Reserved => next' = nonce'[h] + 1
  <2>1. \A g \in Hits : pc'[g] \in Reserved \cup {"advance"} => g = h
    BY <1>1 DEF Inside
  <2> QED BY <2>1 DEF NonceInv, GateProtectsCounter, At
<1>3. \A p \in Points : Goto(h, p) => pc'[h] = p
  BY CallMoves DEF IInv
<1>4. \A o \in Outcomes \cup {None} : Return(h, o) => pc'[h] = "done"
  BY CallReturns DEF IInv
<1> USE DEF IInv, Points, Inside, Reserved, Outcomes, At
<1>5. CASE CheckEpoch(h) \/ GasPrice(h) \/ EvCheck(h)
  <2>1. pc'[h] \in {"done", "gas", "ev", "reserve"}
    BY <1>3, <1>4, <1>5 DEF CheckEpoch, GasPrice, EvCheck
  <2> QED BY <2>1
<1>6. CASE ReserveRead(h)
  <2>1. CASE pc'[h] = "done"
    BY <2>1
  <2>2. CASE pc'[h] # "done"
    <3>1. /\ nonce'[h] \in IF next = None THEN Counts ELSE {next}
          /\ pc'[h] = "advance" /\ next' = next
      BY <1>3, <1>4, <1>6, <2>2 DEF ReserveRead, TypeOK
    <3> QED BY <1>2, <3>1 DEF TypeOK
  <2> QED BY <2>1, <2>2
<1>7. CASE ReserveWrite(h)
  <2>1. pc'[h] = "sign" /\ nonce' = nonce /\ next' = nonce[h] + 1 /\ pc[h] = "advance"
    BY <1>3, <1>7 DEF ReserveWrite, callVars
  <2> QED BY <2>1 DEF NonceInv
<1>8. CASE Sign(h) \/ SendRelay(h) \/ Poll(h) \/ Confirm(h)
  <2>1. UNCHANGED <<next, nonce>> /\ pc[h] \in Reserved
    BY <1>8 DEF Sign, SendRelay, Poll, Confirm
  <2>2. pc'[h] \in Reserved \cup {"done"}
    <3>1. CASE Sign(h)      BY <1>3, <1>4, <3>1 DEF Sign
    <3>2. CASE SendRelay(h) BY <1>3, <3>2 DEF SendRelay
    <3>3. CASE Poll(h)      BY <1>3, <1>4, <3>3 DEF Poll
    <3>4. CASE Confirm(h)   BY <1>3, <1>4, <3>4 DEF Confirm
    <3> QED BY <1>8, <3>1, <3>2, <3>3, <3>4
  <2> QED BY <2>1, <2>2 DEF NonceInv, GateProtectsCounter
<1>9. CASE DropUnsent(h) \/ Settle(h)
  <2>1. pc'[h] = "done"
    BY <1>4, <1>9 DEF DropUnsent, Settle, TypeOK
  <2> QED BY <2>1
<1> QED
  BY <1>5, <1>6, <1>7, <1>8, <1>9 DEF Call

----------------------------------------------------------------------------
(* The steps of the environment.                                           *)

LEMMA EnvironmentKeepsIInv ==
  ASSUME IInv, Environment
  PROVE  IInv'
<1> USE DEF IInv
<1>1. CASE \E h \in Hits : Submit(h)
  <2>1. PICK h \in Hits : Submit(h)
    BY <1>1
  <2>2. gate' \in Seq(Hits) /\ GateInv'
    BY <2>1, SubmitQueues
  <2>3. pc' \in [Hits -> Points] /\ pc'[h] = "gate"
        /\ \A g \in Hits \ {h} : pc'[g] = pc[g]
    BY <2>1, CallMoves DEF Submit, Points
  <2>4. epochOf' \in [Hits -> 0..MaxEpoch]
    BY <2>1 DEF Submit, TypeOK
  <2>5. TypeOK'
    BY <2>1, <2>2, <2>3, <2>4 DEF Submit, TypeOK, chainVars
  <2>6. NonceInv' /\ GateProtectsCounter'
    BY <2>1, <2>3 DEF Submit, NonceInv, GateProtectsCounter, At, Reserved
  <2> QED BY <2>2, <2>5, <2>6
<1>2. CASE \/ \E h \in Hits : Expire(h) \/ Evict(h)
           \/ WatcherUpdate \/ NewBlock \/ Reorg
  <2>1. UNCHANGED <<pc, gate, next, leaked, callVars>>
    BY <1>2 DEF Expire, Evict, WatcherUpdate, NewBlock, Reorg
  <2>2. GateInv' /\ NonceInv' /\ GateProtectsCounter'
    BY <2>1 DEF GateInv, NonceInv, GateProtectsCounter, Waiting, Holds, At, callVars
  <2>3. /\ expired'   \in [Hits -> BOOLEAN]
        /\ cached'    \in 0..MaxEpoch
        /\ pool'      \subseteq Hits
        /\ head'      \in 0..MaxHead
        /\ minedAt'   \in [Hits -> 0..MaxHead]
        /\ succeeded' \subseteq Hits
        /\ reorgs'    \in 0..MaxReorgs
    <3>1. CASE (\E h \in Hits : Expire(h) \/ Evict(h)) \/ WatcherUpdate
      <4>1. CASE \E h \in Hits : Expire(h)
        BY <4>1 DEF Expire, chainVars, TypeOK
      <4>2. CASE \E h \in Hits : Evict(h)
        BY <4>2 DEF Evict, chainVars, TypeOK
      <4>3. CASE WatcherUpdate
        <5>1. cached + 1 \in 0..MaxEpoch
          BY <4>3 DEF WatcherUpdate, TypeOK
        <5> QED BY <4>3, <5>1 DEF WatcherUpdate, chainVars, TypeOK
      <4> QED BY <3>1, <4>1, <4>2, <4>3
    <3>2. CASE NewBlock
      <4>1. PICK S \in SUBSET (pool \ Mined) :
              /\ head' = head + 1
              /\ minedAt' = [h \in Hits |-> IF h \in S THEN head + 1 ELSE minedAt[h]]
              /\ pool' = pool \ S
              /\ \E ok \in SUBSET S : succeeded' = succeeded \cup ok
        BY <3>2 DEF NewBlock
      <4>2. head + 1 \in 0..MaxHead
        BY <3>2 DEF NewBlock, TypeOK
      <4> QED BY <3>2, <4>1, <4>2 DEF NewBlock, TypeOK
    <3>3. CASE Reorg
      <4>1. PICK d \in 1..head :
              LET undone == {h \in Hits : minedAt[h] > head - d}
              IN /\ head' = head - d
                 /\ minedAt' = [h \in Hits |-> IF h \in undone THEN 0 ELSE minedAt[h]]
                 /\ succeeded' = succeeded \ undone
                 /\ pool' = pool \cup undone
                 /\ reorgs' = reorgs + 1
        BY <3>3 DEF Reorg
      <4>2. head - d \in 0..MaxHead /\ 0 \in 0..MaxHead /\ reorgs + 1 \in 0..MaxReorgs
        BY <3>3 DEF Reorg, TypeOK
      <4> QED BY <3>3, <4>1, <4>2 DEF Reorg, TypeOK
    <3> QED BY <1>2, <3>1, <3>2, <3>3
  <2>4. TypeOK'
    BY <2>1, <2>3 DEF TypeOK, callVars
  <2> QED BY <2>2, <2>4
<1>3. CASE Crash
  <2>1. /\ gate' = <<>> /\ next' = None
        /\ pc' \in [Hits -> Points]
        /\ \A h \in Hits : ~Waiting(h)'
    BY <1>3 DEF Crash, TypeOK, Waiting, Points, Inside, Reserved
  <2>2. GateInv' /\ NonceInv' /\ GateProtectsCounter'
    BY <2>1 DEF GateInv, NonceInv, GateProtectsCounter, Waiting, At, Inside
  <2>3. <<>> \in Seq(Hits)
    OBVIOUS
  <2>4. TypeOK'
    BY <1>3, <2>1, <2>3 DEF Crash, TypeOK, callVars, chainVars
  <2> QED BY <2>2, <2>4
<1> QED
  BY <1>1, <1>2, <1>3 DEF Environment

----------------------------------------------------------------------------
(* The gate serves the calls one at a time.                                *)

Served == {h \in Hits : pc[h] \in Inside}
Over   == {h \in Hits : pc[h] \in {"done", "lost"}}

\* Only the call at the head of the queue is served.
LEMMA HolderIsServed ==
  ASSUME GateInv, NEW h \in Hits, Holds(h)
  PROVE  Served \subseteq {h}
BY OneInside DEF Served

LEMMA SubmitArrives ==
  ASSUME IInv, NEW h \in Hits, Submit(h)
  PROVE  Serial!Arrive(h)
<1>1. pc[h] = "new" /\ pc'[h] = "gate" /\ \A g \in Hits \ {h} : pc'[g] = pc[g]
  BY CallMoves DEF Submit, At, IInv, Points
<1>2. Served' = Served /\ Over' = Over /\ h \notin Over
  BY <1>1 DEF Served, Over, Inside, Reserved
<1>3. ~Waiting(h)
  BY <1>1 DEF Waiting, Inside, Reserved
<1>4. \A i \in 1..Len(gate) : gate[i] # h
  BY <1>3 DEF IInv, GateInv
<1>5. gate' = Append(gate, h)
  BY DEF Submit
<1> QED
  BY <1>2, <1>4, <1>5 DEF Serial!Arrive, Served, Over

\* A call that moves on inside is being served: it may have begun just now.
LEMMA CallIsServed ==
  ASSUME IInv, NEW h \in Hits, Waiting(h), Holds(h),
         NEW p \in Inside, Goto(h, p), UNCHANGED gate
  PROVE  Serial!Serve \/ UNCHANGED <<gate, Served, Over>>
<1>1. pc'[h] = p /\ \A g \in Hits \ {h} : pc'[g] = pc[g]
  BY CallMoves DEF IInv, Points
<1>2. h \notin Over /\ Over' = Over
  BY <1>1 DEF Waiting, Over, Inside, Reserved
<1>3. Served' = Served \cup {h} /\ Served \subseteq {h}
  BY <1>1, HolderIsServed DEF Served, IInv
<1>4. gate # <<>> /\ Head(gate) = h
  BY DEF Holds
<1>5. CASE h \in Served
  BY <1>2, <1>3, <1>5
<1>6. CASE h \notin Served
  <2>1. Served = {} /\ Served' = {Head(gate)}
    BY <1>3, <1>4, <1>6
  <2> QED BY <1>2, <1>4, <2>1 DEF Serial!Serve, Served, Over
<1> QED BY <1>5, <1>6

LEMMA ReturnEnds ==
  ASSUME IInv, NEW h \in Hits, Holds(h), NEW o \in Outcomes \cup {None}, Return(h, o)
  PROVE  Serial!End
<1>1. pc'[h] = "done" /\ \A g \in Hits \ {h} : pc'[g] = pc[g]
  BY CallReturns DEF IInv
<1>2. Served \subseteq {h} /\ Served' = {}
  BY <1>1, HolderIsServed DEF Served, Inside, Reserved, IInv
<1>3. Over' = Over \cup {h}
  BY <1>1 DEF Over
<1>4. gate # <<>> /\ Head(gate) = h /\ gate' = Tail(gate)
  BY DEF Holds, Return
<1> QED
  BY <1>2, <1>3, <1>4 DEF Serial!End, Served, Over

LEMMA CrashStops ==
  ASSUME IInv, Crash
  PROVE  Serial!Stop
<1>1. \A h \in Hits : pc'[h] = IF Waiting(h) THEN "lost" ELSE pc[h]
  BY DEF Crash, Waiting
<1>2. Served' = {}
  BY <1>1 DEF Served, Waiting, Inside, Reserved
<1>3. Over' = Over \cup {h \in Hits : Waiting(h)}
  BY <1>1 DEF Over
<1>4. {h \in Hits : Waiting(h)} = {gate[i] : i \in 1..Len(gate)}
  <2>1. \A i \in 1..Len(gate) : gate[i] \in Hits
    BY DEF IInv, TypeOK
  <2> QED BY <2>1 DEF IInv, GateInv
<1>5. gate' = <<>>
  BY DEF Crash
<1> QED
  BY <1>2, <1>3, <1>4, <1>5 DEF Serial!Stop, Served, Over

LEMMA StepIsSerial ==
  ASSUME IInv, [Next]_vars
  PROVE  Serial!Next \/ UNCHANGED <<gate, Served, Over>>
<1>1. ASSUME NEW h \in Hits, Call(h)
      PROVE  Serial!Next \/ UNCHANGED <<gate, Served, Over>>
  <2>1. Waiting(h) /\ Holds(h)
    BY <1>1, CallHolds DEF IInv
  <2>2. CASE \E p \in Inside : Goto(h, p) /\ UNCHANGED gate
    BY <2>1, <2>2, CallIsServed DEF Serial!Next
  <2>3. CASE \E o \in Outcomes \cup {None} : Return(h, o)
    BY <2>1, <2>3, ReturnEnds DEF Serial!Next
  <2>4. "settle" \in Inside
    BY DEF Inside, Reserved
  <2> QED BY <1>1, <2>2, <2>3, <2>4, CallStaysOrReturns DEF IInv
<1>2. CASE \E h \in Hits : Submit(h)
  BY <1>2, SubmitArrives DEF Serial!Next
<1>3. CASE Crash
  BY <1>3, CrashStops DEF Serial!Next
<1>4. CASE UNCHANGED <<pc, gate>>
  BY <1>4 DEF Served, Over
<1>5. CASE Environment
  BY <1>2, <1>3, <1>4, <1>5 DEF Environment, Expire, Evict, WatcherUpdate, NewBlock, Reorg
<1> QED BY <1>1, <1>4, <1>5 DEF Next, vars

----------------------------------------------------------------------------
(* The theorems.                                                           *)

LEMMA InitIInv == Init => IInv
<1> SUFFICES ASSUME Init PROVE IInv
  OBVIOUS
<1>1. TypeOK
  <2>1. 1 \in 1..RelayCount /\ 0 \in 0..MaxEpoch /\ 0 \in 0..MaxHead /\ 0 \in 0..MaxReorgs
    OBVIOUS
  <2>2. <<>> \in Seq(Hits)
    OBVIOUS
  <2> HIDE NumbersAssumption
  <2> QED BY <2>1, <2>2 DEF Init, TypeOK, Points
<1>2. GateInv /\ NonceInv /\ GateProtectsCounter
  BY DEF Init, GateInv, NonceInv, GateProtectsCounter, Waiting, At, Inside, Reserved
<1> QED BY <1>1, <1>2 DEF IInv

LEMMA NextIInv == IInv /\ [Next]_vars => IInv'
<1> SUFFICES ASSUME IInv, [Next]_vars PROVE IInv'
  OBVIOUS
<1>1. ASSUME NEW h \in Hits, Call(h) PROVE IInv'
  BY <1>1, CallKeepsTypes, CallKeepsCounter, CallKeepsGate DEF IInv
<1>2. CASE UNCHANGED vars
  BY <1>2 DEF vars, callVars, chainVars, IInv, TypeOK, GateInv, NonceInv,
              GateProtectsCounter, Waiting, Holds, At
<1> QED
  BY <1>1, <1>2, EnvironmentKeepsIInv DEF Next

\* In every behaviour, whatever relays, chain, timeouts and crashes do, the
\* inductive invariant holds.
THEOREM InductiveInvariant == Spec => []IInv
BY InitIInv, NextIInv, PTL DEF Spec

\* Every variable of TxSubmitter keeps its type.
THEOREM TypeCorrect == Spec => []TypeOK
<1>1. IInv => TypeOK BY DEF IInv
<1> QED BY <1>1, InductiveInvariant, PTL

\* seq_gate makes NonceGate's two-step reserve() safe, for any number of
\* concurrent calls: the counter a call read is the one it advances, and it stays
\* where that call put it until the call is over.
THEOREM CounterIsProtected == Spec => []GateProtectsCounter
<1>1. IInv => GateProtectsCounter BY DEF IInv
<1> QED BY <1>1, InductiveInvariant, PTL

\* Every behaviour of submit(), its gate, relays, chain and crashes is one in which
\* the calls are served one at a time, in the order they queued, and end once.
THEOREM ServesOneAtATime == Spec => SerialSpec
<1>1. Init => Serial!Init
  BY DEF Init, Serial!Init, Inside, Reserved
<1>2. IInv /\ [Next]_vars
        => [Serial!Next]_<<gate, {h \in Hits : pc[h] \in Inside},
                           {h \in Hits : pc[h] \in {"done", "lost"}}>>
  BY StepIsSerial DEF Served, Over
<1> QED
  BY <1>1, <1>2, InductiveInvariant, PTL DEF Spec, SerialSpec, Serial!Spec

=============================================================================
