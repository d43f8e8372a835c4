------------------------ MODULE FakePipeline_proofs ------------------------
(***************************************************************************)
(* Proofs about FakePipeline, for any number of callers and drivers, any   *)
(* targets, digests and bounds: types, what the update channel holds, what *)
(* the hits are, which nonces were searched, and that the hits reach the   *)
(* submitter as HitStream says.                                            *)
(***************************************************************************)
EXTENDS FakePipeline, TLAPS

Epochs == 0..(MaxHead \div EpochBlocks)
Nonces == 0..(NonceBound - 1)

LEMMA Sizes ==
  /\ EpochBlocks \in Nat /\ EpochBlocks > 0 /\ Capacity \in Nat /\ BusCapacity \in Nat
  /\ Capacity > 0 /\ BusCapacity > 0
  /\ MaxHead \in Nat /\ NonceBound \in Nat /\ MaxFound \in Nat
BY SizesAssumption

LEMMA NoneIsNoHit ==
  /\ None \notin Nat
  /\ None \notin Grinder!Hits
<1>1. ASSUME None \in Grinder!Hits PROVE FALSE
  <2>1. None \in [nonce : 0..(NonceBound - 1), hash : Nat, epoch : Challenges]
    BY <1>1 DEF Grinder!Hits, Grinder!Nonces
  <2> QED BY <2>1, NoneAssumption
<1> QED BY <1>1, NoneAssumption

\* Epochs are numbered from zero, and the later of two heights is not in the
\* earlier epoch.
LEMMA EpochGrows ==
  ASSUME NEW a \in Nat, NEW b \in Nat, a =< b
  PROVE  Chain!EpochOf(a) \in Nat /\ Chain!EpochOf(a) =< Chain!EpochOf(b)
<1> DEFINE p == a \div EpochBlocks
           q == b \div EpochBlocks
<1>1. p \in Int /\ q \in Int /\ EpochBlocks \in Nat /\ EpochBlocks > 0
  BY Sizes
<1>2. /\ EpochBlocks * p =< a /\ a < EpochBlocks * p + EpochBlocks
      /\ b < EpochBlocks * q + EpochBlocks
  BY Sizes
<1> HIDE DEF p, q
<1>3. ASSUME q + 1 =< p PROVE FALSE
  <2>1. EpochBlocks * (q + 1) =< EpochBlocks * p
    BY <1>1, <1>3
  <2>2. EpochBlocks * (q + 1) = EpochBlocks * q + EpochBlocks
    BY <1>1
  <2> QED BY <1>1, <1>2, <2>1, <2>2
<1>4. ASSUME p + 1 =< 0 PROVE FALSE
  <2>1. EpochBlocks * (p + 1) =< EpochBlocks * 0
    BY <1>1, <1>4
  <2>2. EpochBlocks * (p + 1) = EpochBlocks * p + EpochBlocks
    BY <1>1
  <2> QED BY <1>1, <1>2, <2>1, <2>2
<1>5. p \in Nat /\ p =< q
  BY <1>1, <1>3, <1>4
<1> QED BY <1>5 DEF p, q, Chain!EpochOf

\* Every height has an epoch of the bounded run, and a challenge.
LEMMA EpochInRange ==
  /\ \A b \in 0..MaxHead : Chain!EpochOf(b) \in Epochs
  /\ Epochs \subseteq Nat /\ Epochs \subseteq Challenges /\ 0 \in Challenges
<1>1. Chain!EpochOf(MaxHead) \in Nat /\ Epochs = 0..Chain!EpochOf(MaxHead)
  BY Sizes, EpochGrows DEF Epochs, Chain!EpochOf
<1>2. ASSUME NEW b \in 0..MaxHead
      PROVE  Chain!EpochOf(b) \in Nat /\ Chain!EpochOf(b) =< Chain!EpochOf(MaxHead)
  BY Sizes, EpochGrows
<1>3. Epochs \subseteq Challenges
  BY DigestAssumption DEF Epochs
<1> QED BY <1>1, <1>2, <1>3

----------------------------------------------------------------------------
(* Types.                                                                  *)

\* Epochs come from heights; a call that has found a nonce has one that was
\* searched.
KnownEpochs ==
  /\ rolled \in [Callers -> Epochs \cup {None}]
  /\ update.epoch \in Epochs /\ taken.epoch \in Epochs

KnownNonces == \A d \in Drivers : at[d] # "idle" => local[d].n \in Nonces

Typed == TypeOK /\ KnownEpochs /\ KnownNonces

LEMMA UpdateTyped ==
  ASSUME NEW e \in Epochs, NEW d \in Targets, NEW b \in 0..MaxHead
  PROVE  Chain!Update(e, d, b) \in Chain!Updates /\ Chain!Update(e, d, b).epoch = e
BY EpochInRange DEF Chain!Update, Chain!Updates

LEMMA InitTyped == Init => Typed
<1> SUFFICES ASSUME Init PROVE Typed
  OBVIOUS
<1>1. update \in Chain!Updates /\ update.epoch \in Epochs /\ taken = update
  <2>1. head \in 0..MaxHead /\ difficulty \in Targets /\ taken = update
        /\ update = Chain!Update(Chain!EpochOf(head), difficulty, head)
    BY DEF Init, Chain!Init
  <2>2. Chain!EpochOf(head) \in Epochs
    BY <2>1, EpochInRange
  <2> QED BY <2>1, <2>2, UpdateTyped
<1>2. Chain!TypeOK
  BY <1>1, Sizes DEF Chain!TypeOK, Init, Chain!Init
<1>3. Grinder!TypeOK
  <2>1. Grinder!NoOrders \in Grinder!Orders
    BY EpochInRange DEF Grinder!NoOrders, Grinder!Orders
  <2>2. orders \in Grinder!Orders /\ local \in [Drivers -> [orders : Grinder!Orders, n : Nat]]
    BY <2>1 DEF Init, Grinder!Init
  <2>3. hits = <<>> /\ found = <<>> /\ nextNonce = 0 /\ raced = FALSE
        /\ at \in [Drivers -> {"idle", "send", "bump"}]
    BY DEF Init, Grinder!Init
  <2>4. hits \in Seq(Grinder!Hits) /\ Len(hits) = 0 /\ found \in Seq(Grinder!Hits)
    BY <2>3
  <2>5. Len(hits) =< Capacity /\ nextNonce \in Nat
    BY <2>3, <2>4, Sizes
  <2>6. raced \in BOOLEAN
    BY <2>3
  <2> QED BY <2>2, <2>3, <2>4, <2>5, <2>6 DEF Grinder!TypeOK
<1>4. Bus!TypeOK
  BY Sizes DEF Bus!TypeOK, Init, Bus!Init
<1>5. TypeOK
  BY <1>1, <1>2, <1>3, <1>4 DEF TypeOK, Init
<1>6. KnownEpochs /\ KnownNonces
  BY <1>1 DEF KnownEpochs, KnownNonces, Init, Chain!Init, Grinder!Init
<1> QED BY <1>5, <1>6 DEF Typed

LEMMA ChainTyped ==
  ASSUME Typed, NEW c \in Callers, ChainCall(c)
  PROVE  Chain!TypeOK' /\ rolled' \in [Callers -> Epochs \cup {None}] /\ update'.epoch \in Epochs
<1> USE DEF Typed, TypeOK, KnownEpochs
<1>1. ASSUME NEW n \in 1..MaxHead, Chain!Advance(c, n)
      PROVE  Chain!TypeOK' /\ rolled' \in [Callers -> Epochs \cup {None}] /\ update'.epoch \in Epochs
  <2>1. head' \in 0..MaxHead
    BY <1>1, Sizes DEF Chain!Advance, Chain!TypeOK
  <2>2. Chain!EpochOf(head + n) \in Epochs
    BY <1>1, <2>1, EpochInRange DEF Chain!Advance
  <2>3. rolled' \in [Callers -> Epochs \cup {None}]
    BY <1>1, <2>2 DEF Chain!Advance
  <2>4. rolled' \in [Callers -> Nat \cup {None}]
    BY <2>3, EpochInRange
  <2> QED BY <1>1, <2>1, <2>3, <2>4 DEF Chain!Advance, Chain!TypeOK, Chain!Idle
<1>2. ASSUME NEW e \in Epochs, NEW d \in Targets, NEW b \in 0..MaxHead,
             Chain!Send(Chain!Update(e, d, b))
      PROVE  update' \in Chain!Updates /\ update'.epoch \in Epochs /\ version' \in Nat
  BY <1>2, UpdateTyped DEF Chain!Send, Chain!TypeOK
<1>3. ASSUME Chain!Publish(c)
      PROVE  Chain!TypeOK' /\ rolled' \in [Callers -> Epochs \cup {None}] /\ update'.epoch \in Epochs
  <2>1. rolled[c] \in Epochs
    BY <1>3 DEF Chain!Publish, Chain!Idle
  <2>2. update' \in Chain!Updates /\ update'.epoch \in Epochs /\ version' \in Nat
    BY <1>2, <1>3, <2>1 DEF Chain!Publish, Chain!TypeOK
  <2>3. rolled' \in [Callers -> Epochs \cup {None}]
    BY <1>3 DEF Chain!Publish
  <2>4. rolled' \in [Callers -> Nat \cup {None}]
    BY <2>3, EpochInRange
  <2> QED BY <1>3, <2>2, <2>3, <2>4 DEF Chain!Publish, Chain!TypeOK
<1>4. ASSUME NEW d \in Targets, Chain!SetDifficulty(c, d)
      PROVE  Chain!TypeOK' /\ rolled' \in [Callers -> Epochs \cup {None}] /\ update'.epoch \in Epochs
  <2>1. Chain!EpochOf(head) \in Epochs
    BY EpochInRange DEF Chain!TypeOK
  <2>2. update' \in Chain!Updates /\ update'.epoch \in Epochs /\ version' \in Nat
    BY <1>2, <1>4, <2>1 DEF Chain!SetDifficulty, Chain!TypeOK
  <2> QED BY <1>4, <2>2 DEF Chain!SetDifficulty, Chain!TypeOK
<1> QED BY <1>1, <1>3, <1>4 DEF ChainCall, Chain!Step

LEMMA HashIsNat ==
  ASSUME NEW o \in Grinder!Orders, NEW n \in Nonces
  PROVE  Digest[<<o.challenge, n>>] \in Nat
BY DigestAssumption DEF Grinder!Orders, Nonces

LEMMA HitTyped ==
  ASSUME Typed, NEW d \in Drivers, at[d] # "idle"
  PROVE  Grinder!HitOf(d) \in Grinder!Hits
<1>1. local[d].orders \in Grinder!Orders /\ local[d].n \in Nonces
  BY DEF Typed, TypeOK, Grinder!TypeOK, KnownNonces
<1>2. Digest[<<local[d].orders.challenge, local[d].n>>] \in Nat
  BY <1>1, HashIsNat
<1> QED BY <1>1, <1>2 DEF Grinder!HitOf, Grinder!Hits, Grinder!Orders, Grinder!Nonces, Nonces

LEMMA DriveTyped ==
  ASSUME Typed, NEW d \in Drivers, Drive(d)
  PROVE  Grinder!TypeOK' /\ KnownNonces'
<1> USE DEF Typed, TypeOK
<1>1. CASE Grinder!Search(d)
  <2>1. PICK n \in Grinder!Nonces : local' = [local EXCEPT ![d] = [orders |-> orders, n |-> n]]
    BY <1>1 DEF Grinder!Search
  <2>2. n \in Nat /\ n \in Nonces
    BY Sizes DEF Grinder!Nonces, Nonces
  <2>3. local' \in [Drivers -> [orders : Grinder!Orders, n : Nat]]
    BY <2>1, <2>2 DEF Grinder!TypeOK
  <2>4. Grinder!TypeOK'
    BY <1>1, <2>3 DEF Grinder!Search, Grinder!TypeOK
  <2>5. KnownNonces'
    BY <1>1, <2>1, <2>2 DEF Grinder!Search, Grinder!TypeOK, KnownNonces
  <2> QED BY <2>4, <2>5
<1>2. CASE Grinder!Send(d)
  <2>1. Grinder!HitOf(d) \in Grinder!Hits
    BY <1>2, HitTyped DEF Grinder!Send
  <2>2. hits' \in Seq(Grinder!Hits) /\ found' \in Seq(Grinder!Hits) /\ Len(hits') =< Capacity
    BY <1>2, <2>1, Sizes DEF Grinder!Send, Grinder!TypeOK
  <2> QED BY <1>2, <2>2 DEF Grinder!Send, Grinder!TypeOK, KnownNonces
<1>3. CASE Grinder!Bump(d)
  BY <1>3 DEF Grinder!Bump, Grinder!TypeOK, KnownNonces
<1> QED BY <1>1, <1>2, <1>3 DEF Drive, Grinder!DriveOneHit

LEMMA BusTyped ==
  ASSUME Bus!TypeOK, Bus!Emit \/ Bus!Append
  PROVE  Bus!TypeOK'
BY Sizes DEF Bus!TypeOK, Bus!Emit, Bus!Append, Bus!Open, Bus!Write, Bus!Fail

LEMMA NextTyped == Typed /\ [Next]_vars => Typed'
<1> SUFFICES ASSUME Typed, [Next]_vars PROVE Typed'
  OBVIOUS
<1> USE DEF Typed, TypeOK, chainVars, grinderVars, busVars, swapVars, consumerVars
<1>1. CASE Subscribe
  BY <1>1 DEF Subscribe, Chain!Subscribe, Chain!TypeOK, Grinder!TypeOK, Bus!TypeOK,
             KnownEpochs, KnownNonces
<1>2. CASE TakeUpdate
  BY <1>2 DEF TakeUpdate, Chain!TypeOK, Grinder!TypeOK, Bus!TypeOK, KnownEpochs, KnownNonces
<1>3. CASE HotSwap
  <2>1. [challenge |-> taken.epoch, target |-> Effective(taken.target),
         epoch |-> taken.epoch] \in Grinder!Orders
    BY EpochInRange, TargetsAssumption
       DEF Grinder!Orders, Effective, KnownEpochs, Chain!Updates
  <2>2. Grinder!TypeOK' /\ KnownNonces'
    BY <1>3, <2>1 DEF HotSwap, Grinder!HotSwap, Grinder!TypeOK, KnownNonces
  <2>3. Bus!TypeOK'
    BY <1>3, BusTyped DEF HotSwap
  <2> QED BY <1>3, <2>2, <2>3 DEF HotSwap, Chain!TypeOK, KnownEpochs
<1>4. CASE Receive
  <2>1. Grinder!TypeOK' /\ inHand' \in Grinder!Hits
    BY <1>4, Sizes DEF Receive, Grinder!Receive, Grinder!TypeOK
  <2>2. Bus!TypeOK'
    BY <1>4, BusTyped DEF Receive
  <2> QED BY <1>4, <2>1, <2>2
      DEF Receive, Grinder!Receive, Chain!TypeOK, KnownEpochs, KnownNonces
<1>5. CASE Submit
  <2>1. submitted' \in Seq(Grinder!Hits)
    BY <1>5 DEF Submit
  <2>2. Bus!TypeOK'
    BY <1>5, BusTyped DEF Submit
  <2> QED BY <1>5, <2>1, <2>2 DEF Submit, Chain!TypeOK, Grinder!TypeOK, KnownEpochs, KnownNonces
<1>6. CASE Heartbeat \/ Appender
  <2>1. Bus!TypeOK'
    BY <1>6, BusTyped DEF Heartbeat, Appender
  <2> QED BY <1>6, <2>1
      DEF Heartbeat, Appender, Chain!TypeOK, Grinder!TypeOK, KnownEpochs, KnownNonces
<1>7. ASSUME NEW c \in Callers, ChainCall(c) PROVE Typed'
  <2>1. Chain!TypeOK' /\ rolled' \in [Callers -> Epochs \cup {None}] /\ update'.epoch \in Epochs
    BY <1>7, ChainTyped
  <2> QED BY <1>7, <2>1 DEF ChainCall, Grinder!TypeOK, Bus!TypeOK, KnownEpochs, KnownNonces
<1>8. ASSUME NEW d \in Drivers, Drive(d) PROVE Typed'
  <2>1. Grinder!TypeOK' /\ KnownNonces'
    BY <1>8, DriveTyped
  <2> QED BY <1>8, <2>1 DEF Drive, Chain!TypeOK, Bus!TypeOK, KnownEpochs
<1>9. CASE UNCHANGED vars
  BY <1>9 DEF vars, Chain!TypeOK, Grinder!TypeOK, Bus!TypeOK, KnownEpochs, KnownNonces
<1> QED BY <1>1, <1>2, <1>3, <1>4, <1>5, <1>6, <1>7, <1>8, <1>9 DEF Next, SwapTask, Consumer

\* Every variable has its type, and the hit channel its capacity.
THEOREM TypeIsCorrect == Spec => []TypeOK
<1>1. Spec => []Typed
  BY InitTyped, NextTyped, PTL DEF Spec
<1>2. Typed => TypeOK
  BY DEF Typed
<1> QED BY <1>1, <1>2, PTL

----------------------------------------------------------------------------
(* What the update channel holds.                                          *)

\* What was sent, and what is yet to be sent, is of an epoch that the chain has
\* reached, and what was sent last has its difficulty.  Unless two callers rolled
\* the epoch at the same time, at most one has an epoch to publish, and it is the
\* chain's.
ChannelInv ==
  /\ version > 0 =>
       listening /\ update.target = difficulty /\ update.epoch =< Chain!EpochOf(head)
  /\ \A c \in Callers : rolled[c] # None => rolled[c] =< Chain!EpochOf(head)
  /\ ~overtaken =>
       /\ \A c, o \in Callers : rolled[c] # None /\ rolled[o] # None => c = o
       /\ \A c \in Callers : rolled[c] # None => rolled[c] = Chain!EpochOf(head)
       /\ (\A c \in Callers : rolled[c] = None) /\ version > 0 =>
            update.epoch = Chain!EpochOf(head)

LEMMA InitChannel == Init => ChannelInv
BY DEF Init, Chain!Init, ChannelInv

LEMMA ChainChannel ==
  ASSUME Typed, ChannelInv, NEW k \in Callers, ChainCall(k)
  PROVE  ChannelInv'
<1> USE DEF ChannelInv
<1>0. /\ rolled \in [Callers -> Epochs \cup {None}] /\ version \in Nat
      /\ update.epoch \in Epochs /\ head \in 0..MaxHead
      /\ None \notin Epochs /\ Epochs \subseteq Nat /\ Chain!EpochOf(head) \in Nat
  BY EpochInRange, NoneIsNoHit DEF Typed, TypeOK, KnownEpochs, Chain!TypeOK
<1>1. ASSUME NEW n \in 1..MaxHead, Chain!Advance(k, n) PROVE ChannelInv'
  <2>1. /\ head' = head + n /\ UNCHANGED <<difficulty, update, version, listening>>
        /\ head + n \in 0..MaxHead
    BY <1>0, <1>1, Sizes DEF Chain!Advance
  <2>2. Chain!EpochOf(head) =< Chain!EpochOf(head') /\ Chain!EpochOf(head') \in Epochs
    BY <1>0, <2>1, EpochGrows, EpochInRange
  <2>3. ASSUME NEW c \in Callers, rolled[c] # None PROVE rolled[c] =< Chain!EpochOf(head')
    <3>1. rolled[c] \in Nat /\ rolled[c] =< Chain!EpochOf(head) /\ Chain!EpochOf(head') \in Nat
      BY <1>0, <2>2, <2>3
    <3> QED BY <1>0, <2>2, <3>1
  <2>4. update'.epoch =< Chain!EpochOf(head') \/ version' = 0
    <3>1. update.epoch \in Nat /\ Chain!EpochOf(head') \in Nat
      BY <1>0, <2>2
    <3> QED BY <1>0, <2>1, <2>2, <3>1
  <2>5. CASE Chain!EpochOf(head + n) = Chain!EpochOf(head)
    <3>1. UNCHANGED <<rolled, overtaken>>
      BY <1>1, <2>5 DEF Chain!Advance
    <3> QED BY <2>1, <2>5, <3>1
  <2>6. CASE Chain!EpochOf(head + n) # Chain!EpochOf(head)
    <3>1. /\ rolled' = [rolled EXCEPT ![k] = Chain!EpochOf(head')]
          /\ overtaken' = (overtaken \/ \E o \in Callers : ~Chain!Idle(o))
      BY <1>1, <2>1, <2>6 DEF Chain!Advance
    <3>2. ASSUME ~overtaken' PROVE \A o \in Callers : rolled[o] = None
      BY <3>1, <3>2 DEF Chain!Idle
    <3>3. rolled'[k] = Chain!EpochOf(head') /\ rolled'[k] # None
      BY <1>0, <2>2, <3>1
    <3>4. ASSUME ~overtaken'
          PROVE  \A o \in Callers : rolled'[o] # None => o = k /\ rolled'[o] = Chain!EpochOf(head')
      BY <1>0, <3>1, <3>2, <3>4
    <3>5. ASSUME NEW c \in Callers, rolled'[c] # None
          PROVE  rolled'[c] =< Chain!EpochOf(head')
      <4>1. CASE c = k
        <5>1. Chain!EpochOf(head') \in Nat
          BY <1>0, <2>2
        <5>2. Chain!EpochOf(head') =< Chain!EpochOf(head')
          BY <5>1
        <5> QED BY <3>3, <4>1, <5>2
      <4>2. CASE c # k
        BY <1>0, <2>3, <3>1, <3>5, <4>2
      <4> QED BY <4>1, <4>2
    <3> QED BY <2>1, <2>4, <3>3, <3>4, <3>5
  <2> QED BY <2>5, <2>6
<1>2. ASSUME Chain!Publish(k) PROVE ChannelInv'
  <2>1. rolled[k] # None /\ rolled' = [rolled EXCEPT ![k] = None]
        /\ UNCHANGED <<head, difficulty, listening, overtaken>>
    BY <1>2 DEF Chain!Publish, Chain!Idle
  <2>2. \A o \in Callers : rolled'[o] # None => rolled[o] = rolled'[o]
    BY <1>0, <2>1
  <2>3. CASE listening
    <3>1. update' = Chain!Update(rolled[k], difficulty, head) /\ version' = version + 1
      BY <1>2, <2>3 DEF Chain!Publish, Chain!Send
    <3>2. update'.epoch = rolled[k] /\ update'.target = difficulty
      BY <3>1 DEF Chain!Update
    <3> QED BY <1>0, <2>1, <2>2, <2>3, <3>2
  <2>4. CASE ~listening
    <3>1. UNCHANGED <<update, version>>
      BY <1>2, <2>4 DEF Chain!Publish, Chain!Send
    <3> QED BY <1>0, <2>1, <2>2, <2>4, <3>1
  <2> QED BY <2>3, <2>4
<1>3. ASSUME NEW d \in Targets, Chain!SetDifficulty(k, d) PROVE ChannelInv'
  <2>1. UNCHANGED <<head, rolled, listening, overtaken>> /\ difficulty' = d
    BY <1>3 DEF Chain!SetDifficulty
  <2>2. CASE listening
    <3>1. update' = Chain!Update(Chain!EpochOf(head), d, head)
      BY <1>3, <2>2 DEF Chain!SetDifficulty, Chain!Send
    <3>2. update'.epoch = Chain!EpochOf(head) /\ update'.target = d
      BY <3>1 DEF Chain!Update
    <3> QED BY <1>0, <2>1, <2>2, <3>2
  <2>3. CASE ~listening
    <3>1. UNCHANGED <<update, version>> /\ ~(version > 0)
      BY <1>3, <2>3 DEF Chain!SetDifficulty, Chain!Send
    <3> QED BY <2>1, <2>3, <3>1
  <2> QED BY <2>2, <2>3
<1> QED BY <1>1, <1>2, <1>3 DEF ChainCall, Chain!Step

LEMMA NextChannel == Typed /\ ChannelInv /\ [Next]_vars => ChannelInv'
<1> SUFFICES ASSUME Typed, ChannelInv, [Next]_vars PROVE ChannelInv'
  OBVIOUS
<1>1. ASSUME NEW k \in Callers, ChainCall(k) PROVE ChannelInv'
  BY <1>1, ChainChannel
<1>2. CASE Subscribe
  BY <1>2 DEF Subscribe, Chain!Subscribe, ChannelInv
<1>3. CASE UNCHANGED chainVars
  BY <1>3 DEF chainVars, ChannelInv
<1> QED BY <1>1, <1>2, <1>3
    DEF Next, SwapTask, TakeUpdate, HotSwap, Consumer, Receive, Submit, Heartbeat,
        Appender, Drive, vars

\* FakeChain: in whatever order the two halves of advance_blocks() and the calls
\* of set_difficulty() come, the channel holds the chain's difficulty and no epoch
\* ahead of the chain's; it ends up with the chain's epoch, unless two callers
\* rolled the epoch at the same time.
THEOREM UpdateStaysCurrent == Spec => []UpdateIsCurrent
<1>1. Spec => [](Typed /\ ChannelInv)
  BY InitTyped, NextTyped, InitChannel, NextChannel, PTL DEF Spec
<1>2. Typed /\ ChannelInv => UpdateIsCurrent
  BY DEF ChannelInv, UpdateIsCurrent, Chain!UpdateIsCurrent, Chain!AtRest, Chain!Idle,
         Chain!MiningState
<1> QED BY <1>1, <1>2, PTL

----------------------------------------------------------------------------
(* What the hits are, and which nonces were searched.                      *)

\* A challenge and its epoch come together and stay together.
OrdersInv ==
  /\ orders.challenge = orders.epoch
  /\ \A d \in Drivers : local[d].orders.challenge = local[d].orders.epoch

HitsInv == HitsAreConsistent

\* The hits so far are those of the nonces below n that solve the orders.
Searched(n) ==
  \A k \in Nonces : k < n /\ Grinder!Solves(orders, k) =>
    \E i \in 1..Len(found) : found[i].nonce = k /\ found[i].epoch = orders.epoch

\* Unless the orders changed under it, a call under way works for the latest, and
\* its nonce is next.
SearchInv ==
  ~raced =>
    /\ Searched(nextNonce)
    /\ \A d \in Drivers : at[d] # "idle" =>
         /\ local[d].orders = orders
         /\ Searched(local[d].n)
         /\ at[d] = "bump" => Searched(local[d].n + 1)

GrinderInv == OrdersInv /\ HitsInv /\ SearchInv

LEMMA InitGrinder == Init => GrinderInv
BY DEF Init, Grinder!Init, Grinder!NoOrders, GrinderInv, OrdersInv, HitsInv,
       HitsAreConsistent, Grinder!HitsAreConsistent, SearchInv, Searched, Nonces

LEMMA NextOrders == Typed /\ OrdersInv /\ [Next]_vars => OrdersInv'
<1> SUFFICES ASSUME Typed, OrdersInv, [Next]_vars PROVE OrdersInv'
  OBVIOUS
<1> USE DEF OrdersInv, grinderVars
<1>1. CASE HotSwap
  BY <1>1 DEF HotSwap, Grinder!HotSwap
<1>2. CASE UNCHANGED <<orders, local>>
  BY <1>2
<1>3. ASSUME NEW d \in Drivers, Grinder!Search(d) PROVE OrdersInv'
  BY <1>3 DEF Grinder!Search, Typed, TypeOK, Grinder!TypeOK
<1> QED BY <1>1, <1>2, <1>3
    DEF Next, SwapTask, Subscribe, TakeUpdate, Consumer, Receive, Grinder!Receive, Submit,
        Heartbeat, Appender, ChainCall, Drive, Grinder!DriveOneHit, Grinder!Send,
        Grinder!Bump, vars

LEMMA NextHits == Typed /\ OrdersInv /\ HitsInv /\ [Next]_vars => HitsInv'
<1> SUFFICES ASSUME Typed, OrdersInv, HitsInv, [Next]_vars PROVE HitsInv'
  OBVIOUS
<1> USE DEF HitsInv, HitsAreConsistent, Grinder!HitsAreConsistent, grinderVars
<1>1. ASSUME NEW d \in Drivers, Grinder!Send(d) PROVE HitsInv'
  <2>1. found' = Append(found, Grinder!HitOf(d)) /\ found \in Seq(Grinder!Hits)
        /\ Grinder!HitOf(d) \in Grinder!Hits
    BY <1>1, HitTyped DEF Grinder!Send, Typed, TypeOK, Grinder!TypeOK
  <2>2. Grinder!HitOf(d).hash = Digest[<<Grinder!HitOf(d).epoch, Grinder!HitOf(d).nonce>>]
    BY DEF Grinder!HitOf, OrdersInv
  <2> DEFINE h == Grinder!HitOf(d)
  <2> HIDE DEF h
  <2>3. /\ Len(found') = Len(found) + 1 /\ Len(found) \in Nat
        /\ found'[Len(found')] = h
        /\ \A i \in 1..Len(found) : found'[i] = found[i]
    BY <2>1 DEF h
  <2>4. ASSUME NEW i \in 1..Len(found')
        PROVE  i \in 1..Len(found) \/ i = Len(found')
    BY <2>3
  <2> QED BY <2>2, <2>3, <2>4 DEF h
<1>2. CASE UNCHANGED found
  BY <1>2
<1> QED BY <1>1, <1>2
    DEF Next, SwapTask, Subscribe, TakeUpdate, HotSwap, Grinder!HotSwap, Consumer, Receive,
        Grinder!Receive, Submit, Heartbeat, Appender, ChainCall, Drive, Grinder!DriveOneHit,
        Grinder!Search, Grinder!Bump, vars

\* One more hit leaves the nonces searched that were.
LEMMA SearchedStays ==
  ASSUME NEW n \in Nat, Searched(n), NEW h \in Grinder!Hits, Typed,
         UNCHANGED orders, found' = Append(found, h)
  PROVE  Searched(n)'
<1> SUFFICES ASSUME NEW k \in Nonces, k < n, Grinder!Solves(orders, k)
             PROVE  \E i \in 1..Len(found') : found'[i].nonce = k /\ found'[i].epoch = orders.epoch
  BY DEF Searched, Grinder!Solves
<1>1. PICK i \in 1..Len(found) : found[i].nonce = k /\ found[i].epoch = orders.epoch
  BY DEF Searched
<1>2. found \in Seq(Grinder!Hits)
  BY DEF Typed, TypeOK, Grinder!TypeOK
<1>3. i \in 1..Len(found') /\ found'[i] = found[i]
  BY <1>2
<1> QED BY <1>1, <1>3

LEMMA NextSearch == Typed /\ SearchInv /\ [Next]_vars => SearchInv'
<1> SUFFICES ASSUME Typed, SearchInv, [Next]_vars, ~raced' PROVE SearchInv'
  BY DEF SearchInv
<1> USE DEF grinderVars
<1>0. /\ at \in [Drivers -> {"idle", "send", "bump"}] /\ nextNonce \in Nat
      /\ local \in [Drivers -> [orders : Grinder!Orders, n : Nat]]
      /\ found \in Seq(Grinder!Hits)
      /\ \A d \in Drivers : at[d] # "idle" => local[d].n \in Nonces
  BY DEF Typed, TypeOK, Grinder!TypeOK, KnownNonces
<1>1. CASE HotSwap
  <2>1. nextNonce' = 0 /\ \A d \in Drivers : at'[d] = "idle"
    BY <1>1 DEF HotSwap, Grinder!HotSwap
  <2>2. Searched(nextNonce)'
    BY <2>1, Sizes DEF Searched, Nonces
  <2> QED BY <2>1, <2>2 DEF SearchInv
<1>2. CASE UNCHANGED <<orders, nextNonce, at, local, found, raced>>
  BY <1>2 DEF SearchInv, Searched, Grinder!Solves
<1>3. ASSUME NEW d \in Drivers, Grinder!Search(d) PROVE SearchInv'
  <2>1. UNCHANGED <<orders, nextNonce, hits, found, raced>> /\ at' = [at EXCEPT ![d] = "send"]
    BY <1>3 DEF Grinder!Search
  <2>2. PICK n \in Nonces : /\ Grinder!IsFirst(orders, nextNonce, n)
                           /\ local' = [local EXCEPT ![d] = [orders |-> orders, n |-> n]]
    BY <1>3 DEF Grinder!Search, Grinder!Nonces, Nonces
  <2>3. ~raced /\ Searched(nextNonce)
    BY <2>1 DEF SearchInv
  <2>4. Searched(n)
    <3> SUFFICES ASSUME NEW k \in Nonces, k < n, Grinder!Solves(orders, k)
                 PROVE  \E i \in 1..Len(found) : found[i].nonce = k /\ found[i].epoch = orders.epoch
      BY DEF Searched
    <3>1. k < nextNonce
      BY <1>0, <2>2, Sizes DEF Grinder!IsFirst, Grinder!Nonces, Nonces
    <3> QED BY <2>3, <3>1 DEF Searched
  <2>5. \A m \in Nat : Searched(m) => Searched(m)'
    BY <2>1 DEF Searched, Grinder!Solves
  <2>6. n \in Nat
    BY Sizes DEF Nonces
  <2>7. ASSUME NEW o \in Drivers, at'[o] # "idle"
        PROVE  /\ local'[o].orders = orders'
               /\ Searched(local[o].n)'
               /\ at'[o] = "bump" => Searched(local[o].n + 1)'
    <3>1. CASE o = d
      <4>1. local'[o] = [orders |-> orders, n |-> n] /\ at'[o] = "send"
        BY <1>0, <2>1, <2>2, <3>1
      <4>2. Searched(n)'
        BY <2>4, <2>5, <2>6
      <4> QED BY <2>1, <4>1, <4>2 DEF Searched
    <3>2. CASE o # d
      <4>1. local'[o] = local[o] /\ at'[o] = at[o]
        BY <1>0, <2>1, <2>2, <3>2
      <4>2. /\ local[o].orders = orders /\ Searched(local[o].n)
            /\ at[o] = "bump" => Searched(local[o].n + 1)
        BY <2>3, <2>7, <4>1 DEF SearchInv
      <4> QED BY <2>1, <4>1, <4>2 DEF Searched, Grinder!Solves
    <3> QED BY <3>1, <3>2
  <2>8. Searched(nextNonce)'
    BY <2>1, <2>3 DEF Searched, Grinder!Solves
  <2> QED BY <2>7, <2>8 DEF SearchInv
<1>4. ASSUME NEW d \in Drivers, Grinder!Send(d) PROVE SearchInv'
  <2> DEFINE h == Grinder!HitOf(d)
  <2>1. /\ UNCHANGED <<orders, nextNonce, local, raced>> /\ at' = [at EXCEPT ![d] = "bump"]
        /\ found' = Append(found, h) /\ at[d] = "send"
    BY <1>4 DEF Grinder!Send
  <2>2. h \in Grinder!Hits
    BY <2>1, HitTyped
  <2>3. h.nonce = local[d].n /\ h.epoch = local[d].orders.epoch
    BY DEF Grinder!HitOf
  <2> HIDE DEF h
  <2>4. ~raced /\ Searched(nextNonce)
    BY <2>1 DEF SearchInv
  <2>5. ASSUME NEW m \in Nat, Searched(m) PROVE Searched(m)'
    BY <2>1, <2>2, <2>5, SearchedStays
  <2>6. Searched(nextNonce)'
    <3>1. ASSUME NEW m \in Nat, m = nextNonce PROVE Searched(nextNonce)'
      <4>1. Searched(m)'
        BY <2>4, <2>5, <3>1
      <4> QED BY <2>1, <3>1, <4>1 DEF Searched
    <3> QED BY <1>0, <3>1
  <2>7. ASSUME NEW o \in Drivers, at'[o] # "idle"
        PROVE  /\ local'[o].orders = orders'
               /\ Searched(local[o].n)'
               /\ at'[o] = "bump" => Searched(local[o].n + 1)'
    <3>1. at[o] # "idle"
      BY <1>0, <2>1, <2>7
    <3>2. /\ local[o].orders = orders /\ Searched(local[o].n)
          /\ at[o] = "bump" => Searched(local[o].n + 1)
      BY <2>4, <3>1 DEF SearchInv
    <3>3. local[o].n \in Nat /\ local[o].n + 1 \in Nat
      BY <1>0
    <3>4. ASSUME NEW m \in Nat, m = local[o].n, Searched(m) PROVE Searched(local[o].n)'
      <4>1. Searched(m)'
        BY <2>5, <3>4
      <4> QED BY <2>1, <3>4, <4>1 DEF Searched
    <3>5. ASSUME NEW m \in Nat, m = local[o].n + 1, Searched(m) PROVE Searched(local[o].n + 1)'
      <4>1. Searched(m)'
        BY <2>5, <3>5
      <4> QED BY <2>1, <3>5, <4>1 DEF Searched
    <3>6. ASSUME o = d PROVE Searched(local[o].n + 1)'
      <4> SUFFICES ASSUME NEW k \in Nonces, k < local[o].n + 1, Grinder!Solves(orders, k)
                   PROVE  \E i \in 1..Len(found') :
                            found'[i].nonce = k /\ found'[i].epoch = orders.epoch
        BY <2>1 DEF Searched, Grinder!Solves
      <4>1. CASE k < local[o].n
        <5>1. Searched(local[o].n)'
          BY <3>2, <3>3, <3>4
        <5> QED BY <2>1, <4>1, <5>1 DEF Searched, Grinder!Solves
      <4>2. CASE k = local[o].n
        <5>1. Len(found') \in 1..Len(found') /\ found'[Len(found')] = h
          BY <1>0, <2>1, <2>2
        <5>2. h.nonce = k /\ h.epoch = orders.epoch
          BY <2>3, <3>2, <3>6, <4>2
        <5> QED BY <5>1, <5>2
      <4> QED BY <1>0, <4>1, <4>2, Sizes DEF Nonces
    <3>7. at'[o] = "bump" => o = d \/ at[o] = "bump"
      BY <1>0, <2>1
    <3> QED BY <2>1, <3>2, <3>3, <3>4, <3>5, <3>6, <3>7
  <2> QED BY <2>6, <2>7 DEF SearchInv
<1>5. ASSUME NEW d \in Drivers, Grinder!Bump(d) PROVE SearchInv'
  <2>1. /\ UNCHANGED <<orders, local, hits, found, raced>> /\ at' = [at EXCEPT ![d] = "idle"]
        /\ nextNonce' = local[d].n + 1 /\ at[d] = "bump"
    BY <1>5 DEF Grinder!Bump
  <2>2. ~raced /\ Searched(local[d].n + 1)
    BY <2>1 DEF SearchInv
  <2>3. Searched(nextNonce)'
    BY <2>1, <2>2 DEF Searched, Grinder!Solves
  <2>4. ASSUME NEW o \in Drivers, at'[o] # "idle"
        PROVE  /\ local'[o].orders = orders'
               /\ Searched(local[o].n)'
               /\ at'[o] = "bump" => Searched(local[o].n + 1)'
    <3>1. at[o] # "idle" /\ at'[o] = at[o]
      BY <1>0, <2>1, <2>4
    <3>2. /\ local[o].orders = orders /\ Searched(local[o].n)
          /\ at[o] = "bump" => Searched(local[o].n + 1)
      BY <2>2, <3>1 DEF SearchInv
    <3> QED BY <2>1, <3>1, <3>2 DEF Searched, Grinder!Solves
  <2> QED BY <2>3, <2>4 DEF SearchInv
<1> QED BY <1>1, <1>2, <1>3, <1>4, <1>5
    DEF Next, SwapTask, Subscribe, TakeUpdate, Consumer, Receive, Grinder!Receive, Submit,
        Heartbeat, Appender, ChainCall, Drive, Grinder!DriveOneHit, vars

LEMMA GrinderInvariant == Spec => [](Typed /\ GrinderInv)
<1>1. GrinderInv /\ Typed /\ [Next]_vars => GrinderInv'
  BY NextOrders, NextHits, NextSearch DEF GrinderInv
<1> QED BY <1>1, InitTyped, NextTyped, InitGrinder, PTL DEF Spec

\* FakeGrinder: a hit carries the epoch whose challenge its hash was computed
\* with, although hot_swap() may have come while the call awaited its slot.
THEOREM HitsStayConsistent == Spec => []HitsAreConsistent
<1>1. GrinderInv => HitsAreConsistent
  BY DEF GrinderInv, HitsInv
<1> QED BY <1>1, GrinderInvariant, PTL

\* FakeGrinder: next_nonce is written after an await, and skips no solution unless
\* hot_swap() came under a call; however many calls run at a time.
THEOREM NothingIsSkipped == Spec => []NothingSkipped
<1>1. GrinderInv => NothingSkipped
  BY DEF GrinderInv, SearchInv, Searched, NothingSkipped, Grinder!NothingSkipped,
         Grinder!Nonces, Nonces
<1> QED BY <1>1, GrinderInvariant, PTL

----------------------------------------------------------------------------
(* The stream of hits.                                                     *)

InHand == IF inHand = None THEN 0 ELSE 1

\* What was sent is what was submitted, what is in hand and what is in the channel,
\* one after the other.
StreamInv ==
  /\ Len(found) = Len(submitted) + InHand + Len(hits)
  /\ inHand # None => inHand = found[Len(submitted) + 1]
  /\ \A i \in 1..Len(hits) : hits[i] = found[Len(found) - Len(hits) + i]

LEMMA InitStream == Init => StreamInv
BY DEF Init, Grinder!Init, StreamInv, InHand

LEMMA StreamTyped ==
  Typed => /\ hits \in Seq(Grinder!Hits) /\ found \in Seq(Grinder!Hits)
           /\ submitted \in Seq(Grinder!Hits)
           /\ inHand \in Grinder!Hits \cup {None}
BY DEF Typed, TypeOK, Grinder!TypeOK

LEMMA StreamStep ==
  ASSUME Typed, StreamInv, [Next]_vars
  PROVE  StreamInv' /\ [Stream!Next]_<<found, submitted>>
<1> USE StreamTyped
<1>1. ASSUME NEW d \in Drivers, Drive(d), Grinder!Send(d)
      PROVE  StreamInv' /\ Stream!Next
  <2> DEFINE h == Grinder!HitOf(d)
  <2>1. /\ found' = Append(found, h) /\ hits' = Append(hits, h) /\ at[d] = "send"
        /\ UNCHANGED <<submitted, inHand>>
    BY <1>1 DEF Grinder!Send, Drive, consumerVars
  <2>2. h \in Grinder!Hits
    BY <2>1, HitTyped
  <2>3. h \in SomeHits
    <3>1. local[d].orders \in Grinder!Orders /\ local[d].n \in Nonces
      BY <2>1 DEF Typed, TypeOK, Grinder!TypeOK, KnownNonces
    <3>2. <<local[d].orders.challenge, local[d].n>> \in DOMAIN Digest
      BY <3>1, DigestAssumption DEF Grinder!Orders, Nonces
    <3> QED BY <3>1, <3>2 DEF SomeHits, Grinder!HitOf, Grinder!Orders, Nonces
  <2> HIDE DEF h
  <2>4. Stream!Next
    BY <2>1, <2>3 DEF Stream!Next, Stream!Produce
  <2>5. Len(found') = Len(found) + 1 /\ Len(hits') = Len(hits) + 1
    BY <2>1, <2>2
  <2>6. ASSUME NEW i \in 1..Len(hits') PROVE hits'[i] = found'[Len(found') - Len(hits') + i]
    <3>1. CASE i = Len(hits')
      <4>1. hits'[i] = h /\ found'[Len(found')] = h
        BY <2>1, <2>2, <3>1
      <4> QED BY <2>5, <3>1, <4>1
    <3>2. CASE i # Len(hits')
      <4> DEFINE k == Len(found) - Len(hits) + i
      <4>1. i \in 1..Len(hits) /\ k \in 1..Len(found)
        BY <2>5, <3>2 DEF StreamInv, InHand
      <4>2. hits'[i] = hits[i] /\ found'[k] = found[k]
        BY <2>1, <2>2, <4>1
      <4>3. Len(found') - Len(hits') + i = k
        BY <2>5
      <4> QED BY <4>1, <4>2, <4>3 DEF StreamInv
    <3> QED BY <3>1, <3>2
  <2>7. inHand # None => inHand = found'[Len(submitted) + 1]
    <3> SUFFICES ASSUME inHand # None PROVE inHand = found'[Len(submitted) + 1]
      OBVIOUS
    <3>1. Len(submitted) + 1 \in 1..Len(found)
      BY DEF StreamInv, InHand
    <3> QED BY <2>1, <2>2, <3>1 DEF StreamInv
  <2>8. Len(found') = Len(submitted) + InHand + Len(hits')
    <3>1. InHand \in Nat /\ Len(submitted) \in Nat /\ Len(hits) \in Nat /\ Len(found) \in Nat
      BY DEF InHand
    <3> QED BY <2>5, <3>1 DEF StreamInv
  <2>9. InHand' = InHand
    BY <2>1 DEF InHand
  <2>10. StreamInv'
    BY <2>1, <2>6, <2>7, <2>8, <2>9 DEF StreamInv
  <2> QED BY <2>4, <2>10
<1>2. CASE Receive
  <2>1. /\ inHand = None /\ hits # <<>> /\ hits' = Tail(hits) /\ inHand' = Head(hits)
        /\ UNCHANGED <<found, submitted>>
    BY <1>2 DEF Receive, Grinder!Receive
  <2>2. inHand' \in Grinder!Hits /\ inHand' = hits[1] /\ Len(hits') = Len(hits) - 1
        /\ 1 \in 1..Len(hits)
    BY <2>1
  <2>3. inHand' # None
    BY <2>2, NoneIsNoHit
  <2>4. inHand' = found'[Len(submitted) + 1]
    <3>1. Len(found) - Len(hits) + 1 = Len(submitted) + 1
      BY <2>1 DEF StreamInv, InHand
    <3>2. hits[1] = found[Len(found) - Len(hits) + 1]
      BY <2>2 DEF StreamInv
    <3> QED BY <2>1, <2>2, <3>1, <3>2
  <2>5. ASSUME NEW i \in 1..Len(hits') PROVE hits'[i] = found'[Len(found') - Len(hits') + i]
    <3>1. hits'[i] = hits[i + 1] /\ i + 1 \in 1..Len(hits)
      BY <2>1, <2>2
    <3>2. Len(found') - Len(hits') + i = Len(found) - Len(hits) + (i + 1)
      BY <2>1, <2>2
    <3> QED BY <2>1, <3>1, <3>2 DEF StreamInv
  <2> QED BY <2>1, <2>2, <2>3, <2>4, <2>5 DEF StreamInv, InHand
<1>3. CASE Submit
  <2>1. /\ inHand # None /\ submitted' = Append(submitted, inHand) /\ inHand' = None
        /\ UNCHANGED <<found, hits>>
    BY <1>3 DEF Submit, grinderVars
  <2>2. Len(submitted') = Len(submitted) + 1
    BY <2>1
  <2>3. StreamInv'
    <3>1. InHand = 1 /\ InHand' = 0
      BY <2>1 DEF InHand
    <3>2. Len(found') = Len(submitted') + InHand' + Len(hits')
      BY <2>1, <2>2, <3>1 DEF StreamInv
    <3> QED BY <2>1, <3>2 DEF StreamInv
  <2>4. Stream!Consume
    BY <2>1 DEF StreamInv, InHand, Stream!Consume
  <2> QED BY <2>3, <2>4 DEF Stream!Next
<1>4. CASE UNCHANGED <<found, hits, submitted, inHand>>
  BY <1>4 DEF StreamInv, InHand
<1> QED BY <1>1, <1>2, <1>3, <1>4
    DEF Next, SwapTask, Subscribe, TakeUpdate, HotSwap, Grinder!HotSwap, Consumer, Heartbeat,
        Appender, ChainCall, Drive, Grinder!DriveOneHit, Grinder!Search, Grinder!Bump,
        vars, grinderVars, consumerVars

\* Grinder, hit channel, consumer and submitter together are the stream that
\* HitStream promises: every step of theirs is one of its steps, or none.  (That
\* the hits arrive, its fairness, is model-checked.)
THEOREM ImplementsHitStream == Spec => Stream!Spec
<1>1. Init => Stream!Init
  BY DEF Init, Grinder!Init, Stream!Init
<1>2. Typed /\ Typed' /\ StreamInv /\ [Next]_vars => StreamInv' /\ [Stream!Next]_<<found, submitted>>
  BY StreamStep
<1> QED BY <1>1, <1>2, InitTyped, NextTyped, InitStream, PTL DEF Spec, Stream!Spec

=============================================================================
