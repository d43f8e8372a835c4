---------------------------- MODULE Miner_proofs ----------------------------
(***************************************************************************)
(* Proofs about Miner, for any contract constants, digests, costs and      *)
(* bounds: types, the difficulty adjustment, and what becomes of a hit     *)
(* between the grinder and the contract.                                   *)
(***************************************************************************)
EXTENDS Miner, TLAPS

----------------------------------------------------------------------------
(* Constants.                                                              *)

LEMMA Sizes ==
  /\ EpochBlocks \in Nat /\ EpochBlocks > 0
  /\ Interval \in Nat /\ Interval > 0
  /\ BlocksPerMint \in Nat /\ BlocksPerMint > 0
  /\ EraMints \in Nat /\ EraMints > 0
  /\ MintsPerBlock \in Nat /\ MintsPerBlock > 0
  /\ MiningSupply \in Nat /\ MaxWord \in Nat /\ MaxBlock \in Nat
  /\ GenesisDifficulty \in Nat /\ GenesisDifficulty > 0
BY ContractAssumption

LEMMA GateSizes ==
  /\ EvMintsPerBlock \in Nat /\ EvMintsPerBlock > 0
  /\ RatioNum \in Int
  /\ RatioDen \in Nat /\ RatioDen > 0
BY EvAssumption

LEMMA NoneIsNoHit == None \notin Nat /\ None \notin Hits
BY NoneAssumption DEF Hits

----------------------------------------------------------------------------
(* Arithmetic.                                                             *)

LEMMA ProductGrows ==
  ASSUME NEW x \in Nat, NEW a \in Int, NEW b \in Int, a =< b
  PROVE  x * a =< x * b
OBVIOUS

\* Quotients of a natural number are natural numbers, and bounded by what they
\* are quotients of.
LEMMA Quotient ==
  ASSUME NEW a \in Nat, NEW b \in Nat, b > 0
  PROVE  /\ a \div b \in Nat
         /\ b * (a \div b) =< a /\ a < b * (a \div b) + b
<1> DEFINE p == a \div b
<1>1. p \in Int /\ b * p =< a /\ a < b * p + b
  OBVIOUS
<1> HIDE DEF p
<1>2. ASSUME p + 1 =< 0 PROVE FALSE
  <2>1. b * (p + 1) =< b * 0
    BY <1>1, <1>2, ProductGrows
  <2>2. b * (p + 1) = b * p + b
    BY <1>1
  <2> QED BY <1>1, <2>1, <2>2
<1>3. p \in Nat
  BY <1>1, <1>2
<1> QED BY <1>1, <1>3 DEF p

LEMMA QuotientAtMost ==
  ASSUME NEW a \in Nat, NEW b \in Nat, b > 0, NEW k \in Nat, a =< b * k
  PROVE  a \div b =< k
<1> DEFINE p == a \div b
<1>1. p \in Nat /\ b * p =< a
  BY Quotient
<1> HIDE DEF p
<1>2. ASSUME k + 1 =< p PROVE FALSE
  <2>1. b * (k + 1) =< b * p
    BY <1>1, <1>2, ProductGrows
  <2>2. b * (k + 1) = b * k + b /\ b * k \in Nat /\ b * p \in Nat
    BY <1>1
  <2> QED BY <1>1, <2>1, <2>2
<1>3. p =< k
  BY <1>1, <1>2
<1> QED BY <1>3 DEF p

LEMMA QuotientAtLeast ==
  ASSUME NEW a \in Nat, NEW b \in Nat, b > 0, NEW k \in Nat, a >= b * k
  PROVE  a \div b >= k
<1> DEFINE p == a \div b
<1>1. p \in Nat /\ a < b * p + b
  BY Quotient
<1> HIDE DEF p
<1>2. ASSUME p + 1 =< k PROVE FALSE
  <2>1. b * (p + 1) =< b * k
    BY <1>1, <1>2, ProductGrows
  <2>2. b * (p + 1) = b * p + b /\ b * k \in Nat /\ b * p \in Nat
    BY <1>1
  <2> QED BY <1>1, <2>1, <2>2
<1>3. p >= k
  BY <1>1, <1>2
<1> QED BY <1>3 DEF p

LEMMA QuotientGrows ==
  ASSUME NEW a \in Nat, NEW c \in Nat, NEW b \in Nat, b > 0, a =< c
  PROVE  a \div b =< c \div b
<1> DEFINE p == a \div b
           q == c \div b
<1>1. p \in Nat /\ q \in Nat /\ b * p =< a /\ c < b * q + b
  BY Quotient
<1> HIDE DEF p, q
<1>2. ASSUME q + 1 =< p PROVE FALSE
  <2>1. b * (q + 1) =< b * p
    BY <1>1, <1>2, ProductGrows
  <2>2. b * (q + 1) = b * q + b /\ b * p \in Nat /\ b * q \in Nat
    BY <1>1
  <2> QED BY <1>1, <2>1, <2>2
<1>3. p =< q
  BY <1>1, <1>2
<1> QED BY <1>3 DEF p, q

LEMMA EpochGrows ==
  /\ \A b \in Nat : EpochOf(b) \in Nat
  /\ \A a, b \in Nat : a =< b => EpochOf(a) =< EpochOf(b)
<1>1. ASSUME NEW b \in Nat PROVE b \div EpochBlocks \in Nat
  BY Sizes, Quotient
<1>2. ASSUME NEW a \in Nat, NEW b \in Nat, a =< b
      PROVE  a \div EpochBlocks =< b \div EpochBlocks
  BY <1>2, Sizes, QuotientGrows
<1> QED BY <1>1, <1>2 DEF EpochOf

\* Rewards are natural numbers and never rise.
LEMMA RewardFalls ==
  /\ \A t \in Nat : Reward(t) \in Nat
  /\ \A s, t \in Nat : s =< t => Reward(t) =< Reward(s)
<1>1. ASSUME NEW t \in Nat PROVE t \div EraMints \in Nat
  BY Sizes, Quotient
<1>2. ASSUME NEW s \in Nat, NEW t \in Nat, s =< t
      PROVE  s \div EraMints =< t \div EraMints
  BY <1>2, Sizes, QuotientGrows
<1>3. ASSUME NEW e \in Nat, e < 64 PROVE e \in 0..63 /\ Halved[e] \in Nat
  <2>1. Halved \in [0..63 -> Nat]
    BY HalvedAssumption
  <2> QED BY <1>3, <2>1
<1>4. ASSUME NEW t \in Nat PROVE Reward(t) \in Nat
  BY <1>1, <1>3 DEF Reward
<1>5. ASSUME NEW s \in Nat, NEW t \in Nat, s =< t
      PROVE  Reward(t) =< Reward(s)
  <2> DEFINE e == s \div EraMints
             f == t \div EraMints
  <2>1. e \in Nat /\ f \in Nat /\ e =< f
    BY <1>1, <1>2, <1>5
  <2>2. /\ Reward(s) = (IF e < 64 THEN Halved[e] ELSE 0)
        /\ Reward(t) = (IF f < 64 THEN Halved[f] ELSE 0)
    BY DEF Reward
  <2> HIDE DEF e, f
  <2>3. CASE f < 64
    <3>1. e \in 0..63 /\ f \in 0..63
      BY <2>1, <2>3
    <3>2. Halved[f] =< Halved[e]
      BY <2>1, <3>1, HalvedAssumption
    <3> QED BY <2>2, <2>3, <2>1, <3>2
  <2>4. CASE ~(f < 64)
    BY <1>3, <2>1, <2>2, <2>4
  <2> QED BY <2>3, <2>4
<1> QED BY <1>4, <1>5

----------------------------------------------------------------------------
(* The difficulty adjustment.                                              *)

LEMMA OnTimePositive == OnTime \in Nat /\ OnTime > 0
<1>1. Interval * 1 =< Interval * BlocksPerMint
  BY Sizes, ProductGrows
<1> QED BY <1>1, Sizes DEF OnTime

\* The new difficulty is a positive number, follows the rate of the mints and
\* stays within a factor of four.
LEMMA Adjustment ==
  ASSUME difficulty \in Nat, difficulty > 0, Taken \in Nat
  PROVE  /\ Adjusted \in Nat /\ Adjusted > 0
         /\ Taken < OnTime => Adjusted =< difficulty
         /\ Taken > OnTime => Adjusted >= difficulty
         /\ Adjusted =< 4 * difficulty /\ Adjusted * 4 + 3 >= difficulty
<1> DEFINE quarter == difficulty \div 4
<1>1. /\ quarter \in Nat /\ 4 * quarter =< difficulty /\ difficulty < 4 * quarter + 4
  BY Quotient
<1>2. OnTime \in Nat /\ OnTime > 0
  BY OnTimePositive
<1>3. difficulty * Taken \in Nat
  OBVIOUS
<1>4. /\ Scaled \in Nat
      /\ Taken < OnTime => Scaled =< difficulty
      /\ Taken > OnTime => Scaled >= difficulty
  <2>1. CASE Taken = 0
    BY <1>1, <1>2, <2>1 DEF Scaled
  <2>2. CASE Taken # 0
    <3>1. Scaled = (difficulty * Taken) \div OnTime
      BY <2>2 DEF Scaled
    <3>2. Scaled \in Nat
      BY <1>2, <1>3, <3>1, Quotient
    <3>3. ASSUME Taken < OnTime PROVE Scaled =< difficulty
      <4>1. difficulty * Taken =< difficulty * OnTime
        BY <1>2, <3>3, ProductGrows
      <4>2. difficulty * Taken =< OnTime * difficulty
        BY <1>2, <4>1
      <4> QED BY <1>2, <1>3, <3>1, <4>2, QuotientAtMost
    <3>4. ASSUME Taken > OnTime PROVE Scaled >= difficulty
      <4>1. difficulty * OnTime =< difficulty * Taken
        BY <1>2, <3>4, ProductGrows
      <4>2. difficulty * Taken >= OnTime * difficulty
        BY <1>2, <4>1
      <4> QED BY <1>2, <1>3, <3>1, <4>2, QuotientAtLeast
    <3> QED BY <3>2, <3>3, <3>4
  <2> QED BY <2>1, <2>2
<1>5. Adjusted = AtLeast(1, AtMost(difficulty * 4, AtLeast(quarter, Scaled)))
  BY DEF Adjusted
<1> HIDE DEF quarter
<1> QED BY <1>1, <1>2, <1>4, <1>5 DEF AtLeast, AtMost

----------------------------------------------------------------------------
(* Types.                                                                  *)

ContractTyped ==
  /\ ContractTypeOK
  /\ adjBlock =< Open
  /\ minted =< MiningSupply

Typed == TypeOK /\ ContractTyped

LEMMA ContractIsTyped ==
  ASSUME ContractTyped
  PROVE  /\ block \in Nat /\ block =< MaxBlock /\ Open \in Nat /\ Open = block + 1
         /\ totalMints \in Nat /\ minted \in Nat /\ adjMint \in Nat /\ adjBlock \in Nat
         /\ difficulty \in Nat /\ difficulty > 0 /\ Taken \in Nat
         /\ latest.difficulty \in Nat /\ latest.reward \in Nat
BY Sizes DEF ContractTyped, ContractTypeOK, Open, Taken, Blocks

\* A mint is paid at most the reward of its era, and at most what is left.
LEMMA PayBounds ==
  ASSUME ContractTyped
  PROVE  /\ Pay \in Nat /\ minted + Pay =< MiningSupply
         /\ Pay =< Reward(totalMints)
<1> DEFINE r == Reward(totalMints + 1)
<1>1. r \in Nat /\ r =< Reward(totalMints) /\ Reward(totalMints) \in Nat
  BY ContractIsTyped, RewardFalls
<1>2. MiningSupply - minted \in Nat /\ minted \in Nat
  BY ContractIsTyped, Sizes DEF ContractTyped
<1>3. Pay = IF r > MiningSupply - minted THEN MiningSupply - minted ELSE r
  BY DEF Pay
<1> HIDE DEF r
<1> QED BY <1>1, <1>2, <1>3, Sizes

LEMMA InitContract == ContractInit => ContractTyped
<1> SUFFICES ASSUME ContractInit PROVE ContractTyped
  OBVIOUS
<1>1. Reward(0) \in Nat
  BY RewardFalls
<1>2. latest \in [difficulty : Nat \ {0}, reward : Nat]
  BY <1>1, Sizes DEF ContractInit
<1>3. block \in Blocks /\ difficulty \in Nat \ {0} /\ mintsIn \in [Blocks -> 0..MintsPerBlock]
  BY Sizes DEF ContractInit, Blocks
<1> QED BY <1>2, <1>3, Sizes DEF ContractInit, ContractTyped, ContractTypeOK, Open

LEMMA MintTyped ==
  ASSUME ContractTyped, Open =< MaxBlock, Mint, Closed = {}
  PROVE  /\ {totalMints', minted', adjMint', adjBlock'} \subseteq Nat
         /\ difficulty' \in Nat \ {0}
         /\ mintsIn' \in [Blocks -> 0..MintsPerBlock]
         /\ adjBlock' =< Open /\ minted' =< MiningSupply
         /\ totalMints' = totalMints + 1
<1>1. totalMints' = totalMints + 1 /\ minted' = minted + Pay
  BY DEF Mint
<1>2. totalMints' \in Nat /\ minted' \in Nat /\ minted' =< MiningSupply
  BY <1>1, PayBounds, ContractIsTyped
<1>3. mintsIn' \in [Blocks -> 0..MintsPerBlock]
  <2>1. Open \in Blocks /\ mintsIn \in [Blocks -> 0..MintsPerBlock]
    BY ContractIsTyped, Sizes DEF Blocks, ContractTyped, ContractTypeOK
  <2>2. ~(mintsIn[Open] >= MintsPerBlock)
    BY DEF Closed
  <2>3. mintsIn[Open] + 1 \in 0..MintsPerBlock
    BY <2>1, <2>2, Sizes
  <2>4. mintsIn' = [mintsIn EXCEPT ![Open] = mintsIn[Open] + 1]
    BY DEF Mint
  <2> QED BY <2>1, <2>3, <2>4
<1>4. CASE Due
  <2>1. difficulty' = Adjusted /\ adjMint' = totalMints + 1 /\ adjBlock' = Open
    BY <1>4 DEF Mint
  <2>2. Adjusted \in Nat /\ Adjusted > 0
    BY ContractIsTyped, Adjustment
  <2> QED BY <1>1, <1>2, <1>3, <2>1, <2>2, ContractIsTyped
<1>5. CASE ~Due
  <2>1. UNCHANGED <<difficulty, adjMint, adjBlock>>
    BY <1>5 DEF Mint
  <2> QED BY <1>1, <1>2, <1>3, <2>1, ContractIsTyped DEF ContractTyped
<1> QED BY <1>4, <1>5

LEMMA MineTyped ==
  ASSUME ContractTyped, NEW n \in Nonces, Mine(n)
  PROVE  ContractTyped' /\ totalMints' >= totalMints
<1>1. Open =< MaxBlock /\ UNCHANGED <<block, latest>> /\ Open' = Open
  BY DEF Mine, Open
<1>2. CASE Closed \cup Unproved(n) = {}
  <2>1. Mint /\ used' = used \cup {<<n, EpochOf(Open)>>} /\ Closed = {}
    BY <1>2 DEF Mine
  <2>2. EpochOf(Open) \in 0..EpochOf(MaxBlock)
    BY <1>1, ContractIsTyped, EpochGrows, Sizes
  <2>3. used' \subseteq Nonces \X (0..EpochOf(MaxBlock))
    BY <2>1, <2>2 DEF ContractTyped, ContractTypeOK
  <2>4. /\ {totalMints', minted', adjMint', adjBlock'} \subseteq Nat
        /\ difficulty' \in Nat \ {0}
        /\ mintsIn' \in [Blocks -> 0..MintsPerBlock]
        /\ adjBlock' =< Open /\ minted' =< MiningSupply
        /\ totalMints' = totalMints + 1
    BY <1>1, <2>1, MintTyped
  <2> QED BY <1>1, <2>3, <2>4, ContractIsTyped DEF ContractTyped, ContractTypeOK
<1>3. CASE Closed \cup Unproved(n) # {}
  <2>1. UNCHANGED contractVars
    BY <1>1, <1>3 DEF Mine, contractVars
  <2> QED BY <1>1, <2>1, ContractIsTyped DEF contractVars, ContractTyped, ContractTypeOK
<1> QED BY <1>2, <1>3

LEMMA RivalTyped ==
  ASSUME ContractTyped, RivalMine
  PROVE  ContractTyped' /\ totalMints' >= totalMints
<1>1. Open =< MaxBlock /\ UNCHANGED <<block, used, latest>> /\ Open' = Open /\ Mint /\ Closed = {}
  BY DEF RivalMine, Open
<1>2. /\ {totalMints', minted', adjMint', adjBlock'} \subseteq Nat
      /\ difficulty' \in Nat \ {0}
      /\ mintsIn' \in [Blocks -> 0..MintsPerBlock]
      /\ adjBlock' =< Open /\ minted' =< MiningSupply
      /\ totalMints' = totalMints + 1
  BY <1>1, MintTyped
<1> QED BY <1>1, <1>2, ContractIsTyped DEF ContractTyped, ContractTypeOK

LEMMA SealTyped ==
  ASSUME ContractTyped, Seal
  PROVE  /\ ContractTyped' /\ totalMints' = totalMints /\ block' = block + 1
         /\ latest'.reward = Reward(totalMints)
<1>1. /\ Open =< MaxBlock /\ block' = Open
      /\ latest' = [difficulty |-> difficulty, reward |-> Reward(totalMints)]
      /\ UNCHANGED <<totalMints, minted, difficulty, adjMint, adjBlock, mintsIn, used>>
  BY DEF Seal
<1>2. Reward(totalMints) \in Nat
  BY ContractIsTyped, RewardFalls
<1>3. latest' \in [difficulty : Nat \ {0}, reward : Nat]
  BY <1>1, <1>2, ContractIsTyped
<1>4. block' \in Blocks /\ adjBlock' =< Open'
  BY <1>1, ContractIsTyped, Sizes DEF Blocks, Open, ContractTyped
<1> QED BY <1>1, <1>3, <1>4, ContractIsTyped DEF ContractTyped, ContractTypeOK

MinerTyped ==
  /\ cached \in [epoch : Nat, difficulty : Nat, reward : Nat]
  /\ watcher \in {"start", "poll", "publish"}
  /\ channel \in [update : Orders \cup {None}, heard : BOOLEAN]
  /\ orders \in Orders \cup {None} /\ device \in Orders \cup {None}
  /\ swept \subseteq Nonces \X Nat
  /\ hits \in Seq(Hits) /\ Len(hits) =< Capacity
  /\ hand \in Hits \cup {None} /\ sent \in BOOLEAN
  /\ weighed \in Nat
  /\ pool \subseteq Hits
  /\ mined \subseteq [hit : Hits, block : Nat, difficulty : Nat,
                      causes : SUBSET Causes, paid : Nat]
  /\ decided \subseteq [hit : Hits, outcome : Outcomes, reward : Nat]

LEMMA TypedParts == Typed <=> ContractTyped /\ MinerTyped
BY DEF Typed, TypeOK, ContractTyped, MinerTyped

LEMMA StateTyped ==
  ASSUME ContractTyped
  PROVE  MiningState \in [epoch : Nat, difficulty : Nat, reward : Nat]
BY ContractIsTyped, EpochGrows DEF MiningState

LEMMA OrdersTyped ==
  ASSUME NEW st \in [epoch : Nat, difficulty : Nat, reward : Nat]
  PROVE  OrdersOf(st) \in Orders
BY MinerAssumption DEF OrdersOf, Orders

LEMMA InitTyped == Init => Typed
<1> SUFFICES ASSUME Init PROVE ContractTyped /\ MinerTyped
  BY TypedParts
<1>1. ContractTyped
  BY InitContract DEF Init
<1>2. cached \in [epoch : Nat, difficulty : Nat, reward : Nat]
  BY <1>1, StateTyped DEF Init
<1>3. hits \in Seq(Hits) /\ Len(hits) =< Capacity
  BY MinerAssumption DEF Init
<1>4. /\ watcher \in {"start", "poll", "publish"} /\ orders \in Orders \cup {None}
      /\ device \in Orders \cup {None} /\ swept \subseteq Nonces \X Nat
      /\ hand \in Hits \cup {None}
  BY DEF Init
<1>7. channel \in [update : Orders \cup {None}, heard : BOOLEAN]
  <2>1. MiningState \in [epoch : Nat, difficulty : Nat, reward : Nat]
    BY <1>1, StateTyped
  <2>2. OrdersOf(MiningState) \in Orders
    BY <2>1, OrdersTyped
  <2> QED BY <2>2 DEF Init
<1>5. weighed \in Nat
  BY DEF Init
<1>6. sent \in BOOLEAN /\ pool = {} /\ mined = {} /\ decided = {}
  BY DEF Init
<1> QED BY <1>1, <1>2, <1>3, <1>4, <1>5, <1>6, <1>7 DEF MinerTyped

LEMMA DecideTyped ==
  ASSUME MinerTyped, NEW h \in Hits, NEW o \in Outcomes, NEW r \in Nat, Decide(h, o, r)
  PROVE  decided' \subseteq [hit : Hits, outcome : Outcomes, reward : Nat]
<1>1. [hit |-> h, outcome |-> o, reward |-> r] \in [hit : Hits, outcome : Outcomes, reward : Nat]
  OBVIOUS
<1> QED BY <1>1 DEF Decide, MinerTyped

LEMMA ReturnTyped ==
  ASSUME MinerTyped, hand # None, NEW o \in Outcomes, NEW r \in Nat, Return(o, r)
  PROVE  MinerTyped'
<1>1. hand \in Hits
  BY DEF MinerTyped
<1>2. decided' \subseteq [hit : Hits, outcome : Outcomes, reward : Nat]
  BY <1>1, DecideTyped DEF Return
<1>3. weighed' \in Nat
  BY DEF Return
<1>4. hand' = None /\ sent' = FALSE
      /\ UNCHANGED <<cached, watcher, channel, orders, device, swept, hits, pool, mined>>
  BY DEF Return
<1>5. sent' \in BOOLEAN
  BY <1>4
<1> QED BY <1>2, <1>3, <1>4, <1>5 DEF MinerTyped

\* The steps of the miner leave the contract alone, and its own variables typed.
LEMMA MinerStepTyped ==
  ASSUME ContractTyped, MinerTyped,
         Poll \/ Publish \/ Subscribe \/ Swap \/ Launch \/ Consumer \/ \E n \in Nonces : Find(n)
  PROVE  MinerTyped' /\ UNCHANGED contractVars
<1>1. CASE Poll
  <2>1. MiningState \in [epoch : Nat, difficulty : Nat, reward : Nat]
    BY StateTyped
  <2>2. watcher' \in {"start", "poll", "publish"}
    BY <1>1 DEF Poll
  <2> QED BY <1>1, <2>1, <2>2 DEF Poll, MinerTyped
<1>2. CASE Publish
  <2>1. OrdersOf(cached) \in Orders
    BY OrdersTyped DEF MinerTyped
  <2>2. channel' \in [update : Orders \cup {None}, heard : BOOLEAN]
    BY <1>2, <2>1 DEF Publish, MinerTyped
  <2>3. watcher' \in {"start", "poll", "publish"}
    BY <1>2 DEF Publish
  <2> QED BY <1>2, <2>2, <2>3 DEF Publish, MinerTyped
<1>8. CASE Subscribe \/ Swap
  <2>1. channel' \in [update : Orders \cup {None}, heard : BOOLEAN]
    BY <1>8 DEF Subscribe, Swap, MinerTyped
  <2>2. orders' \in Orders \cup {None}
    BY <1>8 DEF Subscribe, Swap, MinerTyped
  <2> QED BY <1>8, <2>1, <2>2 DEF Subscribe, Swap, MinerTyped
<1>3. CASE Launch
  BY <1>3 DEF Launch, MinerTyped
<1>4. ASSUME NEW n \in Nonces, Find(n) PROVE MinerTyped' /\ UNCHANGED contractVars
  <2>1. device \in Orders
    BY <1>4 DEF Find, MinerTyped
  <2>2. HitOf(n) \in Hits /\ <<n, device.epoch>> \in Nonces \X Nat
    BY <2>1 DEF HitOf, Hits, Orders
  <2>3. hits' \in Seq(Hits) /\ Len(hits') =< Capacity
    BY <1>4, <2>2, MinerAssumption DEF Find, MinerTyped
  <2>4. swept' \subseteq Nonces \X Nat
    BY <1>4, <2>2 DEF Find, MinerTyped
  <2> QED BY <1>4, <2>3, <2>4 DEF Find, MinerTyped
<1>5. CASE Take
  <2>1. hits # <<>> /\ hits \in Seq(Hits) /\ Len(hits) =< Capacity /\ hits' = Tail(hits)
    BY <1>5 DEF Take, MinerTyped
  <2>2. Head(hits) \in Hits /\ hits' \in Seq(Hits) /\ Len(hits') =< Capacity
    BY <2>1, MinerAssumption
  <2>3. CASE Head(hits).epoch = cached.epoch
    <3>1. weighed' \in Nat
      BY <1>5, <2>3 DEF Take, MinerTyped
    <3> QED BY <1>5, <2>2, <2>3, <3>1 DEF Take, MinerTyped
  <2>4. CASE Head(hits).epoch # cached.epoch
    <3>1. Decide(Head(hits), "stale", 0) /\ UNCHANGED <<hand, weighed>>
      BY <1>5, <2>4 DEF Take
    <3>2. decided' \subseteq [hit : Hits, outcome : Outcomes, reward : Nat]
      BY <2>2, <3>1, DecideTyped DEF Outcomes
    <3> QED BY <1>5, <2>2, <3>1, <3>2 DEF Take, MinerTyped
  <2> QED BY <2>3, <2>4
<1>6. ASSUME NEW cost \in Costs, NEW head \in 0..block, Weigh(cost, head)
      PROVE  MinerTyped' /\ UNCHANGED contractVars
  <2>1. hand \in Hits
    BY <1>6 DEF Weigh, MinerTyped
  <2>2. sent' \in BOOLEAN
    BY <1>6 DEF Weigh
  <2> QED BY <1>6, <2>1, <2>2 DEF Weigh, MinerTyped
<1>7. CASE GiveUp \/ Receipt \/ \E cost \in Costs, head \in 0..block : Reject(cost, head)
  <2>1. hand # None /\ \E o \in Outcomes, r \in Nat : Return(o, r)
    <3>1. weighed \in Nat
      BY DEF MinerTyped
    <3> QED BY <1>7, <3>1 DEF GiveUp, Receipt, Reject, Outcomes
  <2>2. MinerTyped'
    BY <2>1, ReturnTyped
  <2> QED BY <2>1, <2>2 DEF Return
<1> QED BY <1>1, <1>2, <1>3, <1>4, <1>5, <1>6, <1>7, <1>8 DEF Consumer, Submit

LEMMA ExecuteTyped ==
  ASSUME ContractTyped, MinerTyped, NEW h \in pool, Execute(h)
  PROVE  MinerTyped' /\ ContractTyped' /\ totalMints' >= totalMints
<1>1. h \in Hits /\ h.nonce \in Nonces
  BY DEF MinerTyped, Hits
<1>2. ContractTyped' /\ totalMints' >= totalMints
  BY <1>1, MineTyped DEF Execute
<1> DEFINE c == Closed \cup Unproved(h.nonce)
<1>3. c \in SUBSET Causes
  BY DEF Closed, Unproved, Causes
<1> HIDE DEF c
<1>4. Pay \in Nat /\ Open \in Nat /\ difficulty \in Nat
  BY PayBounds, ContractIsTyped
<1> DEFINE m == [hit |-> h, block |-> Open, difficulty |-> difficulty, causes |-> c, paid |-> Pay]
<1>5. m \in [hit : Hits, block : Nat, difficulty : Nat, causes : SUBSET Causes, paid : Nat]
  BY <1>1, <1>3, <1>4
<1>6. mined' = mined \cup {m}
  BY DEF Execute, c
<1> HIDE DEF m
<1>7. pool' \subseteq Hits
      /\ UNCHANGED <<cached, watcher, channel, orders, device, swept, hits, hand, sent, weighed, decided>>
  BY DEF Execute, MinerTyped
<1> QED BY <1>2, <1>5, <1>6, <1>7 DEF MinerTyped

LEMMA NextTyped == Typed /\ [Next]_vars => Typed'
<1> SUFFICES ASSUME ContractTyped, MinerTyped, [Next]_vars
             PROVE  ContractTyped' /\ MinerTyped'
  BY DEF Typed, TypeOK, ContractTyped, MinerTyped
<1>1. ASSUME UNCHANGED contractVars PROVE ContractTyped'
  BY <1>1 DEF contractVars, ContractTyped, ContractTypeOK, Open
<1>2. ASSUME UNCHANGED minerVars PROVE MinerTyped'
  BY <1>2 DEF minerVars, MinerTyped
<1>3. CASE Poll \/ Publish \/ Subscribe \/ Swap \/ Launch \/ Consumer \/ \E n \in Nonces : Find(n)
  BY <1>1, <1>3, MinerStepTyped
<1>4. ASSUME NEW h \in pool, Execute(h) PROVE ContractTyped' /\ MinerTyped'
  BY <1>4, ExecuteTyped
<1>5. CASE Others
  BY <1>2, <1>5, RivalTyped, SealTyped DEF Others
<1>6. CASE UNCHANGED vars
  BY <1>1, <1>2, <1>6 DEF vars
<1> QED BY <1>3, <1>4, <1>5, <1>6 DEF Next

\* Every variable has its type; in particular the difficulty never is zero, and no
\* block has more mints than MAX_MINTS_PER_BLOCK.
THEOREM TypeIsCorrect == Spec => []TypeOK
<1>1. Typed => TypeOK
  BY DEF Typed
<1> QED BY <1>1, InitTyped, NextTyped, PTL DEF Spec

\* _adjustDifficulty(): whatever the constants, the difficulty follows the rate
\* of the mints, at most fourfold at a time.
THEOREM DifficultyFollowsRate == Spec => RetargetFollowsRate
<1>1. ASSUME Typed, [Next]_vars, adjMint' # adjMint
      PROVE  /\ Taken < OnTime => difficulty' =< difficulty
             /\ Taken > OnTime => difficulty' >= difficulty
             /\ difficulty' =< 4 * difficulty /\ difficulty' * 4 + 3 >= difficulty
             /\ difficulty' > 0
  <2>1. ContractTyped /\ MinerTyped
    BY <1>1, TypedParts
  <2>2. ~UNCHANGED contractVars
    BY <1>1 DEF contractVars
  <2>3. ~(Poll \/ Publish \/ Subscribe \/ Swap \/ Launch \/ Consumer \/ \E n \in Nonces : Find(n))
    BY <2>1, <2>2, MinerStepTyped
  <2>4. ~Seal
    BY <1>1 DEF Seal
  <2>5. Mint
    BY <1>1, <2>2, <2>3, <2>4 DEF Next, Others, RivalMine, Execute, Mine, vars
  <2>6. difficulty' = Adjusted
    BY <1>1, <2>5 DEF Mint
  <2> QED BY <2>1, <2>6, ContractIsTyped, Adjustment
<1>2. Typed /\ [Next]_vars =>
        [adjMint' # adjMint =>
           /\ Taken < OnTime => difficulty' =< difficulty
           /\ Taken > OnTime => difficulty' >= difficulty
           /\ difficulty' =< 4 * difficulty /\ difficulty' * 4 + 3 >= difficulty
           /\ difficulty' > 0]_vars
  BY <1>1
<1> QED BY <1>2, InitTyped, NextTyped, PTL DEF Spec, RetargetFollowsRate

----------------------------------------------------------------------------
(* The end of mining.                                                      *)

\* The longer no mint comes, the larger the scaled difficulty: an overflow does
\* not go away.
LEMMA OverflowStays ==
  ASSUME ContractTyped, UNCHANGED <<difficulty, adjBlock>>, Open' \in Nat, Open' >= Open,
         Overflows
  PROVE  Overflows'
<1>1. /\ difficulty \in Nat /\ difficulty > 0 /\ MaxWord \in Nat
      /\ Taken \in Nat /\ Taken' \in Nat /\ Taken =< Taken'
      /\ difficulty' = difficulty
  BY ContractIsTyped, Sizes DEF Taken, ContractTyped
<1>2. CASE difficulty * 4 > MaxWord
  BY <1>1, <1>2 DEF Overflows
<1>3. CASE Scaled > MaxWord /\ Taken = 0
  <2>1. Scaled = difficulty \div 4
    BY <1>3 DEF Scaled
  <2>2. difficulty \div 4 \in Nat /\ 4 * (difficulty \div 4) =< difficulty
    BY <1>1, Quotient
  <2>3. difficulty * 4 > MaxWord
    BY <1>1, <1>3, <2>1, <2>2
  <2> QED BY <1>1, <2>3 DEF Overflows
<1>4. CASE Scaled > MaxWord /\ Taken # 0
  <2>1. Taken' # 0
    BY <1>1, <1>4
  <2>2. /\ Scaled = (difficulty * Taken) \div OnTime
        /\ Scaled' = (difficulty * Taken') \div OnTime
    BY <1>1, <1>4, <2>1 DEF Scaled, OnTime
  <2>3. /\ difficulty * Taken \in Nat /\ difficulty * Taken' \in Nat
        /\ difficulty * Taken =< difficulty * Taken'
    <3>1. \A d, t, u \in Nat : t =< u => d * t \in Nat /\ d * u \in Nat /\ d * t =< d * u
      BY ProductGrows
    <3> QED BY <1>1, <3>1
  <2>4. Scaled =< Scaled'
    BY <2>2, <2>3, OnTimePositive, QuotientGrows
  <2>5. Scaled \in Nat /\ Scaled' \in Nat
    BY <2>2, <2>3, OnTimePositive, Quotient
  <2> QED BY <1>1, <1>4, <2>4, <2>5 DEF Overflows
<1> QED BY <1>2, <1>3, <1>4 DEF Overflows

\* While mining has ended no transaction mints.
LEMMA EndedMintsNothing ==
  ASSUME Ended, [Next]_vars
  PROVE  \/ Seal /\ UNCHANGED minerVars
         \/ UNCHANGED <<block, totalMints, minted, difficulty, adjMint, adjBlock>>
<1>1. Closed # {}
  <2>1. CASE Exhausted
    BY <2>1 DEF Closed
  <2>2. CASE Due /\ Overflows
    BY <2>2 DEF Closed
  <2> QED BY <2>1, <2>2 DEF Ended
<1>2. ASSUME NEW h \in pool, Execute(h)
      PROVE  UNCHANGED <<block, totalMints, minted, difficulty, adjMint, adjBlock>>
  BY <1>1, <1>2 DEF Execute, Mine
<1>3. ~RivalMine
  BY <1>1 DEF RivalMine
<1>4. CASE Poll \/ Publish \/ Subscribe \/ Swap \/ Launch \/ Consumer \/ UNCHANGED vars \/ \E n \in Nonces : Find(n)
  BY <1>4 DEF Poll, Publish, Subscribe, Swap, Launch, Consumer, Take, Submit, Weigh, Reject, Receipt, GiveUp,
              Return, Find, vars, contractVars
<1> QED BY <1>2, <1>3, <1>4 DEF Next, Others

\* The contract: neither the end of the supply nor an adjustment that overflows
\* passes, for any supply, word and rate; nothing is minted any more.
THEOREM EndIsForGood == Spec => MiningEndsForGood
<1>1. ASSUME Typed, Ended, [Next]_vars
      PROVE  Ended' /\ UNCHANGED <<totalMints, minted, difficulty>>
  <2>1. ContractTyped
    BY <1>1, TypedParts
  <2>2. /\ UNCHANGED <<totalMints, minted, difficulty, adjMint, adjBlock>>
        /\ block' = block \/ block' = block + 1
    <3>1. Open = block + 1
      BY DEF Open
    <3> QED BY <1>1, <3>1, EndedMintsNothing DEF Seal
  <2>3. Open' \in Nat /\ Open' >= Open
    BY <2>1, <2>2, ContractIsTyped DEF Open
  <2>4. Exhausted => Exhausted'
    BY <2>2 DEF Exhausted, Pay, Reward
  <2>5. Due => Due'
    BY <2>2 DEF Due
  <2>6. Overflows => Overflows'
    BY <2>1, <2>2, <2>3, OverflowStays
  <2> QED BY <1>1, <2>2, <2>4, <2>5, <2>6 DEF Ended
<1>2. Typed /\ [Next]_vars => [Ended => Ended' /\ UNCHANGED <<totalMints, minted, difficulty>>]_vars
  BY <1>1
<1> QED BY <1>2, InitTyped, NextTyped, PTL DEF Spec, MiningEndsForGood

----------------------------------------------------------------------------
(* Hits on their way.                                                      *)

\* The hits in the channel, in the consumer's hand and in the pool.
InFlight == {hits[i] : i \in 1..Len(hits)} \cup ({hand} \ {None}) \cup pool

LEMMA FlightTyped == ASSUME MinerTyped PROVE InFlight \subseteq Hits
<1>1. ASSUME NEW i \in 1..Len(hits) PROVE hits[i] \in Hits
  <2>1. hits \in Seq(Hits)
    BY DEF MinerTyped
  <2> QED BY <2>1
<1>2. pool \subseteq Hits /\ hand \in Hits \cup {None}
  BY DEF MinerTyped
<1> QED BY <1>1, <1>2 DEF InFlight

\* What the steps do to them.
QuietVars == <<swept, hits, hand, sent, weighed, pool, mined, decided>>
Quiet == UNCHANGED QuietVars

Returns ==
  /\ hand # None
  /\ \E o \in {"ev", "included", "reverted", "dropped"}, r \in Nat : Return(o, r)

LEMMA StepKinds ==
  ASSUME [Next]_vars
  PROVE  \/ Quiet
         \/ \E n \in Nonces : Find(n)
         \/ Take
         \/ \E cost \in Costs, head \in 0..block : Weigh(cost, head) \/ Reject(cost, head)
         \/ Receipt \/ GiveUp
         \/ \E h \in pool : Execute(h)
<1>1. Poll \/ Publish \/ Subscribe \/ Swap \/ Launch \/ Others \/ UNCHANGED vars => Quiet
  BY DEF Quiet, QuietVars, Poll, Publish, Subscribe, Swap, Launch, Others, minerVars, vars
<1> QED BY <1>1 DEF Next, Consumer, Submit

\* A step adds nothing to the hits on their way but what a launch finds.
LEMMA FlightStep ==
  ASSUME MinerTyped, [Next]_vars, NEW h \in InFlight'
  PROVE  h \in InFlight \/ \E n \in Nonces : Find(n) /\ h = HitOf(n)
<1> USE DEF InFlight
<1>0. hits \in Seq(Hits)
  BY DEF MinerTyped
<1>1. CASE Quiet
  BY <1>1 DEF Quiet, QuietVars
<1>2. ASSUME NEW n \in Nonces, Find(n)
      PROVE  h \in InFlight \/ \E m \in Nonces : Find(m) /\ h = HitOf(m)
  <2>1. hits' = Append(hits, HitOf(n)) /\ UNCHANGED <<hand, pool>>
    BY <1>2 DEF Find
  <2>2. \A i \in 1..Len(hits') : hits'[i] = HitOf(n) \/ \E j \in 1..Len(hits) : hits'[i] = hits[j]
    <3>1. HitOf(n) \in Hits
      BY <1>2 DEF Find, MinerTyped, HitOf, Hits, Orders
    <3> QED BY <1>0, <2>1, <3>1
  <2> QED BY <1>2, <2>1, <2>2
<1>3. CASE Take
  <2>1. hits # <<>> /\ hits' = Tail(hits) /\ UNCHANGED pool /\ hand' \in {hand, Head(hits)}
    BY <1>3 DEF Take
  <2>2. Head(hits) = hits[1] /\ 1 \in 1..Len(hits)
    BY <1>0, <2>1
  <2>3. \A i \in 1..Len(hits') : hits'[i] = hits[i + 1] /\ i + 1 \in 1..Len(hits)
    BY <1>0, <2>1
  <2> QED BY <2>1, <2>2, <2>3
<1>4. ASSUME NEW cost \in Costs, NEW head \in 0..block, Weigh(cost, head)
      PROVE  h \in InFlight
  BY <1>4 DEF Weigh
<1>5. CASE Receipt \/ GiveUp \/ \E cost \in Costs, head \in 0..block : Reject(cost, head)
  <2>1. hand' = None /\ UNCHANGED <<hits, pool>>
    BY <1>5 DEF Receipt, GiveUp, Reject, Return
  <2> QED BY <2>1
<1>6. ASSUME NEW g \in pool, Execute(g) PROVE h \in InFlight
  BY <1>6 DEF Execute
<1> QED BY <1>1, <1>2, <1>3, <1>4, <1>5, <1>6, StepKinds

----------------------------------------------------------------------------
(* Epochs.                                                                 *)

Solved(h) == Digest[<<h.epoch, h.nonce>>] < h.target

\* The cache is not ahead of the chain, orders and hits not ahead of the cache.
EpochInv ==
  /\ cached.epoch =< EpochOf(block)
  /\ channel.update # None => channel.update.epoch =< cached.epoch
  /\ orders # None => orders.epoch =< cached.epoch
  /\ device # None => device.epoch =< cached.epoch
  /\ \A h \in InFlight : h.epoch =< cached.epoch /\ Solved(h)

LEMMA InitEpoch == Init => EpochInv
<1> SUFFICES ASSUME Init PROVE EpochInv
  OBVIOUS
<1>1. InFlight = {}
  BY DEF Init, InFlight
<1>2. cached.epoch = EpochOf(block) /\ EpochOf(block) \in Nat
  BY InitContract, ContractIsTyped, EpochGrows DEF Init, MiningState
<1>3. channel.update.epoch = cached.epoch
  BY DEF Init, OrdersOf
<1> QED BY <1>1, <1>2, <1>3 DEF Init, EpochInv

LEMMA BlockGrows ==
  ASSUME ContractTyped, [Next]_vars
  PROVE  block' \in Nat /\ block' >= block
<1>1. block' = block \/ block' = block + 1
  BY ContractIsTyped
     DEF Next, vars, contractVars, Others, Seal, Open, RivalMine, Execute, Mine, Poll, Publish, Subscribe, Swap,
         Launch, Consumer, Take, Submit, Weigh, Reject, Receipt, GiveUp, Return, Find
<1> QED BY <1>1, ContractIsTyped

LEMMA CacheGrows ==
  ASSUME ContractTyped, MinerTyped, EpochInv, [Next]_vars
  PROVE  /\ cached'.epoch >= cached.epoch /\ cached'.epoch =< EpochOf(block')
         /\ cached'.epoch \in Nat
<1>1. EpochOf(block) \in Nat /\ EpochOf(block') \in Nat /\ EpochOf(block) =< EpochOf(block')
  BY BlockGrows, ContractIsTyped, EpochGrows
<1>2. cached' = cached \/ cached' = MiningState
  BY DEF Next, vars, minerVars, Others, Execute, Poll, Publish, Subscribe, Swap, Launch, Consumer, Take, Submit,
         Weigh, Reject, Receipt, GiveUp, Return, Find
<1>3. MiningState.epoch = EpochOf(block)
  BY DEF MiningState
<1> QED BY <1>1, <1>2, <1>3 DEF EpochInv, MinerTyped

LEMMA NextEpoch == Typed /\ EpochInv /\ [Next]_vars => EpochInv'
<1> SUFFICES ASSUME ContractTyped, MinerTyped, EpochInv, [Next]_vars PROVE EpochInv'
  BY TypedParts
<1>1. /\ cached'.epoch >= cached.epoch /\ cached'.epoch =< EpochOf(block')
      /\ cached'.epoch \in Nat /\ cached.epoch \in Nat
  BY CacheGrows DEF MinerTyped
<1>6. channel'.update # None => channel'.update.epoch =< cached'.epoch
  <2>1. channel'.update \in {channel.update, OrdersOf(cached), None}
    <3>1. CASE UNCHANGED channel
      BY <3>1
    <3>2. CASE Publish \/ Subscribe \/ Swap
      BY <3>2 DEF Publish, Subscribe, Swap, MinerTyped
    <3> QED BY <3>1, <3>2
         DEF Next, vars, minerVars, Others, Execute, Poll, Launch, Consumer, Take, Submit,
             Weigh, Reject, Receipt, GiveUp, Return, Find
  <2>2. OrdersOf(cached).epoch = cached.epoch
    BY DEF OrdersOf
  <2>3. channel.update # None => channel.update.epoch \in Nat
    BY DEF MinerTyped, Orders
  <2> QED BY <1>1, <2>1, <2>2, <2>3 DEF EpochInv
<1>2. orders' # None => orders'.epoch =< cached'.epoch
  <2>1. orders' = orders \/ (orders' = channel.update /\ channel.update # None)
    BY DEF Next, vars, minerVars, Others, Execute, Poll, Publish, Subscribe, Swap, Launch, Consumer, Take, Submit,
           Weigh, Reject, Receipt, GiveUp, Return, Find
  <2>2. /\ orders # None => orders.epoch \in Nat
        /\ channel.update # None => channel.update.epoch \in Nat
    BY DEF MinerTyped, Orders
  <2> QED BY <1>1, <2>1, <2>2 DEF EpochInv
<1>3. device' # None => device'.epoch =< cached'.epoch
  <2>1. device' = device \/ (device' = orders /\ orders # None)
    BY DEF Next, vars, minerVars, Others, Execute, Poll, Publish, Subscribe, Swap, Launch, Consumer, Take, Submit,
           Weigh, Reject, Receipt, GiveUp, Return, Find
  <2>2. /\ orders # None => orders.epoch \in Nat
        /\ device # None => device.epoch \in Nat
    BY DEF MinerTyped, Orders
  <2> QED BY <1>1, <2>1, <2>2 DEF EpochInv
<1>4. ASSUME NEW h \in InFlight' PROVE h.epoch =< cached'.epoch /\ Solved(h)
  <2>1. CASE h \in InFlight
    <3>1. h.epoch \in Nat
      BY <2>1, FlightTyped DEF Hits
    <3> QED BY <1>1, <2>1, <3>1 DEF EpochInv
  <2>2. ASSUME NEW n \in Nonces, Find(n), h = HitOf(n)
        PROVE  h.epoch =< cached'.epoch /\ Solved(h)
    <3>1. device # None /\ Digest[<<device.epoch, n>>] < device.target
      BY <2>2 DEF Find
    <3>2. h.epoch = device.epoch /\ h.nonce = n /\ h.target = device.target
      BY <2>2 DEF HitOf
    <3>3. device.epoch \in Nat
      BY <3>1 DEF MinerTyped, Orders
    <3> QED BY <1>1, <3>1, <3>2, <3>3 DEF EpochInv, Solved
  <2> QED BY <2>1, <2>2, FlightStep
<1>5. \A h \in InFlight' : Solved(h)' <=> Solved(h)
  BY DEF Solved
<1> QED BY <1>1, <1>2, <1>3, <1>4, <1>5, <1>6 DEF EpochInv, Solved

LEMMA NextStale ==
  ASSUME Typed, EpochInv, StaleIsDead, [Next]_vars
  PROVE  StaleIsDead'
<1> SUFFICES ASSUME NEW d \in decided', d.outcome = "stale"
             PROVE  d.hit.epoch < EpochOf(Open')
  BY DEF StaleIsDead, EpochOf, Open
<1>0. ContractTyped /\ MinerTyped /\ ContractTyped' /\ MinerTyped'
  <2>1. Typed'
    BY NextTyped
  <2> QED BY <2>1 DEF Typed, TypeOK, ContractTyped, MinerTyped
<1>1. EpochOf(block) =< EpochOf(Open) /\ EpochOf(Open) =< EpochOf(Open')
      /\ {EpochOf(block), EpochOf(Open), EpochOf(Open')} \subseteq Nat
  <2>1. Open' = block' + 1 /\ Open = block + 1
    BY DEF Open
  <2> QED BY <1>0, <2>1, BlockGrows, ContractIsTyped, EpochGrows
<1>2. d.hit.epoch \in Nat
  BY <1>0 DEF MinerTyped, Hits
<1>3. CASE d \in decided
  <2>1. d.hit.epoch < EpochOf(Open)
    BY <1>3 DEF StaleIsDead
  <2> QED BY <1>1, <1>2, <2>1
<1>4. CASE d \notin decided
  <2>1. Take /\ d.hit = Head(hits) /\ Head(hits).epoch # cached.epoch
    <3>1. \A o \in {"ev", "included", "reverted", "dropped"} :
            \A r : Return(o, r) => d \in decided
      BY DEF Return, Decide
    <3>2. ~Quiet
      BY <1>4 DEF Quiet, QuietVars
    <3>3. Take
      BY <1>4, <3>1, <3>2, StepKinds DEF Find, Weigh, Reject, Receipt, GiveUp, Execute
    <3> QED BY <1>4, <3>3 DEF Take, Decide
  <2>2. hits \in Seq(Hits) /\ hits # <<>>
    BY <1>0, <2>1 DEF Take, MinerTyped
  <2>3. Head(hits) = hits[1] /\ 1 \in 1..Len(hits)
    BY <2>2
  <2>4. d.hit \in InFlight
    BY <2>1, <2>3 DEF InFlight
  <2>5. d.hit.epoch =< cached.epoch /\ cached.epoch =< EpochOf(block) /\ cached.epoch \in Nat
    BY <1>0, <2>4 DEF EpochInv, MinerTyped
  <2> QED BY <1>1, <1>2, <2>1, <2>5
<1> QED BY <1>3, <1>4

\* The submitter's check against the cache drops no hit that could still be mined,
\* however late the cache is.
THEOREM StaleStaysDead == Spec => []StaleIsDead
<1>1. Init => StaleIsDead
  BY DEF Init, StaleIsDead
<1>2. Typed /\ EpochInv /\ StaleIsDead /\ [Next]_vars => StaleIsDead'
  BY NextStale
<1> QED BY <1>1, <1>2, InitTyped, NextTyped, InitEpoch, NextEpoch, PTL DEF Spec

----------------------------------------------------------------------------
(* A hit is in one place at a time.                                        *)

\* The keys of the hits, wherever they are, have been swept; the hits that are not
\* yet sent are nowhere else; a sent one is in the pool or mined, once, and not
\* decided as stale or held back.
QueueOnce ==
  /\ \A i, j \in 1..Len(hits) : Key(hits[i]) = Key(hits[j]) => i = j
  /\ \A i \in 1..Len(hits) :
       /\ Key(hits[i]) \in swept
       /\ hand # None => Key(hand) # Key(hits[i])
       /\ \A p \in pool : Key(p) # Key(hits[i])
       /\ \A m \in mined : Key(m.hit) # Key(hits[i])
       /\ \A d \in decided : Key(d.hit) # Key(hits[i])

HandOnce ==
  /\ hand = None => ~sent
  /\ hand # None =>
       /\ Key(hand) \in swept
       /\ \A d \in decided : Key(d.hit) # Key(hand)
       /\ ~sent => /\ \A p \in pool : Key(p) # Key(hand)
                   /\ \A m \in mined : Key(m.hit) # Key(hand)

PoolOnce ==
  \A p \in pool :
    /\ Key(p) \in swept
    /\ \A q \in pool : Key(q) = Key(p) => q = p
    /\ \A m \in mined : Key(m.hit) # Key(p)
    /\ \A d \in decided : Key(d.hit) = Key(p) => d.outcome = "dropped"

MinedOnce ==
  \A m \in mined :
    /\ Key(m.hit) \in swept
    /\ \A o \in mined : Key(o.hit) = Key(m.hit) => o = m
    /\ \A d \in decided : Key(d.hit) = Key(m.hit) => d.outcome \notin {"stale", "ev"}

DecidedOnce == \A d \in decided : Key(d.hit) \in swept

OnceInv == QueueOnce /\ HandOnce /\ PoolOnce /\ MinedOnce /\ DecidedOnce

LEMMA InitOnce == Init => OnceInv
BY DEF Init, OnceInv, QueueOnce, HandOnce, PoolOnce, MinedOnce, DecidedOnce

LEMMA FindOnce ==
  ASSUME MinerTyped, OnceInv, NEW n \in Nonces, Find(n)
  PROVE  OnceInv'
<1> DEFINE h == HitOf(n)
           k == Key(h)
<1>1. /\ k \notin swept /\ hits' = Append(hits, h) /\ swept' = swept \cup {k}
      /\ UNCHANGED <<hand, sent, pool, mined, decided>>
  BY DEF Find, Key, HitOf
<1>2. h \in Hits /\ hits \in Seq(Hits)
  BY DEF Find, MinerTyped, HitOf, Hits, Orders
<1> HIDE DEF h, k
<1>3. /\ Len(hits') = Len(hits) + 1 /\ hits'[Len(hits')] = h
      /\ \A i \in 1..Len(hits') : i # Len(hits') => i \in 1..Len(hits) /\ hits'[i] = hits[i]
      /\ Len(hits') \in 1..Len(hits')
  BY <1>1, <1>2
<1>4. Key(h) = k
  BY DEF k
<1>5. HandOnce' /\ PoolOnce' /\ MinedOnce' /\ DecidedOnce'
  <2>1. UNCHANGED <<hand, sent, pool, mined, decided>> /\ swept \subseteq swept'
    BY <1>1
  <2>2. HandOnce'
    BY <2>1 DEF OnceInv, HandOnce, Key
  <2>3. PoolOnce'
    BY <2>1 DEF OnceInv, PoolOnce, Key
  <2>4. MinedOnce'
    BY <2>1 DEF OnceInv, MinedOnce, Key
  <2>5. DecidedOnce'
    BY <2>1 DEF OnceInv, DecidedOnce, Key
  <2> QED BY <2>2, <2>3, <2>4, <2>5
<1>6. ASSUME NEW i \in 1..Len(hits')
      PROVE  /\ Key(hits'[i]) \in swept'
             /\ hand # None => Key(hand) # Key(hits'[i])
             /\ \A p \in pool : Key(p) # Key(hits'[i])
             /\ \A m \in mined : Key(m.hit) # Key(hits'[i])
             /\ \A d \in decided : Key(d.hit) # Key(hits'[i])
  <2>1. CASE i = Len(hits')
    <3>1. Key(hits'[i]) = k
      BY <1>3, <1>4, <2>1
    <3> QED BY <1>1, <3>1 DEF OnceInv, HandOnce, PoolOnce, MinedOnce, DecidedOnce
  <2>2. CASE i # Len(hits')
    BY <1>1, <1>3, <2>2 DEF OnceInv, QueueOnce
  <2> QED BY <2>1, <2>2
<1>7. ASSUME NEW i \in 1..Len(hits'), NEW j \in 1..Len(hits'), Key(hits'[i]) = Key(hits'[j])
      PROVE  i = j
  <2>1. \A l \in 1..Len(hits') : l # Len(hits') => Key(hits'[l]) \in swept
    BY <1>3 DEF OnceInv, QueueOnce
  <2>2. Key(hits'[Len(hits')]) \notin swept
    BY <1>1, <1>3, <1>4
  <2>3. CASE i # Len(hits') /\ j # Len(hits')
    BY <1>3, <1>7, <2>3 DEF OnceInv, QueueOnce
  <2> QED BY <1>7, <2>1, <2>2, <2>3
<1>8. QueueOnce'
  BY <1>1, <1>6, <1>7 DEF QueueOnce, Key
<1> QED BY <1>5, <1>8 DEF OnceInv

LEMMA TakeOnce ==
  ASSUME MinerTyped, OnceInv, Take
  PROVE  OnceInv'
<1> DEFINE h == Head(hits)
<1>1. /\ hand = None /\ hits # <<>> /\ hits' = Tail(hits) /\ hits \in Seq(Hits)
      /\ UNCHANGED <<swept, sent, pool, mined>> /\ ~sent
  BY DEF Take, MinerTyped, OnceInv, HandOnce
<1>2. /\ h = hits[1] /\ 1 \in 1..Len(hits) /\ h \in Hits
      /\ \A i \in 1..Len(hits') : i + 1 \in 1..Len(hits) /\ hits'[i] = hits[i + 1] /\ i + 1 # 1
  BY <1>1
<1>3. \/ hand' = h /\ UNCHANGED decided
      \/ UNCHANGED hand /\ decided' = decided \cup {[hit |-> h, outcome |-> "stale", reward |-> 0]}
  BY DEF Take, Decide
<1> HIDE DEF h
<1>4. /\ Key(h) \in swept
      /\ \A p \in pool : Key(p) # Key(h)
      /\ \A m \in mined : Key(m.hit) # Key(h)
      /\ \A d \in decided : Key(d.hit) # Key(h)
  BY <1>2 DEF OnceInv, QueueOnce
<1>5. \A d \in decided' : d \in decided \/ (d.hit = h /\ d.outcome = "stale")
  BY <1>3
<1>6. hand' # None => hand' = h
  BY <1>1, <1>3
<1>7. ASSUME NEW i \in 1..Len(hits')
      PROVE  /\ Key(hits'[i]) \in swept /\ Key(hits'[i]) # Key(h)
             /\ \A p \in pool : Key(p) # Key(hits'[i])
             /\ \A m \in mined : Key(m.hit) # Key(hits'[i])
             /\ \A d \in decided : Key(d.hit) # Key(hits'[i])
  BY <1>2 DEF OnceInv, QueueOnce
<1>8. QueueOnce'
  <2>1. ASSUME NEW i \in 1..Len(hits'), NEW j \in 1..Len(hits'), Key(hits'[i]) = Key(hits'[j])
        PROVE  i = j
    <3>1. i + 1 = j + 1
      BY <1>2, <2>1 DEF OnceInv, QueueOnce
    <3> QED BY <3>1
  <2>2. ASSUME NEW i \in 1..Len(hits'), NEW d \in decided' PROVE Key(d.hit) # Key(hits'[i])
    BY <1>5, <1>7
  <2> QED BY <1>1, <1>6, <1>7, <2>1, <2>2 DEF QueueOnce, Key
<1>9. HandOnce'
  BY <1>1, <1>3, <1>4, <1>6 DEF HandOnce, Key, OnceInv
<1>10. PoolOnce'
  <2>1. ASSUME NEW p \in pool, NEW d \in decided', Key(d.hit) = Key(p) PROVE d.outcome = "dropped"
    BY <1>4, <1>5, <2>1 DEF OnceInv, PoolOnce
  <2> QED BY <1>1, <2>1 DEF OnceInv, PoolOnce, Key
<1>11. MinedOnce'
  <2>1. ASSUME NEW m \in mined, NEW d \in decided', Key(d.hit) = Key(m.hit)
        PROVE  d.outcome \notin {"stale", "ev"}
    BY <1>4, <1>5, <2>1 DEF OnceInv, MinedOnce
  <2> QED BY <1>1, <2>1 DEF OnceInv, MinedOnce, Key
<1>12. DecidedOnce'
  BY <1>1, <1>4, <1>5 DEF OnceInv, DecidedOnce, Key
<1> QED BY <1>8, <1>9, <1>10, <1>11, <1>12 DEF OnceInv

LEMMA WeighOnce ==
  ASSUME OnceInv, NEW cost \in Costs, NEW head \in 0..block, Weigh(cost, head)
  PROVE  OnceInv'
<1>1. /\ hand # None /\ ~sent /\ sent' = TRUE /\ pool' = pool \cup {hand}
      /\ UNCHANGED <<swept, hits, hand, mined, decided>>
  BY DEF Weigh
<1>2. QueueOnce'
  BY <1>1 DEF OnceInv, QueueOnce, Key
<1>3. HandOnce'
  BY <1>1 DEF OnceInv, HandOnce, Key
<1>4. PoolOnce'
  BY <1>1 DEF OnceInv, PoolOnce, HandOnce, Key
<1>5. MinedOnce'
  BY <1>1 DEF OnceInv, MinedOnce, Key
<1>6. DecidedOnce'
  BY <1>1 DEF OnceInv, DecidedOnce, Key
<1> QED BY <1>2, <1>3, <1>4, <1>5, <1>6 DEF OnceInv

\* submit() returns: what is held back was not sent, and what is answered from a
\* receipt is mined.
LEMMA ReturnOnce ==
  ASSUME OnceInv, hand # None, NEW o, NEW r, Return(o, r),
         o = "ev" => ~sent,
         o \in {"included", "reverted"} => \E m \in mined : m.hit = hand,
         o \in {"ev", "included", "reverted", "dropped"}
  PROVE  OnceInv'
<1>1. /\ hand' = None /\ sent' = FALSE
      /\ decided' = decided \cup {[hit |-> hand, outcome |-> o, reward |-> r]}
      /\ UNCHANGED <<swept, hits, pool, mined>>
  BY DEF Return, Decide
<1>2. \A d \in decided' : d \in decided \/ (d.hit = hand /\ d.outcome = o)
  BY <1>1
<1>3. QueueOnce'
  BY <1>1, <1>2 DEF OnceInv, QueueOnce, Key
<1>4. HandOnce'
  BY <1>1 DEF HandOnce
<1>5. PoolOnce'
  <2>1. ASSUME NEW p \in pool, NEW d \in decided', Key(d.hit) = Key(p) PROVE d.outcome = "dropped"
    <3>1. CASE d \in decided
      BY <2>1, <3>1 DEF OnceInv, PoolOnce
    <3>2. CASE d.hit = hand /\ d.outcome = o
      BY <2>1, <3>2 DEF OnceInv, PoolOnce, HandOnce
    <3> QED BY <1>2, <3>1, <3>2
  <2> QED BY <1>1, <2>1 DEF OnceInv, PoolOnce, Key
<1>6. MinedOnce'
  <2>1. ASSUME NEW m \in mined, NEW d \in decided', Key(d.hit) = Key(m.hit)
        PROVE  d.outcome \notin {"stale", "ev"}
    <3>1. CASE d \in decided
      BY <2>1, <3>1 DEF OnceInv, MinedOnce
    <3>2. CASE d.hit = hand /\ d.outcome = o
      BY <2>1, <3>2 DEF OnceInv, HandOnce
    <3> QED BY <1>2, <3>1, <3>2
  <2> QED BY <1>1, <2>1 DEF OnceInv, MinedOnce, Key
<1>7. DecidedOnce'
  BY <1>1, <1>2 DEF OnceInv, DecidedOnce, HandOnce, Key
<1> QED BY <1>3, <1>4, <1>5, <1>6, <1>7 DEF OnceInv

LEMMA ExecuteOnce ==
  ASSUME OnceInv, NEW h \in pool, Execute(h)
  PROVE  OnceInv'
<1>1. pool' = pool \ {h} /\ UNCHANGED <<swept, hits, hand, sent, decided>>
  BY DEF Execute
<1> DEFINE m == [hit |-> h, block |-> Open, difficulty |-> difficulty,
                 causes |-> Closed \cup Unproved(h.nonce), paid |-> Pay]
<1>2. mined' = mined \cup {m} /\ m.hit = h
  BY DEF Execute
<1> HIDE DEF m
<1>3. QueueOnce'
  BY <1>1, <1>2 DEF OnceInv, QueueOnce, Key
<1>4. HandOnce'
  BY <1>1, <1>2 DEF OnceInv, HandOnce, Key
<1>5. PoolOnce'
  <2>1. ASSUME NEW p \in pool', NEW n \in mined' PROVE Key(n.hit) # Key(p)
    BY <1>1, <1>2 DEF OnceInv, PoolOnce
  <2> QED BY <1>1, <2>1 DEF OnceInv, PoolOnce, Key
<1>6. MinedOnce'
  <2>1. ASSUME NEW n \in mined, NEW o \in mined', Key(o.hit) = Key(n.hit) PROVE o = n
    BY <1>2, <2>1 DEF OnceInv, MinedOnce, PoolOnce
  <2>2. ASSUME NEW o \in mined', Key(o.hit) = Key(m.hit) PROVE o = m
    BY <1>2, <2>2 DEF OnceInv, PoolOnce
  <2>3. ASSUME NEW d \in decided, Key(d.hit) = Key(m.hit) PROVE d.outcome \notin {"stale", "ev"}
    BY <1>2, <2>3 DEF OnceInv, PoolOnce
  <2>4. Key(m.hit) \in swept
    BY <1>2 DEF OnceInv, PoolOnce
  <2> QED BY <1>1, <1>2, <2>1, <2>2, <2>3, <2>4 DEF OnceInv, MinedOnce, Key
<1>7. DecidedOnce'
  BY <1>1 DEF OnceInv, DecidedOnce, Key
<1> QED BY <1>3, <1>4, <1>5, <1>6, <1>7 DEF OnceInv

LEMMA NextOnce == Typed /\ OnceInv /\ [Next]_vars => OnceInv'
<1> SUFFICES ASSUME ContractTyped, MinerTyped, OnceInv, [Next]_vars PROVE OnceInv'
  BY TypedParts
<1>1. CASE Quiet
  BY <1>1 DEF Quiet, QuietVars, OnceInv, QueueOnce, HandOnce, PoolOnce, MinedOnce, DecidedOnce, Key
<1>2. ASSUME NEW n \in Nonces, Find(n) PROVE OnceInv'
  BY <1>2, FindOnce
<1>3. CASE Take
  BY <1>3, TakeOnce
<1>4. ASSUME NEW cost \in Costs, NEW head \in 0..block, Weigh(cost, head) PROVE OnceInv'
  BY <1>4, WeighOnce
<1>5. ASSUME NEW cost \in Costs, NEW head \in 0..block, Reject(cost, head) PROVE OnceInv'
  BY <1>5, ReturnOnce DEF Reject
<1>6. CASE Receipt
  <2>1. PICK m \in mined : /\ m.hit = hand
                          /\ IF m.causes = {} THEN Return("included", weighed)
                                             ELSE Return("reverted", 0)
    BY <1>6 DEF Receipt
  <2>2. hand # None
    BY <1>6 DEF Receipt
  <2>3. CASE Return("included", weighed)
    BY <2>1, <2>2, <2>3, ReturnOnce
  <2>4. CASE Return("reverted", 0)
    BY <2>1, <2>2, <2>4, ReturnOnce
  <2> QED BY <2>1, <2>3, <2>4
<1>7. CASE GiveUp
  BY <1>7, ReturnOnce DEF GiveUp
<1>8. ASSUME NEW h \in pool, Execute(h) PROVE OnceInv'
  BY <1>8, ExecuteOnce
<1> QED BY <1>1, <1>2, <1>3, <1>4, <1>5, <1>6, <1>7, <1>8, StepKinds

----------------------------------------------------------------------------
(* Why transactions revert.                                                *)

\* A proof the contract has seen is of a mined hit.
UsedInv == \A u \in used : \E m \in mined : m.hit.nonce = u[1]

LEMMA NextCause ==
  ASSUME Typed, EpochInv, OnceInv, UsedInv, RevertHasCause, [Next]_vars
  PROVE  UsedInv' /\ RevertHasCause'
<1>0. ContractTyped /\ MinerTyped
  BY TypedParts
<1>1. ASSUME UNCHANGED <<used, mined>> PROVE UsedInv' /\ RevertHasCause'
  BY <1>1 DEF UsedInv, RevertHasCause, EpochOf
<1>2. ASSUME NEW h \in pool, Execute(h) PROVE UsedInv' /\ RevertHasCause'
  <2> DEFINE m == [hit |-> h, block |-> Open, difficulty |-> difficulty,
                   causes |-> Closed \cup Unproved(h.nonce), paid |-> Pay]
  <2>1. mined' = mined \cup {m}
    BY <1>2 DEF Execute
  <2>2. /\ m.hit = h /\ m.block = Open /\ m.difficulty = difficulty
        /\ m.causes = Closed \cup Unproved(h.nonce)
    OBVIOUS
  <2> HIDE DEF m
  <2>3. used' = used \/ used' = used \cup {<<h.nonce, EpochOf(Open)>>}
    BY <1>2 DEF Execute, Mine
  <2>4. UsedInv'
    BY <2>1, <2>2, <2>3 DEF UsedInv
  <2>5. ASSUME "used" \in m.causes
        PROVE  \E o \in mined : o.hit.nonce = h.nonce /\ o.hit.epoch # h.epoch
    <3>1. <<h.nonce, EpochOf(Open)>> \in used
      BY <2>2, <2>5 DEF Closed, Unproved
    <3>2. PICK o \in mined : o.hit.nonce = h.nonce
      BY <3>1 DEF UsedInv
    <3>3. Key(o.hit) # Key(h)
      BY DEF OnceInv, PoolOnce
    <3> QED BY <3>2, <3>3 DEF Key
  <2>6. ASSUME "work" \in m.causes
        PROVE  EpochOf(m.block) > h.epoch \/ m.difficulty < h.target
    <3>1. Digest[<<EpochOf(Open), h.nonce>>] >= difficulty
      BY <2>2, <2>6 DEF Closed, Unproved
    <3>2. h \in InFlight /\ h \in Hits
      BY <1>0 DEF InFlight, MinerTyped
    <3>3. h.epoch =< cached.epoch /\ cached.epoch =< EpochOf(block) /\ Solved(h)
      BY <3>2 DEF EpochInv
    <3>4. /\ EpochOf(block) =< EpochOf(Open) /\ EpochOf(block) \in Nat /\ EpochOf(Open) \in Nat
          /\ cached.epoch \in Nat /\ h.epoch \in Nat /\ h.nonce \in Nonces /\ h.target \in Nat
          /\ difficulty \in Nat
      <4>1. block \in Nat /\ Open \in Nat /\ block =< Open /\ difficulty \in Nat
        BY <1>0, ContractIsTyped
      <4>2. cached.epoch \in Nat
        BY <1>0 DEF MinerTyped
      <4>3. h.epoch \in Nat /\ h.nonce \in Nonces /\ h.target \in Nat
        BY <3>2 DEF Hits
      <4> QED BY <4>1, <4>2, <4>3, EpochGrows
    <3>5. EpochOf(Open) =< EpochOf(MaxBlock) /\ EpochOf(MaxBlock) \in Nat
      <4>1. Open \in Nat /\ MaxBlock \in Nat
        BY <1>0, ContractIsTyped, Sizes
      <4>2. Open =< MaxBlock
        BY <1>0, <1>2, <4>1, ContractIsTyped DEF Execute, Mine
      <4> QED BY <4>1, <4>2, EpochGrows
    <3>6. Digest[<<EpochOf(Open), h.nonce>>] \in Nat
      BY <3>4, <3>5, ContractDigestAssumption
    <3>7. CASE EpochOf(Open) = h.epoch
      <4>1. Digest[<<EpochOf(Open), h.nonce>>] < h.target
        BY <3>3, <3>7 DEF Solved
      <4> QED BY <2>2, <3>1, <3>4, <3>6, <4>1
    <3>8. CASE EpochOf(Open) # h.epoch
      BY <2>2, <3>3, <3>4, <3>8
    <3> QED BY <3>7, <3>8
  <2>7. RevertHasCause'
    BY <2>1, <2>2, <2>5, <2>6 DEF RevertHasCause, EpochOf
  <2> QED BY <2>4, <2>7
<1>3. UNCHANGED <<used, mined>> \/ \E h \in pool : Execute(h)
  BY DEF Next, vars, contractVars, minerVars, Others, RivalMine, Seal, Poll, Publish, Subscribe, Swap, Launch,
         Consumer, Take, Submit, Weigh, Reject, Receipt, GiveUp, Return, Find
<1> QED BY <1>1, <1>2, <1>3

\* The program never sends a hit twice, never before its proof is good and never
\* with the wrong epoch: its transactions revert because of the chain only.
THEOREM RevertsHaveCause == Spec => []RevertHasCause
<1>1. Init => UsedInv /\ RevertHasCause
  BY DEF Init, ContractInit, UsedInv, RevertHasCause
<1>2. Typed /\ EpochInv /\ OnceInv /\ UsedInv /\ RevertHasCause /\ [Next]_vars
      => UsedInv' /\ RevertHasCause'
  BY NextCause
<1> QED BY <1>1, <1>2, InitTyped, NextTyped, InitEpoch, NextEpoch, InitOnce, NextOnce, PTL DEF Spec

----------------------------------------------------------------------------
(* What is reported.                                                       *)

\* Rewards only fall, so what was read earlier is not less.
RewardInv ==
  /\ latest.reward >= Reward(totalMints) /\ cached.reward >= Reward(totalMints)
  /\ hand # None => weighed >= Reward(totalMints)

LEMMA InitReward == Init => RewardInv
<1> SUFFICES ASSUME Init PROVE RewardInv
  OBVIOUS
<1>1. latest.reward = Reward(0) /\ totalMints = 0 /\ cached.reward = latest.reward /\ hand = None
  BY DEF Init, ContractInit, MiningState
<1>2. Reward(0) \in Nat
  BY RewardFalls
<1> QED BY <1>1, <1>2 DEF RewardInv

LEMMA NextReward == Typed /\ RewardInv /\ [Next]_vars => RewardInv'
<1> SUFFICES ASSUME ContractTyped, MinerTyped, RewardInv, [Next]_vars PROVE RewardInv'
  BY TypedParts
<1>0. Reward(totalMints)' = Reward(totalMints')
  BY DEF Reward
<1>1. /\ totalMints' \in Nat /\ totalMints' >= totalMints
      /\ latest' = latest \/ latest'.reward = Reward(totalMints)
  <2>1. CASE Others
    <3>1. CASE RivalMine
      BY <3>1, RivalTyped, ContractIsTyped DEF RivalMine, ContractTyped, ContractTypeOK
    <3>2. CASE Seal
      BY <3>2, SealTyped, ContractIsTyped
    <3> QED BY <2>1, <3>1, <3>2 DEF Others
  <2>2. ASSUME NEW h \in pool, Execute(h)
        PROVE  /\ totalMints' \in Nat /\ totalMints' >= totalMints
               /\ latest' = latest
    BY <2>2, ExecuteTyped DEF Execute, Mine, ContractTyped, ContractTypeOK
  <2>3. CASE UNCHANGED contractVars
    BY <2>3, ContractIsTyped DEF contractVars
  <2> QED BY <2>1, <2>2, <2>3, MinerStepTyped DEF Next, vars
<1>2. /\ Reward(totalMints') =< Reward(totalMints)
      /\ Reward(totalMints') \in Nat /\ Reward(totalMints) \in Nat
  BY <1>1, ContractIsTyped, RewardFalls
<1>3. latest.reward \in Nat /\ cached.reward \in Nat /\ weighed \in Nat
  BY ContractIsTyped DEF MinerTyped
<1>4. cached' = cached \/ cached'.reward = latest.reward
  <2>1. cached' = cached \/ cached' = MiningState
    BY DEF Next, vars, minerVars, Others, Execute, Poll, Publish, Subscribe, Swap, Launch, Consumer, Take, Submit,
           Weigh, Reject, Receipt, GiveUp, Return, Find
  <2> QED BY <2>1 DEF MiningState
<1>5. hand' # None => \/ hand # None /\ weighed' = weighed
                     \/ weighed' = cached.reward
  <2>1. ASSUME NEW cost \in Costs, NEW head \in 0..block, Weigh(cost, head)
        PROVE  hand # None /\ weighed' = weighed
    BY <2>1 DEF Weigh, MinerTyped
  <2>2. CASE Take
    BY <2>2 DEF Take
  <2>3. CASE UNCHANGED <<hand, weighed>>
    BY <2>3
  <2>4. CASE hand' = None
    BY <2>4
  <2> QED BY <2>1, <2>2, <2>3, <2>4, StepKinds
          DEF Quiet, QuietVars, Find, Reject, Receipt, GiveUp, Return, Execute
<1>6. latest'.reward >= Reward(totalMints')
  BY <1>1, <1>2, <1>3 DEF RewardInv
<1>7. cached'.reward >= Reward(totalMints')
  BY <1>2, <1>3, <1>4 DEF RewardInv
<1>8. hand' # None => weighed' >= Reward(totalMints')
  BY <1>2, <1>3, <1>5 DEF RewardInv
<1> QED BY <1>0, <1>6, <1>7, <1>8 DEF RewardInv

\* A mined hit that is still in hand was paid no more than submit() expects, and an
\* answer from a receipt is of a mined hit.
PaidInv ==
  /\ hand # None => \A m \in mined : m.hit = hand => m.paid =< weighed
  /\ \A d \in decided : d.outcome \in {"included", "reverted"} =>
       \E m \in mined : m.hit = d.hit

LEMMA NextReport ==
  ASSUME Typed, OnceInv, RewardInv, PaidInv, ReportMatchesContract, [Next]_vars
  PROVE  PaidInv' /\ ReportMatchesContract'
<1>0. ContractTyped /\ MinerTyped
  BY TypedParts
<1> USE DEF PaidInv, ReportMatchesContract
<1>1. ASSUME UNCHANGED <<hand, weighed, mined, decided>>
      PROVE  PaidInv' /\ ReportMatchesContract'
  BY <1>1
<1>2. CASE Take
  <2> DEFINE h == Head(hits)
             d0 == [hit |-> h, outcome |-> "stale", reward |-> 0]
  <2>1. /\ UNCHANGED mined /\ hand = None
        /\ \/ hand' = h /\ UNCHANGED decided
           \/ UNCHANGED hand /\ decided' = decided \cup {d0}
    BY <1>2 DEF Take, Decide
  <2>2. h = hits[1] /\ 1 \in 1..Len(hits)
    BY <1>0, <1>2 DEF Take, MinerTyped
  <2>3. \A m \in mined : m.hit # h
    <3>1. \A m \in mined : Key(m.hit) # Key(hits[1])
      BY <2>2 DEF OnceInv, QueueOnce
    <3>2. Key(h) = Key(hits[1])
      BY <2>2
    <3> HIDE DEF h
    <3> QED BY <3>1, <3>2 DEF Key
  <2>4. d0.hit = h /\ d0.outcome = "stale"
    OBVIOUS
  <2> HIDE DEF h, d0
  <2> QED BY <2>1, <2>3, <2>4
<1>3. ASSUME NEW cost \in Costs, NEW head \in 0..block, Weigh(cost, head)
      PROVE  PaidInv' /\ ReportMatchesContract'
  <2>1. UNCHANGED <<hand, mined, decided>> /\ weighed' = weighed
    BY <1>0, <1>3 DEF Weigh, MinerTyped
  <2> QED BY <2>1
<1>4. ASSUME NEW o, NEW r, Return(o, r), hand # None, o \in {"ev", "dropped"}, o = "ev" => ~sent
      PROVE  PaidInv' /\ ReportMatchesContract'
  <2> DEFINE d0 == [hit |-> hand, outcome |-> o, reward |-> r]
  <2>1. hand' = None /\ UNCHANGED mined /\ decided' = decided \cup {d0}
    BY <1>4 DEF Return, Decide
  <2>2. d0.hit = hand /\ d0.outcome = o
    OBVIOUS
  <2>3. o = "ev" => \A m \in mined : m.hit # hand
    BY <1>4 DEF OnceInv, HandOnce, Key
  <2> HIDE DEF d0
  <2> QED BY <1>4, <2>1, <2>2, <2>3
<1>5. CASE Receipt
  <2>1. PICK m \in mined : /\ m.hit = hand
                          /\ IF m.causes = {} THEN Return("included", weighed)
                                             ELSE Return("reverted", 0)
    BY <1>5 DEF Receipt
  <2>2. hand # None
    BY <1>5 DEF Receipt
  <2>3. \A n \in mined : n.hit = hand => n = m
    BY <2>1 DEF OnceInv, MinedOnce
  <2>4. m.paid =< weighed
    BY <2>1, <2>2
  <2>5. CASE m.causes = {}
    <3> DEFINE d0 == [hit |-> hand, outcome |-> "included", reward |-> weighed]
    <3>1. hand' = None /\ UNCHANGED mined /\ decided' = decided \cup {d0}
      BY <2>1, <2>5 DEF Return, Decide
    <3>2. d0.hit = hand /\ d0.outcome = "included" /\ d0.reward = weighed
      OBVIOUS
    <3> HIDE DEF d0
    <3> QED BY <2>1, <2>3, <2>4, <2>5, <3>1, <3>2
  <2>6. CASE m.causes # {}
    <3> DEFINE d0 == [hit |-> hand, outcome |-> "reverted", reward |-> 0]
    <3>1. hand' = None /\ UNCHANGED mined /\ decided' = decided \cup {d0}
      BY <2>1, <2>6 DEF Return, Decide
    <3>2. d0.hit = hand /\ d0.outcome = "reverted"
      OBVIOUS
    <3> HIDE DEF d0
    <3> QED BY <2>1, <2>3, <2>6, <3>1, <3>2
  <2> QED BY <2>5, <2>6
<1>6. ASSUME NEW h \in pool, Execute(h) PROVE PaidInv' /\ ReportMatchesContract'
  <2> DEFINE m == [hit |-> h, block |-> Open, difficulty |-> difficulty,
                   causes |-> Closed \cup Unproved(h.nonce), paid |-> Pay]
  <2>1. mined' = mined \cup {m} /\ UNCHANGED <<hand, weighed, decided>>
    BY <1>6 DEF Execute
  <2>2. m.hit = h /\ m.paid = Pay
    OBVIOUS
  <2> HIDE DEF m
  <2>3. \A d \in decided : d.hit = h => d.outcome = "dropped"
    BY DEF OnceInv, PoolOnce
  <2>4. hand # None => Pay =< weighed
    <3>1. Pay \in Nat /\ Pay =< Reward(totalMints) /\ Reward(totalMints) \in Nat
      BY <1>0, PayBounds, ContractIsTyped, RewardFalls
    <3>2. weighed \in Nat
      BY <1>0 DEF MinerTyped
    <3> QED BY <3>1, <3>2 DEF RewardInv
  <2> QED BY <2>1, <2>2, <2>3, <2>4
<1>7. CASE Quiet \/ \E n \in Nonces : Find(n)
  BY <1>1, <1>7 DEF Quiet, QuietVars, Find
<1>8. CASE GiveUp
  BY <1>4, <1>8 DEF GiveUp
<1>9. ASSUME NEW cost \in Costs, NEW head \in 0..block, Reject(cost, head)
      PROVE  PaidInv' /\ ReportMatchesContract'
  BY <1>4, <1>9 DEF Reject
<1> QED BY <1>2, <1>3, <1>5, <1>6, <1>7, <1>8, <1>9, StepKinds

\* What submit() answers is what the contract did, although the reward it reports
\* is the one the cache held when it began.
THEOREM ReportsMatchContract == Spec => []ReportMatchesContract
<1>1. Init => PaidInv /\ ReportMatchesContract
  BY DEF Init, PaidInv, ReportMatchesContract
<1>2. Typed /\ OnceInv /\ RewardInv /\ PaidInv /\ ReportMatchesContract /\ [Next]_vars
      => PaidInv' /\ ReportMatchesContract'
  BY NextReport
<1> QED BY <1>1, <1>2, InitTyped, NextTyped, InitOnce, NextOnce, InitReward, NextReward,
           PTL DEF Spec

----------------------------------------------------------------------------
(* The EV gate.                                                            *)

LEMMA RoomIs ==
  ASSUME NEW mints \in Nat
  PROVE  /\ Room(mints) \in Nat /\ Room(mints) =< EvMintsPerBlock
         /\ mints < EvMintsPerBlock <=> Room(mints) > 0
         /\ \A more \in Nat : mints =< more => Room(more) =< Room(mints)
BY GateSizes DEF Room

\* Products of larger factors are larger.
LEMMA ProductsGrow ==
  ASSUME NEW a \in Nat, NEW b \in Nat, NEW c \in Nat, NEW d \in Nat, a =< b, c =< d
  PROVE  a * c \in Nat /\ b * d \in Nat /\ a * c =< b * d
<1>1. a * c =< a * d /\ d * a =< d * b
  BY ProductGrows
<1>2. d * a = a * d /\ d * b = b * d
  OBVIOUS
<1>3. a * c \in Nat /\ a * d \in Nat /\ b * d \in Nat
  OBVIOUS
<1> QED BY <1>1, <1>2, <1>3

\* EvGate::allow() as a comparison of two products.
LEMMA AllowCompares ==
  ASSUME NEW mints \in Nat, NEW reward \in Nat, NEW cost \in Nat
  PROVE  Allow(mints, reward, cost) <=>
           /\ Room(mints) > 0
           /\ cost = 0 \/ (reward * RatioDen) * Room(mints) > (RatioNum * cost) * EvMintsPerBlock
<1> DEFINE room == Room(mints)
<1>1. room \in Nat /\ (mints < EvMintsPerBlock <=> room > 0)
  BY RoomIs
<1>2. Allow(mints, reward, cost) <=>
        mints < EvMintsPerBlock /\ (cost = 0 \/ reward * room * RatioDen > RatioNum * cost * EvMintsPerBlock)
  BY DEF Allow
<1> HIDE DEF room
<1>3. reward * room * RatioDen = (reward * RatioDen) * room
  BY <1>1, GateSizes
<1> QED BY <1>1, <1>2, <1>3 DEF room

\* EvGate::allow() never turns down what it would have let through on worse terms:
\* in a block with more mints, for a smaller reward or at a higher cost; whatever the
\* ratio, also one that is not positive.
THEOREM GateIsMonotone ==
  ASSUME NEW mints \in Nat, NEW reward \in Nat, NEW cost \in Nat,
         NEW fewer \in 0..mints, NEW cheaper \in 0..cost, NEW better \in Nat, better >= reward,
         Allow(mints, reward, cost)
  PROVE  Allow(fewer, better, cheaper)
<1> DEFINE room == Room(mints)
           wide == Room(fewer)
           a == reward * RatioDen
           c == better * RatioDen
           b == RatioNum * cost
           d == RatioNum * cheaper
<1>1. /\ room \in Nat /\ wide \in Nat /\ room =< wide /\ EvMintsPerBlock \in Nat
      /\ fewer \in Nat /\ cheaper \in Nat
  BY RoomIs, GateSizes
<1>2. a \in Nat /\ c \in Nat /\ a =< c
  BY ProductsGrow, GateSizes
<1>3. \/ b \in Nat /\ d \in Nat /\ d =< b
      \/ cheaper = 0
      \/ d \in Int /\ d < 0
  <2>1. CASE RatioNum \in Nat
    BY <1>1, <2>1, ProductsGrow, GateSizes
  <2>2. CASE RatioNum \notin Nat
    <3>1. -RatioNum \in Nat /\ -RatioNum >= 1
      BY <2>2, GateSizes
    <3>2. ASSUME cheaper # 0 PROVE d \in Int /\ d < 0
      <4>1. 1 * 1 =< (-RatioNum) * cheaper
        BY <1>1, <3>1, <3>2, ProductsGrow
      <4>2. (-RatioNum) * cheaper = -d /\ d \in Int
        BY <1>1, GateSizes
      <4> QED BY <4>1, <4>2
    <3> QED BY <3>2
  <2> QED BY <2>1, <2>2
<1>4. room > 0 /\ (cost = 0 \/ a * room > b * EvMintsPerBlock)
  BY AllowCompares
<1>5. (wide > 0 /\ (cheaper = 0 \/ c * wide > d * EvMintsPerBlock)) => Allow(fewer, better, cheaper)
  BY <1>1, AllowCompares
<1> HIDE DEF room, wide, a, b, c, d
<1>6. ASSUME a * room > b * EvMintsPerBlock, cheaper # 0
      PROVE  c * wide > d * EvMintsPerBlock
  <2>1. a * room =< c * wide /\ a * room \in Nat /\ c * wide \in Nat
    BY <1>1, <1>2, ProductsGrow
  <2>2. CASE b \in Nat /\ d \in Nat /\ d =< b
    <3>1. d * EvMintsPerBlock =< b * EvMintsPerBlock
          /\ d * EvMintsPerBlock \in Nat /\ b * EvMintsPerBlock \in Nat
      BY <1>1, <2>2, ProductsGrow
    <3> QED BY <1>6, <2>1, <3>1
  <2>3. CASE d \in Int /\ d < 0
    <3>1. 1 * 1 =< (-d) * EvMintsPerBlock
      BY <1>1, <2>3, GateSizes, ProductsGrow
    <3>2. (-d) * EvMintsPerBlock = -(d * EvMintsPerBlock) /\ d * EvMintsPerBlock \in Int
      BY <1>1, <2>3
    <3> QED BY <2>1, <3>1, <3>2
  <2> QED BY <1>3, <1>6, <2>2, <2>3
<1>7. cost = 0 => cheaper = 0
  OBVIOUS
<1> QED BY <1>1, <1>4, <1>5, <1>6, <1>7

----------------------------------------------------------------------------
(* Every hit is answered, in order and once.                               *)

Keys == Nonces \X Nat
KeysOf(s) == [i \in 1..Len(s) |-> Key(s[i])]

LEMMA KeyTyped == \A h \in Hits : Key(h) \in Keys
BY DEF Key, Keys, Hits

LEMMA SameSequence ==
  ASSUME NEW S, NEW s \in Seq(S), NEW t \in Seq(S),
         Len(s) = Len(t), \A i \in 1..Len(s) : s[i] = t[i]
  PROVE  s = t
OBVIOUS

LEMMA PutInFront ==
  ASSUME NEW S, NEW x \in S, NEW t \in Seq(S)
  PROVE  LET u == <<x>> \o t
         IN  /\ u \in Seq(S) /\ Len(u) = Len(t) + 1 /\ u # <<>>
             /\ u[1] = x /\ \A i \in 1..Len(t) : u[i + 1] = t[i]
             /\ Head(u) = x /\ Tail(u) = t
<1> DEFINE u == <<x>> \o t
<1>1. /\ u \in Seq(S) /\ Len(u) = Len(t) + 1 /\ u # <<>>
      /\ u[1] = x /\ \A i \in 1..Len(t) : u[i + 1] = t[i]
  OBVIOUS
<1> HIDE DEF u
<1>2. /\ Head(u) = x /\ Tail(u) \in Seq(S) /\ Len(Tail(u)) = Len(t)
      /\ \A i \in 1..Len(t) : Tail(u)[i] = u[i + 1]
  BY <1>1
<1>3. Tail(u) = t
  BY <1>1, <1>2, SameSequence
<1> QED BY <1>1, <1>2, <1>3 DEF u

\* The keys of a sequence of hits are a sequence as long; one more hit at its end
\* is one more key at its end, and the first hit has the first key.
LEMMA KeysOfTyped ==
  ASSUME NEW s \in Seq(Hits)
  PROVE  /\ KeysOf(s) \in Seq(Keys) /\ Len(KeysOf(s)) = Len(s)
         /\ \A i \in 1..Len(s) : KeysOf(s)[i] = Key(s[i])
<1>1. \A i \in 1..Len(s) : Key(s[i]) \in Keys
  BY KeyTyped
<1> QED BY <1>1 DEF KeysOf

LEMMA KeysOfAppend ==
  ASSUME NEW s \in Seq(Hits), NEW h \in Hits
  PROVE  KeysOf(Append(s, h)) = Append(KeysOf(s), Key(h))
<1> DEFINE t == Append(s, h)
           a == KeysOf(t)
           b == Append(KeysOf(s), Key(h))
<1>1. t \in Seq(Hits) /\ Len(t) = Len(s) + 1
      /\ \A i \in 1..Len(t) : t[i] = IF i = Len(t) THEN h ELSE s[i]
  OBVIOUS
<1> HIDE DEF t
<1>2. a \in Seq(Keys) /\ Len(a) = Len(t) /\ \A i \in 1..Len(t) : a[i] = Key(t[i])
  BY <1>1, KeysOfTyped
<1>3. /\ b \in Seq(Keys) /\ Len(b) = Len(s) + 1
      /\ \A i \in 1..Len(s) + 1 : b[i] = IF i = Len(s) + 1 THEN Key(h) ELSE Key(s[i])
  BY KeysOfTyped, KeyTyped
<1> HIDE DEF a, b
<1>4. \A i \in 1..Len(a) : a[i] = b[i]
  BY <1>1, <1>2, <1>3
<1>5. a = b
  BY <1>1, <1>2, <1>3, <1>4, SameSequence
<1> QED BY <1>5 DEF a, b, t

LEMMA KeysOfTail ==
  ASSUME NEW s \in Seq(Hits), s # <<>>
  PROVE  /\ KeysOf(s) # <<>> /\ Head(KeysOf(s)) = Key(Head(s))
         /\ Tail(KeysOf(s)) = KeysOf(Tail(s))
         /\ <<Key(Head(s))>> \o KeysOf(Tail(s)) = KeysOf(s)
<1> DEFINE r == Tail(s)
           k == KeysOf(s)
           t == KeysOf(r)
<1>1. /\ r \in Seq(Hits) /\ Len(r) = Len(s) - 1 /\ Len(s) \in Nat /\ Len(s) > 0
      /\ \A i \in 1..Len(r) : r[i] = s[i + 1]
      /\ Head(s) = s[1] /\ s[1] \in Hits
  OBVIOUS
<1>2. /\ k \in Seq(Keys) /\ Len(k) = Len(s) /\ \A i \in 1..Len(s) : k[i] = Key(s[i])
  BY KeysOfTyped
<1> HIDE DEF r
<1>3. t \in Seq(Keys) /\ Len(t) = Len(r) /\ \A i \in 1..Len(r) : t[i] = Key(s[i + 1])
  BY <1>1, KeysOfTyped
<1> HIDE DEF k, t
<1>4. <<Key(Head(s))>> \o t = k
  <2> DEFINE u == <<Key(Head(s))>> \o t
  <2>1. Key(Head(s)) \in Keys
    BY <1>1, KeyTyped
  <2>2. /\ u \in Seq(Keys) /\ Len(u) = Len(t) + 1 /\ u[1] = Key(Head(s))
        /\ \A i \in 1..Len(t) : u[i + 1] = t[i]
    BY <1>3, <2>1, PutInFront
  <2> HIDE DEF u
  <2>3. ASSUME NEW i \in 1..Len(u) PROVE u[i] = k[i]
    <3>1. CASE i = 1
      BY <1>1, <1>2, <2>2, <3>1
    <3>2. CASE i # 1
      <4>1. i - 1 \in 1..Len(t) /\ (i - 1) + 1 = i
        BY <1>1, <1>3, <2>2, <3>2
      <4>2. u[i] = t[i - 1] /\ t[i - 1] = Key(s[i])
        BY <1>3, <2>2, <4>1
      <4> QED BY <1>1, <1>2, <1>3, <2>2, <4>2
    <3> QED BY <3>1, <3>2
  <2>4. u = k
    BY <1>1, <1>2, <1>3, <2>2, <2>3, SameSequence
  <2> QED BY <2>4 DEF u
<1>5. k # <<>> /\ Head(k) = Key(Head(s)) /\ Tail(k) = t
  <2>1. Key(Head(s)) \in Keys
    BY <1>1, KeyTyped
  <2> QED BY <1>3, <1>4, <2>1, PutInFront
<1> QED BY <1>4, <1>5 DEF r, k, t

\* What is unanswered: the consumer's hit, and those that wait in the channel.
QueueOf(g, s) == (IF g = None THEN <<>> ELSE <<Key(g)>>) \o KeysOf(s)
KeyOf(g) == {Key(h) : h \in {g} \ {None}}

LEMMA UnansweredIs ==
  /\ Unanswered = QueueOf(hand, hits) /\ Unanswered' = QueueOf(hand', hits')
  /\ Submitting = KeyOf(hand) /\ Submitting' = KeyOf(hand')
BY DEF Unanswered, Submitting, QueueOf, KeyOf, KeysOf

LEMMA IdleQueue ==
  ASSUME NEW s \in Seq(Hits)
  PROVE  QueueOf(None, s) = KeysOf(s) /\ KeyOf(None) = {}
<1>1. KeysOf(s) \in Seq(Keys)
  BY KeysOfTyped
<1>2. <<>> \o KeysOf(s) = KeysOf(s)
  BY <1>1
<1> QED BY <1>2 DEF QueueOf, KeyOf

LEMMA BusyQueue ==
  ASSUME NEW s \in Seq(Hits), NEW g \in Hits
  PROVE  /\ QueueOf(g, s) = <<Key(g)>> \o KeysOf(s) /\ KeyOf(g) = {Key(g)}
         /\ QueueOf(g, s) # <<>> /\ Head(QueueOf(g, s)) = Key(g)
         /\ Tail(QueueOf(g, s)) = KeysOf(s)
<1> DEFINE k == Key(g)
           t == KeysOf(s)
           u == <<k>> \o t
<1>1. g # None
  BY NoneIsNoHit
<1>2. k \in Keys /\ t \in Seq(Keys)
  BY KeyTyped, KeysOfTyped
<1>3. QueueOf(g, s) = u /\ KeyOf(g) = {k}
  BY <1>1 DEF QueueOf, KeyOf
<1> HIDE DEF k, t
<1>4. u # <<>> /\ Head(u) = k /\ Tail(u) = t
  BY <1>2, PutInFront
<1> QED BY <1>3, <1>4 DEF k, t

LEMMA FindArrives ==
  ASSUME Typed, EpochInv, OnceInv, NEW n \in Nonces, Find(n)
  PROVE  \E c \in Nonces \X (0..EpochOf(MaxBlock)) : Answers!Arrive(c)
<1> DEFINE h == HitOf(n)
           c == Key(h)
<1>0. ContractTyped /\ MinerTyped
  BY TypedParts
<1>1. /\ c \notin swept /\ hits' = Append(hits, h) /\ UNCHANGED <<hand, decided>>
      /\ device # None
  BY DEF Find, Key, HitOf
<1>2. h \in Hits /\ hits \in Seq(Hits) /\ c = <<n, device.epoch>>
  <2>1. device \in Orders
    BY <1>0, <1>1 DEF MinerTyped
  <2>2. HitOf(n) \in Hits /\ Key(HitOf(n)) = <<n, device.epoch>>
    BY <2>1 DEF HitOf, Hits, Orders, Key
  <2> QED BY <1>0, <2>2 DEF MinerTyped
<1>3. device.epoch \in 0..EpochOf(MaxBlock)
  <2>1. device.epoch \in Nat /\ cached.epoch \in Nat
    BY <1>0, <1>1 DEF MinerTyped, Orders
  <2>2. EpochOf(block) =< EpochOf(MaxBlock) /\ EpochOf(block) \in Nat /\ EpochOf(MaxBlock) \in Nat
    BY <1>0, ContractIsTyped, EpochGrows, Sizes
  <2> QED BY <1>1, <2>1, <2>2 DEF EpochInv
<1> HIDE DEF h, c
<1>4. c \in Nonces \X (0..EpochOf(MaxBlock))
  BY <1>2, <1>3
<1>5. Key(h) = c
  BY DEF c
<1>6. c \notin Answered
  BY <1>1 DEF Answered, OnceInv, DecidedOnce
<1>7. \A i \in 1..Len(hits) : KeysOf(hits)[i] # c
  <2>1. \A i \in 1..Len(hits) : KeysOf(hits)[i] = Key(hits[i])
    BY <1>2, KeysOfTyped
  <2>2. \A i \in 1..Len(hits) : Key(hits[i]) \in swept
    BY DEF OnceInv, QueueOnce
  <2> QED BY <1>1, <2>1, <2>2
<1>8. KeysOf(hits') = Append(KeysOf(hits), c)
  BY <1>1, <1>2, <1>5, KeysOfAppend
<1>9. Answered' = Answered
  BY <1>1 DEF Answered
<1>10. KeysOf(hits) \in Seq(Keys) /\ Len(KeysOf(hits)) = Len(hits) /\ c \in Keys
  BY <1>2, <1>5, KeysOfTyped, KeyTyped
<1>11. hits' \in Seq(Hits)
  BY <1>1, <1>2
<1>12. CASE hand = None
  <2>1. /\ Unanswered = KeysOf(hits) /\ Submitting = {}
        /\ Unanswered' = KeysOf(hits') /\ Submitting' = {}
    BY <1>1, <1>2, <1>11, <1>12, UnansweredIs, IdleQueue
  <2>2. \A i \in 1..Len(Unanswered) : Unanswered[i] # c
    BY <1>7, <1>10, <2>1
  <2> QED BY <1>4, <1>6, <1>8, <1>9, <2>1, <2>2 DEF Answers!Arrive
<1>13. CASE hand # None
  <2> DEFINE k == Key(hand)
             t == KeysOf(hits)
  <2>0. hand \in Hits
    BY <1>0, <1>13 DEF MinerTyped
  <2>1. /\ Unanswered = <<k>> \o t /\ Submitting = {k}
        /\ Unanswered' = <<k>> \o KeysOf(hits') /\ Submitting' = {k}
    BY <1>1, <1>2, <1>11, <2>0, UnansweredIs, BusyQueue
  <2>2. k \in Keys /\ k # c
    BY <1>1, <1>13, <2>0, KeyTyped DEF OnceInv, HandOnce
  <2> HIDE DEF k, t
  <2>3. t \in Seq(Keys) /\ Len(t) = Len(hits) /\ \A i \in 1..Len(t) : t[i] # c
    BY <1>7, <1>10 DEF t
  <2>4. \A i \in 1..Len(<<k>> \o t) : (<<k>> \o t)[i] # c
    BY <2>2, <2>3
  <2>5. <<k>> \o Append(t, c) = Append(<<k>> \o t, c)
    BY <1>10, <2>2, <2>3
  <2>6. KeysOf(hits') = Append(t, c)
    BY <1>8 DEF t
  <2> QED BY <1>4, <1>6, <1>9, <2>1, <2>4, <2>5, <2>6 DEF Answers!Arrive
<1> QED BY <1>12, <1>13

\* A hit the consumer takes is served, or turned away as stale.
LEMMA TakeServes ==
  ASSUME MinerTyped, Take
  PROVE  Answers!Serve \/ Answers!End
<1> DEFINE h == Head(hits)
           d0 == [hit |-> h, outcome |-> "stale", reward |-> 0]
<1>1. /\ hand = None /\ hits # <<>> /\ hits' = Tail(hits) /\ hits \in Seq(Hits) /\ h \in Hits
      /\ \/ hand' = h /\ UNCHANGED decided
         \/ UNCHANGED hand /\ decided' = decided \cup {d0}
  BY DEF Take, Decide, MinerTyped
<1>2. d0.hit = h /\ h # None
  BY <1>1, NoneIsNoHit
<1>3. /\ KeysOf(hits) # <<>> /\ Head(KeysOf(hits)) = Key(h)
      /\ Tail(KeysOf(hits)) = KeysOf(hits') /\ <<Key(h)>> \o KeysOf(hits') = KeysOf(hits)
  BY <1>1, KeysOfTail
<1>4. Unanswered = KeysOf(hits) /\ Submitting = {} /\ hits' \in Seq(Hits)
  BY <1>1, UnansweredIs, IdleQueue
<1> HIDE DEF h, d0
<1>5. CASE hand' = h /\ UNCHANGED decided
  <2>1. Unanswered' = <<Key(hand')>> \o KeysOf(hits') /\ Submitting' = {Key(hand')}
    BY <1>1, <1>4, <1>5, UnansweredIs, BusyQueue
  <2>2. Unanswered' = Unanswered /\ Submitting' = {Head(Unanswered)}
    BY <1>3, <1>4, <1>5, <2>1
  <2>3. Answered' = Answered
    BY <1>5 DEF Answered
  <2> QED BY <1>3, <1>4, <2>2, <2>3 DEF Answers!Serve
<1>6. CASE UNCHANGED hand /\ decided' = decided \cup {d0}
  <2>1. Unanswered' = KeysOf(hits') /\ Submitting' = {}
    BY <1>1, <1>4, <1>6, UnansweredIs, IdleQueue
  <2>2. Answered' = Answered \cup {Key(h)}
    BY <1>2, <1>6 DEF Answered
  <2> QED BY <1>3, <1>4, <2>1, <2>2 DEF Answers!End
<1> QED BY <1>1, <1>5, <1>6

LEMMA ReturnAnswers ==
  ASSUME MinerTyped, hand # None, NEW o, NEW r, Return(o, r)
  PROVE  Answers!End
<1> DEFINE d0 == [hit |-> hand, outcome |-> o, reward |-> r]
<1>1. hand' = None /\ UNCHANGED hits /\ decided' = decided \cup {d0}
  BY DEF Return, Decide
<1>2. d0.hit = hand
  OBVIOUS
<1> HIDE DEF d0
<1>0. hand \in Hits /\ hits \in Seq(Hits)
  BY DEF MinerTyped
<1>3. /\ Unanswered # <<>> /\ Head(Unanswered) = Key(hand)
      /\ Tail(Unanswered) = KeysOf(hits) /\ Submitting = {Key(hand)}
  BY <1>0, UnansweredIs, BusyQueue
<1>4. Unanswered' = KeysOf(hits') /\ Submitting' = {}
  BY <1>0, <1>1, UnansweredIs, IdleQueue
<1>5. KeysOf(hits') = KeysOf(hits)
  BY <1>1
<1>6. Answered' = Answered \cup {Key(hand)}
  BY <1>1, <1>2 DEF Answered
<1> QED BY <1>3, <1>4, <1>5, <1>6 DEF Answers!End

LEMMA StepAnswers ==
  ASSUME Typed, EpochInv, OnceInv, [Next]_vars
  PROVE  Answers!Next \/ UNCHANGED <<Unanswered, Submitting, Answered>>
<1>0. MinerTyped
  BY TypedParts
<1>1. CASE UNCHANGED <<hits, hand, decided>>
  BY <1>1 DEF Unanswered, Submitting, Answered
<1>2. ASSUME NEW n \in Nonces, Find(n) PROVE Answers!Next
  BY <1>2, FindArrives DEF Answers!Next
<1>3. CASE Take
  BY <1>0, <1>3, TakeServes DEF Answers!Next
<1>4. ASSUME NEW o, NEW r, Return(o, r), hand # None PROVE Answers!Next
  BY <1>0, <1>4, ReturnAnswers DEF Answers!Next
<1>5. CASE Receipt
  BY <1>4, <1>5 DEF Receipt
<1>6. CASE GiveUp
  BY <1>4, <1>6 DEF GiveUp
<1>7. ASSUME NEW cost \in Costs, NEW head \in 0..block, Reject(cost, head) PROVE Answers!Next
  BY <1>4, <1>7 DEF Reject
<1>8. ASSUME Quiet \/ (\E cost \in Costs, head \in 0..block : Weigh(cost, head))
             \/ \E h \in pool : Execute(h)
      PROVE  UNCHANGED <<hits, hand, decided>>
  BY <1>8 DEF Quiet, QuietVars, Weigh, Execute
<1> QED BY <1>1, <1>2, <1>3, <1>5, <1>6, <1>7, <1>8, StepKinds

\* The hits are answered one at a time, in the order in which the launches found
\* them, and each once: channel, consumer and submit() lose none and try none
\* again.
THEOREM HitsAreAnsweredInOrder == Spec => AnswersSpec
<1>1. Init => Answers!Init
  BY DEF Init, Answers!Init, Unanswered, Submitting, Answered
<1>2. Typed /\ EpochInv /\ OnceInv /\ [Next]_vars
      => [Answers!Next]_<<Unanswered, Submitting, Answered>>
  BY StepAnswers
<1> QED BY <1>1, <1>2, InitTyped, NextTyped, InitEpoch, NextEpoch, InitOnce, NextOnce, PTL
    DEF Spec, AnswersSpec, Answers!Spec

=============================================================================
