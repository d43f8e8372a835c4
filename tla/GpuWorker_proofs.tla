-------------------------- MODULE GpuWorker_proofs --------------------------
(***************************************************************************)
(* Proofs about GpuWorker, for any sizes of nonce space, batch and channel *)
(* and any number of hot swaps: types, that every hit carries the epoch    *)
(* and the orders it was found for, and what launches try of their region. *)
(***************************************************************************)
EXTENDS GpuWorker, WrapArithmetic, TLAPS

USE NoneAssumption, SizesAssumption

----------------------------------------------------------------------------
(* Nonces.                                                                 *)

LEMMA WrapIsNonce == \A n \in Nat : n % NonceSpace \in 0..(NonceSpace - 1)
OBVIOUS

LEMMA RandomIsNonce == RandomStart \subseteq 0..(NonceSpace - 1)
BY DEF RandomStart

LEMMA Sizes ==
  /\ NonceSpace \in Nat \ {0} /\ BatchSize \in Nat \ {0} /\ BlockSize \in Nat \ {0}
  /\ GridWord \in Nat \ {0} /\ MaxLaunches \in Nat /\ BatchSize =< NonceSpace
OBVIOUS

\* The grid covers no more than the batch, and the blocks that fit into it if their
\* number fits a u32.
LEMMA ThreadsCover ==
  /\ Threads \subseteq 0..(BatchSize - 1)
  /\ BatchSize \div BlockSize < GridWord =>
       \A i \in 0..(BatchSize - (BatchSize % BlockSize) - 1) : i \in Threads
<1> HIDE NoneAssumption, SizesAssumption
<1> DEFINE d == BatchSize \div BlockSize
           r == BatchSize % BlockSize
           c == d % GridWord
<1>1. /\ d \in Nat /\ r \in 0..(BlockSize - 1) /\ BatchSize = BlockSize * d + r
      /\ BlockSize \in Nat /\ BatchSize \in Nat
  BY Sizes
<1>2. Threads = 0..(c * BlockSize - 1)
  BY DEF Threads, GridCount
<1> HIDE DEF d, r
<1>3. c \in Nat /\ c =< d
  BY <1>1, Sizes
<1>4. d < GridWord => c = d
  BY <1>1, Sizes
<1> HIDE DEF c
<1>5. c * BlockSize \in Nat /\ c * BlockSize =< BatchSize
  <2>1. BlockSize * c =< BlockSize * d
    BY <1>1, <1>3
  <2>2. c * BlockSize = BlockSize * c /\ BlockSize * c \in Nat /\ BlockSize * d \in Nat
    BY <1>1, <1>3
  <2> QED BY <1>1, <2>1, <2>2
<1>6. d < GridWord => BatchSize - r = c * BlockSize
  <2>1. c * BlockSize = BlockSize * c /\ BlockSize * c \in Int /\ BlockSize * d \in Int
    BY <1>1, <1>3
  <2> QED BY <1>1, <1>4, <2>1
<1>7. Threads \subseteq 0..(BatchSize - 1)
  BY <1>1, <1>2, <1>5
<1>8. d < GridWord => \A i \in 0..(BatchSize - r - 1) : i \in Threads
  BY <1>2, <1>6
<1> QED BY <1>7, <1>8 DEF d, r

LEMMA ThreadsAreNat == Threads \subseteq Nat
BY ThreadsCover

\* What a launch adds to the history.
LEMMA LaunchNotes ==
  ASSUME Launch
  PROVE  \/ ~(launches < MaxLaunches) /\ UNCHANGED <<launches, found, tried, repeated>>
         \/ /\ launches < MaxLaunches
            /\ \E S \in SUBSET Threads :
                 /\ Note(S)
                 /\ found' = found \cup {launches} \/ (S = Threads /\ found' = found)
<1>1. ASSUME launches < MaxLaunches, Note(Threads), UNCHANGED found
      PROVE  \E S \in SUBSET Threads :
               /\ Note(S)
               /\ found' = found \cup {launches} \/ (S = Threads /\ found' = found)
  BY <1>1
<1> QED BY <1>1 DEF Launch

----------------------------------------------------------------------------
(* The inductive invariant.                                                *)

\* hot_swap() was called with o.
Ordered(o) == \E i \in 1..Len(orders) : orders[i] = o

\* A hit that is right: its epoch is the one of the challenge it solves, and that
\* challenge and its target came from one call.
Matches(h) == h.epoch = h.challenge /\ Ordered(Order(h.challenge, h.target))

\* Where orders are on their way to the device, and what the device holds once
\* they have arrived.
DeviceInv ==
  /\ pending # None => Ordered(pending)
  /\ pc \in {"challenge", "target"} => taken \in Orders /\ Ordered(taken)
  /\ pc = "target" => device.challenge = taken.epoch
  /\ pc \in {"top", "ready", "send"} =>
       /\ device.challenge = current
       /\ current # None =>
            device.target \in Targets /\ Ordered(Order(current, device.target))
  /\ pc = "send" => current # None

HitsInv ==
  /\ \A i \in 1..Len(hits) : Matches(hits[i])
  /\ receiving # None => Matches(receiving)

GInv == TypeOK /\ DeviceInv /\ HitsInv

\* What was ordered stays ordered.
LEMMA OrderedStays ==
  ASSUME TypeOK, NEW o \in Orders, orders' = Append(orders, o)
  PROVE  /\ orders' \in Seq(Orders) /\ Ordered(o)'
         /\ \A q : Ordered(q) => Ordered(q)'
<1>1. /\ orders \in Seq(Orders) /\ orders' \in Seq(Orders)
      /\ Len(orders') = Len(orders) + 1 /\ Len(orders) \in Nat
      /\ orders'[Len(orders) + 1] = o
      /\ \A i \in 1..Len(orders) : orders'[i] = orders[i]
  BY DEF TypeOK
<1> QED BY <1>1 DEF Ordered

LEMMA OrderOfFields == \A o \in Orders : Order(o.epoch, o.target) = o
BY DEF Orders, Order

----------------------------------------------------------------------------
(* Each action keeps it.                                                   *)

LEMMA LoopKeepsGInv ==
  ASSUME GInv, Top \/ CopyChallenge \/ CopyTarget \/ Idle \/ Fault
  PROVE  GInv'
<1> USE DEF GInv, loopVars, history
<1>1. CASE Top
  <2>1. TypeOK'
    BY <1>1 DEF Top, TypeOK
  <2>2. DeviceInv' /\ HitsInv'
    BY <1>1 DEF Top, TypeOK, DeviceInv, HitsInv, Matches, Ordered
  <2> QED BY <2>1, <2>2
<1>2. CASE CopyChallenge
  <2>1. taken \in Orders /\ taken.epoch \in Epochs
    BY <1>2 DEF CopyChallenge, DeviceInv, Orders
  <2>2. TypeOK'
    BY <1>2, <2>1 DEF CopyChallenge, TypeOK
  <2>3. DeviceInv' /\ HitsInv'
    BY <1>2, <2>1 DEF CopyChallenge, TypeOK, DeviceInv, HitsInv, Matches, Ordered
  <2> QED BY <2>2, <2>3
<1>3. CASE CopyTarget
  <2>1. taken \in Orders /\ taken.epoch \in Epochs /\ taken.target \in Targets
    BY <1>3 DEF CopyTarget, DeviceInv, Orders
  <2>2. /\ device' \in [challenge : Epochs \cup {None}, target : Targets \cup {None}]
        /\ device'.challenge = taken.epoch /\ device'.target = taken.target
    BY <1>3, <2>1 DEF CopyTarget, DeviceInv, TypeOK
  <2>3. /\ start' \in 0..(NonceSpace - 1) /\ first' \in RandomStart
        /\ launches' \in 0..MaxLaunches
    BY <1>3, RandomIsNonce DEF CopyTarget
  <2>4. TypeOK'
    BY <1>3, <2>1, <2>2, <2>3 DEF CopyTarget, TypeOK
  <2>5. DeviceInv' /\ HitsInv'
    BY <1>3, <2>1, <2>2, OrderOfFields
       DEF CopyTarget, DeviceInv, HitsInv, Matches, Ordered
  <2> QED BY <2>4, <2>5
<1>4. CASE Idle
  BY <1>4 DEF Idle, TypeOK, DeviceInv, HitsInv, Matches, Ordered
<1>5. CASE Fault
  BY <1>5 DEF Fault, TypeOK, DeviceInv, HitsInv, Matches, Ordered
<1> QED BY <1>1, <1>2, <1>3, <1>4, <1>5

LEMMA LaunchKeepsGInv == ASSUME GInv, Launch PROVE GInv'
<1> USE DEF GInv
<1>1. start \in Nat /\ BatchSize \in Nat
  BY DEF TypeOK
<1>2. start' \in 0..(NonceSpace - 1)
  <2>1. start + BatchSize \in Nat
    BY <1>1
  <2> QED BY <2>1, WrapIsNonce DEF Launch, NextStart
<1>3. /\ launches' \in 0..MaxLaunches /\ found' \subseteq 0..(MaxLaunches - 1)
      /\ tried' \subseteq 0..(NonceSpace - 1) /\ repeated' \in BOOLEAN
  <2>1. /\ launches \in 0..MaxLaunches /\ found \subseteq 0..(MaxLaunches - 1)
        /\ tried \subseteq 0..(NonceSpace - 1) /\ repeated \in BOOLEAN
    BY DEF TypeOK
  <2>2. CASE UNCHANGED <<launches, found, tried, repeated>>
    BY <2>1, <2>2
  <2>3. ASSUME launches < MaxLaunches, NEW S \in SUBSET Threads, Note(S),
               found' = found \cup {launches} \/ (S = Threads /\ found' = found)
        PROVE  /\ launches' \in 0..MaxLaunches /\ found' \subseteq 0..(MaxLaunches - 1)
               /\ tried' \subseteq 0..(NonceSpace - 1) /\ repeated' \in BOOLEAN
    <3>1. \A gid \in S : (start + gid) % NonceSpace \in 0..(NonceSpace - 1)
      BY <1>1, ThreadsAreNat, WrapIsNonce
    <3>2. tried' \subseteq 0..(NonceSpace - 1) /\ repeated' \in BOOLEAN
      BY <2>1, <2>3, <3>1 DEF Note
    <3>3. launches' \in 0..MaxLaunches /\ launches \in 0..(MaxLaunches - 1)
      BY <2>1, <2>3 DEF Note
    <3> QED BY <2>1, <2>3, <3>2, <3>3
  <2> QED BY <2>2, <2>3, LaunchNotes
<1>5. TypeOK'
  BY <1>2, <1>3 DEF Launch, TypeOK
<1>6. DeviceInv' /\ HitsInv'
  BY DEF Launch, DeviceInv, HitsInv, Matches, Ordered
<1> QED BY <1>5, <1>6

LEMMA SendKeepsGInv == ASSUME GInv, Send PROVE GInv'
<1> USE DEF GInv, loopVars, history
<1>1. CASE pc' = "top" /\ Len(hits) < Capacity /\ hits' = Append(hits, HitOf(Tag, device))
  <2> DEFINE h == HitOf(Tag, device)
  <2>1. /\ current \in Epochs /\ device.challenge = current
        /\ device.target \in Targets /\ Ordered(Order(current, device.target))
    BY DEF Send, DeviceInv, TypeOK
  <2>2. h \in Hits /\ Matches(h)
    BY <2>1 DEF HitOf, Tag, Hits, Matches
  <2> HIDE DEF h
  <2>3. /\ hits' \in Seq(Hits) /\ Len(hits') = Len(hits) + 1 /\ Len(hits') =< Capacity
        /\ hits'[Len(hits) + 1] = h /\ Len(hits) \in Nat
        /\ \A i \in 1..Len(hits) : hits'[i] = hits[i]
    <3>1. hits \in Seq(Hits) /\ hits' = Append(hits, h)
      BY <1>1 DEF TypeOK, h
    <3> QED BY <1>1, <2>2, <3>1
  <2>4. UNCHANGED <<pending, loopVars, receiving, shutdown, main, orders>>
    BY DEF Send
  <2>5. TypeOK'
    BY <1>1, <2>3, <2>4 DEF TypeOK
  <2>6. \A i \in 1..Len(hits') : hits'[i] = h \/ (i \in 1..Len(hits) /\ hits'[i] = hits[i])
    BY <2>3
  <2>7. HitsInv'
    BY <2>2, <2>4, <2>6 DEF HitsInv, Matches, Ordered
  <2>8. DeviceInv'
    BY <1>1, <2>4 DEF Send, DeviceInv, Ordered
  <2> QED BY <2>5, <2>7, <2>8
<1>2. CASE pc' = "ended" /\ UNCHANGED hits
  BY <1>2 DEF Send, TypeOK, DeviceInv, HitsInv, Matches, Ordered
<1> QED BY <1>1, <1>2 DEF Send

LEMMA HotSwapKeepsGInv ==
  ASSUME GInv, NEW e \in Epochs, NEW t \in Targets, HotSwap(e, t)
  PROVE  GInv'
<1> USE DEF GInv, loopVars, history
<1>1. Order(e, t) \in Orders
  BY DEF Order, Orders
<1>2. /\ orders' \in Seq(Orders) /\ Ordered(Order(e, t))'
      /\ \A q : Ordered(q) => Ordered(q)'
  BY <1>1, OrderedStays DEF HotSwap
<1>3. UNCHANGED <<pc, loopVars, hits, receiving, shutdown, main>> /\ pending' = Order(e, t)
  BY DEF HotSwap
<1>4. TypeOK'
  BY <1>1, <1>2, <1>3 DEF TypeOK
<1>5. DeviceInv' /\ HitsInv'
  BY <1>2, <1>3 DEF DeviceInv, HitsInv, Matches
<1> QED BY <1>4, <1>5

LEMMA MainKeepsGInv ==
  ASSUME GInv, Receive \/ Submitted \/ Shutdown \/ Return
  PROVE  GInv'
<1> USE DEF GInv, loopVars, history
<1>1. CASE Receive
  <2>1. /\ hits \in Seq(Hits) /\ hits # <<>> /\ hits' = Tail(hits) /\ receiving' = Head(hits)
        /\ UNCHANGED <<pc, pending, loopVars, shutdown, main, orders>>
    BY <1>1 DEF Receive, TypeOK
  <2>2. /\ hits' \in Seq(Hits) /\ Len(hits) \in Nat \ {0} /\ Len(hits') = Len(hits) - 1
        /\ receiving' \in Hits /\ receiving' = hits[1]
        /\ \A i \in 1..Len(hits') : i + 1 \in 1..Len(hits) /\ hits'[i] = hits[i + 1]
    BY <2>1
  <2>3. TypeOK'
    BY <2>1, <2>2 DEF TypeOK
  <2>4. HitsInv'
    <3>1. \A w : Matches(w)' <=> Matches(w)
      BY <2>1 DEF Matches, Ordered
    <3> QED BY <2>1, <2>2, <3>1 DEF HitsInv
  <2>5. DeviceInv'
    BY <2>1 DEF DeviceInv, Ordered
  <2> QED BY <2>3, <2>4, <2>5
<1>2. CASE Submitted
  BY <1>2 DEF Submitted, TypeOK, DeviceInv, HitsInv, Matches, Ordered
<1>3. CASE Shutdown
  BY <1>3 DEF Shutdown, TypeOK, DeviceInv, HitsInv, Matches, Ordered
<1>4. CASE Return
  <2>1. <<>> \in Seq(Hits) /\ Len(<<>>) = 0
    OBVIOUS
  <2> QED BY <1>4, <2>1 DEF Return, TypeOK, DeviceInv, HitsInv, Matches, Ordered
<1> QED BY <1>1, <1>2, <1>3, <1>4

----------------------------------------------------------------------------
(* The region of nonces.                                                   *)

\* Of the batches counted so far, those without a hit were tried by all threads;
\* nothing was tried beyond them, and the next one starts where they end.
SweepInv ==
  /\ launches \in 0..MaxLaunches
  /\ tried \subseteq {(first + i) % NonceSpace : i \in 0..(launches * BatchSize - 1)}
  /\ \A n \in (0..(launches - 1)) \ found, g \in Threads :
       (first + n * BatchSize + g) % NonceSpace \in tried
  /\ launches < MaxLaunches => start = (first + launches * BatchSize) % NonceSpace
  /\ launches * BatchSize =< NonceSpace => ~repeated

LEMMA FirstIsNonce == GInv => first \in 0..(NonceSpace - 1)
BY RandomIsNonce DEF GInv, TypeOK

\* A region that has not been swept at all.
LEMMA RegionStarts ==
  ASSUME NEW f \in 0..(NonceSpace - 1)
  PROVE  (f + 0 * BatchSize) % NonceSpace = f
<1> HIDE NoneAssumption, SizesAssumption
<1>1. f \in 0..(2 * NonceSpace - 1) /\ f < NonceSpace /\ f + 0 * BatchSize = f
  BY Sizes
<1>2. f % NonceSpace = f
  BY <1>1, Sizes, WrapOnce
<1> QED BY <1>1, <1>2

LEMMA LaunchKeepsSweepInv == ASSUME GInv, SweepInv, Launch PROVE SweepInv'
<1> HIDE NoneAssumption, SizesAssumption
<1> DEFINE L == launches * BatchSize
           Tried(i) == (first + i) % NonceSpace
<1>1. /\ launches \in 0..MaxLaunches /\ L \in Nat /\ first \in 0..(NonceSpace - 1)
      /\ first \in Nat /\ BatchSize \in Nat
      /\ first' = first /\ start' = (start + BatchSize) % NonceSpace
  BY Sizes, FirstIsNonce DEF SweepInv, Launch, NextStart
<1>2. CASE ~(launches < MaxLaunches) /\ UNCHANGED <<launches, found, tried, repeated>>
  BY <1>1, <1>2 DEF SweepInv
<1>3. ASSUME launches < MaxLaunches, NEW S \in SUBSET Threads, Note(S),
             found' = found \cup {launches} \/ (S = Threads /\ found' = found)
      PROVE  SweepInv'
  <2> DEFINE now == {(start + gid) % NonceSpace : gid \in S}
  <2>1. /\ launches' = launches + 1 /\ tried' = tried \cup now
        /\ repeated' = (repeated \/ now \cap tried # {})
    BY <1>3 DEF Note
  <2>2. launches' \in 0..MaxLaunches /\ launches' * BatchSize = L + BatchSize
    BY <1>1, <1>3, <2>1, Sizes
  <2>3. start = (first + L) % NonceSpace
    BY <1>3 DEF SweepInv
  <2>4. /\ tried \subseteq {Tried(i) : i \in 0..(L - 1)}
        /\ \A n \in (0..(launches - 1)) \ found, g \in Threads :
             (first + n * BatchSize + g) % NonceSpace \in tried
        /\ L =< NonceSpace => ~repeated
    BY DEF SweepInv
  <2> HIDE DEF L
  <2>5. ASSUME NEW g \in 0..(BatchSize - 1)
        PROVE  /\ (start + g) % NonceSpace = Tried(L + g)
               /\ L + g \in L..(L + BatchSize - 1)
    <3>1. first + L \in Nat /\ g \in Nat /\ (first + L) + g = first + (L + g)
      BY <1>1
    <3>2. (((first + L) % NonceSpace) + g) % NonceSpace = ((first + L) + g) % NonceSpace
      BY <3>1, Sizes, WrapLater
    <3>3. (start + g) % NonceSpace = Tried(L + g)
      BY <2>3, <3>1, <3>2, Zenon
    <3>4. L + g \in L..(L + BatchSize - 1)
      BY <1>1
    <3> QED BY <3>3, <3>4
  <2>6. start' = (first + (L + BatchSize)) % NonceSpace
    <3>1. first + L \in Nat /\ (first + L) + BatchSize = first + (L + BatchSize)
      BY <1>1
    <3>2. (((first + L) % NonceSpace) + BatchSize) % NonceSpace
            = ((first + L) + BatchSize) % NonceSpace
      BY <1>1, <3>1, Sizes, WrapLater
    <3> QED BY <1>1, <2>3, <3>1, <3>2, Zenon
  <2>7. \A v \in now : \E i \in L..(L + BatchSize - 1) : v = Tried(i)
    <3>1. \A g \in S : g \in 0..(BatchSize - 1)
      BY ThreadsCover
    <3> HIDE DEF Tried
    <3> QED BY <2>5, <3>1
  <2> HIDE DEF now
  <2>8. tried' \subseteq {Tried(i) : i \in 0..(L + BatchSize - 1)}
    <3>1. /\ \A i \in 0..(L - 1) : i \in 0..(L + BatchSize - 1)
          /\ \A i \in L..(L + BatchSize - 1) : i \in 0..(L + BatchSize - 1)
      BY <1>1
    <3> HIDE DEF Tried
    <3> QED BY <2>1, <2>4, <2>7, <3>1
  <2>9. ASSUME L + BatchSize =< NonceSpace PROVE ~repeated'
    <3>1. ~repeated
      <4>1. L =< NonceSpace
        BY <1>1, <2>9, Sizes
      <4> QED BY <2>4, <4>1
    <3>2. ASSUME NEW v \in now, v \in tried PROVE FALSE
      <4>1. PICK i \in L..(L + BatchSize - 1) : v = Tried(i)
        BY <2>7
      <4>2. PICK j \in 0..(L - 1) : v = Tried(j)
        BY <2>4, <3>2
      <4>3. i \in 0..(NonceSpace - 1) /\ j \in 0..(NonceSpace - 1) /\ i # j
        BY <1>1, <2>9, Sizes
      <4> QED BY <1>1, <4>1, <4>2, <4>3, Sizes, WrapIsInjective
    <3> QED BY <2>1, <3>1, <3>2
  <2>10. ASSUME NEW n \in (0..launches) \ found', NEW g \in Threads
         PROVE  (first + n * BatchSize + g) % NonceSpace \in tried'
    <3>1. CASE n = launches
      <4>1. S = Threads /\ g \in S /\ g \in 0..(BatchSize - 1)
        BY <1>3, <2>10, <3>1, ThreadsCover
      <4>2. (start + g) % NonceSpace \in now
        BY <4>1 DEF now
      <4>3. (start + g) % NonceSpace = (first + (L + g)) % NonceSpace
        BY <2>5, <4>1
      <4>4. first + n * BatchSize + g = first + (L + g)
        BY <1>1, <3>1, <4>1 DEF L
      <4> QED BY <2>1, <4>2, <4>3, <4>4
    <3>2. CASE n # launches
      <4>1. n \in (0..(launches - 1)) \ found
        BY <1>1, <1>3, <3>2
      <4> QED BY <2>1, <2>4, <4>1
    <3> QED BY <3>1, <3>2
  <2>11. 0..(launches' - 1) = 0..launches
    BY <1>1, <2>1
  <2> HIDE DEF Tried
  <2>12. tried' \subseteq {(first' + i) % NonceSpace : i \in 0..(launches' * BatchSize - 1)}
    <3>1. PICK m \in Int : m = L + BatchSize
      BY <1>1
    <3>2. first' = first /\ launches' * BatchSize = m
      BY <1>1, <2>2, <3>1
    <3>3. tried' \subseteq {Tried(i) : i \in 0..(m - 1)}
      BY <1>1, <2>8, <3>1
    <3>4. tried' \subseteq {(first + i) % NonceSpace : i \in 0..(m - 1)}
      BY <3>3 DEF Tried
    <3> QED BY <3>2, <3>4, Zenon
  <2>13. \A n \in (0..(launches' - 1)) \ found', g \in Threads :
           (first' + n * BatchSize + g) % NonceSpace \in tried'
    BY <1>1, <2>10, <2>11
  <2>14. start' = (first' + launches' * BatchSize) % NonceSpace
    BY <1>1, <2>2, <2>6
  <2>15. launches' * BatchSize =< NonceSpace => ~repeated'
    BY <2>2, <2>9
  <2> QED
    BY <2>2, <2>12, <2>13, <2>14, <2>15, Zenon DEF SweepInv
<1> QED BY <1>2, <1>3, LaunchNotes

LEMMA SweepStarts ==
  ASSUME first \in 0..(NonceSpace - 1), launches = 0, start = first,
         tried = {}, repeated = FALSE
  PROVE  SweepInv
<1>1. 0 \in 0..MaxLaunches /\ 0..(0 - 1) = {}
  OBVIOUS
<1>2. (first + 0 * BatchSize) % NonceSpace = first
  BY RegionStarts
<1> HIDE NoneAssumption, SizesAssumption
<1> QED BY <1>1, <1>2 DEF SweepInv

LEMMA NextSweepInv == GInv /\ SweepInv /\ [Next]_vars => SweepInv'
<1> SUFFICES ASSUME GInv, SweepInv, [Next]_vars PROVE SweepInv'
  OBVIOUS
<1>1. CASE CopyTarget
  <2>1. /\ first' \in 0..(NonceSpace - 1) /\ launches' = 0 /\ start' = first'
        /\ tried' = {} /\ repeated' = FALSE
    BY <1>1, RandomIsNonce DEF CopyTarget
  <2>2. 0 \in 0..MaxLaunches /\ 0..(0 - 1) = {}
    OBVIOUS
  <2>3. (first' + 0 * BatchSize) % NonceSpace = first'
    BY <2>1, RegionStarts
  <2> HIDE NoneAssumption, SizesAssumption
  <2> QED BY <2>1, <2>2, <2>3 DEF SweepInv
<1>2. CASE Launch
  BY <1>2, LaunchKeepsSweepInv
<1>3. CASE UNCHANGED <<start, history>>
  BY <1>3 DEF SweepInv, history
<1>4. CopyTarget \/ Launch \/ UNCHANGED <<start, history>>
  BY Zenon DEF Next, LaunchLoop, Consumer, Top, CopyChallenge, Idle, Send, Fault,
     HotSwap, Receive, Submitted, Shutdown, Return, vars, loopVars
<1> QED BY <1>1, <1>2, <1>3, <1>4

LEMMA InitSweepInv == Init => SweepInv
BY RandomIsNonce, SweepStarts DEF Init

----------------------------------------------------------------------------
(* The theorems.                                                           *)

LEMMA InitGInv == Init => GInv
<1> SUFFICES ASSUME Init PROVE GInv
  OBVIOUS
<1>1. <<>> \in Seq(Hits) /\ <<>> \in Seq(Orders) /\ Len(<<>>) = 0
  OBVIOUS
<1>2. start \in 0..(NonceSpace - 1) /\ first \in RandomStart
  BY RandomIsNonce DEF Init
<1>3. launches \in 0..MaxLaunches /\ Len(hits) =< Capacity /\ hits = <<>> /\ orders = <<>>
  BY <1>1 DEF Init
<1>4. device \in [challenge : Epochs \cup {None}, target : Targets \cup {None}]
  BY DEF Init
<1>5. TypeOK
  <2> HIDE SizesAssumption
  <2> QED BY <1>1, <1>2, <1>3, <1>4 DEF Init, TypeOK
<1>6. DeviceInv /\ HitsInv
  BY <1>1, <1>3 DEF Init, DeviceInv, HitsInv
<1> QED BY <1>5, <1>6 DEF GInv

LEMMA NextGInv == GInv /\ [Next]_vars => GInv'
<1> SUFFICES ASSUME GInv, [Next]_vars PROVE GInv'
  OBVIOUS
<1>1. CASE UNCHANGED vars
  BY <1>1 DEF vars, loopVars, history, GInv, TypeOK, DeviceInv, HitsInv, Matches, Ordered
<1> QED
  BY <1>1, LoopKeepsGInv, LaunchKeepsGInv, SendKeepsGInv, HotSwapKeepsGInv,
     MainKeepsGInv DEF Next, LaunchLoop, Consumer

\* In every behaviour of launch loop, hot swaps, faults, consumer and shutdown,
\* the inductive invariant holds.
THEOREM WorkerInvariant == Spec => []GInv
BY InitGInv, NextGInv, PTL DEF Spec

\* Every variable of GpuWorker keeps its type; so nonce_start and what is tried
\* are nonces, and the channel holds no more hits than its capacity.
THEOREM WorkerTypes == Spec => []TypeOK
<1>1. GInv => TypeOK BY DEF GInv
<1> QED BY <1>1, WorkerInvariant, PTL

\* However hot_swap() interrupts launches and whichever copy to the device fails,
\* every hit in the channel or being submitted carries the epoch of the challenge
\* it solves, under a target that came with that challenge.
THEOREM HitsAreRight == Spec => []HitsMatchOrders
<1>1. GInv => HitsMatchOrders
  BY DEF GInv, HitsInv, Matches, Ordered, HitsMatchOrders
<1> QED BY <1>1, WorkerInvariant, PTL

\* For any sizes of batch, block and u32, also where nonce_start wraps around:
\* launches without a hit have tried their batches up to the remainder that the
\* division by block_size leaves, if the grid fits a u32, and no nonce is tried twice
\* before the nonces are used up.
THEOREM RegionSwept == Spec => []RegionIsSwept
<1>1. GInv /\ SweepInv => RegionIsSwept
  BY ThreadsCover DEF SweepInv, RegionIsSwept
<1>2. Init => SweepInv
  BY InitSweepInv
<1>3. GInv /\ SweepInv /\ [Next]_vars => SweepInv'
  BY NextSweepInv
<1> QED BY <1>1, <1>2, <1>3, WorkerInvariant, PTL DEF Spec

=============================================================================
