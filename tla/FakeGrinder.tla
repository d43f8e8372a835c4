---------------------------- MODULE FakeGrinder ----------------------------
(***************************************************************************)
(* FakeGrinder (src/gpu/fake.rs): the Grinder of the tests, and of a build *)
(* without cuda-runtime.  hot_swap() is one lock scope.  drive_one_hit()   *)
(* reads the orders under the lock, searches, awaits a slot of the hit     *)
(* channel, and takes the lock again to move next_nonce on.                *)
(*                                                                         *)
(* A challenge is named by its epoch.  A call whose search finds nothing   *)
(* below NonceBound searches on and is not followed; the search before the *)
(* first hot_swap() is one, because the target is zero.                    *)
(***************************************************************************)
EXTENDS Integers, Sequences

CONSTANTS
  Drivers,       \* who calls drive_one_hit()
  Capacity,      \* of the hit channel, 16
  Challenges,    \* the challenges that occur, by their epochs
  Digest,        \* compute_inner_hash() of challenge and nonce
  NonceBound,    \* bound: the nonces that are searched
  MaxFound       \* bound: no call starts once so many hits were sent

VARIABLES
  orders,     \* State.challenge, target and epoch_id
  nextNonce,  \* State.next_nonce
  at,         \* where each drive_one_hit() is
  local,      \* its challenge, target, epoch_id and n
  hits,       \* the hit channel
  found,      \* history: every hit that was sent
  raced       \* history: the last hot_swap() came under a call of drive_one_hit()

vars == <<orders, nextNonce, at, local, hits, found, raced>>

Nonces == 0..(NonceBound - 1)

Solves(o, n) == Digest[<<o.challenge, n>>] < o.target

\* The loop's nonces: those from start on that solve, the first of them.
IsFirst(o, start, n) ==
  /\ n >= start /\ Solves(o, n)
  /\ \A k \in Nonces : k >= start /\ k < n => ~Solves(o, k)

NoOrders == [challenge |-> 0, target |-> 0, epoch |-> 0]

Init ==
  /\ orders = NoOrders
  /\ nextNonce = 0
  /\ at = [d \in Drivers |-> "idle"]
  /\ local = [d \in Drivers |-> [orders |-> NoOrders, n |-> 0]]
  /\ hits = <<>>
  /\ found = <<>>
  /\ raced = FALSE

\* drive_one_hit(): the locked read and the search it starts.
Search(d) ==
  /\ at[d] = "idle"
  /\ Len(found) < MaxFound
  /\ \E n \in Nonces :
       /\ IsFirst(orders, nextNonce, n)
       /\ local' = [local EXCEPT ![d] = [orders |-> orders, n |-> n]]
  /\ at' = [at EXCEPT ![d] = "send"]
  /\ UNCHANGED <<orders, nextNonce, hits, found, raced>>

\* Faulty variant: the hit is tagged with the epoch of now.
HitOfNow(d) == [nonce |-> local[d].n,
                hash  |-> Digest[<<local[d].orders.challenge, local[d].n>>],
                epoch |-> orders.epoch]

HitOf(d) == [nonce |-> local[d].n,
             hash  |-> Digest[<<local[d].orders.challenge, local[d].n>>],
             epoch |-> local[d].orders.epoch]

\* Faulty variant: one slot too many.
SendOverfull(d) ==
  /\ at[d] = "send"
  /\ Len(hits) =< Capacity
  /\ hits' = Append(hits, HitOf(d))
  /\ found' = Append(found, HitOf(d))
  /\ at' = [at EXCEPT ![d] = "bump"]
  /\ UNCHANGED <<orders, nextNonce, local, raced>>

\* send() gets a slot.
Send(d) ==
  /\ at[d] = "send"
  /\ Len(hits) < Capacity
  /\ hits' = Append(hits, HitOf(d))
  /\ found' = Append(found, HitOf(d))
  /\ at' = [at EXCEPT ![d] = "bump"]
  /\ UNCHANGED <<orders, nextNonce, local, raced>>

\* Faulty variant: one nonce too far.
BumpTwice(d) ==
  /\ at[d] = "bump"
  /\ nextNonce' = local[d].n + 2
  /\ at' = [at EXCEPT ![d] = "idle"]
  /\ UNCHANGED <<orders, local, hits, found, raced>>

\* The second lock scope, whatever happened to the orders meanwhile.
Bump(d) ==
  /\ at[d] = "bump"
  /\ nextNonce' = local[d].n + 1
  /\ at' = [at EXCEPT ![d] = "idle"]
  /\ UNCHANGED <<orders, local, hits, found, raced>>

DriveOneHit(d) == Search(d) \/ Send(d) \/ Bump(d)

\* hot_swap().
HotSwap(challenge, target, epoch) ==
  /\ orders' = [challenge |-> challenge, target |-> target, epoch |-> epoch]
  /\ nextNonce' = 0
  /\ raced' = (\E d \in Drivers : at[d] # "idle")
  /\ UNCHANGED <<at, local, hits, found>>

\* The consumer's recv().
Receive ==
  /\ hits # <<>>
  /\ hits' = Tail(hits)
  /\ UNCHANGED <<orders, nextNonce, at, local, found, raced>>

----------------------------------------------------------------------------

Orders == [challenge : Challenges, target : Nat, epoch : Challenges]
Hits   == [nonce : Nonces, hash : Nat, epoch : Challenges]

TypeOK ==
  /\ orders \in Orders
  /\ nextNonce \in Nat
  /\ at \in [Drivers -> {"idle", "send", "bump"}]
  /\ local \in [Drivers -> [orders : Orders, n : Nat]]
  /\ hits \in Seq(Hits) /\ Len(hits) =< Capacity
  /\ found \in Seq(Hits)
  /\ raced \in BOOLEAN

\* The check a consumer could make on the CPU: the hit's nonce has the hit's hash
\* under the challenge of the hit's epoch, although the orders may have changed
\* while the call awaited its slot.
HitsAreConsistent ==
  \A i \in 1..Len(found) : found[i].hash = Digest[<<found[i].epoch, found[i].nonce>>]

\* next_nonce is written after an await.  Unless the orders came while a call was
\* under way, no nonce below it that solves them was skipped.
NothingSkipped ==
  ~raced => \A n \in Nonces :
    n < nextNonce /\ Solves(orders, n) =>
      \E i \in 1..Len(found) : found[i].nonce = n /\ found[i].epoch = orders.epoch

=============================================================================
