-------------------------- MODULE MineKernel_proofs --------------------------
(***************************************************************************)
(* Proofs about MineKernel, for any grid, any digests and any width of a   *)
(* limb: types, that the first winner's nonce is the one copied back, and  *)
(* that a launch implements BatchSearch.                                   *)
(***************************************************************************)
EXTENDS MineKernel, TLAPS

----------------------------------------------------------------------------
(* Limbs.                                                                  *)

LEMMA Sizes ==
  /\ NonceSpace \in Nat \ {0} /\ BatchSize \in Nat \ {0} /\ BlockSize \in Nat \ {0}
  /\ GridWord \in Nat \ {0} /\ Word \in Nat \ {0}
BY SizesAssumption

\* Numbers compare by their upper part first.
LEMMA UpperFirst ==
  ASSUME NEW W \in Nat \ {0}, NEW a \in Nat, NEW b \in Nat
  PROVE  a < b <=> \/ a \div W < b \div W
                   \/ a \div W = b \div W /\ a % W < b % W
<1> DEFINE p == a \div W
           r == a % W
           q == b \div W
           s == b % W
<1>1. /\ p \in Int /\ r \in 0..(W - 1) /\ a = W * p + r
      /\ q \in Int /\ s \in 0..(W - 1) /\ b = W * q + s
  OBVIOUS
<1> HIDE DEF p, q, r, s
<1>2. ASSUME NEW x \in Int, NEW y \in Int, x + 1 =< y
      PROVE  W * x + W =< W * y
  <2>1. W * (x + 1) =< W * y
    BY <1>2
  <2>2. W * (x + 1) = W * x + W
    OBVIOUS
  <2> QED BY <2>1, <2>2
<1>3. CASE p < q
  <2>1. W * p + W =< W * q
    BY <1>1, <1>2, <1>3
  <2>2. W * p \in Int /\ W * q \in Int
    BY <1>1
  <2> QED BY <1>1, <1>3, <2>1, <2>2 DEF p, q, r, s
<1>4. CASE q < p
  <2>1. W * q + W =< W * p
    BY <1>1, <1>2, <1>4
  <2>2. W * p \in Int /\ W * q \in Int
    BY <1>1
  <2>3. ~(a < b) /\ ~(p < q) /\ p # q
    BY <1>1, <1>4, <2>1, <2>2
  <2> QED BY <2>3 DEF p, q
<1>5. CASE p = q
  <2>1. W * p = W * q /\ W * p \in Int
    BY <1>1, <1>5
  <2>2. a < b <=> r < s
    BY <1>1, <2>1
  <2>3. ~(p < q)
    BY <1>1, <1>5
  <2> QED BY <1>5, <2>2, <2>3 DEF p, q, r, s
<1> QED BY <1>1, <1>3, <1>4, <1>5

\* Dividing by a limb leaves one limb less.
LEMMA UpperBound ==
  ASSUME NEW W \in Nat \ {0}, NEW M \in Nat, NEW a \in Nat, a < W * M
  PROVE  a \div W \in 0..(M - 1)
<1> DEFINE p == a \div W
           r == a % W
<1>1. p \in Int /\ r \in 0..(W - 1) /\ a = W * p + r
  OBVIOUS
<1> HIDE DEF p, r
<1>2. ~(p + 1 =< 0)
  <2> SUFFICES ASSUME p + 1 =< 0 PROVE FALSE
    OBVIOUS
  <2>1. W * (p + 1) =< W * 0
    BY <1>1
  <2>2. W * (p + 1) = W * p + W /\ W * 0 = 0 /\ W * p \in Int
    BY <1>1
  <2> QED BY <1>1, <2>1, <2>2
<1>3. ~(M =< p)
  <2> SUFFICES ASSUME M =< p PROVE FALSE
    OBVIOUS
  <2>1. W * M =< W * p
    BY <1>1
  <2>2. W * M \in Int /\ W * p \in Int
    BY <1>1
  <2> QED BY <1>1, <2>1, <2>2
<1> QED BY <1>1, <1>2, <1>3 DEF p

\* The kernel's comparison of limbs is the contract's comparison of numbers.
LEMMA LessIsLess ==
  ASSUME NEW a \in 0..(Word * Word * Word * Word - 1),
         NEW b \in 0..(Word * Word * Word * Word - 1)
  PROVE  Less(Limbs(a), Limbs(b)) <=> a < b
<1> DEFINE a1 == a \div Word
           a2 == a1 \div Word
           a3 == a2 \div Word
           b1 == b \div Word
           b2 == b1 \div Word
           b3 == b2 \div Word
<1>1. /\ Word \in Nat \ {0} /\ Word * Word \in Nat /\ Word * Word * Word \in Nat
      /\ Word * Word * Word * Word = Word * (Word * Word * Word)
      /\ Word * Word * Word = Word * (Word * Word)
  BY Sizes
<1>2. a \in Nat /\ b \in Nat /\ a < Word * (Word * Word * Word) /\ b < Word * (Word * Word * Word)
  BY <1>1
<1>3. a1 \in 0..(Word * Word * Word - 1) /\ b1 \in 0..(Word * Word * Word - 1)
  BY <1>1, <1>2, UpperBound
<1>4. a < b <=> a1 < b1 \/ (a1 = b1 /\ a % Word < b % Word)
  BY <1>1, <1>2, UpperFirst
<1> HIDE DEF a1, b1
<1>5. a1 \in Nat /\ b1 \in Nat /\ a1 < Word * (Word * Word) /\ b1 < Word * (Word * Word)
  BY <1>1, <1>3
<1>6. a2 \in 0..(Word * Word - 1) /\ b2 \in 0..(Word * Word - 1)
  BY <1>1, <1>5, UpperBound
<1>7. a1 < b1 <=> a2 < b2 \/ (a2 = b2 /\ a1 % Word < b1 % Word)
  BY <1>1, <1>5, UpperFirst
<1>8. a1 = b1 <=> a2 = b2 /\ a1 % Word = b1 % Word
  BY <1>1, <1>5
<1> HIDE DEF a2, b2
<1>9. a2 \in Nat /\ b2 \in Nat /\ a2 < Word * Word /\ b2 < Word * Word
  BY <1>1, <1>6
<1>10. a3 \in 0..(Word - 1) /\ b3 \in 0..(Word - 1)
  BY <1>1, <1>9, UpperBound
<1>11. a2 < b2 <=> a3 < b3 \/ (a3 = b3 /\ a2 % Word < b2 % Word)
  BY <1>1, <1>9, UpperFirst
<1>12. a2 = b2 <=> a3 = b3 /\ a2 % Word = b2 % Word
  BY <1>1, <1>9
<1> HIDE DEF a3, b3
<1>13. a3 % Word = a3 /\ b3 % Word = b3
  BY <1>1, <1>10
<1>14. /\ Limbs(a) = <<a3 % Word, a2 % Word, a1 % Word, a % Word>>
       /\ Limbs(b) = <<b3 % Word, b2 % Word, b1 % Word, b % Word>>
  BY DEF Limbs, a1, a2, a3, b1, b2, b3
<1>15. Limbs(a) = <<a3, a2 % Word, a1 % Word, a % Word>>
       /\ Limbs(b) = <<b3, b2 % Word, b1 % Word, b % Word>>
  BY <1>13, <1>14
<1>16. Less(Limbs(a), Limbs(b)) <=>
         \/ a3 < b3
         \/ a3 = b3 /\ a2 % Word < b2 % Word
         \/ a3 = b3 /\ a2 % Word = b2 % Word /\ a1 % Word < b1 % Word
         \/ a3 = b3 /\ a2 % Word = b2 % Word /\ a1 % Word = b1 % Word /\ a % Word < b % Word
  BY <1>15 DEF Less
<1> QED BY <1>4, <1>7, <1>8, <1>11, <1>12, <1>16, Zenon

----------------------------------------------------------------------------
(* The grid.                                                               *)

\* Blocks and threads together number the nonces of the grid.
LEMMA GridNumbers ==
  /\ \A g \in Threads : g[1] * BlockSize + g[2] \in 0..(GridCount * BlockSize - 1)
  /\ \A i \in 0..(GridCount * BlockSize - 1) : \E g \in Threads : g[1] * BlockSize + g[2] = i
<1> DEFINE all == GridCount * BlockSize
<1>1. BlockSize \in Nat \ {0} /\ GridCount \in Nat
  <2>1. BatchSize \div BlockSize \in Int
    BY Sizes
  <2> QED BY <2>1, Sizes DEF GridCount
<1>2. all = BlockSize * GridCount /\ all \in Nat
  BY <1>1
<1> HIDE DEF all
<1>3. ASSUME NEW g \in Threads
      PROVE  g[1] * BlockSize + g[2] \in 0..(all - 1)
  <2>1. g[1] \in 0..(GridCount - 1) /\ g[2] \in 0..(BlockSize - 1)
    BY DEF Threads
  <2> DEFINE x == g[1]
             y == g[2]
  <2>2. x \in Nat /\ x + 1 =< GridCount /\ y \in 0..(BlockSize - 1)
    BY <1>1, <2>1
  <2> HIDE DEF x, y
  <2>3. BlockSize * (x + 1) =< BlockSize * GridCount
    BY <1>1, <1>2, <2>2
  <2>4. BlockSize * (x + 1) = x * BlockSize + BlockSize /\ x * BlockSize \in Nat
    BY <1>1, <2>2
  <2>5. x * BlockSize + y \in 0..(all - 1)
    BY <1>1, <1>2, <2>2, <2>3, <2>4
  <2> QED BY <2>5 DEF x, y
<1>4. ASSUME NEW i \in 0..(all - 1)
      PROVE  \E g \in Threads : g[1] * BlockSize + g[2] = i
  <2> DEFINE x == i \div BlockSize
             y == i % BlockSize
             h == <<x, y>>
  <2>1. x \in 0..(GridCount - 1)
    <3>1. i \in Nat /\ i < BlockSize * GridCount
      BY <1>1, <1>2
    <3> QED BY <1>1, <1>2, <3>1, UpperBound
  <2>2. y \in 0..(BlockSize - 1) /\ x * BlockSize + y = i
    BY <1>1
  <2> HIDE DEF x, y
  <2>3. h \in Threads
    BY <2>1, <2>2 DEF Threads
  <2>4. h[1] * BlockSize + h[2] = i
    BY <2>2
  <2> QED BY <2>3, <2>4
<1> QED BY <1>3, <1>4 DEF all

\* The threads try the nonces of the search, and no others.
LEMMA ThreadsTryBatch ==
  ASSUME start \in Nonces
  PROVE  /\ \A g \in Threads : NonceOf(g) \in Search!Batch(start) /\ NonceOf(g) \in Nonces
         /\ \A n \in Search!Batch(start) : \E g \in Threads : NonceOf(g) = n
<1>1. ASSUME NEW g \in Threads
      PROVE  NonceOf(g) \in Search!Batch(start) /\ NonceOf(g) \in Nonces
  <2>1. PICK i \in 0..(GridCount * BlockSize - 1) : i = g[1] * BlockSize + g[2]
    BY GridNumbers
  <2>2. NonceOf(g) = (start + i) % NonceSpace
    BY <2>1 DEF NonceOf
  <2>3. start + i \in Nat
    BY Sizes DEF Nonces
  <2>4. (start + i) % NonceSpace \in Nonces
    BY <2>3, Sizes DEF Nonces
  <2> QED BY <2>2, <2>4 DEF Search!Batch
<1>2. ASSUME NEW n \in Search!Batch(start)
      PROVE  \E g \in Threads : NonceOf(g) = n
  <2>1. PICK i \in 0..(GridCount * BlockSize - 1) : n = (start + i) % NonceSpace
    BY DEF Search!Batch
  <2>2. PICK g \in Threads : g[1] * BlockSize + g[2] = i
    BY GridNumbers
  <2> QED BY <2>1, <2>2 DEF NonceOf
<1> QED BY <1>1, <1>2

\* A thread's test is the contract's.
LEMMA SolvesIsAccepted ==
  ASSUME TypeOK, NEW g \in Threads
  PROVE  Solves(g) <=> Search!Accepted(NonceOf(g))
<1>1. NonceOf(g) \in Nonces
  BY ThreadsTryBatch DEF TypeOK
<1>2. digest[NonceOf(g)] \in Digests /\ target \in Digests
  BY <1>1 DEF TypeOK
<1>3. /\ digest[NonceOf(g)] \in 0..(Word * Word * Word * Word - 1)
      /\ target \in 0..(Word * Word * Word * Word - 1)
  BY <1>2, DigestsAssumption
<1> QED BY <1>3, LessIsLess DEF Solves, Search!Accepted

----------------------------------------------------------------------------
(* The inductive invariant.                                                *)

\* Nobody has won, and every thread that is through has a nonce that loses.
NoWinnerYet ==
  \A g \in Threads : thread[g] # "write" /\ (thread[g] = "done" => ~Solves(g))

\* One thread has won; it is about to write its nonce or has written it, and no
\* other thread writes.
Won(w) ==
  /\ winner = NonceOf(w) /\ Solves(w)
  /\ thread[w] = "write" \/ (thread[w] = "done" /\ result = winner)
  /\ \A g \in Threads : thread[g] = "write" => g = w

RaceInv ==
  /\ host # "synchronize" => \A g \in Threads : thread[g] = "done"
  /\ host \in {"reset_result", "launch"} => found = 0
  /\ host \in {"synchronize", "read_found", "read_result"} =>
       /\ found = 0 => NoWinnerYet
       /\ found # 0 => \E w \in Threads : Won(w)
  /\ host = "read_result" => found # 0

KInv == TypeOK /\ RaceInv

\* What a step that leaves threads, nonces and digests alone keeps.
LEMMA RaceUnmoved ==
  ASSUME UNCHANGED <<digest, target, start, found, result, thread, winner>>
  PROVE  /\ NoWinnerYet => NoWinnerYet'
         /\ \A w \in Threads : Won(w) => Won(w)'
BY DEF NoWinnerYet, Won, Solves, NonceOf, Threads

LEMMA HostKeepsKInv == ASSUME KInv, Host PROVE KInv'
<1> USE DEF KInv
<1> USE Sizes
<1>1. CASE LaunchMine
  <2>1. host = "idle" /\ host' = "reset_found" /\ UNCHANGED thread
    BY <1>1 DEF LaunchMine
  <2>2. RaceInv'
    BY <2>1 DEF RaceInv
  <2> QED BY <1>1, <2>2 DEF LaunchMine, TypeOK
<1>2. CASE ResetFound
  <2>1. RaceInv'
    BY <1>2 DEF ResetFound, RaceInv
  <2> QED BY <1>2, <2>1 DEF ResetFound, TypeOK
<1>3. CASE ResetResult
  <2>1. RaceInv'
    BY <1>3 DEF ResetResult, RaceInv
  <2>2. 0 \in Nonces
    BY DEF Nonces
  <2> QED BY <1>3, <2>1, <2>2 DEF ResetResult, TypeOK
<1>4. CASE Launch
  <2>1. thread' = [g \in Threads |-> "enter"] /\ found' = 0 /\ host' = "synchronize"
    BY <1>4 DEF Launch, RaceInv
  <2>2. NoWinnerYet'
    BY <2>1 DEF NoWinnerYet
  <2>3. RaceInv'
    BY <2>1, <2>2 DEF RaceInv
  <2>4. thread' \in [Threads -> {"enter", "hash", "write", "done"}]
    BY <2>1
  <2> QED BY <1>4, <2>3, <2>4 DEF Launch, TypeOK
<1>5. CASE Synchronize
  <2>1. /\ host = "synchronize" /\ host' = "read_found" /\ \A g \in Threads : thread[g] = "done"
        /\ UNCHANGED <<digest, target, start, answer, found, result, thread, winner>>
    BY <1>5 DEF Synchronize
  <2>2. RaceInv'
    BY <2>1, RaceUnmoved DEF RaceInv
  <2> QED BY <2>1, <2>2 DEF TypeOK
<1>6. CASE ReadFound
  <2>1. /\ host = "read_found" /\ UNCHANGED <<digest, target, start, found, result, thread, winner>>
        /\ \/ found # 0 /\ host' = "read_result" /\ UNCHANGED answer
           \/ host' = "idle" /\ answer' = None
    BY <1>6 DEF ReadFound
  <2>2. RaceInv'
    BY <2>1, RaceUnmoved DEF RaceInv
  <2> QED BY <2>1, <2>2 DEF TypeOK
<1>7. CASE ReadResult
  <2>1. /\ host = "read_result" /\ host' = "idle" /\ answer' = result
        /\ UNCHANGED <<digest, target, start, found, result, thread, winner>>
    BY <1>7 DEF ReadResult
  <2>2. RaceInv'
    BY <2>1 DEF RaceInv
  <2> QED BY <2>1, <2>2 DEF TypeOK
<1>8. CASE CudaFails
  <2>1. /\ host' = "failed" /\ thread' = [g \in Threads |-> "done"]
        /\ UNCHANGED <<digest, target, start, answer, found, result, winner>>
    BY <1>8 DEF CudaFails
  <2>2. RaceInv'
    BY <2>1 DEF RaceInv
  <2>3. thread' \in [Threads -> {"enter", "hash", "write", "done"}]
    BY <2>1
  <2> QED BY <2>1, <2>2, <2>3 DEF TypeOK
<1> QED BY <1>1, <1>2, <1>3, <1>4, <1>5, <1>6, <1>7, <1>8 DEF Host

\* A thread runs only while the host waits for it.
LEMMA ThreadRuns ==
  ASSUME KInv, NEW g \in Threads, thread[g] # "done"
  PROVE  /\ host = "synchronize"
         /\ found = 0 => NoWinnerYet
         /\ found # 0 => \E w \in Threads : Won(w)
BY DEF KInv, RaceInv

LEMMA EnterKeepsKInv == ASSUME KInv, NEW g \in Threads, Enter(g) PROVE KInv'
<1> USE DEF KInv
<1>1. /\ thread[g] = "enter" /\ thread \in [Threads -> {"enter", "hash", "write", "done"}]
      /\ UNCHANGED <<digest, target, host, start, answer, found, result, winner>>
  BY DEF Enter, TypeOK, hostVars
<1>2. PICK p \in {"hash", "done"} :
        thread' = [thread EXCEPT ![g] = p] /\ (p = "done" => found # 0)
  BY DEF Enter
<1>3. /\ thread' \in [Threads -> {"enter", "hash", "write", "done"}]
      /\ thread'[g] = p /\ \A h \in Threads : h # g => thread'[h] = thread[h]
  BY <1>1, <1>2
<1>4. TypeOK'
  BY <1>1, <1>3 DEF TypeOK
<1>5. host = "synchronize"
  BY <1>1, ThreadRuns
<1>6. CASE found = 0
  <2>1. NoWinnerYet'
    BY <1>1, <1>2, <1>3, <1>6, ThreadRuns DEF NoWinnerYet, Solves, NonceOf, Threads
  <2> QED BY <1>1, <1>4, <1>5, <1>6, <2>1 DEF RaceInv
<1>7. CASE found # 0
  <2>1. PICK w \in Threads : Won(w)
    BY <1>1, <1>7, ThreadRuns
  <2>2. w # g
    BY <1>1, <2>1 DEF Won
  <2>3. Won(w)'
    BY <1>1, <1>2, <1>3, <2>1, <2>2 DEF Won, Solves, NonceOf, Threads
  <2> QED BY <1>1, <1>4, <1>5, <1>7, <2>3 DEF RaceInv, Threads
<1> QED BY <1>6, <1>7

LEMMA HashKeepsKInv == ASSUME KInv, NEW g \in Threads, Hash(g) PROVE KInv'
<1> USE DEF KInv
<1>1. /\ thread[g] = "hash" /\ thread \in [Threads -> {"enter", "hash", "write", "done"}]
      /\ UNCHANGED <<digest, target, host, start, answer, result>>
      /\ NonceOf(g) \in Nonces
  BY ThreadsTryBatch DEF Hash, TypeOK, hostVars
<1>2. host = "synchronize"
  BY <1>1, ThreadRuns
<1>3. CASE Solves(g) /\ found = 0
  <2>1. found' = 1 /\ thread' = [thread EXCEPT ![g] = "write"] /\ winner' = NonceOf(g)
    BY <1>3 DEF Hash
  <2>2. /\ thread' \in [Threads -> {"enter", "hash", "write", "done"}]
        /\ thread'[g] = "write" /\ \A h \in Threads : h # g => thread'[h] = thread[h]
    BY <1>1, <2>1
  <2>3. TypeOK'
    BY <1>1, <2>1, <2>2 DEF TypeOK
  <2>4. Won(g)'
    BY <1>1, <1>3, <2>1, <2>2, ThreadRuns DEF Won, NoWinnerYet, Solves, NonceOf, Threads
  <2> QED BY <1>1, <1>2, <2>1, <2>3, <2>4 DEF RaceInv, Threads
<1>4. CASE ~(Solves(g) /\ found = 0)
  <2>1. UNCHANGED <<found, winner>> /\ thread' = [thread EXCEPT ![g] = "done"]
    BY <1>4 DEF Hash
  <2>2. /\ thread' \in [Threads -> {"enter", "hash", "write", "done"}]
        /\ thread'[g] = "done" /\ \A h \in Threads : h # g => thread'[h] = thread[h]
    BY <1>1, <2>1
  <2>3. TypeOK'
    BY <1>1, <2>1, <2>2 DEF TypeOK
  <2>4. CASE found = 0
    <3>1. NoWinnerYet'
      BY <1>1, <1>4, <2>1, <2>2, <2>4, ThreadRuns DEF NoWinnerYet, Solves, NonceOf, Threads
    <3> QED BY <1>1, <1>2, <2>1, <2>3, <2>4, <3>1 DEF RaceInv
  <2>5. CASE found # 0
    <3>1. PICK w \in Threads : Won(w)
      BY <1>1, <2>5, ThreadRuns
    <3>2. w # g
      BY <1>1, <3>1 DEF Won
    <3>3. Won(w)'
      BY <1>1, <2>1, <2>2, <3>1, <3>2 DEF Won, Solves, NonceOf, Threads
    <3> QED BY <1>1, <1>2, <2>1, <2>3, <2>5, <3>3 DEF RaceInv, Threads
  <2> QED BY <2>4, <2>5
<1> QED BY <1>3, <1>4

LEMMA WriteKeepsKInv == ASSUME KInv, NEW g \in Threads, Write(g) PROVE KInv'
<1> USE DEF KInv
<1>1. /\ thread[g] = "write" /\ thread \in [Threads -> {"enter", "hash", "write", "done"}]
      /\ UNCHANGED <<digest, target, host, start, answer, found, winner>>
      /\ NonceOf(g) \in Nonces
      /\ result' = NonceOf(g) /\ thread' = [thread EXCEPT ![g] = "done"]
  BY ThreadsTryBatch DEF Write, TypeOK, hostVars
<1>2. host = "synchronize"
  BY <1>1, ThreadRuns
<1>3. /\ thread' \in [Threads -> {"enter", "hash", "write", "done"}]
      /\ thread'[g] = "done" /\ \A h \in Threads : h # g => thread'[h] = thread[h]
  BY <1>1
<1>4. TypeOK'
  BY <1>1, <1>3 DEF TypeOK
<1>5. found # 0
  BY <1>1, ThreadRuns DEF NoWinnerYet
<1>6. PICK w \in Threads : Won(w)
  BY <1>1, <1>5, ThreadRuns
<1>7. w = g
  BY <1>1, <1>6 DEF Won
<1>8. Won(g)'
  BY <1>1, <1>3, <1>6, <1>7 DEF Won, Solves, NonceOf, Threads
<1> QED BY <1>1, <1>2, <1>4, <1>5, <1>8 DEF RaceInv, Threads

----------------------------------------------------------------------------
(* The theorems.                                                           *)

LEMMA InitKInv == Init => KInv
<1> SUFFICES ASSUME Init PROVE KInv
  OBVIOUS
<1>1. 0 \in Nonces
  BY Sizes DEF Nonces
<1>2. TypeOK
  BY <1>1 DEF Init, TypeOK
<1>3. RaceInv
  BY DEF Init, RaceInv
<1> QED BY <1>2, <1>3 DEF KInv

LEMMA NextKInv == KInv /\ [Next]_vars => KInv'
<1> SUFFICES ASSUME KInv, [Next]_vars PROVE KInv'
  OBVIOUS
<1>1. CASE UNCHANGED vars
  <2>1. UNCHANGED <<digest, target, host, start, answer, found, result, thread, winner>>
    BY <1>1 DEF vars, hostVars
  <2>2. TypeOK'
    BY <2>1 DEF KInv, TypeOK
  <2>3. RaceInv'
    BY <2>1, RaceUnmoved DEF KInv, RaceInv
  <2> QED BY <2>2, <2>3 DEF KInv
<1>2. CASE Host
  BY <1>2, HostKeepsKInv
<1>3. ASSUME NEW g \in Threads, Enter(g) \/ Hash(g) \/ Write(g) PROVE KInv'
  BY <1>3, EnterKeepsKInv, HashKeepsKInv, WriteKeepsKInv
<1> QED BY <1>1, <1>2, <1>3 DEF Next

\* In every order of the host's calls and the threads' steps the inductive
\* invariant holds: at most one thread has won, and none loses that should not.
THEOREM KernelInvariant == Spec => []KInv
BY InitKInv, NextKInv, PTL DEF Spec

\* Every variable keeps its type; so found stays a flag, and what is copied back
\* is a nonce.
THEOREM KernelTypes == Spec => []TypeOK
<1>1. KInv => TypeOK BY DEF KInv
<1> QED BY <1>1, KernelInvariant, PTL

\* For any number of threads, the nonce copied back is the first winner's.
THEOREM FirstWinner == Spec => []FirstWinnerWins
<1>1. KInv => FirstWinnerWins
  <2> SUFFICES ASSUME KInv, host = "read_result" PROVE result = winner
    BY DEF FirstWinnerWins
  <2>1. PICK w \in Threads : Won(w)
    BY DEF KInv, RaceInv
  <2>2. thread[w] = "done"
    BY <2>1 DEF KInv, RaceInv
  <2> QED BY <2>1, <2>2 DEF Won
<1> QED BY <1>1, KernelInvariant, PTL

\* What the host reads after the kernel has ended is what a search returns.
LEMMA ReplyIsRight ==
  ASSUME KInv
  PROVE  /\ host = "read_found" /\ found = 0 => Search!Solutions(start) = {}
         /\ host = "read_result" => result \in Search!Solutions(start)
<1>0. TypeOK /\ start \in Nonces
  BY DEF KInv, TypeOK
<1>1. ASSUME host = "read_found", found = 0
      PROVE  Search!Solutions(start) = {}
  <2>1. \A g \in Threads : ~Solves(g)
    BY <1>1 DEF KInv, RaceInv, NoWinnerYet
  <2>2. \A n \in Search!Batch(start) : ~Search!Accepted(n)
    BY <1>0, <2>1, ThreadsTryBatch, SolvesIsAccepted
  <2> QED BY <2>2 DEF Search!Solutions
<1>2. ASSUME host = "read_result"
      PROVE  result \in Search!Solutions(start)
  <2>1. PICK w \in Threads : Won(w)
    BY <1>2 DEF KInv, RaceInv
  <2>2. result = NonceOf(w) /\ Solves(w)
    BY <1>2, <2>1 DEF KInv, RaceInv, Won
  <2>3. NonceOf(w) \in Search!Batch(start) /\ Search!Accepted(NonceOf(w))
    BY <1>0, <2>2, ThreadsTryBatch, SolvesIsAccepted
  <2> QED BY <2>2, <2>3 DEF Search!Solutions
<1> QED BY <1>1, <1>2

\* Each step of host or thread is a step of the search, or none.
LEMMA StepIsSearch == KInv /\ [Next]_vars =>
  [Search!Next]_<<digest, target, IF host \in {"idle", "failed"} THEN host ELSE "searching",
                 start, answer>>
<1> DEFINE phase == IF host \in {"idle", "failed"} THEN host ELSE "searching"
<1> SUFFICES ASSUME KInv, [Next]_vars
             PROVE  Search!Next \/ UNCHANGED <<digest, target, phase, start, answer>>
  OBVIOUS
<1>1. CASE LaunchMine
  <2>1. start' \in Search!Nonces
    BY <1>1 DEF LaunchMine, Nonces, Search!Nonces
  <2>2. Search!Ask
    BY <1>1, <2>1 DEF LaunchMine, Search!Ask
  <2> QED BY <2>2 DEF Search!Next
<1>2. CASE ReadFound
  <2>1. CASE found # 0
    BY <1>2, <2>1 DEF ReadFound
  <2>2. CASE found = 0
    <3>1. Search!Solutions(start) = {}
      BY <1>2, <2>2, ReplyIsRight DEF ReadFound
    <3>2. Search!Reply
      BY <1>2, <2>2, <3>1 DEF ReadFound, Search!Reply
    <3> QED BY <3>2 DEF Search!Next
  <2> QED BY <2>1, <2>2
<1>3. CASE ReadResult
  <2>1. result \in Search!Solutions(start)
    BY <1>3, ReplyIsRight DEF ReadResult
  <2>2. Search!Reply
    BY <1>3, <2>1 DEF ReadResult, Search!Reply
  <2> QED BY <2>2 DEF Search!Next
<1>4. CASE CudaFails
  <2>1. Search!Fail
    BY <1>4 DEF CudaFails, Search!Fail
  <2> QED BY <2>1 DEF Search!Next
<1>5. CASE ResetFound \/ ResetResult \/ Launch \/ Synchronize
  BY <1>5 DEF ResetFound, ResetResult, Launch, Synchronize
<1>6. ASSUME NEW g \in Threads, Enter(g) \/ Hash(g) \/ Write(g)
      PROVE  UNCHANGED <<digest, target, phase, start, answer>>
  BY <1>6 DEF Enter, Hash, Write, hostVars
<1>7. CASE UNCHANGED vars
  BY <1>7 DEF vars, hostVars
<1> QED BY <1>1, <1>2, <1>3, <1>4, <1>5, <1>6, <1>7 DEF Next, Host

\* For any grid, limbs and digests, launch_mine() behaves like a search in one step
\* of the nonces the grid covers: a returned nonce is one of them and accepted by the
\* contract's test, and none is returned only if none of them is.
THEOREM KernelSearchesBatch == Spec => SearchSpec
<1>1. Init => Search!Init
  BY DEF Init, Search!Init, Nonces, Search!Nonces
<1> QED BY <1>1, StepIsSearch, KernelInvariant, PTL DEF Spec, SearchSpec, Search!Spec

=============================================================================
