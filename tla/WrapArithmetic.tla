---------------------------- MODULE WrapArithmetic ----------------------------
(***************************************************************************)
(* Lemmas about unsigned integers that wrap, for any number N of values    *)
(* (2^64 for the nonces of GpuWorker).                                     *)
(***************************************************************************)
EXTENDS Integers, TLAPS

\* Quotient and remainder are unique.
LEMMA ModUnique ==
  ASSUME NEW N \in Nat \ {0}, NEW a \in Int, NEW q \in Int, NEW r \in 0..(N - 1),
         a = N * q + r
  PROVE  a % N = r
<1> DEFINE p == a \div N
           s == a % N
<1>1. p \in Int /\ s \in 0..(N - 1) /\ a = N * p + s
  OBVIOUS
<1> HIDE DEF p, s
<1>2. ASSUME p + 1 =< q PROVE FALSE
  <2>1. N * (p + 1) =< N * q
    BY <1>1, <1>2
  <2>2. N * (p + 1) = N * p + N
    BY <1>1
  <2>3. N * p \in Int /\ N * q \in Int
    BY <1>1
  <2> QED BY <1>1, <2>1, <2>2, <2>3
<1>3. ASSUME q + 1 =< p PROVE FALSE
  <2>1. N * (q + 1) =< N * p
    BY <1>1, <1>3
  <2>2. N * (q + 1) = N * q + N
    BY <1>1
  <2>3. N * p \in Int /\ N * q \in Int
    BY <1>1
  <2> QED BY <1>1, <2>1, <2>2, <2>3
<1>4. p = q
  BY <1>1, <1>2, <1>3
<1>5. s = r
  BY <1>1, <1>4
<1> QED BY <1>5 DEF s

\* Wrapping may be put off.
LEMMA WrapLater ==
  ASSUME NEW N \in Nat \ {0}, NEW a \in Nat, NEW g \in Nat
  PROVE  ((a % N) + g) % N = (a + g) % N
<1> DEFINE p == a \div N
           s == a % N
           q == (s + g) \div N
           r == (s + g) % N
<1>1. p \in Int /\ s \in 0..(N - 1) /\ a = N * p + s
  OBVIOUS
<1>2. q \in Int /\ r \in 0..(N - 1) /\ s + g = N * q + r
  BY <1>1
<1>3. ((a % N) + g) % N = r
  BY Zenon
<1> HIDE DEF p, s, q, r
<1>4. a + g = N * (p + q) + r
  BY <1>1, <1>2
<1>5. p + q \in Int /\ a + g \in Int
  BY <1>1, <1>2
<1>6. (a + g) % N = r
  BY <1>2, <1>4, <1>5, ModUnique
<1> QED BY <1>3, <1>6, Zenon

\* One turn around the values.
LEMMA WrapOnce ==
  ASSUME NEW N \in Nat \ {0}, NEW a \in 0..(2 * N - 1)
  PROVE  a % N = IF a < N THEN a ELSE a - N
<1>1. CASE a < N
  <2>1. a = N * 0 + a /\ a \in 0..(N - 1) /\ a \in Int
    BY <1>1
  <2>2. a % N = a
    BY <2>1, ModUnique
  <2> QED BY <1>1, <2>2
<1>2. CASE ~(a < N)
  <2>1. a = N * 1 + (a - N) /\ a - N \in 0..(N - 1) /\ a \in Int
    BY <1>2
  <2>2. a % N = a - N
    BY <2>1, ModUnique
  <2> QED BY <1>2, <2>2
<1> QED BY <1>1, <1>2

\* Within one turn, different offsets lead to different values.
LEMMA WrapIsInjective ==
  ASSUME NEW N \in Nat \ {0}, NEW f \in 0..(N - 1),
         NEW i \in 0..(N - 1), NEW j \in 0..(N - 1),
         (f + i) % N = (f + j) % N
  PROVE  i = j
<1>1. ASSUME NEW k \in 0..(N - 1)
      PROVE  (f + k) % N = IF f + k < N THEN f + k ELSE f + k - N
  <2> DEFINE a == f + k
  <2>1. a \in 0..(2 * N - 1)
    OBVIOUS
  <2> HIDE DEF a
  <2>2. a % N = IF a < N THEN a ELSE a - N
    BY <2>1, WrapOnce
  <2> QED BY <2>2 DEF a
<1>2. (IF f + i < N THEN f + i ELSE f + i - N) = (IF f + j < N THEN f + j ELSE f + j - N)
  <2>1. /\ (f + i) % N = IF f + i < N THEN f + i ELSE f + i - N
        /\ (f + j) % N = IF f + j < N THEN f + j ELSE f + j - N
    BY <1>1
  <2> QED BY <2>1, Zenon
<1> QED BY <1>2

=============================================================================
