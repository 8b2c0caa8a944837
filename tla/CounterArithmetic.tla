------------------------- MODULE CounterArithmetic -------------------------
(***************************************************************************)
(* Arithmetic of a counter that wraps: the sequence counters of            *)
(* TUNNELLING_REQUEST and TUNNELLING_ACK (src/io/tunnel.ts, _seqOut and    *)
(* _seqIn) stand for a position through its residue.  And what counting    *)
(* upwards shows: a least number, induction, recursion along 0..n.         *)
(***************************************************************************)
EXTENDS Integers, WellFoundedInduction, TLAPS

LEMMA DivMod ==
  ASSUME NEW M \in Nat, M > 0, NEW a \in Int
  PROVE  /\ a % M \in Int /\ 0 <= a % M /\ a % M < M
         /\ a \div M \in Int
         /\ a = M * (a \div M) + (a % M)
<1>1. a % M \in Int /\ a \div M \in Int
  OBVIOUS
<1>2. 0 <= a % M /\ a % M < M
  OBVIOUS
<1>3. a = M * (a \div M) + (a % M)
  OBVIOUS
<1> QED
  BY <1>1, <1>2, <1>3

LEMMA SmallMultiple ==
  ASSUME NEW M \in Nat, NEW q \in Int, M * q < M, -M < M * q
  PROVE  q = 0
  OBVIOUS

\* A quotient and remainder are the quotient and the remainder.
LEMMA ModUnique ==
  ASSUME NEW M \in Nat, M > 0, NEW q \in Int, NEW r \in Int, 0 <= r, r < M
  PROVE  (M * q + r) % M = r
<1> DEFINE a == M * q + r
           d == (a \div M) - q
<1>1. a \in Int
  OBVIOUS
<1> HIDE DEF a
<1>2. /\ a % M \in Int /\ 0 <= a % M /\ a % M < M /\ a \div M \in Int
      /\ a = M * (a \div M) + (a % M)
  BY <1>1, DivMod
<1>3. M * (a \div M) - M * q = r - (a % M)
  <2>1. a = M * q + r
    BY DEF a
  <2> QED
    BY <1>2, <2>1
<1>4. M * d = r - (a % M)
  BY <1>2, <1>3
<1>5. d = 0
  <2> HIDE DEF d
  <2>1. d \in Int
    BY <1>2 DEF d
  <2> QED
    BY <1>2, <1>4, <2>1, SmallMultiple
<1>6. a % M = r
  BY <1>2, <1>4, <1>5
<1> QED
  BY <1>6 DEF a

\* Incrementing the counter is incrementing the position it stands for.
LEMMA ModIncrement ==
  ASSUME NEW M \in Nat, M > 1, NEW a \in Nat
  PROVE  ((a % M) + 1) % M = (a + 1) % M
<1> DEFINE q == a \div M
           r == a % M
<1>1. r \in Int /\ 0 <= r /\ r < M /\ q \in Int /\ a = M * q + r
  BY DivMod
<1> HIDE DEF q, r
<1>2. CASE r + 1 < M
  <2>1. (M * q + (r + 1)) % M = r + 1
    BY <1>1, <1>2, ModUnique
  <2>2. (M * 0 + (r + 1)) % M = r + 1
    BY <1>1, <1>2, ModUnique
  <2>3. M * 0 + (r + 1) = r + 1 /\ M * q + (r + 1) = a + 1
    BY <1>1
  <2> QED
    BY <2>1, <2>2, <2>3 DEF r
<1>3. CASE r + 1 = M
  <2>1. (M * (q + 1) + 0) % M = 0 /\ (M * 1 + 0) % M = 0
    BY <1>1, ModUnique
  <2>2. M * (q + 1) + 0 = a + 1 /\ M * 1 + 0 = r + 1
    BY <1>1, <1>3
  <2> QED
    BY <2>1, <2>2 DEF r
<1> QED
  BY <1>1, <1>2, <1>3

\* Decrementing the counter is decrementing the position it stands for.
LEMMA ModDecrement ==
  ASSUME NEW M \in Nat, M > 1, NEW a \in Nat
  PROVE  ((a % M) - 1) % M = (a - 1) % M
<1> DEFINE q == a \div M
           r == a % M
<1>1. r \in Int /\ 0 <= r /\ r < M /\ q \in Int /\ a = M * q + r
  BY DivMod
<1> HIDE DEF q, r
<1>2. CASE r > 0
  <2>1. (M * q + (r - 1)) % M = r - 1
    BY <1>1, <1>2, ModUnique
  <2>2. (M * 0 + (r - 1)) % M = r - 1
    BY <1>1, <1>2, ModUnique
  <2>3. M * 0 + (r - 1) = r - 1 /\ M * q + (r - 1) = a - 1
    BY <1>1
  <2> QED
    BY <2>1, <2>2, <2>3 DEF r
<1>3. CASE r = 0
  <2>1. (M * (q - 1) + (M - 1)) % M = M - 1
    BY <1>1, ModUnique
  <2>2. (M * (-1) + (M - 1)) % M = M - 1
    BY <1>1, ModUnique
  <2>3. M * (q - 1) + (M - 1) = a - 1 /\ M * (-1) + (M - 1) = r - 1
    BY <1>1, <1>3
  <2> QED
    BY <2>1, <2>2, <2>3 DEF r
<1> QED
  BY <1>1, <1>2, <1>3

\* Zero stands for the first position.
LEMMA ModZero ==
  ASSUME NEW M \in Nat, M > 0
  PROVE  0 % M = 0
<1>1. (M * 0 + 0) % M = 0
  BY ModUnique
<1> QED
  BY <1>1

\* Two positions less than one turn apart are told apart by the counter.
LEMMA ModInjective ==
  ASSUME NEW M \in Nat, M > 0, NEW a \in Int, NEW b \in Int,
         a % M = b % M, a - b < M, b - a < M
  PROVE  a = b
<1> DEFINE qa == a \div M
           qb == b \div M
           d == qa - qb
<1>1. qa \in Int /\ a = M * qa + (a % M)
  BY DivMod
<1>2. qb \in Int /\ b = M * qb + (b % M)
  BY DivMod
<1>3. a % M \in Int /\ b % M \in Int
  BY DivMod
<1> HIDE DEF qa, qb
<1>4. M * d = a - b
  BY <1>1, <1>2, <1>3
<1>5. d \in Int
  BY <1>1, <1>2
<1> HIDE DEF d
<1>6. d = 0
  BY <1>4, <1>5, SmallMultiple
<1> QED
  BY <1>4, <1>6

-----------------------------------------------------------------------------
\* Induction over numbers.

\* A set of numbers has a least one.
LEMMA LeastExists ==
  ASSUME NEW T \in SUBSET Nat, T # {}
  PROVE  \E n \in T : \A m \in T : n <= m
<1>1. PICK n \in T : \A m \in T : ~(<<m, n>> \in OpToRel(<, Nat))
  BY NatLessThanWellFounded, WFMin
<1>2. \A m \in T : ~(m < n)
  BY <1>1 DEF OpToRel
<1> QED
  BY <1>2

\* Induction up to n, over the set of those for which something holds.
LEMMA CountingUp ==
  ASSUME NEW n \in Nat, NEW T, 0 \in T, \A k \in 0..n - 1 : k \in T => k + 1 \in T
  PROVE  0..n \subseteq T
<1> DEFINE U == 0..n \ T
<1> SUFFICES ASSUME U # {} PROVE FALSE
  OBVIOUS
<1>1. U \in SUBSET Nat
  OBVIOUS
<1>2. PICK k \in U : \A m \in U : k <= m
  <2> HIDE DEF U
  <2> QED
    BY <1>1, LeastExists
<1>3. k \in 0..n /\ k # 0
  BY <1>2
<1>4. k - 1 \in 0..n - 1 /\ k - 1 \notin U
  BY <1>2, <1>3
<1>5. k - 1 \in T
  BY <1>4
<1> QED
  BY <1>2, <1>4, <1>5

\* f counts from a, by the step that belongs to each number.
Iterates(f, n, S, a, step) ==
  f \in [0..n -> S] /\ f[0] = a /\ \A k \in 1..n : f[k] = step[k][f[k - 1]]

\* A function that is defined by recursion over 0..n exists, and is what its
\* equation says: step[k] gives its value at k from that at k - 1.
LEMMA RecursionExists ==
  ASSUME NEW n \in Nat, NEW S, NEW a \in S, NEW step \in [1..n -> [S -> S]]
  PROVE  \E f : Iterates(f, n, S, a, step)
<1> DEFINE Good(f, m) == f \in [0..m -> S] /\ f[0] = a
                         /\ \A k \in 1..m : f[k] = step[k][f[k - 1]]
           T == {m \in 0..n : \E f \in [0..m -> S] : Good(f, m)}
<1>1. 0 \in T
  <2> DEFINE f == [k \in 0..0 |-> a]
  <2>1. f \in [0..0 -> S] /\ f[0] = a
    OBVIOUS
  <2> HIDE DEF f
  <2>2. Good(f, 0)
    BY <2>1
  <2> QED
    BY <2>1, <2>2
<1>2. ASSUME NEW m \in 0..n - 1, m \in T PROVE m + 1 \in T
  <2>1. PICK f \in [0..m -> S] : Good(f, m)
    BY <1>2
  <2> DEFINE v == step[m + 1][f[m]]
             g == [k \in 0..m + 1 |-> IF k = m + 1 THEN v ELSE f[k]]
  <2>2. m \in Nat /\ m + 1 \in 1..n /\ f[m] \in S /\ v \in S
    BY <2>1
  <2>3. g \in [0..m + 1 -> S]
    BY <2>1, <2>2
  <2>4. g[0] = a
    BY <2>1, <2>2
  <2>5. ASSUME NEW k \in 1..m + 1 PROVE g[k] = step[k][g[k - 1]]
    <3>1. CASE k = m + 1
      BY <3>1, <2>2
    <3>2. CASE k # m + 1
      <4>1. k \in 1..m /\ g[k] = f[k] /\ g[k - 1] = f[k - 1]
        BY <3>2, <2>2
      <4> QED
        BY <4>1, <2>1
    <3> QED
      BY <3>1, <3>2
  <2> HIDE DEF g
  <2>6. Good(g, m + 1)
    BY <2>3, <2>4, <2>5
  <2> QED
    BY <2>2, <2>3, <2>6
<1> HIDE DEF T
<1>3. 0..n \subseteq T
  BY <1>1, <1>2, CountingUp
<1>4. \E f \in [0..n -> S] : Good(f, n)
  BY <1>3 DEF T
<1> QED
  BY <1>4 DEF Iterates

=============================================================================
