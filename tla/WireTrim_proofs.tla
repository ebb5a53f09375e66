-------------------------- MODULE WireTrim_proofs --------------------------
(***************************************************************************)
(* The snapshot that is sent is a good one, whatever the registry: proved  *)
(* of WireTrim for agents, fields and lines of every size.                 *)
(*                                                                         *)
(* The size of a line is a fold, so what removing or shrinking an agent    *)
(* does to it takes induction over the agents: a set of numbers that has 0 *)
(* and with each number the next is all of them.                           *)
(***************************************************************************)
EXTENDS HostSide, FiniteSetTheorems, TLAPS

-----------------------------------------------------------------------------
(* The size of a line *)

\* The numbers are what 0 and the successor reach: a set closed under both, but for
\* some k, would map 0 .. k without it into itself less k.
LEMMA NatSetInduction ==
  ASSUME NEW T \in SUBSET Nat, 0 \in T, \A n \in T : n + 1 \in T
  PROVE  T = Nat
<1> SUFFICES ASSUME NEW k \in Nat \ T PROVE FALSE
  OBVIOUS
<1> DEFINE U == (0 .. k) \ T
           D == U \ {k}
           down == [i \in U |-> i - 1]
<1>1. IsFiniteSet(U) /\ k \in U /\ IsFiniteSet(D) /\ Cardinality(D) = Cardinality(U) - 1
      /\ Cardinality(U) \in Nat
  <2>1. IsFiniteSet(U)
    <3>1. IsFiniteSet(0 .. k) BY FS_Interval
    <3> QED BY <3>1, FS_Subset
  <2>2. k \in U OBVIOUS
  <2> HIDE DEF U
  <2> QED BY <2>1, <2>2, FS_RemoveElement, FS_CardinalityType
<1>2. down \in [U -> D]
  <2> SUFFICES ASSUME NEW i \in U PROVE i - 1 \in D
    OBVIOUS
  <2>1. i # 0 /\ i \in Nat OBVIOUS
  <2>2. i - 1 \in Nat /\ (i - 1) + 1 = i BY <2>1
  <2> QED BY <2>1, <2>2
<1>3. \A i, j \in U : i # j => down[i] # down[j]
  OBVIOUS
<1> HIDE DEF U, D, down
<1>4. Cardinality(D) < Cardinality(U) BY <1>1
<1>5. \E x, y \in U : x # y /\ down[x] = down[y]
  BY <1>1, <1>2, <1>4, FS_PigeonHole
<1> QED BY <1>3, <1>5

LEMMA LastOf ==
  ASSUME NEW n \in Nat
  PROVE  Max(1 .. (n + 1)) = n + 1 /\ (1 .. (n + 1)) \ {n + 1} = 1 .. n
<1>1. n + 1 \in 1 .. (n + 1) /\ \A y \in 1 .. (n + 1) : n + 1 >= y
  OBVIOUS
<1>2. \A x \in 1 .. (n + 1) : (\A y \in 1 .. (n + 1) : x >= y) => x = n + 1
  OBVIOUS
<1> QED BY <1>1, <1>2 DEF Max

\* The fold of v over sets of numbers up to n.
IsFold(u, v, n) ==
  u = [s \in SUBSET (1 .. n) |-> IF s = {} THEN 0 ELSE u[s \ {Max(s)}] + v[Max(s)]]

\* Some function is the fold, of whatever values.
LEMMA FoldExists ==
  ASSUME NEW v, NEW n \in Nat
  PROVE  \E u : IsFold(u, v, n)
<1> DEFINE T == {k \in Nat : \E u : IsFold(u, v, k)}
<1>1. 0 \in T
  <2> DEFINE u == [s \in SUBSET (1 .. 0) |-> 0]
  <2>1. \A s \in SUBSET (1 .. 0) : s = {}
    OBVIOUS
  <2>2. IsFold(u, v, 0)
    BY <2>1 DEF IsFold
  <2> QED BY <2>2
<1>2. ASSUME NEW k \in T PROVE k + 1 \in T
  <2>1. PICK u : IsFold(u, v, k)
    OBVIOUS
  <2> DEFINE w == [s \in SUBSET (1 .. (k + 1)) |->
                    IF k + 1 \in s THEN u[s \ {k + 1}] + v[k + 1] ELSE u[s]]
  <2>2. ASSUME NEW s \in SUBSET (1 .. (k + 1))
        PROVE  w[s] = IF s = {} THEN 0 ELSE w[s \ {Max(s)}] + v[Max(s)]
    <3>1. CASE k + 1 \in s
      <4>1. Max(s) = k + 1
        <5>1. \A y \in s : k + 1 >= y
          OBVIOUS
        <5>2. \A x \in s : (\A y \in s : x >= y) => x = k + 1
          BY <3>1
        <5> QED BY <3>1, <5>1, <5>2 DEF Max
      <4>2. s \ {k + 1} \in SUBSET (1 .. (k + 1)) /\ k + 1 \notin s \ {k + 1}
        OBVIOUS
      <4>3. w[s \ {k + 1}] = u[s \ {k + 1}]
        BY <4>2
      <4>4. w[s] = u[s \ {k + 1}] + v[k + 1] /\ s # {}
        BY <3>1
      <4> QED BY <4>1, <4>3, <4>4
    <3>2. CASE k + 1 \notin s
      <4>1. s \in SUBSET (1 .. k)
        BY <3>2
      <4>2. s \ {Max(s)} \in SUBSET (1 .. (k + 1)) /\ k + 1 \notin s \ {Max(s)}
        BY <3>2
      <4>3. w[s] = u[s] /\ w[s \ {Max(s)}] = u[s \ {Max(s)}]
        BY <3>2, <4>2
      <4>4. u[s] = IF s = {} THEN 0 ELSE u[s \ {Max(s)}] + v[Max(s)]
        BY <4>1, <2>1, Zenon DEF IsFold
      <4> QED BY <4>3, <4>4
    <3> QED BY <3>1, <3>2
  <2>3. w = [s \in SUBSET (1 .. (k + 1)) |-> w[s]]
    OBVIOUS
  <2> HIDE DEF w
  <2>4. IsFold(w, v, k + 1)
    BY <2>2, <2>3 DEF IsFold
  <2> QED BY <2>4
<1>3. T = Nat
  <2>1. T \in SUBSET Nat
    OBVIOUS
  <2> HIDE DEF T
  <2> QED BY <2>1, <1>1, <1>2, NatSetInduction
<1> QED BY <1>3

\* The bytes of each agent of a line.
Weights(q) == [i \in DOMAIN q |-> Bytes(q[i])]

\* t has the sums of the first weights.
Sums(t, v, n) ==
  t \in [0 .. n -> Int] /\ t[0] = 0 /\ \A k \in 1 .. n : t[k] = t[k - 1] + v[k]

LEMMA SumsExist ==
  ASSUME NEW n \in Nat, NEW v \in [1 .. n -> Int], NEW u, IsFold(u, v, n)
  PROVE  \E t : Sums(t, v, n) /\ t[n] = u[1 .. n]
<1> DEFINE t == [k \in 0 .. n |-> u[1 .. k]]
           T == {k \in Nat : k <= n => u[1 .. k] \in Int}
<1>1. u[1 .. 0] = 0
  <2>1. 1 .. 0 = {} /\ {} \in SUBSET (1 .. n)
    OBVIOUS
  <2> QED BY <2>1, Zenon DEF IsFold
<1>2. ASSUME NEW k \in Nat, k + 1 <= n
      PROVE  u[1 .. (k + 1)] = u[1 .. k] + v[k + 1]
  <2>1. 1 .. (k + 1) \in SUBSET (1 .. n) /\ 1 .. (k + 1) # {}
    BY <1>2
  <2>2. u[1 .. (k + 1)] = u[(1 .. (k + 1)) \ {Max(1 .. (k + 1))}] + v[Max(1 .. (k + 1))]
    BY <2>1, Zenon DEF IsFold
  <2> QED BY <2>2, LastOf
<1>3. T = Nat
  <2>1. 0 \in T
    BY <1>1
  <2>2. ASSUME NEW k \in T PROVE k + 1 \in T
    <3>1. ASSUME k + 1 <= n PROVE u[1 .. (k + 1)] \in Int
      <4>1. k + 1 \in 1 .. n /\ k <= n
        BY <3>1
      <4>2. v[k + 1] \in Int /\ u[1 .. k] \in Int
        BY <4>1
      <4>3. u[1 .. (k + 1)] = u[1 .. k] + v[k + 1]
        BY <3>1, <1>2
      <4> QED BY <4>2, <4>3
    <3> QED BY <3>1
  <2>3. T \in SUBSET Nat
    OBVIOUS
  <2> HIDE DEF T
  <2> QED BY <2>1, <2>2, <2>3, NatSetInduction
<1>4. t \in [0 .. n -> Int]
  <2>1. \A k \in 0 .. n : u[1 .. k] \in Int
    BY <1>3
  <2> QED BY <2>1
<1>5. t[0] = 0 /\ t[n] = u[1 .. n]
  BY <1>1
<1>6. ASSUME NEW k \in 1 .. n PROVE t[k] = t[k - 1] + v[k]
  <2>1. k - 1 \in Nat /\ (k - 1) + 1 = k /\ k <= n /\ k \in 0 .. n /\ k - 1 \in 0 .. n
    OBVIOUS
  <2>2. u[1 .. k] = u[1 .. (k - 1)] + v[k]
    BY <2>1, <1>2
  <2> QED BY <2>1, <2>2
<1> HIDE DEF t
<1> QED BY <1>4, <1>5, <1>6 DEF Sums

\* The sums of two rows of weights that begin alike.
LEMMA SumsAlike ==
  ASSUME NEW n \in Nat, NEW m \in Nat, NEW v, NEW w, NEW t, NEW r,
         Sums(t, v, n), Sums(r, w, m), NEW l \in Nat, l <= n, l <= m,
         \A k \in 1 .. l : v[k] = w[k]
  PROVE  t[l] = r[l]
<1> DEFINE T == {k \in Nat : k <= l => t[k] = r[k]}
<1>1. 0 \in T
  BY DEF Sums
<1>2. ASSUME NEW k \in T PROVE k + 1 \in T
  <2>1. ASSUME k + 1 <= l PROVE t[k + 1] = r[k + 1]
    <3>1. k + 1 \in 1 .. n /\ k + 1 \in 1 .. m /\ k + 1 \in 1 .. l /\ (k + 1) - 1 = k /\ k <= l
      BY <2>1
    <3>2. t[k + 1] = t[k] + v[k + 1] /\ r[k + 1] = r[k] + w[k + 1]
      BY <3>1 DEF Sums
    <3> QED BY <3>1, <3>2
  <2> QED BY <2>1
<1>3. T \in SUBSET Nat
  OBVIOUS
<1>4. T = Nat
  <2> HIDE DEF T
  <2> QED BY <1>1, <1>2, <1>3, NatSetInduction
<1> QED BY <1>4

LEMMA BytesNat ==
  ASSUME Base \in Nat, NEW a \in Agent
  PROVE  Bytes(a) \in Nat
BY DEF Agent, Bytes

\* A line's size is the last of the sums.
LEMMA SizeSums ==
  ASSUME Base \in Nat, NEW q \in Seq(Agent)
  PROVE  \E t : Sums(t, Weights(q), Len(q)) /\ t[Len(q)] = WireSize(q)
<1> DEFINE n == Len(q)
           v == Weights(q)
           F(u) == u = [s \in SUBSET (DOMAIN q) |->
                         IF s = {} THEN 0 ELSE u[s \ {Max(s)}] + Bytes(q[Max(s)])]
           G(u) == u = [s \in SUBSET (1 .. n) |->
                         IF s = {} THEN 0 ELSE u[s \ {Max(s)}] + v[Max(s)]]
<1>1. n \in Nat /\ DOMAIN q = 1 .. n
  OBVIOUS
<1>2. v \in [1 .. n -> Int]
  <2>1. \A i \in 1 .. n : Bytes(q[i]) \in Int
    BY BytesNat
  <2> QED BY <1>1, <2>1 DEF Weights
<1>3. WireSize(q) = (CHOOSE u : F(u))[DOMAIN q]
  BY DEF WireSize, FoldLeft, MapThenFoldSet
<1>4. ASSUME NEW u PROVE F(u) <=> G(u)
  <2>1. ASSUME NEW s \in SUBSET (1 .. n), s # {} PROVE Max(s) \in 1 .. n
    <3>1. \E x \in s : \A y \in s : x >= y
      <4> DEFINE T == {k \in Nat : k <= n =>
                         \A r \in SUBSET (1 .. k) : r # {} => \E x \in r : \A y \in r : x >= y}
      <4>1. 0 \in T
        <5>1. \A r \in SUBSET (1 .. 0) : r = {}
          OBVIOUS
        <5> QED BY <5>1
      <4>2. ASSUME NEW k \in T PROVE k + 1 \in T
        <5> SUFFICES ASSUME k + 1 <= n, NEW r \in SUBSET (1 .. (k + 1)), r # {}
                     PROVE  \E x \in r : \A y \in r : x >= y
          OBVIOUS
        <5>1. CASE k + 1 \in r
          BY <5>1
        <5>2. CASE k + 1 \notin r
          <6>1. r \in SUBSET (1 .. k) /\ k <= n
            BY <5>2
          <6> QED BY <6>1
        <5> QED BY <5>1, <5>2
      <4>3. T \in SUBSET Nat
        OBVIOUS
      <4>4. T = Nat
        <5> HIDE DEF T
        <5> QED BY <4>1, <4>2, <4>3, NatSetInduction
      <4>5. n \in T
        BY <4>4, <1>1
      <4> QED BY <4>5, <2>1
    <3> QED BY <3>1 DEF Max
  <2>2. \A s \in SUBSET (1 .. n) : s # {} => v[Max(s)] = Bytes(q[Max(s)])
    BY <2>1, <1>1 DEF Weights
  <2> HIDE DEF v
  <2>3. [s \in SUBSET (DOMAIN q) |-> IF s = {} THEN 0 ELSE u[s \ {Max(s)}] + Bytes(q[Max(s)])]
      = [s \in SUBSET (1 .. n) |-> IF s = {} THEN 0 ELSE u[s \ {Max(s)}] + v[Max(s)]]
    BY <1>1, <2>2
  <2> QED BY <2>3
<1>5. F(CHOOSE u : F(u))
  <2>1. \E u : IsFold(u, v, n)
    BY <1>1, FoldExists
  <2>2. \E u : G(u)
    BY <2>1 DEF IsFold
  <2> HIDE DEF F, G
  <2> QED BY <2>2, <1>4
<1> DEFINE c == CHOOSE u : F(u)
<1>6. IsFold(c, v, n)
  <2>1. G(c)
    <3> HIDE DEF F, G
    <3> QED BY <1>5, <1>4
  <2> HIDE DEF c
  <2> QED BY <2>1 DEF IsFold
<1>7. WireSize(q) = c[1 .. n]
  BY <1>1, <1>3
<1> HIDE DEF c, n, v
<1>8. \E t : Sums(t, v, n) /\ t[n] = c[1 .. n]
  BY <1>1, <1>2, <1>6, SumsExist
<1> QED BY <1>7, <1>8 DEF n, v

\* What the sizes are that the stages compare.
LEMMA SizeInt ==
  ASSUME Base \in Nat, NEW q \in Seq(Agent)
  PROVE  WireSize(q) \in Int
<1>1. PICK t : Sums(t, Weights(q), Len(q)) /\ t[Len(q)] = WireSize(q)
  BY SizeSums
<1>2. Len(q) \in 0 .. Len(q)
  OBVIOUS
<1> QED BY <1>1, <1>2 DEF Sums

LEMMA SizeSmall ==
  ASSUME Base \in Nat, NEW q \in Seq(Agent)
  PROVE  /\ Len(q) = 0 => WireSize(q) = 0
         /\ Len(q) = 1 => WireSize(q) = Bytes(q[1])
<1>1. PICK t : Sums(t, Weights(q), Len(q)) /\ t[Len(q)] = WireSize(q)
  BY SizeSums
<1>2. ASSUME Len(q) = 0 PROVE WireSize(q) = 0
  BY <1>1, <1>2 DEF Sums
<1>3. ASSUME Len(q) = 1 PROVE WireSize(q) = Bytes(q[1])
  <2>1. 1 \in 1 .. Len(q) /\ 1 \in DOMAIN q /\ 1 - 1 = 0
    BY <1>3
  <2>2. t[1] = t[0] + Weights(q)[1] /\ t[0] = 0
    BY <1>1, <2>1 DEF Sums
  <2>3. Weights(q)[1] = Bytes(q[1]) /\ Bytes(q[1]) \in Nat
    BY <2>1, BytesNat DEF Weights
  <2> QED BY <2>2, <2>3, <1>1, <1>3
<1> QED BY <1>2, <1>3

\* What RemoveAt leaves.
LEMMA Removed ==
  ASSUME NEW q \in Seq(Agent), NEW d \in DOMAIN q
  PROVE  /\ RemoveAt(q, d) \in Seq(Agent) /\ Len(RemoveAt(q, d)) = Len(q) - 1
         /\ \A k \in 1 .. (Len(q) - 1) :
              RemoveAt(q, d)[k] = IF k < d THEN q[k] ELSE q[k + 1]
<1> DEFINE b == SubSeq(q, 1, d - 1)
           e == SubSeq(q, d + 1, Len(q))
<1>1. d \in 1 .. Len(q) /\ Len(q) \in Nat
  OBVIOUS
<1>2. b \in Seq(Agent) /\ Len(b) = d - 1 /\ \A k \in 1 .. (d - 1) : b[k] = q[k]
  BY <1>1
<1>3. e \in Seq(Agent) /\ Len(e) = Len(q) - d /\ \A k \in 1 .. (Len(q) - d) : e[k] = q[d + k]
  BY <1>1
<1>4. RemoveAt(q, d) = b \o e
  BY DEF RemoveAt
<1> HIDE DEF b, e
<1>5. b \o e \in Seq(Agent) /\ Len(b \o e) = Len(q) - 1
  BY <1>1, <1>2, <1>3
<1>6. ASSUME NEW k \in 1 .. (Len(q) - 1)
      PROVE  (b \o e)[k] = IF k < d THEN q[k] ELSE q[k + 1]
  <2>1. CASE k < d
    <3>1. k \in 1 .. Len(b) /\ k \in 1 .. (d - 1)
      BY <2>1, <1>1, <1>2
    <3>2. (b \o e)[k] = b[k]
      BY <3>1, <1>2, <1>3
    <3> QED BY <2>1, <3>1, <3>2, <1>2
  <2>2. CASE ~(k < d)
    <3>1. k - Len(b) \in 1 .. (Len(q) - d) /\ k > Len(b) /\ k <= Len(b) + Len(e) /\ d + (k - Len(b)) = k + 1
      BY <2>2, <1>1, <1>2, <1>3
    <3>2. (b \o e)[k] = e[k - Len(b)]
      BY <3>1, <1>2, <1>3
    <3>3. e[k - Len(b)] = q[d + (k - Len(b))]
      BY <3>1, <1>3
    <3> QED BY <2>2, <3>1, <3>2, <3>3
  <2> QED BY <2>1, <2>2
<1> QED BY <1>4, <1>5, <1>6

\* Dropping an agent takes its bytes off the line.
LEMMA SizeRemoved ==
  ASSUME Base \in Nat, NEW q \in Seq(Agent), NEW d \in DOMAIN q
  PROVE  WireSize(RemoveAt(q, d)) = WireSize(q) - Bytes(q[d])
<1> DEFINE p == RemoveAt(q, d)
           n == Len(q)
           x == Bytes(q[d])
<1>1. p \in Seq(Agent) /\ Len(p) = n - 1 /\ d \in 1 .. n /\ n \in Nat /\ DOMAIN p = 1 .. (n - 1)
      /\ \A k \in 1 .. (n - 1) : p[k] = IF k < d THEN q[k] ELSE q[k + 1]
  BY Removed
<1> HIDE DEF p
<1>2. PICK t : Sums(t, Weights(q), n) /\ t[n] = WireSize(q)
  BY SizeSums
<1>3. PICK r : Sums(r, Weights(p), n - 1) /\ r[n - 1] = WireSize(p)
  BY SizeSums, <1>1
<1>4. x \in Nat /\ DOMAIN q = 1 .. n /\ \A i \in 1 .. n : q[i] \in Agent
  BY BytesNat
<1>5. \A k \in 1 .. n : t[k] = t[k - 1] + Bytes(q[k])
  BY <1>2, <1>4 DEF Sums, Weights
<1>6. \A k \in 1 .. (n - 1) : r[k] = r[k - 1] + (IF k < d THEN Bytes(q[k]) ELSE Bytes(q[k + 1]))
  BY <1>3, <1>1 DEF Sums, Weights
<1>7. t \in [0 .. n -> Int] /\ r \in [0 .. (n - 1) -> Int] /\ t[0] = 0 /\ r[0] = 0
  BY <1>2, <1>3 DEF Sums
<1> HIDE DEF n, x
<1> DEFINE T == {k \in Nat : k <= n - 1 => r[k] = IF k < d THEN t[k] ELSE t[k + 1] - x}
<1>8. 0 \in T
  BY <1>1, <1>7
<1>9. ASSUME NEW k \in T PROVE k + 1 \in T
  <2> SUFFICES ASSUME k + 1 <= n - 1
               PROVE  r[k + 1] = IF k + 1 < d THEN t[k + 1] ELSE t[k + 2] - x
    BY <1>1
  <2>1. /\ k \in Nat /\ k + 1 \in 1 .. (n - 1) /\ (k + 1) - 1 = k /\ k + 1 \in 1 .. n
        /\ k + 2 \in 1 .. n /\ (k + 2) - 1 = k + 1 /\ k <= n - 1 /\ (k + 1) + 1 = k + 2
    BY <1>1
  <2>2. r[k] = IF k < d THEN t[k] ELSE t[k + 1] - x
    BY <2>1
  <2>3. r[k + 1] = r[k] + (IF k + 1 < d THEN Bytes(q[k + 1]) ELSE Bytes(q[k + 2]))
    BY <2>1, <1>6
  <2>4. t[k + 1] = t[k] + Bytes(q[k + 1]) /\ t[k + 2] = t[k + 1] + Bytes(q[k + 2])
    BY <2>1, <1>5
  <2>5. PICK y \in Int, z \in Int, b \in Int, c \in Int :
          y = t[k] /\ z = t[k + 1] /\ b = Bytes(q[k + 1]) /\ c = Bytes(q[k + 2])
    <3>1. k \in 0 .. n /\ k + 1 \in 0 .. n
      BY <2>1, <1>1
    <3>2. q[k + 1] \in Agent /\ q[k + 2] \in Agent
      BY <2>1, <1>4
    <3>3. Bytes(q[k + 1]) \in Int /\ Bytes(q[k + 2]) \in Int
      BY <3>2, BytesNat
    <3> QED BY <3>1, <3>3, <1>7
  <2>6. CASE k + 1 < d
    <3>1. k < d
      BY <2>6, <2>1, <1>1
    <3> QED BY <3>1, <2>2, <2>3, <2>4, <2>6
  <2>7. CASE k + 1 = d
    <3>1. x = Bytes(q[k + 1]) /\ k < d /\ ~(k + 1 < d)
      BY <2>7, <2>1, <1>1 DEF x
    <3>2. r[k] = y /\ r[k + 1] = y + c /\ z = y + b /\ t[k + 2] = z + c /\ x = b
      BY <3>1, <2>2, <2>3, <2>4, <2>5
    <3> QED BY <3>1, <3>2
  <2>8. CASE k + 1 > d
    <3>1. ~(k < d) /\ ~(k + 1 < d)
      BY <2>8, <2>1, <1>1
    <3>2. r[k] = z - x /\ r[k + 1] = (z - x) + c /\ t[k + 2] = z + c
      BY <3>1, <2>2, <2>3, <2>4, <2>5
    <3> QED BY <3>1, <3>2, <1>4
  <2> QED BY <2>1, <1>1, <2>6, <2>7, <2>8
<1>10. T = Nat
  <2>1. T \in SUBSET Nat
    OBVIOUS
  <2> HIDE DEF T
  <2> QED BY <2>1, <1>8, <1>9, NatSetInduction
<1>11. n - 1 \in T /\ n - 1 \in Nat
  BY <1>10, <1>1
<1>12. r[n - 1] = IF n - 1 < d THEN t[n - 1] ELSE t[(n - 1) + 1] - x
  BY <1>11
<1>13. CASE d = n
  <2>1. t[n] = t[n - 1] + x
    BY <1>13, <1>5, <1>1 DEF x
  <2>2. t[n - 1] \in Int /\ n - 1 < d
    BY <1>13, <1>7, <1>11, <1>1
  <2>3. WireSize(p) = t[n] - x
    BY <2>1, <2>2, <1>12, <1>3, <1>4
  <2> QED BY <2>3, <1>2 DEF p, x
<1>14. CASE d # n
  <2>1. ~(n - 1 < d) /\ (n - 1) + 1 = n
    BY <1>14, <1>1
  <2>2. WireSize(p) = t[n] - x
    BY <2>1, <1>12, <1>3
  <2> QED BY <2>2, <1>2 DEF p, x
<1> QED BY <1>13, <1>14

-----------------------------------------------------------------------------
(* The agents the stages choose *)

LEMMA Fields ==
  ASSUME NEW a \in Agent
  PROVE  /\ a.id \in Nat /\ a.since \in Nat /\ a.active \in Nat /\ a.entries \in Nat
         /\ a.context \in Nat /\ a.cwd \in Nat /\ a.text \in Nat /\ a.options \in Nat
BY DEF Agent

LEMMA Places ==
  ASSUME NEW q \in Seq(Agent)
  PROVE  /\ Len(q) \in Nat /\ DOMAIN q = 1 .. Len(q)
         /\ \A i \in DOMAIN q : i \in Nat /\ i # 0 /\ q[i] \in Agent
OBVIOUS

\* Of some agents one has the least value, the first of those that have it.
LEMMA LeastExists ==
  ASSUME NEW n \in Nat, NEW v \in [1 .. n -> Int], NEW W \in SUBSET (1 .. n), W # {}
  PROVE  \E i \in W : \A j \in W : v[j] > v[i] \/ (v[j] = v[i] /\ i <= j)
<1> DEFINE Least(X, i) == \A j \in X : v[j] > v[i] \/ (v[j] = v[i] /\ i <= j)
           T == {k \in Nat : k <= n => \A X \in SUBSET (1 .. k) : X # {} => \E i \in X : Least(X, i)}
<1>0. \A X, i : Least(X, i) <=> \A j \in X : v[j] > v[i] \/ (v[j] = v[i] /\ i <= j)
  OBVIOUS
<1> HIDE DEF Least
<1>1. 0 \in T
  <2>1. \A X \in SUBSET (1 .. 0) : X = {}
    OBVIOUS
  <2> QED BY <2>1
<1>2. ASSUME NEW k \in T PROVE k + 1 \in T
  <2> SUFFICES ASSUME k + 1 <= n, NEW X \in SUBSET (1 .. (k + 1)), X # {}
               PROVE  \E i \in X : Least(X, i)
    OBVIOUS
  <2>1. /\ k \in Nat /\ k <= n /\ k + 1 \in 1 .. n
        /\ \A Y \in SUBSET (1 .. k) : Y # {} => \E i \in Y : Least(Y, i)
    OBVIOUS
  <2> DEFINE Y == X \ {k + 1}
  <2>2. Y \in SUBSET (1 .. k)
    BY <2>1
  <2>3. CASE Y = {}
    <3>1. \A j \in X : j = k + 1
      BY <2>3
    <3>2. k + 1 \in X
      BY <3>1
    <3>3. \A j \in X : v[j] > v[k + 1] \/ (v[j] = v[k + 1] /\ k + 1 <= j)
      <4>1. \A j \in X : v[j] = v[k + 1]
        BY <3>1
      <4>2. \A j \in X : k + 1 <= j
        <5>1. k + 1 <= k + 1
          BY <2>1
        <5> QED BY <3>1, <5>1, Zenon
      <4> QED BY <4>1, <4>2, Zenon
    <3>4. Least(X, k + 1)
      BY <1>0, <3>3, Zenon
    <3> QED BY <3>2, <3>4
  <2>4. CASE Y # {} /\ k + 1 \notin X
    BY <2>1, <2>2, <2>4
  <2>5. CASE Y # {} /\ k + 1 \in X
    <3>1. PICK i \in Y : Least(Y, i)
      BY <2>1, <2>2, <2>5
    <3>2. \A j \in X : j \in Y \/ j = k + 1
      OBVIOUS
    <3>3. v[k + 1] \in Int /\ v[i] \in Int /\ i \in Nat /\ i <= k + 1 /\ i \in X
      BY <2>1
    <3>4. \A j \in X : v[j] \in Int
      BY <2>1
    <3>5. CASE v[k + 1] < v[i]
      <4>1. \A j \in Y : v[j] > v[i] \/ (v[j] = v[i] /\ i <= j)
        BY <1>0, <3>1, Zenon
      <4>2. \A j \in Y : v[j] > v[k + 1]
        BY <4>1, <3>3, <3>4, <3>5
      <4>3. \A j \in X : v[j] > v[k + 1] \/ (v[j] = v[k + 1] /\ k + 1 <= j)
        <5>1. \A j \in X : j = k + 1 => k + 1 <= j
          BY <2>1
        <5> QED BY <4>2, <3>2, <5>1, Zenon
      <4>4. Least(X, k + 1)
        BY <1>0, <4>3, Zenon
      <4> QED BY <4>4, <2>5
    <3>6. CASE ~(v[k + 1] < v[i])
      <4>1. Least(X, i)
        BY <3>1, <3>2, <3>3, <3>4, <3>6, <1>0
      <4> QED BY <4>1, <3>3
    <3> QED BY <3>5, <3>6
  <2> QED BY <2>3, <2>4, <2>5
<1>3. T = Nat
  <2>1. T \in SUBSET Nat
    OBVIOUS
  <2> HIDE DEF T
  <2> QED BY <2>1, <1>1, <1>2, NatSetInduction
<1>4. n \in T
  BY <1>3
<1>5. n <= n
  OBVIOUS
<1> QED BY <1>0, <1>4, <1>5

LEMMA OldestOf ==
  ASSUME NEW q \in Seq(Agent), NEW W \in SUBSET DOMAIN q, W # {}
  PROVE  /\ Oldest(q, W) \in W
         /\ \A j \in W : \/ q[j].active > q[Oldest(q, W)].active
                         \/ q[j].active = q[Oldest(q, W)].active /\ Oldest(q, W) <= j
<1> DEFINE v == [i \in 1 .. Len(q) |-> q[i].active]
<1>1. v \in [1 .. Len(q) -> Int] /\ DOMAIN q = 1 .. Len(q) /\ Len(q) \in Nat
  BY Places, Fields
<1>2. \A i \in W : v[i] = q[i].active
  BY <1>1
<1> HIDE DEF v
<1>3. \E i \in W : \A j \in W : v[j] > v[i] \/ (v[j] = v[i] /\ i <= j)
  BY <1>1, LeastExists
<1>4. \E i \in W :
        \A j \in W : q[j].active > q[i].active \/ (q[j].active = q[i].active /\ i <= j)
  BY <1>2, <1>3
<1> QED BY <1>4, Zenon DEF Oldest

Waits(q) == {i \in DOMAIN q : q[i].since # 0}

\* The turn that came back last, the first listed of those that did.
IsLatest(q, i) ==
  /\ i \in Waits(q)
  /\ \A j \in Waits(q) : q[j].since < q[i].since \/ (q[j].since = q[i].since /\ i <= j)

LEMMA AnchorOf ==
  ASSUME NEW q \in Seq(Agent)
  PROVE  /\ Waits(q) = {} => Anchor(q) = 0
         /\ Waits(q) # {} => IsLatest(q, Anchor(q))
         /\ \A i : IsLatest(q, i) => Anchor(q) = i
<1>1. DOMAIN q = 1 .. Len(q) /\ Len(q) \in Nat /\ \A i \in DOMAIN q : q[i].since \in Nat
  BY Places, Fields
<1>2. ASSUME Waits(q) = {} PROVE Anchor(q) = 0
  BY <1>2 DEF Anchor, Waits
<1>3. ASSUME Waits(q) # {} PROVE IsLatest(q, Anchor(q))
  <2> DEFINE v == [i \in 1 .. Len(q) |-> 0 - q[i].since]
             W == Waits(q)
  <2>1. v \in [1 .. Len(q) -> Int] /\ W \in SUBSET (1 .. Len(q))
    BY <1>1 DEF Waits
  <2>2. \A i \in W : v[i] = 0 - q[i].since /\ q[i].since \in Nat /\ i \in Nat
    BY <1>1, <2>1
  <2>3. W # {}
    BY <1>3
  <2> HIDE DEF v, W
  <2>4. \E i \in W : \A j \in W : v[j] > v[i] \/ (v[j] = v[i] /\ i <= j)
    BY <1>1, <2>1, <2>3, LeastExists
  <2>5. \E i \in W :
          \A j \in W : q[j].since < q[i].since \/ (q[j].since = q[i].since /\ i <= j)
    <3>1. PICK i \in W : \A j \in W : v[j] > v[i] \/ (v[j] = v[i] /\ i <= j)
      BY <2>4
    <3>2. ASSUME NEW j \in W
          PROVE  q[j].since < q[i].since \/ (q[j].since = q[i].since /\ i <= j)
      <4>1. PICK x \in Nat, y \in Nat : x = q[i].since /\ y = q[j].since
        BY <2>2
      <4>2. v[i] = 0 - x /\ v[j] = 0 - y
        BY <4>1, <2>2
      <4>3. v[j] > v[i] \/ (v[j] = v[i] /\ i <= j)
        BY <3>1
      <4> QED BY <4>1, <4>2, <4>3
    <3> QED BY <3>2
  <2>6. Anchor(q) = CHOOSE i \in W :
          \A j \in W : q[j].since < q[i].since \/ (q[j].since = q[i].since /\ i <= j)
    BY <2>3 DEF W, Waits, Anchor
  <2>7. /\ Anchor(q) \in W
        /\ \A j \in W : \/ q[j].since < q[Anchor(q)].since
                        \/ q[j].since = q[Anchor(q)].since /\ Anchor(q) <= j
    BY <2>5, <2>6, Zenon
  <2> QED BY <2>7 DEF W, IsLatest
<1>4. ASSUME NEW i, IsLatest(q, i) PROVE Anchor(q) = i
  <2>1. Waits(q) # {} /\ i \in Waits(q)
    BY <1>4 DEF IsLatest
  <2>2. IsLatest(q, Anchor(q))
    BY <1>3, <2>1
  <2>3. Anchor(q) \in Waits(q)
    BY <2>2 DEF IsLatest
  <2>4. /\ q[i].since < q[Anchor(q)].since \/ (q[i].since = q[Anchor(q)].since /\ Anchor(q) <= i)
        /\ q[Anchor(q)].since < q[i].since \/ (q[Anchor(q)].since = q[i].since /\ i <= Anchor(q))
    BY <1>4, <2>1, <2>2, <2>3 DEF IsLatest
  <2>5. Anchor(q) \in Nat /\ i \in Nat /\ q[i].since \in Nat /\ q[Anchor(q)].since \in Nat
    BY <1>1, <2>1, <2>3 DEF Waits
  <2> QED BY <2>4, <2>5
<1> QED BY <1>2, <1>3, <1>4
-----------------------------------------------------------------------------
(* The invariant *)

\* The positions in a of the agents that s no longer has, when f tells where
\* each of its agents was in a.
Left(a, f) == {j \in DOMAIN a : \A k \in DOMAIN f : f[k] # j}

\* b is what the stages have left of the agent e: who it is, and at most as much
\* of the rest.
Shrunk(b, e) ==
  /\ b.id = e.id /\ b.since = e.since /\ b.active = e.active
  /\ b.entries <= e.entries /\ b.context <= e.context /\ b.cwd <= e.cwd
  /\ b.text <= e.text /\ b.options <= e.options

\* s is some of the agents of a, in a's order, the anchor among them.
Selection(a, s, f) ==
  /\ f \in [DOMAIN s -> DOMAIN a]
  /\ \A k, l \in DOMAIN s : k < l => f[k] < f[l]
  /\ \A k \in DOMAIN s : Shrunk(s[k], a[f[k]])
  /\ Anchor(a) # 0 => Anchor(a) \notin Left(a, f)

Stripped(a, s, f, field) ==
  Fits(s) \/ \A k \in DOMAIN s : f[k] # Anchor(a) => s[k][field] = 0

\* What the stages before g have done.
Done(a, s, g, f) ==
  /\ g \in 3 .. 5 => Stripped(a, s, f, "context")
  /\ g \in 4 .. 5 => Stripped(a, s, f, "cwd")
  /\ g = 5 => \/ Fits(s) \/ Len(s) <= 1
              \/ \A k \in DOMAIN s : f[k] # Anchor(a) => s[k].since # 0
  /\ g = 6 => Fits(s) \/ Len(s) <= 1
  /\ g = Sent => Fits(s)

\* What GoodSnapshot asks of the choice of the agents, at every stage.
Choice(a, s, g, f) ==
  /\ g <= 3 => Left(a, f) = {}
  /\ \A k \in DOMAIN s, j \in Left(a, f) : Outranks(a, f[k], j)
  /\ \A j \in Left(a, f) :
       Len(s) > 1 /\ (\A k \in Left(a, f) : ~Outranks(a, k, j)) =>
         WireSize(s) + Bytes(Lean(a[j])) > WireMax
  /\ Fits(a) => s = a

Good(a, s, g, f) == Selection(a, s, f) /\ Done(a, s, g, f) /\ Choice(a, s, g, f)

\* A state of the trimming's inductive invariant.
TrimInv ==
  /\ agents \in Registries /\ snap \in Seq(Agent) /\ stage \in 1 .. Sent
  /\ \E f \in [DOMAIN snap -> DOMAIN agents] : Good(agents, snap, stage, f)

\* The anchor of what is left is the anchor of the registry.
LEMMA AnchorStands ==
  ASSUME NEW a \in Seq(Agent), NEW s \in Seq(Agent), NEW f, Selection(a, s, f)
  PROVE  \A k \in DOMAIN s : k = Anchor(s) <=> f[k] = Anchor(a)
<1> DEFINE A == Anchor(a)
<1>1. f \in [DOMAIN s -> DOMAIN a] /\ DOMAIN s = 1 .. Len(s) /\ DOMAIN a = 1 .. Len(a)
      /\ Len(s) \in Nat /\ Len(a) \in Nat
  BY DEF Selection
<1>2. \A k \in DOMAIN s : s[k].since = a[f[k]].since
  BY DEF Selection, Shrunk
<1>3. \A k, l \in DOMAIN s : k < l => f[k] < f[l]
  BY DEF Selection
<1>4. \A k \in DOMAIN s : f[k] \in DOMAIN a /\ f[k] \in Nat /\ k \in Nat /\ k # 0 /\ f[k] # 0
  BY <1>1
<1>5. \A k \in Waits(s) : f[k] \in Waits(a) /\ k \in DOMAIN s
  BY <1>2, <1>4 DEF Waits
<1>6. CASE Waits(a) = {}
  <2>1. Waits(s) = {}
    BY <1>5, <1>6
  <2>2. Anchor(s) = 0 /\ A = 0
    BY <2>1, <1>6, AnchorOf
  <2> QED BY <2>2, <1>4
<1>7. CASE Waits(a) # {}
  <2>1. IsLatest(a, A)
    BY <1>7, AnchorOf
  <2>2. A \in DOMAIN a /\ A # 0
    BY <2>1, <1>1 DEF IsLatest, Waits
  <2>3. PICK p \in DOMAIN s : f[p] = A
    BY <2>2, <1>1 DEF Selection, Left
  <2>4. p \in Waits(s)
    BY <2>1, <2>3, <1>2 DEF IsLatest, Waits
  <2>5. ASSUME NEW j \in Waits(s)
        PROVE  s[j].since < s[p].since \/ (s[j].since = s[p].since /\ p <= j)
    <3>1. f[j] \in Waits(a) /\ j \in DOMAIN s
      BY <1>5
    <3>2. a[f[j]].since < a[A].since \/ (a[f[j]].since = a[A].since /\ A <= f[j])
      BY <2>1, <3>1 DEF IsLatest
    <3>3. A <= f[j] => p <= j
      <4>1. j < p => f[j] < f[p]
        BY <1>3, <3>1
      <4> QED BY <4>1, <1>4, <2>3, <3>1
    <3> QED BY <3>1, <3>2, <3>3, <1>2, <2>3
  <2>6. IsLatest(s, p)
    BY <2>4, <2>5 DEF IsLatest
  <2>7. Anchor(s) = p
    BY <2>6, AnchorOf
  <2>8. \A k \in DOMAIN s : f[k] = A => k = p
    <3>1. \A k \in DOMAIN s : (k < p => f[k] < f[p]) /\ (p < k => f[p] < f[k])
      BY <1>3
    <3> QED BY <3>1, <1>4, <2>3
  <2> QED BY <2>3, <2>7, <2>8
<1> QED BY <1>6, <1>7

-----------------------------------------------------------------------------
(* Stages that drop no agent *)

Cuttable == {"entries", "context", "cwd", "text", "options"}

Replaces(r, q, i, b) ==
  /\ r \in Seq(Agent) /\ Len(r) = Len(q) /\ DOMAIN r = DOMAIN q /\ r[i] = b
  /\ \A j \in DOMAIN q : r[j] = IF j = i THEN b ELSE q[j]

LEMMA Replaced ==
  ASSUME NEW q \in Seq(Agent), NEW i \in DOMAIN q, NEW b \in Agent,
         NEW r, r = [q EXCEPT ![i] = b]
  PROVE  Replaces(r, q, i, b)
BY DEF Replaces

LEMMA Listed ==
  ASSUME NEW n \in Nat, NEW r \in [1 .. n -> Agent]
  PROVE  r \in Seq(Agent) /\ Len(r) = n
OBVIOUS

\* c is b with x in the field.
CutTo(c, b, field, x) ==
  /\ c \in Agent /\ Shrunk(c, b)
  /\ \A g \in Cuttable : c[g] = IF g = field THEN x ELSE b[g]

LEMMA CutField ==
  ASSUME NEW b \in Agent, NEW field \in Cuttable, NEW x \in Nat, x <= b[field],
         NEW c, c = [b EXCEPT ![field] = x]
  PROVE  CutTo(c, b, field, x)
<1>1. CASE field = "entries"
  BY <1>1 DEF Agent, Shrunk, Cuttable, CutTo
<1>2. CASE field = "context"
  BY <1>2 DEF Agent, Shrunk, Cuttable, CutTo
<1>3. CASE field = "cwd"
  BY <1>3 DEF Agent, Shrunk, Cuttable, CutTo
<1>4. CASE field = "text"
  BY <1>4 DEF Agent, Shrunk, Cuttable, CutTo
<1>5. CASE field = "options"
  BY <1>5 DEF Agent, Shrunk, Cuttable, CutTo
<1> QED BY <1>1, <1>2, <1>3, <1>4, <1>5 DEF Cuttable

LEMMA ShrunkChain ==
  ASSUME NEW a \in Agent, NEW b \in Agent, NEW c \in Agent, Shrunk(c, b), Shrunk(b, a)
  PROVE  Shrunk(c, a)
BY Fields DEF Shrunk

LEMMA ShrunkSame ==
  ASSUME NEW a \in Agent
  PROVE  Shrunk(a, a)
BY Fields DEF Shrunk

\* Shrinking agents leaves the choice of them what it was.
LEMMA ShrinkKeeps ==
  ASSUME NEW a \in Seq(Agent), NEW s \in Seq(Agent), NEW r \in Seq(Agent), NEW f,
         NEW g \in 1 .. Sent, NEW h \in 1 .. Sent,
         Selection(a, s, f), Choice(a, s, g, f),
         DOMAIN r = DOMAIN s, \A k \in DOMAIN s : Shrunk(r[k], s[k]),
         Fits(s) => r = s,
         h <= 3 => g <= 3,
         Left(a, f) = {} \/ r = s \/ Len(s) <= 1
  PROVE  Selection(a, r, f) /\ Choice(a, r, h, f)
<1>1. Len(r) = Len(s) /\ Len(s) \in Nat
  <2>1. 1 .. Len(r) = 1 .. Len(s) /\ Len(r) \in Nat /\ Len(s) \in Nat
    OBVIOUS
  <2>2. ASSUME NEW m \in Nat, NEW n \in Nat, 1 .. m = 1 .. n PROVE m = n
    <3>1. CASE m < n
      <4>1. n \in 1 .. n /\ n \notin 1 .. m
        BY <3>1
      <4> QED BY <4>1, <2>2
    <3>2. CASE n < m
      <4>1. m \in 1 .. m /\ m \notin 1 .. n
        BY <3>2
      <4> QED BY <4>1, <2>2
    <3> QED BY <3>1, <3>2
  <2> QED BY <2>1, <2>2
<1>2. Selection(a, r, f)
  <2>1. f \in [DOMAIN s -> DOMAIN a] /\ \A k \in DOMAIN s : Shrunk(s[k], a[f[k]])
    BY DEF Selection
  <2>2. \A k \in DOMAIN s : r[k] \in Agent /\ s[k] \in Agent /\ f[k] \in DOMAIN a
    BY <2>1
  <2>3. \A k \in DOMAIN s : Shrunk(r[k], a[f[k]])
    BY <2>1, <2>2, ShrunkChain
  <2> QED BY <2>1, <2>3 DEF Selection
<1>3. Choice(a, r, h, f)
  <2>1. h <= 3 => Left(a, f) = {}
    BY DEF Choice
  <2>2. \A k \in DOMAIN r, j \in Left(a, f) : Outranks(a, f[k], j)
    BY DEF Choice
  <2>3. ASSUME NEW j \in Left(a, f), Len(r) > 1, \A k \in Left(a, f) : ~Outranks(a, k, j)
        PROVE  WireSize(r) + Bytes(Lean(a[j])) > WireMax
    <3>1. r = s
      BY <1>1, <2>3
    <3> QED BY <2>3, <3>1 DEF Choice
  <2>4. Fits(a) => r = a
    BY DEF Choice
  <2> QED BY <2>1, <2>2, <2>3, <2>4 DEF Choice
<1> QED BY <1>2, <1>3

LEMMA BytesOf ==
  ASSUME Base \in Nat, NEW b \in Agent, NEW c \in Agent, NEW field \in Cuttable,
         \A g \in Cuttable : g # field => b[g] = c[g]
  PROVE  Bytes(b) = Bytes(c) + (b[field] - c[field])
<1>1. /\ "entries" = field \/ b.entries = c.entries
      /\ "context" = field \/ b.context = c.context
      /\ "cwd" = field \/ b.cwd = c.cwd
      /\ "text" = field \/ b.text = c.text
      /\ "options" = field \/ b.options = c.options
  BY DEF Cuttable
<1>2. /\ b.entries \in Nat /\ b.context \in Nat /\ b.cwd \in Nat /\ b.text \in Nat
      /\ b.options \in Nat
  BY Fields
<1>3. /\ c.entries \in Nat /\ c.context \in Nat /\ c.cwd \in Nat /\ c.text \in Nat
      /\ c.options \in Nat
  BY Fields
<1>4. CASE field = "entries"
  <2>1. b[field] = b.entries /\ c[field] = c.entries
    BY <1>4
  <2>2. b.context = c.context /\ b.cwd = c.cwd /\ b.text = c.text /\ b.options = c.options
    BY <1>1, <1>4
  <2> QED BY <1>2, <1>3, <2>1, <2>2 DEF Bytes
<1>5. CASE field = "context"
  <2>1. b[field] = b.context /\ c[field] = c.context
    BY <1>5
  <2>2. b.entries = c.entries /\ b.cwd = c.cwd /\ b.text = c.text /\ b.options = c.options
    BY <1>1, <1>5
  <2> QED BY <1>2, <1>3, <2>1, <2>2 DEF Bytes
<1>6. CASE field = "cwd"
  <2>1. b[field] = b.cwd /\ c[field] = c.cwd
    BY <1>6
  <2>2. b.entries = c.entries /\ b.context = c.context /\ b.text = c.text /\ b.options = c.options
    BY <1>1, <1>6
  <2> QED BY <1>2, <1>3, <2>1, <2>2 DEF Bytes
<1>7. CASE field = "text"
  <2>1. b[field] = b.text /\ c[field] = c.text
    BY <1>7
  <2>2. b.entries = c.entries /\ b.context = c.context /\ b.cwd = c.cwd /\ b.options = c.options
    BY <1>1, <1>7
  <2> QED BY <1>2, <1>3, <2>1, <2>2 DEF Bytes
<1>8. CASE field = "options"
  <2>1. b[field] = b.options /\ c[field] = c.options
    BY <1>8
  <2>2. b.entries = c.entries /\ b.context = c.context /\ b.cwd = c.cwd /\ b.text = c.text
    BY <1>1, <1>8
  <2> QED BY <1>2, <1>3, <2>1, <2>2 DEF Bytes
<1> QED BY <1>4, <1>5, <1>6, <1>7, <1>8 DEF Cuttable

\* The last stage's cuts, of the one agent that is left: the field goes, or what
\* is left of it fits.
LEMMA CutLast ==
  ASSUME Base \in Nat, WireMax \in Nat, NEW q \in Seq(Agent), Len(q) = 1,
         NEW field \in Cuttable, NEW r, r = Cut(q, field) \/ r = Pop(q, field)
  PROVE  /\ r \in Seq(Agent) /\ Len(r) = 1 /\ Shrunk(r[1], q[1])
         /\ Fits(q) => r = q
         /\ \/ Fits(r)
            \/ r[1][field] = 0 /\ \A g \in Cuttable \ {field} : r[1][g] = q[1][g]
<1>1. DOMAIN q = 1 .. 1 /\ q[1] \in Agent /\ 1 \in DOMAIN q
  BY Places
<1>2. CASE Fits(q)
  <2>1. r = q
    BY <1>2 DEF Cut, Pop
  <2> QED BY <2>1, <1>1, <1>2, ShrunkSame
<1>3. CASE ~Fits(q)
  <2>1. PICK x \in Int, y \in Nat : x = WireSize(q) - WireMax /\ y = q[1][field]
    <3>1. WireSize(q) \in Int
      BY SizeInt
    <3>2. q[1][field] \in Nat
      BY <1>1, Fields DEF Cuttable
    <3> QED BY <3>1, <3>2
  <2>2. x > 0
    BY <1>3, <2>1, SizeInt DEF Fits
  <2>3. PICK z \in Nat : z <= y /\ r = [q EXCEPT ![1][field] = z] /\ (z = 0 \/ z = y - x)
    <3>1. CASE r = Cut(q, field)
      <4> DEFINE w == IF x < y THEN y - x ELSE 0
      <4>1. r = [q EXCEPT ![1][field] = w]
        BY <3>1, <1>3, <2>1 DEF Cut
      <4>2. w \in Nat /\ w <= y /\ (w = 0 \/ w = y - x)
        BY <2>2
      <4> HIDE DEF w
      <4> QED BY <4>1, <4>2
    <3>2. CASE r = Pop(q, field)
      <4>1. r = [q EXCEPT ![1][field] = 0]
        BY <3>2, <1>3 DEF Pop
      <4>2. 0 \in Nat /\ 0 <= y /\ 0 = 0
        OBVIOUS
      <4> QED BY <4>1, <4>2, Zenon
    <3> QED BY <3>1, <3>2
  <2> DEFINE b == [q[1] EXCEPT ![field] = z]
  <2>4. /\ b \in Agent /\ Shrunk(b, q[1])
        /\ \A g \in Cuttable : b[g] = IF g = field THEN z ELSE q[1][g]
    BY <1>1, <2>1, <2>3, CutField DEF CutTo
  <2>5. r = [q EXCEPT ![1] = b]
    BY <2>3
  <2> HIDE DEF b
  <2>6. r \in Seq(Agent) /\ Len(r) = 1 /\ r[1] = b
    <3>1. Replaces(r, q, 1, b)
      BY <2>4, <2>5, <1>1, Replaced
    <3> QED BY <3>1 DEF Replaces
  <2>7. CASE z = 0
    BY <2>4, <2>6, <2>7, <1>3
  <2>8. CASE z = y - x
    <3>1. WireSize(q) = Bytes(q[1]) /\ WireSize(r) = Bytes(b)
      BY <2>6, SizeSmall
    <3>2. Bytes(b) = Bytes(q[1]) - x
      <4>1. \A g \in Cuttable : g # field => b[g] = q[1][g]
        BY <2>4
      <4>2. b[field] = y - x
        BY <2>4, <2>8
      <4>3. Bytes(b) = Bytes(q[1]) + (b[field] - q[1][field])
        BY <4>1, <2>4, <1>1, BytesOf
      <4> QED BY <4>2, <4>3, <2>1, <1>1, BytesNat
    <3>3. Bytes(q[1]) \in Nat
      BY <1>1, BytesNat
    <3>4. WireSize(r) = WireMax
      BY <3>1, <3>2, <3>3, <2>1
    <3>5. Fits(r)
      BY <3>4 DEF Fits
    <3> QED BY <3>5, <2>4, <2>6, <1>3
  <2> QED BY <2>3, <2>7, <2>8
<1> QED BY <1>2, <1>3

\* The last stage leaves one agent's line within the limit.
LEMMA LastFits ==
  ASSUME Base \in Nat, WireMax \in Nat, NEW q \in Seq(Agent), Len(q) = 1,
         Base + q[1].context <= WireMax,
         NEW r, r = Pop(Pop(Cut(Cut(q, "text"), "cwd"), "options"), "entries")
  PROVE  /\ r \in Seq(Agent) /\ Len(r) = 1 /\ Shrunk(r[1], q[1])
         /\ Fits(q) => r = q
         /\ Fits(r)
<1> DEFINE a == Cut(q, "text")
           b == Cut(a, "cwd")
           c == Pop(b, "options")
<1>1. /\ a \in Seq(Agent) /\ Len(a) = 1 /\ Shrunk(a[1], q[1])
      /\ Fits(q) => a = q
      /\ \/ Fits(a)
         \/ a[1].text = 0 /\ \A g \in Cuttable \ {"text"} : a[1][g] = q[1][g]
  BY CutLast DEF Cuttable
<1> HIDE DEF a
<1>2. /\ b \in Seq(Agent) /\ Len(b) = 1 /\ Shrunk(b[1], a[1])
      /\ Fits(a) => b = a
      /\ \/ Fits(b)
         \/ b[1].cwd = 0 /\ \A g \in Cuttable \ {"cwd"} : b[1][g] = a[1][g]
  BY <1>1, CutLast DEF Cuttable
<1> HIDE DEF b
<1>3. /\ c \in Seq(Agent) /\ Len(c) = 1 /\ Shrunk(c[1], b[1])
      /\ Fits(b) => c = b
      /\ \/ Fits(c)
         \/ c[1].options = 0 /\ \A g \in Cuttable \ {"options"} : c[1][g] = b[1][g]
  BY <1>2, CutLast DEF Cuttable
<1> HIDE DEF c
<1>4. r = Pop(c, "entries")
  BY DEF a, b, c
<1>5. /\ r \in Seq(Agent) /\ Len(r) = 1 /\ Shrunk(r[1], c[1])
      /\ Fits(c) => r = c
      /\ \/ Fits(r)
         \/ r[1].entries = 0 /\ \A g \in Cuttable \ {"entries"} : r[1][g] = c[1][g]
  BY <1>3, <1>4, CutLast DEF Cuttable
<1>6. q[1] \in Agent /\ a[1] \in Agent /\ b[1] \in Agent /\ c[1] \in Agent /\ r[1] \in Agent
  BY <1>1, <1>2, <1>3, <1>5, Places
<1>7. Shrunk(r[1], q[1])
  BY <1>1, <1>2, <1>3, <1>5, <1>6, ShrunkChain
<1>8. Fits(q) => r = q
  BY <1>1, <1>2, <1>3, <1>5
<1>9. Fits(r)
  <2> SUFFICES ASSUME ~Fits(r) PROVE FALSE
    OBVIOUS
  <2>1. ~Fits(c) /\ ~Fits(b) /\ ~Fits(a)
    BY <1>2, <1>3, <1>5
  <2>2. /\ r[1].text = 0 /\ r[1].cwd = 0 /\ r[1].options = 0 /\ r[1].entries = 0
        /\ r[1].context = q[1].context
    BY <2>1, <1>1, <1>2, <1>3, <1>5 DEF Cuttable
  <2>3. WireSize(r) = Bytes(r[1])
    BY <1>5, SizeSmall
  <2>4. r[1].context \in Nat
    BY <1>6, Fields
  <2>5. Bytes(r[1]) = Base + q[1].context
    BY <2>2, <2>4 DEF Bytes
  <2> QED BY <2>3, <2>5 DEF Fits
<1> QED BY <1>5, <1>7, <1>8, <1>9

-----------------------------------------------------------------------------
(* Stages that drop an agent *)

\* Stage g drops of these agents, none of them the anchor.
Droppable(s, g) == IF g = 4 THEN Unwaiting(s) ELSE AllButAnchor(s)

\* The positions after d move up by one.
Up(d, k) == IF k < d THEN k ELSE k + 1

Shifts(n, d) ==
  /\ \A k \in 1 .. (n - 1) : Up(d, k) \in 1 .. n /\ Up(d, k) # d
  /\ \A k, l \in 1 .. (n - 1) : k < l => Up(d, k) < Up(d, l)
  /\ \A l \in (1 .. n) \ {d} : \E k \in 1 .. (n - 1) : Up(d, k) = l

LEMMA UpShifts ==
  ASSUME NEW n \in Nat, NEW d \in 1 .. n
  PROVE  Shifts(n, d)
<1>1. \A k \in 1 .. (n - 1) : Up(d, k) \in 1 .. n /\ Up(d, k) # d
  BY DEF Up
<1>2. \A k, l \in 1 .. (n - 1) : k < l => Up(d, k) < Up(d, l)
  BY DEF Up
<1>3. ASSUME NEW l \in (1 .. n) \ {d} PROVE \E k \in 1 .. (n - 1) : Up(d, k) = l
  <2>1. CASE l < d
    <3>1. l \in 1 .. (n - 1) /\ Up(d, l) = l
      BY <2>1 DEF Up
    <3> QED BY <3>1
  <2>2. CASE l > d
    <3>1. l - 1 \in 1 .. (n - 1) /\ Up(d, l - 1) = l
      BY <2>2 DEF Up
    <3> QED BY <3>1
  <2> QED BY <2>1, <2>2
<1> QED BY <1>1, <1>2, <1>3 DEF Shifts

\* The agent that goes is outranked by all that stay.
LEMMA DropsWorst ==
  ASSUME NEW a \in Seq(Agent), NEW s \in Seq(Agent), NEW f, NEW g \in 4 .. 5,
         Selection(a, s, f), Done(a, s, g, f), ~Fits(s), Len(s) > 1,
         NEW d, d = Oldest(s, Droppable(s, g)), Droppable(s, g) # {}
  PROVE  /\ d \in DOMAIN s /\ f[d] # Anchor(a)
         /\ \A k \in DOMAIN s : k # d => Outranks(a, f[k], f[d])
<1> DEFINE W == Droppable(s, g)
<1>1. W \in SUBSET DOMAIN s /\ \A w \in W : w # Anchor(s)
  BY DEF Droppable, Unwaiting, AllButAnchor
<1>2. /\ d \in W
      /\ \A j \in W : s[j].active > s[d].active \/ (s[j].active = s[d].active /\ d <= j)
  <2> HIDE DEF W
  <2>1. W # {}
    BY DEF W
  <2>2. d = Oldest(s, W)
    BY DEF W
  <2> QED BY <1>1, <2>1, <2>2, OldestOf
<1>3. \A k \in DOMAIN s : k = Anchor(s) <=> f[k] = Anchor(a)
  BY AnchorStands
<1>4. d \in DOMAIN s /\ f[d] # Anchor(a)
  BY <1>1, <1>2, <1>3
<1>5. \A k \in DOMAIN s : /\ f[k] \in DOMAIN a /\ s[k].since = a[f[k]].since
                          /\ s[k].active = a[f[k]].active
  BY DEF Selection, Shrunk
<1>6. \A k, l \in DOMAIN s : k < l => f[k] < f[l]
  BY DEF Selection
<1>7. ASSUME NEW k \in DOMAIN s, k # d PROVE Outranks(a, f[k], f[d])
  <2>1. CASE f[k] = Anchor(a)
    BY <2>1 DEF Outranks
  <2>2. CASE f[k] # Anchor(a) /\ k \in W
    <3>1. a[f[k]].active > a[f[d]].active \/ (a[f[k]].active = a[f[d]].active /\ f[k] > f[d])
      <4>1. s[k].active > s[d].active \/ (s[k].active = s[d].active /\ d <= k)
        BY <1>2, <2>2
      <4>2. d <= k => f[d] < f[k]
        <5>1. d \in Nat /\ k \in Nat
          BY <1>4, Places
        <5> QED BY <5>1, <1>6, <1>4, <1>7
      <4>3. f[d] \in Nat /\ f[k] \in Nat
        BY <1>4, <1>5, Places
      <4> QED BY <4>1, <4>2, <4>3, <1>4, <1>5
    <3>2. a[f[k]].since # 0 <=> a[f[d]].since # 0
      <4>1. CASE g = 4
        <5>1. s[k].since = 0 /\ s[d].since = 0
          BY <4>1, <1>2, <2>2 DEF Droppable, Unwaiting
        <5> QED BY <5>1, <1>4, <1>5
      <4>2. CASE g = 5
        <5>1. s[k].since # 0 /\ s[d].since # 0
          BY <4>2, <1>4, <2>2 DEF Done
        <5> QED BY <5>1, <1>4, <1>5
      <4> QED BY <4>1, <4>2
    <3> QED BY <1>4, <3>1, <3>2 DEF Outranks
  <2>3. CASE f[k] # Anchor(a) /\ k \notin W
    <3>1. k \in AllButAnchor(s)
      BY <2>3, <1>3 DEF AllButAnchor
    <3>2. g = 4 /\ s[k].since # 0
      BY <2>3, <3>1 DEF Droppable, Unwaiting
    <3>3. s[d].since = 0
      BY <3>2, <1>2 DEF Droppable, Unwaiting
    <3> QED BY <3>2, <3>3, <1>4, <1>5 DEF Outranks
  <2> QED BY <2>1, <2>2, <2>3
<1> QED BY <1>4, <1>7

\* What the dropped agent took on the line is no more than it would without its
\* context and its path.
LEMMA DroppedSize ==
  ASSUME Base \in Nat, NEW a \in Agent, NEW b \in Agent, Shrunk(b, a), b.context = 0, b.cwd = 0
  PROVE  Bytes(b) <= Bytes(Lean(a)) /\ Bytes(Lean(a)) \in Nat
<1>1. /\ Lean(a).entries = a.entries /\ Lean(a).context = 0 /\ Lean(a).cwd = 0
      /\ Lean(a).text = a.text /\ Lean(a).options = a.options
  BY DEF Lean, Agent
<1>2. /\ b.entries <= a.entries /\ b.text <= a.text /\ b.options <= a.options
  BY DEF Shrunk
<1>3. /\ a.entries \in Nat /\ a.text \in Nat /\ a.options \in Nat
      /\ b.entries \in Nat /\ b.text \in Nat /\ b.options \in Nat
  BY Fields
<1> QED BY <1>1, <1>2, <1>3 DEF Bytes

\* A drop keeps what the stages have to keep.
LEMMA DropKeeps ==
  ASSUME Base \in Nat, WireMax \in Nat, NEW a \in Seq(Agent), NEW s \in Seq(Agent), NEW f,
         NEW g \in 4 .. 5, Good(a, s, g, f), ~Fits(s), Len(s) > 1,
         NEW d, d = Oldest(s, Droppable(s, g)), Droppable(s, g) # {}
  PROVE  /\ RemoveAt(s, d) \in Seq(Agent)
         /\ \E h \in [DOMAIN RemoveAt(s, d) -> DOMAIN a] : Good(a, RemoveAt(s, d), g, h)
<1> DEFINE n == Len(s)
           r == RemoveAt(s, d)
           h == [k \in 1 .. (n - 1) |-> f[Up(d, k)]]
<1>1. Selection(a, s, f) /\ Done(a, s, g, f) /\ Choice(a, s, g, f)
  BY DEF Good
<1>2. /\ d \in DOMAIN s /\ f[d] # Anchor(a)
      /\ \A k \in DOMAIN s : k # d => Outranks(a, f[k], f[d])
  BY <1>1, DropsWorst
<1>3. n \in Nat /\ d \in 1 .. n /\ DOMAIN s = 1 .. n /\ n > 1
  BY <1>2
<1>4. /\ r \in Seq(Agent) /\ Len(r) = n - 1 /\ DOMAIN r = 1 .. (n - 1)
      /\ \A k \in 1 .. (n - 1) : r[k] = s[Up(d, k)]
  BY <1>2, Removed DEF Up
<1>5. WireSize(r) = WireSize(s) - Bytes(s[d])
  BY <1>2, SizeRemoved
<1>6. f \in [1 .. n -> DOMAIN a] /\ \A k, l \in 1 .. n : k < l => f[k] < f[l]
  BY <1>1, <1>3 DEF Selection
<1> HIDE DEF n, r
<1>7. /\ \A k \in 1 .. (n - 1) : Up(d, k) \in 1 .. n /\ Up(d, k) # d
      /\ \A k, l \in 1 .. (n - 1) : k < l => Up(d, k) < Up(d, l)
      /\ \A l \in (1 .. n) \ {d} : \E k \in 1 .. (n - 1) : Up(d, k) = l
  <2>1. Shifts(n, d)
    BY <1>3, UpShifts
  <2> QED BY <2>1 DEF Shifts
<1>8. h \in [1 .. (n - 1) -> DOMAIN a] /\ \A k \in 1 .. (n - 1) : h[k] = f[Up(d, k)]
  BY <1>6, <1>7
<1> HIDE DEF h
<1>9. Left(a, h) = Left(a, f) \union {f[d]}
  <2>1. DOMAIN f = 1 .. n /\ DOMAIN h = 1 .. (n - 1) /\ f[d] \in DOMAIN a
    BY <1>3, <1>6, <1>8
  <2>2. ASSUME NEW j \in Left(a, h), j # f[d] PROVE j \in Left(a, f)
    <3>1. j \in DOMAIN a /\ \A k \in 1 .. (n - 1) : h[k] # j
      BY <2>1 DEF Left
    <3>2. \A l \in 1 .. n : f[l] # j
      <4> SUFFICES ASSUME NEW l \in 1 .. n PROVE f[l] # j
        OBVIOUS
      <4>1. CASE l = d
        BY <4>1, <2>2
      <4>2. CASE l # d
        <5>1. PICK k \in 1 .. (n - 1) : Up(d, k) = l
          BY <4>2, <1>7
        <5> QED BY <5>1, <3>1, <1>8
      <4> QED BY <4>1, <4>2
    <3> QED BY <3>1, <3>2, <2>1 DEF Left
  <2>3. ASSUME NEW j \in Left(a, f) PROVE j \in Left(a, h)
    BY <2>1, <1>7, <1>8 DEF Left
  <2>4. f[d] \in Left(a, h)
    <3>1. \A l \in 1 .. n : l # d => f[l] # f[d]
      <4>1. \A l \in 1 .. n : f[l] \in Nat
        BY <1>6, Places
      <4>2. \A l \in 1 .. n : (l < d => f[l] < f[d]) /\ (d < l => f[d] < f[l])
        BY <1>3, <1>6
      <4>3. \A l \in 1 .. n : l # d => l < d \/ d < l
        BY <1>3
      <4> QED BY <4>1, <4>2, <4>3, <1>3
    <3>2. \A k \in 1 .. (n - 1) : h[k] # f[d]
      BY <3>1, <1>7, <1>8
    <3> QED BY <3>2, <2>1 DEF Left
  <2> QED BY <2>2, <2>3, <2>4
<1>10. Selection(a, r, h)
  <2>1. \A k \in 1 .. n : Shrunk(s[k], a[f[k]])
    BY <1>1, <1>3 DEF Selection
  <2>2. \A k \in 1 .. (n - 1) : Shrunk(r[k], a[h[k]])
    BY <2>1, <1>4, <1>7, <1>8
  <2>3. \A k, l \in 1 .. (n - 1) : k < l => h[k] < h[l]
    BY <1>6, <1>7, <1>8
  <2>4. Anchor(a) # 0 => Anchor(a) \notin Left(a, h)
    BY <1>1, <1>2, <1>9 DEF Selection
  <2> QED BY <2>2, <2>3, <2>4, <1>4, <1>8 DEF Selection
<1>11. Done(a, r, g, h)
  <2>1. \A k \in DOMAIN s : f[k] # Anchor(a) => s[k].context = 0 /\ s[k].cwd = 0
    BY <1>1 DEF Done, Stripped
  <2>2. Stripped(a, r, h, "context") /\ Stripped(a, r, h, "cwd")
    <3>1. \A k \in DOMAIN r : h[k] # Anchor(a) => r[k].context = 0 /\ r[k].cwd = 0
      <4> SUFFICES ASSUME NEW k \in DOMAIN r, h[k] # Anchor(a)
                   PROVE  r[k].context = 0 /\ r[k].cwd = 0
        OBVIOUS
      <4>1. /\ r[k] = s[Up(d, k)] /\ h[k] = f[Up(d, k)] /\ Up(d, k) \in DOMAIN s
        BY <1>3, <1>4, <1>7, <1>8
      <4> QED BY <4>1, <2>1
    <3> QED BY <3>1 DEF Stripped
  <2>3. ASSUME g = 5 PROVE \A k \in DOMAIN r : h[k] # Anchor(a) => r[k].since # 0
    <3>1. \A k \in DOMAIN s : f[k] # Anchor(a) => s[k].since # 0
      BY <1>1, <2>3 DEF Done
    <3> SUFFICES ASSUME NEW k \in DOMAIN r, h[k] # Anchor(a)
                 PROVE  r[k].since # 0
      OBVIOUS
    <3>2. r[k] = s[Up(d, k)] /\ h[k] = f[Up(d, k)] /\ Up(d, k) \in DOMAIN s
      BY <1>3, <1>4, <1>7, <1>8
    <3> QED BY <3>1, <3>2
  <2> QED BY <2>2, <2>3 DEF Done, Sent
<1>12. Choice(a, r, g, h)
  <2>1. \A k \in DOMAIN r, j \in Left(a, h) : Outranks(a, h[k], j)
    <3> SUFFICES ASSUME NEW k \in DOMAIN r, NEW j \in Left(a, h) PROVE Outranks(a, h[k], j)
      OBVIOUS
    <3>1. h[k] = f[Up(d, k)] /\ Up(d, k) \in DOMAIN s /\ Up(d, k) # d
      BY <1>3, <1>4, <1>7, <1>8
    <3>2. CASE j = f[d]
      BY <3>1, <3>2, <1>2
    <3>3. CASE j \in Left(a, f)
      BY <3>1, <3>3, <1>1 DEF Choice
    <3> QED BY <3>2, <3>3, <1>9
  <2>2. ASSUME NEW j \in Left(a, h), \A k \in Left(a, h) : ~Outranks(a, k, j)
        PROVE  WireSize(r) + Bytes(Lean(a[j])) > WireMax
    <3>1. j = f[d]
      <4>1. j \in Left(a, f) => Outranks(a, f[d], j)
        BY <1>1, <1>2 DEF Choice
      <4> QED BY <4>1, <2>2, <1>9
    <3>2. s[d] \in Agent /\ a[f[d]] \in Agent
      BY <1>3, <1>6
    <3>3. Shrunk(s[d], a[f[d]]) /\ s[d].context = 0 /\ s[d].cwd = 0
      BY <1>1, <1>2 DEF Selection, Done, Stripped
    <3>4. Bytes(s[d]) <= Bytes(Lean(a[j])) /\ Bytes(Lean(a[j])) \in Nat
      BY <3>1, <3>2, <3>3, DroppedSize
    <3>5. Bytes(s[d]) \in Nat /\ WireSize(s) \in Int /\ WireSize(s) > WireMax
      BY <3>2, BytesNat, SizeInt DEF Fits
    <3> QED BY <3>4, <3>5, <1>5
  <2>3. ~Fits(a)
    BY <1>1 DEF Choice
  <2> QED BY <2>1, <2>2, <2>3 DEF Choice
<1>13. Good(a, r, g, h)
  BY <1>10, <1>11, <1>12 DEF Good
<1>14. h \in [DOMAIN r -> DOMAIN a]
  BY <1>4, <1>8
<1> QED BY <1>4, <1>13, <1>14 DEF r

-----------------------------------------------------------------------------
(* The steps *)

LEMMA StartsGood ==
  ASSUME NEW a \in Seq(Agent)
  PROVE  \E f \in [DOMAIN a -> DOMAIN a] : Good(a, a, 1, f)
<1> DEFINE f == [k \in DOMAIN a |-> k]
<1>1. f \in [DOMAIN a -> DOMAIN a] /\ Left(a, f) = {}
  BY DEF Left
<1>2. \A k \in DOMAIN a : f[k] = k /\ Shrunk(a[k], a[k])
  BY Places, ShrunkSame
<1> HIDE DEF f
<1>3. Selection(a, a, f)
  BY <1>1, <1>2 DEF Selection
<1>4. Done(a, a, 1, f)
  BY DEF Done, Sent
<1>5. Choice(a, a, 1, f)
  BY <1>1 DEF Choice
<1> QED BY <1>1, <1>3, <1>4, <1>5 DEF Good

LEMMA EntriesKeep ==
  ASSUME NEW a \in Seq(Agent), NEW s \in Seq(Agent), NEW f, Good(a, s, 1, f), ~Fits(s),
         NEW i, s[i].entries # 0, NEW r, r = [s EXCEPT ![i].entries = @ - 1]
  PROVE  r \in Seq(Agent) /\ DOMAIN r = DOMAIN s /\ Good(a, r, 1, f)
<1>1. Selection(a, s, f) /\ Choice(a, s, 1, f) /\ Left(a, f) = {}
  BY DEF Good, Choice
<1>2. r \in Seq(Agent) /\ DOMAIN r = DOMAIN s /\ \A k \in DOMAIN s : Shrunk(r[k], s[k])
  <2>1. CASE i \in DOMAIN s
    <3> DEFINE b == [s[i] EXCEPT !["entries"] = s[i].entries - 1]
    <3>1. s[i] \in Agent /\ s[i].entries \in Nat /\ i \in 1 .. Len(s)
      BY <2>1, Places, Fields
    <3>2. s[i].entries - 1 \in Nat /\ s[i].entries - 1 <= s[i]["entries"]
      BY <3>1
    <3>3. b \in Agent /\ Shrunk(b, s[i])
      BY <3>1, <3>2, CutField DEF Cuttable, CutTo
    <3>4. r = [s EXCEPT ![i] = b]
      OBVIOUS
    <3> HIDE DEF b
    <3>5. Replaces(r, s, i, b)
      BY <2>1, <3>3, <3>4, Replaced
    <3> QED BY <3>3, <3>5, Places, ShrunkSame DEF Replaces
  <2>2. CASE i \notin DOMAIN s
    <3>1. r = s
      BY <2>2
    <3> QED BY <3>1, Places, ShrunkSame
  <2> QED BY <2>1, <2>2
<1>3. Selection(a, r, f) /\ Choice(a, r, 1, f)
  <2>1. 1 \in 1 .. Sent
    BY DEF Sent
  <2> QED BY <1>1, <1>2, <2>1, ShrinkKeeps
<1>4. Done(a, r, 1, f)
  BY DEF Done, Sent
<1> QED BY <1>2, <1>3, <1>4 DEF Good

\* What r keeps of s, when all agents but the anchor have lost a field.
StripsTo(a, s, r, f, g, field) ==
  /\ r \in Seq(Agent) /\ DOMAIN r = DOMAIN s
  /\ Selection(a, r, f) /\ Choice(a, r, g + 1, f)
  /\ Stripped(a, r, f, field)
  /\ \A other \in Cuttable : Stripped(a, s, f, other) => Stripped(a, r, f, other)

LEMMA StripKeeps ==
  ASSUME NEW a \in Seq(Agent), NEW s \in Seq(Agent), NEW f, NEW g \in 2 .. 3, Good(a, s, g, f),
         NEW field \in Cuttable, NEW r,
         r = IF Fits(s) THEN s
             ELSE [i \in DOMAIN s |->
                     IF i = Anchor(s) THEN s[i] ELSE [s[i] EXCEPT ![field] = 0]]
  PROVE  StripsTo(a, s, r, f, g, field)
<1>1. Selection(a, s, f) /\ Choice(a, s, g, f) /\ Left(a, f) = {}
  BY DEF Good, Choice
<1>2. \A k \in DOMAIN s : k = Anchor(s) <=> f[k] = Anchor(a)
  BY <1>1, AnchorStands
<1>3. CASE Fits(s)
  <2>1. r = s
    BY <1>3
  <2>2. \A k \in DOMAIN s : Shrunk(r[k], s[k])
    BY <2>1, Places, ShrunkSame
  <2>3. Selection(a, r, f) /\ Choice(a, r, g + 1, f)
    BY <1>1, <2>1 DEF Choice
  <2> QED BY <1>3, <2>1, <2>3 DEF Stripped, StripsTo
<1>4. CASE ~Fits(s)
  <2>1. /\ DOMAIN r = DOMAIN s
        /\ \A k \in DOMAIN s :
             r[k] = IF k = Anchor(s) THEN s[k] ELSE [s[k] EXCEPT ![field] = 0]
    BY <1>4
  <2>2. \A k \in DOMAIN s : s[k] \in Agent /\ s[k][field] \in Nat /\ 0 <= s[k][field] /\ 0 \in Nat
    BY Places, Fields DEF Cuttable
  <2>3. \A k \in DOMAIN s : k # Anchor(s) => CutTo(r[k], s[k], field, 0)
    <3> SUFFICES ASSUME NEW k \in DOMAIN s, k # Anchor(s) PROVE CutTo(r[k], s[k], field, 0)
      OBVIOUS
    <3>1. r[k] = [s[k] EXCEPT ![field] = 0]
      BY <2>1
    <3>2. s[k] \in Agent /\ 0 <= s[k][field] /\ 0 \in Nat
      BY <2>2
    <3> QED BY <3>1, <3>2, CutField
  <2>4. /\ r \in Seq(Agent)
        /\ \A k \in DOMAIN s : Shrunk(r[k], s[k])
    <3>1. \A k \in DOMAIN s : r[k] \in Agent /\ Shrunk(r[k], s[k])
      BY <2>1, <2>2, <2>3, ShrunkSame DEF CutTo
    <3>2. Len(s) \in Nat /\ DOMAIN s = 1 .. Len(s)
      BY Places
    <3>3. r \in [1 .. Len(s) -> Agent]
      <4>1. r = [i \in 1 .. Len(s) |-> r[i]]
        BY <3>2, <1>4
      <4> QED BY <3>1, <3>2, <4>1
    <3> QED BY <3>1, <3>2, <3>3, Listed
  <2>5. Selection(a, r, f) /\ Choice(a, r, g + 1, f)
    <3>1. g \in 1 .. Sent /\ g + 1 \in 1 .. Sent /\ (g + 1 <= 3 => g <= 3)
      BY DEF Sent
    <3> QED BY <1>1, <1>4, <2>1, <2>4, <3>1, ShrinkKeeps
  <2>6. \A k \in DOMAIN r : f[k] # Anchor(a) => r[k][field] = 0
    <3>1. \A k \in DOMAIN s : k # Anchor(s) => r[k][field] = 0
      BY <2>3 DEF CutTo
    <3> QED BY <2>1, <3>1, <1>2
  <2>7. ASSUME NEW other \in Cuttable, Stripped(a, s, f, other)
        PROVE  Stripped(a, r, f, other)
    <3>1. \A k \in DOMAIN s : f[k] # Anchor(a) => s[k][other] = 0
      BY <2>7, <1>4 DEF Stripped
    <3>2. \A k \in DOMAIN r : f[k] # Anchor(a) => r[k][other] = 0
      BY <3>1, <2>1, <2>3, <1>2 DEF CutTo
    <3> QED BY <3>2 DEF Stripped
  <2> QED BY <2>1, <2>4, <2>5, <2>6, <2>7 DEF Stripped, StripsTo
<1> QED BY <1>3, <1>4

-----------------------------------------------------------------------------
(* The theorem *)

\* The choice at a stage's end, when it drops none.
LEMMA ChoiceOn ==
  ASSUME NEW a, NEW s, NEW f, NEW g \in 1 .. Sent, NEW h \in 1 .. Sent, Choice(a, s, g, f),
         h <= 3 => g <= 3
  PROVE  Choice(a, s, h, f)
BY DEF Choice

\* Stages 4 and 5 end when the line fits, one agent is left, or none may go.
LEMMA DropsEnd ==
  ASSUME NEW a \in Seq(Agent), NEW s \in Seq(Agent), NEW f, NEW g \in 4 .. 5, Good(a, s, g, f),
         Fits(s) \/ Len(s) <= 1 \/ Droppable(s, g) = {}
  PROVE  Good(a, s, g + 1, f)
<1>1. Selection(a, s, f) /\ Done(a, s, g, f) /\ Choice(a, s, g, f)
  BY DEF Good
<1>2. \A k \in DOMAIN s : k = Anchor(s) <=> f[k] = Anchor(a)
  BY <1>1, AnchorStands
<1>3. Choice(a, s, g + 1, f)
  <2>1. g \in 1 .. Sent /\ g + 1 \in 1 .. Sent /\ ~(g + 1 <= 3)
    BY DEF Sent
  <2> QED BY <1>1, <2>1, ChoiceOn
<1>4. CASE g = 4
  <2>1. \/ Fits(s) \/ Len(s) <= 1
        \/ \A k \in DOMAIN s : f[k] # Anchor(a) => s[k].since # 0
    <3>1. ASSUME Unwaiting(s) = {}, NEW k \in DOMAIN s, f[k] # Anchor(a) PROVE s[k].since # 0
      BY <3>1, <1>2 DEF Unwaiting, AllButAnchor
    <3>2. Droppable(s, g) = Unwaiting(s)
      BY <1>4 DEF Droppable
    <3> QED BY <3>1, <3>2
  <2>2. Done(a, s, 5, f)
    BY <1>1, <1>4, <2>1 DEF Done, Sent
  <2> QED BY <1>1, <1>3, <1>4, <2>2 DEF Good
<1>5. CASE g = 5
  <2>1. Fits(s) \/ Len(s) <= 1
    <3>1. ASSUME AllButAnchor(s) = {} PROVE Len(s) <= 1
      <4>1. \A k \in 1 .. Len(s) : k = Anchor(s)
        BY <3>1, Places DEF AllButAnchor
      <4>2. Len(s) > 1 => 1 \in 1 .. Len(s) /\ 2 \in 1 .. Len(s)
        BY Places
      <4> QED BY <4>1, <4>2, Places
    <3>2. Droppable(s, g) = AllButAnchor(s)
      BY <1>5 DEF Droppable
    <3> QED BY <3>1, <3>2
  <2>2. Done(a, s, 6, f)
    BY <2>1 DEF Done, Sent
  <2> QED BY <1>1, <1>3, <1>5, <2>2 DEF Good
<1> QED BY <1>4, <1>5

\* Every state of TrimInv, written out for the steps' proofs.
LEMMA GoodIs ==
  ASSUME TrimInv
  PROVE  /\ Base \in Nat /\ WireMax \in Nat
         /\ agents \in Registries /\ agents \in Seq(Agent) /\ snap \in Seq(Agent)
         /\ stage \in 1 .. Sent
         /\ \E f \in [DOMAIN snap -> DOMAIN agents] : Good(agents, snap, stage, f)
BY Sizes DEF TrimInv

LEMMA TrimStarts ==
  ASSUME TrimInit
  PROVE  TrimInv
<1>1. agents \in Registries /\ snap = agents /\ stage = 1 /\ agents \in Seq(Agent)
  BY Sizes DEF TrimInit
<1>2. \E f \in [DOMAIN agents -> DOMAIN agents] : Good(agents, agents, 1, f)
  BY <1>1, StartsGood
<1>3. 1 \in 1 .. Sent
  BY DEF Sent
<1> QED BY <1>1, <1>2, <1>3 DEF TrimInv

\* What a step has to show.
LEMMA TrimNext ==
  ASSUME agents' = agents, agents \in Registries, NEW s \in Seq(Agent), snap' = s,
         NEW h \in 1 .. Sent, stage' = h,
         \E f \in [DOMAIN s -> DOMAIN agents] : Good(agents, s, h, f)
  PROVE  TrimInv'
<1>1. \E f \in [DOMAIN snap' -> DOMAIN agents'] : Good(agents', snap', stage', f)
  OBVIOUS
<1> QED BY <1>1 DEF TrimInv

LEMMA ShrinkEntriesKeeps ==
  ASSUME TrimInv, ShrinkEntries
  PROVE  TrimInv'
<1>1. PICK f \in [DOMAIN snap -> DOMAIN agents] : Good(agents, snap, stage, f)
  BY GoodIs
<1>2. /\ agents \in Registries /\ agents \in Seq(Agent) /\ snap \in Seq(Agent)
      /\ agents' = agents /\ stage = 1
  BY GoodIs DEF ShrinkEntries
<1>3. CASE snap' = snap /\ stage' = 2
  <2>1. Choice(agents, snap, 2, f)
    BY <1>1, <1>2 DEF Good, Choice
  <2>2. Done(agents, snap, 2, f)
    BY DEF Done, Sent
  <2>3. Good(agents, snap, 2, f) /\ 2 \in 1 .. Sent
    BY <1>1, <1>2, <2>1, <2>2 DEF Good, Sent
  <2> QED BY <1>1, <1>2, <1>3, <2>3, TrimNext
<1>4. CASE ~(snap' = snap /\ stage' = 2)
  <2> DEFINE i == Biggest(snap)
             r == [snap EXCEPT ![i].entries = @ - 1]
  <2>1. ~Fits(snap) /\ snap[i].entries # 0 /\ snap' = r /\ stage' = 1
    BY <1>2, <1>4 DEF ShrinkEntries, GoTo
  <2> HIDE DEF i
  <2>2. r \in Seq(Agent) /\ DOMAIN r = DOMAIN snap /\ Good(agents, r, 1, f)
    BY <1>1, <1>2, <2>1, EntriesKeep
  <2>3. 1 \in 1 .. Sent
    BY DEF Sent
  <2> HIDE DEF r
  <2> QED BY <1>1, <1>2, <2>1, <2>2, <2>3, TrimNext
<1> QED BY <1>3, <1>4

LEMMA StripKept ==
  ASSUME TrimInv, NEW g \in 2 .. 3, stage = g, stage' = g + 1, agents' = agents,
         NEW field \in Cuttable, snap' = Strip(field),
         g = 2 => field = "context", g = 3 => field = "cwd"
  PROVE  TrimInv'
<1>1. PICK f \in [DOMAIN snap -> DOMAIN agents] : Good(agents, snap, g, f)
  BY GoodIs
<1>2. agents \in Registries /\ agents \in Seq(Agent) /\ snap \in Seq(Agent)
  BY GoodIs
<1> DEFINE r == Strip(field)
<1>3. StripsTo(agents, snap, r, f, g, field)
  <2>1. r = IF Fits(snap) THEN snap
            ELSE [i \in DOMAIN snap |->
                    IF i = Anchor(snap) THEN snap[i] ELSE [snap[i] EXCEPT ![field] = 0]]
    BY DEF Strip
  <2> HIDE DEF r
  <2>2. Good(agents, snap, g, f)
    BY <1>1
  <2> QED BY <1>2, <2>1, <2>2, StripKeeps, Zenon
<1> HIDE DEF r
<1>4. Done(agents, r, g + 1, f)
  <2>1. CASE g = 2
    <3>1. Stripped(agents, r, f, "context")
      BY <1>3, <2>1 DEF StripsTo
    <3> QED BY <2>1, <3>1 DEF Done, Sent
  <2>2. CASE g = 3
    <3>1. Stripped(agents, snap, f, "context")
      BY <1>1, <2>2 DEF Good, Done
    <3>2. Stripped(agents, r, f, "context") /\ Stripped(agents, r, f, "cwd")
      BY <1>3, <2>2, <3>1 DEF Cuttable, StripsTo
    <3> QED BY <2>2, <3>2 DEF Done, Sent
  <2> QED BY <2>1, <2>2
<1>5. Good(agents, r, g + 1, f) /\ g + 1 \in 1 .. Sent
  BY <1>3, <1>4 DEF Good, Sent, StripsTo
<1>6. \E h \in [DOMAIN r -> DOMAIN agents] : Good(agents, r, g + 1, h)
  BY <1>1, <1>3, <1>5 DEF StripsTo
<1>7. snap' = r /\ r \in Seq(Agent)
  BY <1>3 DEF r, StripsTo
<1> QED BY <1>2, <1>5, <1>6, <1>7, TrimNext

LEMMA DropKept ==
  ASSUME TrimInv, NEW g \in 4 .. 5, DropOne(g, Droppable(snap, g))
  PROVE  TrimInv'
<1>1. PICK f \in [DOMAIN snap -> DOMAIN agents] : Good(agents, snap, g, f)
  BY GoodIs DEF DropOne
<1>2. /\ agents \in Registries /\ agents \in Seq(Agent) /\ snap \in Seq(Agent)
      /\ agents' = agents /\ Base \in Nat /\ WireMax \in Nat /\ Len(snap) \in Nat
  BY GoodIs DEF DropOne
<1>3. CASE Fits(snap) \/ Len(snap) <= 1 \/ Droppable(snap, g) = {}
  <2>1. snap' = snap /\ stage' = g + 1
    BY <1>3 DEF DropOne, GoTo
  <2>2. Good(agents, snap, g + 1, f) /\ g + 1 \in 1 .. Sent
    <3>1. g + 1 \in 1 .. Sent
      BY DEF Sent
    <3> QED BY <1>1, <1>2, <1>3, <3>1, DropsEnd
  <2> QED BY <1>1, <1>2, <2>1, <2>2, TrimNext
<1>4. CASE ~(Fits(snap) \/ Len(snap) <= 1 \/ Droppable(snap, g) = {})
  <2> DEFINE d == Oldest(snap, Droppable(snap, g))
             r == RemoveAt(snap, d)
  <2>1. snap' = r /\ stage' = g
    BY <1>4 DEF DropOne
  <2>2. ~Fits(snap) /\ Len(snap) > 1 /\ Droppable(snap, g) # {} /\ g \in 1 .. Sent
    BY <1>2, <1>4 DEF Sent
  <2> HIDE DEF d
  <2>3. /\ r \in Seq(Agent)
        /\ \E h \in [DOMAIN r -> DOMAIN agents] : Good(agents, r, g, h)
    BY <1>1, <1>2, <2>2, DropKeeps DEF d
  <2> HIDE DEF r
  <2> QED BY <1>2, <2>1, <2>2, <2>3, TrimNext
<1> QED BY <1>3, <1>4

LEMMA ShrinkTextsKeeps ==
  ASSUME TrimInv, ShrinkTexts
  PROVE  TrimInv'
<1>1. PICK f \in [DOMAIN snap -> DOMAIN agents] : Good(agents, snap, 6, f)
  BY GoodIs DEF ShrinkTexts
<1>2. /\ agents \in Registries /\ agents \in Seq(Agent) /\ snap \in Seq(Agent)
      /\ agents' = agents /\ Base \in Nat /\ WireMax \in Nat /\ Len(snap) \in Nat
      /\ stage' = Sent /\ Sent \in 1 .. Sent /\ 6 \in 1 .. Sent /\ ~(Sent <= 3)
  BY GoodIs DEF ShrinkTexts, GoTo, Sent
<1>3. Selection(agents, snap, f) /\ Choice(agents, snap, 6, f)
      /\ (Fits(snap) \/ Len(snap) <= 1)
  BY <1>1 DEF Good, Done
<1> DEFINE r == Pop(Pop(Cut(Cut(snap, "text"), "cwd"), "options"), "entries")
<1>4. snap' = IF snap = <<>> THEN snap ELSE r
  BY DEF ShrinkTexts
<1>5. Fits(snap) => r = snap
  BY DEF Cut, Pop
<1> HIDE DEF r
<1>6. CASE Fits(snap)
  <2>1. snap' = snap
    BY <1>4, <1>5, <1>6
  <2>2. Choice(agents, snap, Sent, f)
    BY <1>2, <1>3, ChoiceOn
  <2>3. Good(agents, snap, Sent, f)
    BY <1>3, <1>6, <2>2 DEF Good, Done, Sent
  <2> QED BY <1>1, <1>2, <2>1, <2>3, TrimNext
<1>7. CASE ~Fits(snap)
  <2>1. Len(snap) = 1
    <3>1. Len(snap) # 0
      BY <1>2, <1>7, SizeSmall DEF Fits
    <3>2. Len(snap) <= 1 /\ Len(snap) \in Nat
      BY <1>2, <1>3, <1>7
    <3>3. \A n \in Nat : n # 0 /\ n <= 1 => n = 1
      OBVIOUS
    <3> QED BY <3>1, <3>2, <3>3, Zenon
  <2>2. Base + snap[1].context <= WireMax
    <3>1. 1 \in DOMAIN snap /\ snap[1] \in Agent
      BY <1>2, <2>1, Places
    <3>2. f[1] \in DOMAIN agents /\ Shrunk(snap[1], agents[f[1]])
      BY <1>3, <3>1 DEF Selection
    <3>3. Base + agents[f[1]].context <= WireMax
      BY <1>2, <3>2, Sizes
    <3>4. snap[1].context <= agents[f[1]].context
      BY <3>2 DEF Shrunk
    <3>5. snap[1].context \in Nat /\ agents[f[1]].context \in Nat
      BY <1>2, <3>1, <3>2, Places, Fields
    <3>6. \A b, w, x, y \in Nat : b + y <= w /\ x <= y => b + x <= w
      OBVIOUS
    <3>7. Base \in Nat /\ WireMax \in Nat
      BY <1>2
    <3> QED BY <3>3, <3>4, <3>5, <3>6, <3>7
  <2>3. /\ r \in Seq(Agent) /\ Len(r) = 1 /\ Shrunk(r[1], snap[1])
        /\ Fits(snap) => r = snap
        /\ Fits(r)
    BY <1>2, <2>1, <2>2, LastFits DEF r
  <2>4. DOMAIN r = DOMAIN snap /\ DOMAIN snap = {1}
    <3>1. DOMAIN r = 1 .. 1 /\ DOMAIN snap = 1 .. 1
      BY <1>2, <2>1, <2>3, Places
    <3> QED BY <3>1
  <2>5. snap' = r
    <3>1. snap # <<>>
      BY <2>4
    <3> QED BY <1>4, <3>1
  <2>6. Selection(agents, r, f) /\ Choice(agents, r, Sent, f)
    <3>1. \A k \in DOMAIN snap : Shrunk(r[k], snap[k])
      BY <2>3, <2>4
    <3> QED BY <1>2, <1>3, <1>7, <2>1, <2>3, <2>4, <3>1, ShrinkKeeps
  <2>7. Good(agents, r, Sent, f)
    BY <2>3, <2>6 DEF Good, Done, Sent
  <2> QED BY <1>1, <1>2, <2>3, <2>4, <2>5, <2>7, TrimNext
<1> QED BY <1>6, <1>7

LEMMA TrimInductive ==
  ASSUME TrimInv, [TrimStep \/ Again]_trim
  PROVE  TrimInv'
<1>1. CASE ShrinkEntries
  BY <1>1, ShrinkEntriesKeeps
<1>2. CASE StripContexts
  BY <1>2, StripKept DEF StripContexts, GoTo, Cuttable
<1>3. CASE StripPaths
  BY <1>3, StripKept DEF StripPaths, GoTo, Cuttable
<1>4. CASE DropUnwaiting
  <2>1. Droppable(snap, 4) = Unwaiting(snap)
    BY DEF Droppable
  <2> QED BY <1>4, <2>1, DropKept DEF DropUnwaiting
<1>5. CASE DropAny
  <2>1. Droppable(snap, 5) = AllButAnchor(snap)
    BY DEF Droppable
  <2> QED BY <1>5, <2>1, DropKept DEF DropAny
<1>6. CASE ShrinkTexts
  BY <1>6, ShrinkTextsKeeps
<1>7. CASE Again
  <2>1. /\ agents \in Registries /\ agents \in Seq(Agent)
        /\ agents' = agents /\ snap' = agents /\ stage' = 1 /\ 1 \in 1 .. Sent
    BY <1>7, GoodIs DEF Again, Sent
  <2> QED BY <2>1, StartsGood, TrimNext
<1>8. CASE UNCHANGED trim
  BY <1>8 DEF trim, TrimInv
<1> QED BY <1>1, <1>2, <1>3, <1>4, <1>5, <1>6, <1>7, <1>8 DEF TrimStep

LEMMA TrimShows ==
  ASSUME TrimInv
  PROVE  GoodSnapshot
<1> SUFFICES ASSUME stage = Sent
             PROVE  /\ Fits(snap)
                    /\ \A i \in DOMAIN agents \ LeftOut, j \in LeftOut : Outranks(agents, i, j)
                    /\ \A j \in LeftOut :
                         Len(snap) > 1 /\ (\A k \in LeftOut : ~Outranks(agents, k, j)) =>
                           WireSize(snap) + Bytes(Lean(agents[j])) > WireMax
                    /\ Fits(agents) => snap = agents
  BY DEF GoodSnapshot
<1>1. PICK f \in [DOMAIN snap -> DOMAIN agents] : Good(agents, snap, Sent, f)
  BY GoodIs
<1>2. \A i, j \in DOMAIN agents : agents[i].id = agents[j].id => i = j
  BY GoodIs, Sizes
<1>3. \A k \in DOMAIN snap : snap[k].id = agents[f[k]].id /\ f[k] \in DOMAIN agents
  BY <1>1 DEF Good, Selection, Shrunk
<1>4. LeftOut = Left(agents, f)
  <2>1. DOMAIN f = DOMAIN snap
    BY <1>1
  <2>2. \A j \in DOMAIN agents : agents[j].id \in Ids(snap) <=> \E k \in DOMAIN snap : f[k] = j
    BY <1>2, <1>3 DEF Ids
  <2> QED BY <2>1, <2>2 DEF LeftOut, Left
<1>5. Choice(agents, snap, Sent, f) /\ Fits(snap)
  BY <1>1 DEF Good, Done, Sent
<1>6. ASSUME NEW i \in DOMAIN agents \ LeftOut, NEW j \in LeftOut PROVE Outranks(agents, i, j)
  <2>1. PICK k \in DOMAIN snap : f[k] = i
    BY <1>1, <1>4 DEF Left
  <2> QED BY <1>4, <1>5, <2>1 DEF Choice
<1> QED BY <1>4, <1>5, <1>6 DEF Choice

\* The hooks and the sessions of a run do not touch the trimming, which is at its
\* beginning as long as they run.
HostInv == (part = "trim" => TrimInv) /\ (part # "trim" => stage = 1)

\* Whatever the agents, their fields and the limit, the snapshot that is sent
\* fits the console, carries those worth most and as many as fit, and all of a
\* registry that fits: the stages of snapshot_v1, one after the other.
THEOREM SnapshotGood == HostSpec => []GoodSnapshot
<1>1. HostInit => HostInv
  BY TrimStarts DEF HostInit, HostInv
<1>2. HostInv /\ [HostNext]_all => HostInv'
  <2> SUFFICES ASSUME HostInv, [HostNext]_all
               PROVE  HostInv'
    OBVIOUS
  <2>1. CASE UNCHANGED <<part, trim>>
    <3>1. TrimInv => TrimInv'
      BY <2>1, TrimInductive
    <3> QED BY <2>1, <3>1 DEF HostInv, trim
  <2>2. CASE Trimming
    BY <2>2, TrimInductive DEF HostInv, Trimming
  <2> QED BY <2>1, <2>2 DEF HostNext, Hooking, Registering, all
<1>3. HostInv => GoodSnapshot
  BY TrimShows DEF HostInv, GoodSnapshot, Sent
<1> QED BY <1>1, <1>2, <1>3, PTL DEF HostSpec
=============================================================================
