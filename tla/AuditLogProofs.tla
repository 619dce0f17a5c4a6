--------------------------- MODULE AuditLogProofs ---------------------------
(* Proofs about AuditLog, for any processes, jobs, seconds and appends. *)
EXTENDS AuditLog, FiniteSetTheorems, SequenceTheorems, TLAPS

USE HolderAssumption, BoundsAssumption

-----------------------------------------------------------------------------
(* Sequences, one behind the other.                                          *)

(* A finite set of numbers has a least one. *)
LEMMA LeastIs ==
  ASSUME NEW S \in SUBSET Nat, IsFiniteSet(S), S # {}
  PROVE  \E m \in S : \A y \in S : m <= y
<1> DEFINE below(x) == {j \in S : j <= x}
           T == {below(x) : x \in S}
<1>1. PICK Z \in T : \A Y \in T : ~(<<Y, Z>> \in StrictSubsetOrdering(S))
  <2>1. T \subseteq SUBSET S /\ T # {}
    OBVIOUS
  <2>2. IsWellFoundedOn(StrictSubsetOrdering(S), SUBSET S)
    BY FS_StrictSubsetOrderingWellFounded, FS_FiniteSubsetsOfFinite
  <2> HIDE DEF T
  <2>3. QED
    BY <2>1, <2>2, WFMin
<1>2. PICK x \in S : Z = below(x)
  OBVIOUS
<1>3. ASSUME NEW y \in S, ~(x <= y) PROVE FALSE
  <2>1. y \in Nat /\ x \in Nat
    OBVIOUS
  <2>2. below(y) \subseteq below(x)
    <3>1. ASSUME NEW j \in S, j <= y PROVE j <= x
      <4>1. j \in Nat
        OBVIOUS
      <4>2. QED
        BY <1>3, <2>1, <3>1, <4>1
    <3>2. QED
      BY <3>1
  <2>3. x \in below(x) /\ x \notin below(y)
    BY <1>3, <2>1
  <2>4. <<below(y), below(x)>> \in StrictSubsetOrdering(S)
    BY <2>2, <2>3 DEF StrictSubsetOrdering
  <2>5. below(y) \in T
    OBVIOUS
  <2>6. QED
    BY <1>1, <1>2, <2>4, <2>5
<1>4. QED
  BY <1>3

(* Counting up to n: the library's induction takes an operator, this a set. *)
LEMMA CountUp ==
  ASSUME NEW n \in Nat, NEW B, n >= 1 => 1 \in B,
         \A i \in 1 .. n : i \in B /\ i + 1 <= n => i + 1 \in B
  PROVE  \A i \in 1 .. n : i \in B
<1> DEFINE S == {i \in 1 .. n : i \notin B}
<1>1. SUFFICES ASSUME S # {} PROVE FALSE
  OBVIOUS
<1>2. S \in SUBSET Nat /\ IsFiniteSet(S)
  <2>1. IsFiniteSet(1 .. n)
    BY FS_Interval
  <2>2. QED
    BY <2>1, FS_Subset
<1>3. PICK m \in S : \A y \in S : m <= y
  BY <1>1, <1>2, LeastIs
<1>4. m \in 1 .. n /\ m # 1 /\ m - 1 \in 1 .. n
  BY <1>3
<1>5. m - 1 \in B
  BY <1>3, <1>4
<1>6. QED
  BY <1>3, <1>4, <1>5

(* What FlattenSeq computes: F[i] is the first i sequences of q. *)
Joins(F, q, n, S) ==
  /\ F \in [1 .. n -> Seq(S)]
  /\ \A i \in 1 .. n : F[i] = IF i = 1 THEN q[i] ELSE F[i - 1] \o q[i]

(* One more sequence can be joined. *)
LEMMA JoinsMore ==
  ASSUME NEW S, NEW q, NEW m \in Nat, m >= 1, q[m + 1] \in Seq(S),
         NEW f, Joins(f, q, m, S)
  PROVE  \E g : Joins(g, q, m + 1, S)
<1> DEFINE g == [i \in 1 .. m + 1 |-> IF i = m + 1 THEN f[m] \o q[m + 1] ELSE f[i]]
<1>1. m \in 1 .. m /\ m + 1 # 1 /\ (m + 1) - 1 = m
  OBVIOUS
<1>2. f[m] \o q[m + 1] \in Seq(S)
  BY <1>1, ConcatProperties DEF Joins
<1>3. \A i \in 1 .. m + 1 : i # m + 1 => i \in 1 .. m
  OBVIOUS
<1>4. g \in [1 .. m + 1 -> Seq(S)]
  BY <1>2, <1>3 DEF Joins
<1>5. ASSUME NEW i \in 1 .. m + 1
      PROVE  g[i] = IF i = 1 THEN q[i] ELSE g[i - 1] \o q[i]
  <2>1. CASE i = m + 1
    <3>1. m + 1 \in 1 .. m + 1 /\ m \in 1 .. m + 1 /\ m # m + 1
      OBVIOUS
    <3>2. g[m + 1] = f[m] \o q[m + 1] /\ g[m] = f[m]
      BY <3>1
    <3>3. QED
      BY <1>1, <2>1, <3>2
  <2>2. CASE i # m + 1
    <3>1. i \in 1 .. m /\ g[i] = f[i]
      BY <1>3, <2>2
    <3>2. i # 1 => i - 1 \in 1 .. m + 1 /\ i - 1 # m + 1
      BY <3>1
    <3>3. i # 1 => g[i - 1] = f[i - 1]
      BY <3>2
    <3>4. QED
      BY <3>1, <3>3 DEF Joins
  <2>3. QED
    BY <2>1, <2>2
<1> HIDE DEF g
<1>6. QED
  BY <1>4, <1>5 DEF Joins

LEMMA JoinsAll ==
  ASSUME NEW S, NEW q, NEW n \in Nat, n >= 1, \A i \in 1 .. n : q[i] \in Seq(S)
  PROVE  \E f : Joins(f, q, n, S)
<1> DEFINE B == {m \in 1 .. n : \E f : Joins(f, q, m, S)}
<1>1. 1 \in B
  <2> DEFINE f == [i \in 1 .. 1 |-> q[1]]
  <2>1. 1 \in 1 .. n /\ q[1] \in Seq(S)
    OBVIOUS
  <2>2. f \in [1 .. 1 -> Seq(S)]
    BY <2>1
  <2>3. \A i \in 1 .. 1 : i = 1 /\ f[i] = q[1]
    OBVIOUS
  <2> HIDE DEF f
  <2>4. Joins(f, q, 1, S)
    BY <2>2, <2>3 DEF Joins
  <2>5. QED
    BY <2>1, <2>4
<1>2. ASSUME NEW i \in 1 .. n, i \in B, i + 1 <= n PROVE i + 1 \in B
  <2>1. i \in Nat /\ i >= 1 /\ i + 1 \in 1 .. n
    BY <1>2
  <2>2. PICK f : Joins(f, q, i, S)
    BY <1>2
  <2>3. QED
    BY <2>1, <2>2, JoinsMore
<1> HIDE DEF B
<1>3. \A i \in 1 .. n : i \in B
  BY <1>1, <1>2, CountUp
<1>4. n \in B
  BY <1>3
<1>5. QED
  BY <1>4 DEF B

LEMMA FlattenIs ==
  ASSUME NEW S, NEW n \in Nat, n >= 1, NEW q \in [1 .. n -> Seq(S)]
  PROVE  \E F : Joins(F, q, n, S) /\ FlattenSeq(q) = F[n]
<1>1. PICK f : Joins(f, q, n, S)
  BY JoinsAll
<1>2. Len(q) = n
  BY LenProperties
<1> DEFINE F == CHOOSE F : F = [i \in 1 .. n |-> IF i = 1 THEN q[i] ELSE F[i - 1] \o q[i]]
           G(h) == [i \in 1 .. n |-> IF i = 1 THEN q[i] ELSE h[i - 1] \o q[i]]
<1>3. f = G(f)
  <2>1. \A i \in 1 .. n : f[i] = G(f)[i]
    BY <1>1 DEF Joins
  <2> HIDE DEF G
  <2>2. QED
    BY <1>1, <2>1 DEF Joins, G
<1>4. F = G(F)
  BY <1>3
<1>5. FlattenSeq(q) = F[n]
  BY <1>2 DEF FlattenSeq
<1> HIDE DEF F
<1>6. DOMAIN F = 1 .. n /\ \A i \in 1 .. n : F[i] = IF i = 1 THEN q[i] ELSE F[i - 1] \o q[i]
  BY <1>4
<1> DEFINE D == {i \in 1 .. n : F[i] \in Seq(S)}
<1>7. \A i \in 1 .. n : i \in D
  <2>1. 1 \in D
    <3>1. 1 \in 1 .. n /\ q[1] \in Seq(S)
      OBVIOUS
    <3>2. F[1] = q[1]
      BY <1>6, <3>1
    <3>3. QED
      BY <3>1, <3>2
  <2>2. ASSUME NEW i \in 1 .. n, i \in D, i + 1 <= n PROVE i + 1 \in D
    <3>1. i + 1 \in 1 .. n /\ i + 1 # 1 /\ (i + 1) - 1 = i
      BY <2>2
    <3>2. F[i + 1] = F[i] \o q[i + 1] /\ q[i + 1] \in Seq(S)
      BY <1>6, <3>1
    <3>3. F[i + 1] \in Seq(S)
      BY <2>2, <3>2, ConcatProperties
    <3>4. QED
      BY <3>1, <3>3
  <2> HIDE DEF D
  <2>3. QED
    BY <2>1, <2>2, CountUp
<1>8. F \in [1 .. n -> Seq(S)]
  <2>1. \A i \in 1 .. n : F[i] \in Seq(S)
    BY <1>7
  <2>2. F = [i \in 1 .. n |-> F[i]]
    BY <1>4, <1>6
  <2>3. QED
    BY <2>1, <2>2
<1>9. Joins(F, q, n, S)
  BY <1>6, <1>8 DEF Joins
<1>10. QED
  BY <1>5, <1>9

(* r is q with something in place k, from which on q has nothing. *)
Puts(r, q, k, n, S) ==
  /\ n \in Nat /\ k \in 1 .. n
  /\ q \in [1 .. n -> Seq(S)] /\ r \in [1 .. n -> Seq(S)]
  /\ \A i \in 1 .. n : i # k => r[i] = q[i]
  /\ \A i \in k .. n : q[i] = <<>>

(* What is put behind the first sequences comes behind all. *)
LEMMA FlattenPlus ==
  ASSUME NEW S, NEW n, NEW q, NEW r, NEW k, Puts(r, q, k, n, S)
  PROVE  FlattenSeq(r) = FlattenSeq(q) \o r[k]
<1>a. /\ n \in Nat /\ k \in 1 .. n /\ q \in [1 .. n -> Seq(S)] /\ r \in [1 .. n -> Seq(S)]
      /\ \A i \in 1 .. n : i # k => r[i] = q[i]
  BY DEF Puts
<1>b. r \in [1 .. n -> Seq(S)] /\ q \in [1 .. n -> Seq(S)] /\ n \in Nat
  BY <1>a
<1>d. n \in Nat
  BY <1>a
<1>c. \A i \in k .. n : q[i] = <<>>
  BY DEF Puts
<1>1. n >= 1 /\ k \in Nat /\ k <= n /\ n \in 1 .. n /\ 1 \in 1 .. n
  BY <1>a
<1>2. PICK F : Joins(F, q, n, S) /\ FlattenSeq(q) = F[n]
  BY <1>1, <1>b, FlattenIs
<1>3. PICK G : Joins(G, r, n, S) /\ FlattenSeq(r) = G[n]
  BY <1>1, <1>b, FlattenIs
<1> DEFINE B == {i \in 1 .. n : G[i] = IF i < k THEN F[i] ELSE F[i] \o r[k]}
<1>4. 1 \in B
  <2>1. F[1] = q[1] /\ G[1] = r[1]
    BY <1>1, <1>2, <1>3 DEF Joins
  <2>2. CASE k = 1
    <3>0. 1 \in k .. n
      BY <1>1, <2>2
    <3>1. q[1] = <<>> /\ <<>> \o r[1] = r[1]
      BY <3>0, <1>1, <1>a, <1>c, <2>2, ConcatEmptySeq
    <3>2. ~(1 < k)
      BY <2>2
    <3>3. QED
      BY <1>1, <1>a, <2>1, <2>2, <3>1, <3>2
  <2>3. CASE k # 1
    <3>1. 1 < k /\ q[1] = r[1]
      BY <1>1, <1>a, <2>3
    <3>2. QED
      BY <1>1, <2>1, <3>1
  <2>4. QED
    BY <2>2, <2>3
<1>5. ASSUME NEW i \in 1 .. n, i \in B, i + 1 <= n PROVE i + 1 \in B
  <2> HIDE DEF B
  <2>1. i \in Nat /\ i + 1 \in 1 .. n /\ i + 1 # 1 /\ (i + 1) - 1 = i
    BY <1>5
  <2>2. F[i + 1] = F[i] \o q[i + 1] /\ G[i + 1] = G[i] \o r[i + 1]
    BY <1>2, <1>3, <2>1 DEF Joins
  <2>3. F[i] \in Seq(S) /\ r[k] \in Seq(S)
    BY <1>2, <1>a DEF Joins
  <2>4. CASE i + 1 < k
    <3>1. i < k /\ r[i + 1] = q[i + 1]
      BY <1>1, <1>a, <2>1, <2>4
    <3>2. G[i] = F[i]
      BY <1>5, <3>1 DEF B
    <3>3. QED
      BY <2>1, <2>2, <2>4, <3>1, <3>2 DEF B
  <2>5. CASE i + 1 = k
    <3>0. k \in k .. n
      BY <1>1
    <3>1. i < k /\ q[k] = <<>>
      BY <1>1, <1>c, <2>1, <2>5, <3>0
    <3>2. G[i] = F[i]
      BY <1>5, <3>1 DEF B
    <3>3. F[i] \o <<>> = F[i]
      BY <2>3, ConcatEmptySeq
    <3>4. ~(i + 1 < k)
      BY <1>1, <2>5
    <3>5. QED
      BY <2>1, <2>2, <2>5, <3>1, <3>2, <3>3, <3>4 DEF B
  <2>6. CASE i + 1 > k
    <3>0. i + 1 \in k .. n /\ i + 1 # k
      BY <1>1, <2>1, <2>6
    <3>1. ~(i < k) /\ ~(i + 1 < k) /\ q[i + 1] = <<>> /\ r[i + 1] = <<>>
      BY <1>1, <1>a, <1>c, <2>1, <2>6, <3>0
    <3>2. G[i] = F[i] \o r[k]
      BY <1>5, <3>1 DEF B
    <3>3. F[i] \o <<>> = F[i] /\ (F[i] \o r[k]) \o <<>> = F[i] \o r[k]
      BY <2>3, ConcatEmptySeq, ConcatProperties
    <3>4. QED
      BY <2>1, <2>2, <3>1, <3>2, <3>3 DEF B
  <2>7. QED
    BY <1>1, <2>1, <2>4, <2>5, <2>6
<1> HIDE DEF B
<1>6. \A i \in 1 .. n : i \in B
  BY <1>4, <1>5, <1>d, CountUp
<1>7. n \in B
  BY <1>1, <1>6
<1>8. G[n] = F[n] \o r[k]
  <2>1. ~(n < k)
    BY <1>1
  <2>2. QED
    BY <1>7, <2>1 DEF B
<1>9. QED
  BY <1>2, <1>3, <1>8

-----------------------------------------------------------------------------
(* Subsequences.                                                             *)

LEMMA SubsequenceSelf ==
  ASSUME NEW S, NEW s \in Seq(S)
  PROVE  SubsequenceOf(s, s)
<1> DEFINE at == [i \in DOMAIN s |-> i]
<1>1. at \in [DOMAIN s -> DOMAIN s] /\ (\A i \in DOMAIN s : at[i] = i)
  OBVIOUS
<1> HIDE DEF at
<1>2. QED
  BY <1>1 DEF SubsequenceOf

LEMMA SubsequenceTrans ==
  ASSUME NEW S, NEW s \in Seq(S), NEW t \in Seq(S), NEW u \in Seq(S),
         SubsequenceOf(s, t), SubsequenceOf(t, u)
  PROVE  SubsequenceOf(s, u)
<1>1. PICK a \in [DOMAIN s -> DOMAIN t] :
        /\ \A i \in DOMAIN s : s[i] = t[a[i]]
        /\ \A i, j \in DOMAIN s : i < j => a[i] < a[j]
  BY DEF SubsequenceOf
<1>2. PICK b \in [DOMAIN t -> DOMAIN u] :
        /\ \A i \in DOMAIN t : t[i] = u[b[i]]
        /\ \A i, j \in DOMAIN t : i < j => b[i] < b[j]
  BY DEF SubsequenceOf
<1> DEFINE at == [i \in DOMAIN s |-> b[a[i]]]
<1>3. at \in [DOMAIN s -> DOMAIN u] /\ \A i \in DOMAIN s : at[i] = b[a[i]]
  OBVIOUS
<1>4. \A i \in DOMAIN s : s[i] = u[at[i]]
  BY <1>1, <1>2
<1>5. ASSUME NEW i \in DOMAIN s, NEW j \in DOMAIN s, i < j PROVE at[i] < at[j]
  <2>1. a[i] \in DOMAIN t /\ a[j] \in DOMAIN t /\ a[i] < a[j]
    BY <1>1, <1>5
  <2>2. QED
    BY <1>2, <2>1
<1> HIDE DEF at
<1>6. QED
  BY <1>3, <1>4, <1>5 DEF SubsequenceOf

(* Subsequences can be put behind one another. *)
LEMMA SubsequenceConcat ==
  ASSUME NEW S, NEW s \in Seq(S), NEW t \in Seq(S), NEW u \in Seq(S), NEW v \in Seq(S),
         SubsequenceOf(s, t), SubsequenceOf(u, v)
  PROVE  SubsequenceOf(s \o u, t \o v)
<1>1. PICK a \in [DOMAIN s -> DOMAIN t] :
        /\ \A i \in DOMAIN s : s[i] = t[a[i]]
        /\ \A i, j \in DOMAIN s : i < j => a[i] < a[j]
  BY DEF SubsequenceOf
<1>2. PICK b \in [DOMAIN u -> DOMAIN v] :
        /\ \A i \in DOMAIN u : u[i] = v[b[i]]
        /\ \A i, j \in DOMAIN u : i < j => b[i] < b[j]
  BY DEF SubsequenceOf
<1> DEFINE m == Len(s)
           n == Len(t)
           D == 1 .. m + Len(u)
           E == 1 .. n + Len(v)
<1>3. /\ m \in Nat /\ n \in Nat /\ Len(u) \in Nat /\ Len(v) \in Nat
      /\ DOMAIN s = 1 .. m /\ DOMAIN t = 1 .. n
      /\ DOMAIN u = 1 .. Len(u) /\ DOMAIN v = 1 .. Len(v)
  BY LenProperties
<1>4. /\ DOMAIN (s \o u) = D /\ DOMAIN (t \o v) = E
      /\ \A i \in D : (s \o u)[i] = IF i <= m THEN s[i] ELSE u[i - m]
      /\ \A i \in E : (t \o v)[i] = IF i <= n THEN t[i] ELSE v[i - n]
  <2>1. s \o u \in Seq(S) /\ Len(s \o u) = m + Len(u)
        /\ t \o v \in Seq(S) /\ Len(t \o v) = n + Len(v)
    BY ConcatProperties
  <2>2. DOMAIN (s \o u) = D /\ DOMAIN (t \o v) = E
    BY <2>1, LenProperties
  <2>3. QED
    BY <2>2, ConcatProperties
<1> DEFINE at == [i \in D |-> IF i <= m THEN a[i] ELSE n + b[i - m]]
<1>5. ASSUME NEW i \in D
      PROVE  /\ i <= m => i \in DOMAIN s /\ at[i] = a[i] /\ at[i] \in 1 .. n
             /\ ~(i <= m) => i - m \in DOMAIN u /\ at[i] = n + b[i - m] /\ b[i - m] \in 1 .. Len(v)
             /\ at[i] \in E /\ (s \o u)[i] = (t \o v)[at[i]]
  <2>1. CASE i <= m
    <3>1. i \in 1 .. m /\ at[i] = a[i]
      BY <1>3, <2>1
    <3>2. a[i] \in 1 .. n /\ s[i] = t[a[i]]
      BY <1>1, <1>3, <3>1
    <3>3. a[i] \in E /\ a[i] <= n
      BY <1>3, <3>2
    <3>4. QED
      BY <1>3, <1>4, <2>1, <3>1, <3>2, <3>3
  <2>2. CASE ~(i <= m)
    <3>1. i - m \in 1 .. Len(u) /\ at[i] = n + b[i - m]
      BY <1>3, <2>2
    <3>2. b[i - m] \in 1 .. Len(v) /\ u[i - m] = v[b[i - m]]
      BY <1>2, <1>3, <3>1
    <3>3. at[i] \in E /\ ~(at[i] <= n) /\ at[i] - n = b[i - m]
      BY <1>3, <3>1, <3>2
    <3>4. QED
      BY <1>3, <1>4, <2>2, <3>1, <3>2, <3>3
  <2>3. QED
    BY <2>1, <2>2
<1>6. at \in [D -> E]
  BY <1>5
<1>7. ASSUME NEW i \in D, NEW j \in D, i < j PROVE at[i] < at[j]
  <2> HIDE DEF at
  <2>1. CASE j <= m
    <3>1. i <= m
      BY <1>3, <1>7, <2>1
    <3>2. QED
      BY <1>1, <1>5, <1>7, <2>1, <3>1
  <2>2. CASE i <= m /\ ~(j <= m)
    <3>1. at[i] \in 1 .. n /\ at[j] = n + b[j - m] /\ b[j - m] \in 1 .. Len(v)
      BY <1>5, <2>2
    <3>2. QED
      BY <1>3, <3>1
  <2>3. CASE ~(i <= m)
    <3>1. ~(j <= m)
      BY <1>3, <1>7, <2>3
    <3>2. i - m \in DOMAIN u /\ j - m \in DOMAIN u /\ i - m < j - m
      BY <1>3, <1>5, <1>7, <2>3, <3>1
    <3>3. b[i - m] < b[j - m] /\ b[i - m] \in 1 .. Len(v) /\ b[j - m] \in 1 .. Len(v)
      BY <1>2, <1>3, <3>2
    <3>4. QED
      BY <1>3, <1>5, <2>3, <3>1, <3>3
  <2>4. QED
    BY <2>1, <2>2, <2>3
<1> HIDE DEF at
<1>8. QED
  BY <1>4, <1>5, <1>6, <1>7 DEF SubsequenceOf

LEMMA SubsequenceBefore ==
  ASSUME NEW S, NEW s \in Seq(S), NEW t \in Seq(S), NEW v \in Seq(S), SubsequenceOf(s, t)
  PROVE  SubsequenceOf(s, t \o v)
<1>1. <<>> \in Seq(S) /\ s \o <<>> = s
  BY ConcatEmptySeq
<1>2. SubsequenceOf(<<>>, v)
  <2>1. DOMAIN <<>> = {}
    OBVIOUS
  <2> DEFINE at == [i \in {} |-> 1]
  <2>2. at \in [{} -> DOMAIN v]
    OBVIOUS
  <2>3. QED
    BY <2>1, <2>2 DEF SubsequenceOf
<1>3. QED
  BY <1>1, <1>2, SubsequenceConcat

(* Joining longer sequences keeps what the shorter ones gave. *)
LEMMA FlattenWithin ==
  ASSUME NEW S, NEW n \in Nat, n >= 1, NEW q \in [1 .. n -> Seq(S)],
         NEW r \in [1 .. n -> Seq(S)], \A i \in 1 .. n : SubsequenceOf(q[i], r[i])
  PROVE  /\ FlattenSeq(q) \in Seq(S) /\ FlattenSeq(r) \in Seq(S)
         /\ SubsequenceOf(FlattenSeq(q), FlattenSeq(r))
<1>1. PICK F : Joins(F, q, n, S) /\ FlattenSeq(q) = F[n]
  BY FlattenIs
<1>2. PICK G : Joins(G, r, n, S) /\ FlattenSeq(r) = G[n]
  BY FlattenIs
<1>3. n \in 1 .. n /\ 1 \in 1 .. n
  OBVIOUS
<1> DEFINE B == {i \in 1 .. n : SubsequenceOf(F[i], G[i])}
<1>4. 1 \in B
  <2>1. F[1] = q[1] /\ G[1] = r[1]
    BY <1>1, <1>2, <1>3 DEF Joins
  <2>2. QED
    BY <1>3, <2>1
<1>5. ASSUME NEW i \in 1 .. n, i \in B, i + 1 <= n PROVE i + 1 \in B
  <2> HIDE DEF B
  <2>1. i \in Nat /\ i + 1 \in 1 .. n /\ i + 1 # 1 /\ (i + 1) - 1 = i
    BY <1>5
  <2>2. F[i + 1] = F[i] \o q[i + 1] /\ G[i + 1] = G[i] \o r[i + 1]
    BY <1>1, <1>2, <2>1 DEF Joins
  <2>3. F[i] \in Seq(S) /\ G[i] \in Seq(S) /\ q[i + 1] \in Seq(S) /\ r[i + 1] \in Seq(S)
    BY <1>1, <1>2, <2>1 DEF Joins
  <2>4. SubsequenceOf(F[i], G[i]) /\ SubsequenceOf(q[i + 1], r[i + 1])
    BY <1>5, <2>1 DEF B
  <2>5. SubsequenceOf(F[i + 1], G[i + 1])
    BY <2>2, <2>3, <2>4, SubsequenceConcat
  <2>6. QED
    BY <2>1, <2>5 DEF B
<1> HIDE DEF B
<1>6. \A i \in 1 .. n : i \in B
  BY <1>4, <1>5, CountUp
<1>7. SubsequenceOf(F[n], G[n])
  BY <1>3, <1>6 DEF B
<1>8. QED
  BY <1>1, <1>2, <1>3, <1>7 DEF Joins

(* What a sequence ends with does not change its start. *)
LEMMA PrefixBefore ==
  ASSUME NEW S, NEW s \in Seq(S), NEW v \in Seq(S)
  PROVE  IsPrefix(s, s) /\ IsPrefix(s, s \o v)
<1>1. /\ Len(s) \in Nat /\ Len(v) \in Nat /\ s \o v \in Seq(S)
      /\ Len(s \o v) = Len(s) + Len(v)
      /\ \A i \in 1 .. Len(s) : (s \o v)[i] = s[i]
  <2>1. s \o v \in Seq(S) /\ Len(s \o v) = Len(s) + Len(v)
        /\ \A i \in 1 .. Len(s) + Len(v) : (s \o v)[i] = IF i <= Len(s) THEN s[i] ELSE v[i - Len(s)]
    BY ConcatProperties
  <2>2. Len(s) \in Nat /\ Len(v) \in Nat
    BY LenProperties
  <2>3. \A i \in 1 .. Len(s) : i \in 1 .. Len(s) + Len(v) /\ i <= Len(s)
    BY <2>2
  <2>4. QED
    BY <2>1, <2>2, <2>3
<1>2. SubSeq(s, 1, Len(s)) = SubSeq(s \o v, 1, Len(s))
  BY <1>1
<1>3. QED
  BY <1>1, <1>2 DEF IsPrefix

-----------------------------------------------------------------------------
(* The numbers of entries.                                                   *)

LineType == [id : Nat, prev : Nat]
Ids(es)  == [i \in DOMAIN es |-> es[i].id]

LEMMA IdsType ==
  ASSUME NEW s \in Seq(LineType)
  PROVE  Ids(s) \in Seq(Nat) /\ DOMAIN Ids(s) = DOMAIN s /\ Len(Ids(s)) = Len(s)
<1>1. Len(s) \in Nat /\ DOMAIN s = 1 .. Len(s) /\ \A i \in 1 .. Len(s) : s[i] \in LineType
  BY LenProperties, ElementOfSeq
<1>2. \A i \in 1 .. Len(s) : s[i].id \in Nat
  BY <1>1 DEF LineType
<1>3. Ids(s) \in [1 .. Len(s) -> Nat]
  BY <1>1, <1>2 DEF Ids
<1>4. Ids(s) \in Seq(Nat)
  BY <1>1, <1>3
<1>5. QED
  BY <1>1, <1>3, <1>4

LEMMA IdsAppend ==
  ASSUME NEW s \in Seq(LineType), NEW line \in LineType
  PROVE  Ids(Append(s, line)) = Append(Ids(s), line.id)
<1> DEFINE n == Len(s)
<1>1. /\ Ids(s) \in Seq(Nat) /\ Len(Ids(s)) = n /\ n \in Nat /\ line.id \in Nat
      /\ DOMAIN s = 1 .. n
  BY IdsType, LenProperties DEF LineType
<1>2. /\ Append(s, line) \in Seq(LineType) /\ Len(Append(s, line)) = n + 1
      /\ \A i \in 1 .. n : Append(s, line)[i] = s[i]
      /\ Append(s, line)[n + 1] = line
  BY AppendProperties
<1>3. /\ Append(Ids(s), line.id) \in Seq(Nat) /\ Len(Append(Ids(s), line.id)) = n + 1
      /\ \A i \in 1 .. n : Append(Ids(s), line.id)[i] = Ids(s)[i]
      /\ Append(Ids(s), line.id)[n + 1] = line.id
  BY <1>1, AppendProperties
<1>4. Ids(Append(s, line)) \in Seq(Nat) /\ Len(Ids(Append(s, line))) = n + 1
      /\ DOMAIN Append(s, line) = 1 .. n + 1
  BY <1>1, <1>2, IdsType, LenProperties
<1>5. \A i \in 1 .. n + 1 : Ids(Append(s, line))[i] = Append(Ids(s), line.id)[i]
  <2>1. ASSUME NEW i \in 1 .. n PROVE Ids(Append(s, line))[i] = Append(Ids(s), line.id)[i]
    <3>1. i \in 1 .. n + 1
      BY <1>1
    <3>2. QED
      BY <1>1, <1>2, <1>3, <1>4, <3>1 DEF Ids
  <2>2. Ids(Append(s, line))[n + 1] = line.id
    <3>1. n + 1 \in 1 .. n + 1
      BY <1>1
    <3>2. QED
      BY <1>2, <1>4, <3>1 DEF Ids
  <2>3. QED
    BY <1>1, <1>3, <2>1, <2>2
<1>6. QED
  BY <1>3, <1>4, <1>5, SeqEqual

LEMMA IdsWithin ==
  ASSUME NEW s \in Seq(LineType), NEW t \in Seq(LineType), SubsequenceOf(s, t)
  PROVE  SubsequenceOf(Ids(s), Ids(t))
<1>1. PICK a \in [DOMAIN s -> DOMAIN t] :
        /\ \A i \in DOMAIN s : s[i] = t[a[i]]
        /\ \A i, j \in DOMAIN s : i < j => a[i] < a[j]
  BY DEF SubsequenceOf
<1>2. DOMAIN Ids(s) = DOMAIN s /\ DOMAIN Ids(t) = DOMAIN t
  BY DEF Ids
<1>3. \A i \in DOMAIN s : Ids(s)[i] = Ids(t)[a[i]]
  BY <1>1 DEF Ids
<1>4. QED
  BY <1>1, <1>2, <1>3 DEF SubsequenceOf

(* What had been returned is still there behind one more entry. *)
LEMMA SubsequenceAppend ==
  ASSUME NEW s \in Seq(Nat), NEW t \in Seq(Nat), NEW x \in Nat, SubsequenceOf(s, t)
  PROVE  SubsequenceOf(s, Append(t, x)) /\ SubsequenceOf(Append(s, x), Append(t, x))
<1>1. <<x>> \in Seq(Nat) /\ Append(s, x) = s \o <<x>> /\ Append(t, x) = t \o <<x>>
  BY AppendIsConcat
<1>2. SubsequenceOf(<<x>>, <<x>>)
  BY <1>1, SubsequenceSelf
<1>3. QED
  BY <1>1, <1>2, SubsequenceBefore, SubsequenceConcat

(* The next entry keeps the chain, and the mark stays within the log. *)
LEMMA ChainGrows ==
  ASSUME NEW s \in Seq(LineType), NEW e \in Nat, Chained(s)
  PROVE  LET t == Append(s, [id |-> e, prev |-> HeadOf(s)])
         IN  /\ t \in Seq(LineType) /\ HeadOf(s) \in Nat /\ Chained(t)
             /\ Len(t) = Len(s) + 1 /\ t[Len(t)].id = e
             /\ \A i \in 1 .. Len(s) : t[i] = s[i]
<1> DEFINE line == [id |-> e, prev |-> HeadOf(s)]
           t == Append(s, line)
           n == Len(s)
<1>1. n \in Nat /\ (s = <<>> <=> n = 0) /\ \A i \in 1 .. n : s[i] \in LineType
  BY LenProperties, EmptySeq, ElementOfSeq
<1>2. HeadOf(s) \in Nat /\ HeadOf(s) = IF n = 0 THEN 0 ELSE s[n].id
  <2>1. n # 0 => n \in 1 .. n
    BY <1>1
  <2>2. QED
    BY <1>1, <2>1 DEF HeadOf, LineType
<1>3. line \in LineType
  BY <1>2 DEF LineType
<1>4. /\ t \in Seq(LineType) /\ Len(t) = n + 1
      /\ \A i \in 1 .. n : t[i] = s[i]
      /\ t[n + 1] = line
  BY <1>3, AppendProperties
<1>5. ASSUME NEW i \in 1 .. n + 1
      PROVE  t[i].prev = IF i = 1 THEN 0 ELSE t[i - 1].id
  <2> HIDE DEF t
  <2>1. CASE i = n + 1
    <3>1. i # 1 => n # 0 /\ n \in 1 .. n /\ i - 1 = n
      BY <1>1, <2>1
    <3>2. i = 1 => n = 0
      BY <1>1, <2>1
    <3>3. QED
      BY <1>2, <1>4, <2>1, <3>1, <3>2
  <2>2. CASE i # n + 1
    <3>1. i \in 1 .. n /\ (i # 1 => i - 1 \in 1 .. n)
      BY <1>1, <2>2
    <3>2. QED
      BY <1>4, <3>1 DEF Chained
  <2>3. QED
    BY <2>1, <2>2
<1>6. Chained(t) /\ t[Len(t)].id = e
  <2> HIDE DEF t
  <2>1. Chained(t)
    BY <1>4, <1>5 DEF Chained
  <2>2. t[Len(t)].id = e
    BY <1>4
  <2>3. QED
    BY <2>1, <2>2
<1>7. QED
  BY <1>2, <1>4, <1>6

LEMMA ReachesFurther ==
  ASSUME NEW s \in Seq(LineType), NEW t \in Seq(LineType), NEW m,
         m.count \in Nat, Reaches(s, m), Len(t) = Len(s) + 1,
         \A i \in 1 .. Len(s) : t[i] = s[i]
  PROVE  Reaches(t, m)
<1>1. Len(s) \in Nat
  BY LenProperties
<1>2. m.count > 0 => m.count \in 1 .. Len(s)
  BY <1>1 DEF Reaches
<1>3. QED
  BY <1>1, <1>2 DEF Reaches

-----------------------------------------------------------------------------
(* Files and what is read from them.                                         *)

FileType == [lines : Seq(LineType), ended : BOOLEAN]
Whole(f) == \A i \in DOMAIN f.lines : f.lines[i] # Junk

LEMMA SomeFiles ==
  /\ Junk \in LineType /\ NoFile \in FileType /\ EmptyFile \in FileType
  /\ PartialGz \in FileType /\ Whole(NoFile) /\ Whole(EmptyFile)
  /\ NoFile # EmptyFile /\ PartialGz # NoFile /\ ~Parses(PartialGz)
  /\ Entries(NoFile) = <<>> /\ Entries(EmptyFile) = <<>> /\ Parses(NoFile)
<1>1. Junk \in LineType /\ <<>> \in Seq(LineType) /\ DOMAIN <<>> = {} /\ Len(<<>>) = 0
  BY DEF Junk, LineType
<1>2. <<Junk, Junk>> \in Seq(LineType) /\ Len(<<Junk, Junk>>) = 2 /\ <<Junk, Junk>>[1] = Junk
  BY <1>1
<1>3. NoFile \in FileType /\ EmptyFile \in FileType /\ PartialGz \in FileType
  BY <1>1, <1>2 DEF NoFile, EmptyFile, PartialGz, FileType
<1>4. NoFile.lines = <<>> /\ EmptyFile.lines = <<>> /\ PartialGz.lines = <<Junk, Junk>>
      /\ NoFile.ended = FALSE /\ EmptyFile.ended = TRUE /\ PartialGz.ended = TRUE
  BY DEF NoFile, EmptyFile, PartialGz
<1>5. ~Parses(PartialGz)
  BY <1>2, <1>4 DEF Parses
<1>6. Parses(NoFile) /\ Entries(NoFile) = <<>> /\ Entries(EmptyFile) = <<>>
  BY <1>1, <1>4 DEF Parses, Entries
<1>7. QED
  BY <1>1, <1>3, <1>4, <1>5, <1>6 DEF Whole

LEMMA EntriesType ==
  ASSUME NEW f \in FileType
  PROVE  Entries(f) \in Seq(LineType)
<1>1. f.lines \in Seq(LineType)
  BY DEF FileType
<1>2. f.lines # <<>> => Front(f.lines) \in Seq(LineType)
  <2>1. f.lines # <<>> => Len(f.lines) \in Nat \ {0}
    BY <1>1, EmptySeq
  <2>2. QED
    BY <1>1, <2>1, SubSeqProperties, ElementOfSeq DEF Front
<1>3. QED
  BY <1>1, <1>2 DEF Entries

LEMMA EntriesWhole ==
  ASSUME NEW f \in FileType, Whole(f)
  PROVE  Entries(f) = f.lines /\ Parses(f)
<1>1. f.lines \in Seq(LineType)
  BY DEF FileType
<1>2. Len(f.lines) \in Nat /\ DOMAIN f.lines = 1 .. Len(f.lines)
      /\ (f.lines # <<>> => Len(f.lines) \in DOMAIN f.lines)
  BY <1>1, LenProperties, EmptySeq
<1>3. f.lines # <<>> => Last(f.lines) # Junk
  BY <1>2 DEF Last, Whole
<1>4. \A i \in 1 .. Len(f.lines) - 1 : i \in DOMAIN f.lines
  BY <1>2
<1>5. QED
  BY <1>3, <1>4 DEF Entries, Parses, Whole

(* The files of the seconds, as a verification and as History read them. *)
Stored  == [s \in Seconds |-> Entries(plain[s]) \o Entries(gz[s])]
Kept    == [s \in Seconds |-> IF plain[s] # NoFile THEN Entries(plain[s]) ELSE Entries(gz[s])]

FilesTyped == /\ current \in FileType
              /\ plain \in [Seconds -> FileType] /\ gz \in [Seconds -> FileType]

LEMMA LogTypes ==
  ASSUME FilesTyped
  PROVE  /\ Stored \in [Seconds -> Seq(LineType)] /\ Kept \in [Seconds -> Seq(LineType)]
         /\ FlattenSeq(Stored) \in Seq(LineType) /\ FlattenSeq(Kept) \in Seq(LineType)
         /\ Entries(current) \in Seq(LineType)
         /\ AllEntries = FlattenSeq(Stored) \o Entries(current)
         /\ History = FlattenSeq(Kept) \o Entries(current)
         /\ AllEntries \in Seq(LineType) /\ History \in Seq(LineType)
<1>1. \A s \in Seconds : Entries(plain[s]) \in Seq(LineType) /\ Entries(gz[s]) \in Seq(LineType)
  BY EntriesType DEF FilesTyped
<1>2. Stored \in [Seconds -> Seq(LineType)]
  BY <1>1, ConcatProperties DEF Stored
<1>3. Kept \in [Seconds -> Seq(LineType)]
  BY <1>1 DEF Kept
<1>4. FlattenSeq(Stored) \in Seq(LineType) /\ FlattenSeq(Kept) \in Seq(LineType)
  <2>1. MaxSeconds \in Nat /\ MaxSeconds >= 1 /\ Seconds = 1 .. MaxSeconds
    BY DEF Seconds, BoundsAssumption
  <2>2. \A i \in Seconds : SubsequenceOf(Stored[i], Stored[i]) /\ SubsequenceOf(Kept[i], Kept[i])
    BY <1>2, <1>3, SubsequenceSelf
  <2>3. QED
    BY <1>2, <1>3, <2>1, <2>2, FlattenWithin
<1>5. Entries(current) \in Seq(LineType)
  BY EntriesType DEF FilesTyped
<1>6. AllEntries = FlattenSeq(Stored) \o Entries(current)
      /\ History = FlattenSeq(Kept) \o Entries(current)
  BY DEF AllEntries, History, Stored, Kept
<1>7. QED
  BY <1>2, <1>3, <1>4, <1>5, <1>6, ConcatProperties

(* Text put behind a newline is a line more; behind none it spoils the last. *)
LEMMA PutType ==
  ASSUME NEW f \in FileType, NEW line \in LineType
  PROVE  /\ Put(f, line) \in FileType /\ EndLine(f) \in FileType
         /\ ~Put(f, line).ended /\ EndLine(f).ended /\ EndLine(f).lines = f.lines
         /\ f.ended => Put(f, line).lines = Append(f.lines, line)
<1>1. f.lines \in Seq(LineType) /\ f.ended \in BOOLEAN
      /\ f = [lines |-> f.lines, ended |-> f.ended]
  BY DEF FileType
<1>2. Append(f.lines, line) \in Seq(LineType)
  BY <1>1, AppendProperties
<1>3. [f.lines EXCEPT ![Len(f.lines)] = Junk] \in Seq(LineType)
  <2> DEFINE n == Len(f.lines)
             spoilt == [f.lines EXCEPT ![n] = Junk]
  <2>1. n \in Nat /\ f.lines \in [1 .. n -> LineType] /\ Junk \in LineType
    BY <1>1, LenProperties, SomeFiles
  <2>2. spoilt \in [1 .. n -> LineType]
    BY <2>1
  <2> HIDE DEF spoilt
  <2>3. spoilt \in Seq(LineType)
    BY <2>1, <2>2
  <2>4. QED
    BY <2>3 DEF spoilt
<1>4. QED
  BY <1>1, <1>2, <1>3 DEF Put, EndLine, FileType

LEMMA PutWhole ==
  ASSUME NEW f \in FileType, NEW line \in LineType, Whole(f), f.ended, line # Junk
  PROVE  Whole(Put(f, line))
<1>1. f.lines \in Seq(LineType) /\ Put(f, line).lines = Append(f.lines, line)
  BY PutType DEF FileType
<1>2. Len(f.lines) \in Nat /\ DOMAIN f.lines = 1 .. Len(f.lines)
      /\ DOMAIN Append(f.lines, line) = 1 .. Len(f.lines) + 1
      /\ \A i \in 1 .. Len(f.lines) : Append(f.lines, line)[i] = f.lines[i]
      /\ Append(f.lines, line)[Len(f.lines) + 1] = line
  <2>1. Append(f.lines, line) \in Seq(LineType) /\ Len(Append(f.lines, line)) = Len(f.lines) + 1
    BY <1>1, AppendProperties
  <2>2. QED
    BY <1>1, <2>1, LenProperties, AppendProperties
<1>3. QED
  BY <1>1, <1>2 DEF Whole

-----------------------------------------------------------------------------
(* What holds whatever is cut short: the types, and who holds the lock.      *)

Zipping == {"gzip", "compress", "unlink"}
Places  == Holding \cup {"idle", "lock", "verify"}

(* The types without the bounds. *)
Types ==
  /\ FilesTyped
  /\ mark \in [count : Nat, head : Nat]
  /\ lock \in Procs \cup {Nobody, Dead}
  /\ pc \in [Procs -> Places]
  /\ entry \in [Procs -> Nat]
  /\ seen \in [Procs -> Seq(LineType)]
  /\ fd \in [Procs -> {Unlinked, Current} \cup Seconds]
  /\ stamp \in [Procs -> {None} \cup Seconds]
  /\ back \in [Procs -> {"idle", "read"}]
  /\ verdict \in [Procs -> {"none", "ok", "bad"}]
  /\ now \in Seconds /\ minted \in Nat
  /\ returned \in Seq(Nat) /\ known \in [Procs -> Seq(Nat)]
  /\ disturbed \in BOOLEAN

(* A process beyond the lock has made the lock file, but for a rotation of its
   own, which knows that it goes nowhere afterwards. *)
Holders ==
  /\ lock \in Procs => pc[lock] \in Holding
  /\ \A p \in Procs : pc[p] \in Holding \ Zipping => lock = p
  /\ \A p \in Procs : pc[p] \in Zipping =>
       /\ stamp[p] \in Seconds
       /\ back[p] = IF lock = p THEN "read" ELSE "idle"

LEMMA AlwaysInit ==
  ASSUME Init
  PROVE  Types /\ Holders
<1> USE DEF Init
<1>1. FilesTyped
  BY SomeFiles DEF FilesTyped
<1>2. mark \in [count : Nat, head : Nat] /\ 1 \in Seconds
  BY DEF NoMark, Seconds, BoundsAssumption
<1>3. Types
  <2>1. <<>> \in Seq(LineType) /\ <<>> \in Seq(Nat)
    BY EmptySeq
  <2>2. /\ seen \in [Procs -> Seq(LineType)] /\ known \in [Procs -> Seq(Nat)]
        /\ fd \in [Procs -> {Unlinked, Current} \cup Seconds]
        /\ stamp \in [Procs -> {None} \cup Seconds]
        /\ entry \in [Procs -> Nat] /\ pc \in [Procs -> Places]
    BY <2>1 DEF Places, None
  <2>3. QED
    BY <1>1, <1>2, <2>1, <2>2 DEF Types
<1>4. Holders
  BY DEF Holders, Holding, Zipping
<1>5. QED
  BY <1>3, <1>4

LEMMA TypesStep ==
  ASSUME Types, Holders, [Next]_vars
  PROVE  Types'
<1> USE DEF files, mine, bounds, history, Goto, Forget, End, Places, Holding
<1>a. CASE UNCHANGED vars
  BY <1>a DEF vars, Types, FilesTyped
<1>b. CASE ClearLock
  BY <1>b DEF ClearLock, Types, FilesTyped
<1>c. CASE Tick
  BY <1>c DEF Tick, Types, FilesTyped, Seconds, BoundsAssumption
<1>d. ASSUME NEW p \in Procs
      PROVE  /\ pc[p] \in Places /\ now \in Seconds /\ stamp[p] \in {None} \cup Seconds
             /\ back[p] \in {"idle", "read"} /\ seen[p] \in Seq(LineType)
             /\ entry[p] \in Nat /\ <<>> \in Seq(LineType)
  BY <1>d DEF Types
<1>e. ASSUME NEW p \in Procs, NEW next \in {"read", "idle"}, Rename(p, next),
             UNCHANGED <<returned, known>>, disturbed' \in BOOLEAN
      PROVE  Types'
  <2>1. plain' \in [Seconds -> FileType] /\ current' \in FileType /\ gz' \in [Seconds -> FileType]
    <3>1. NoFile \in FileType /\ current \in FileType /\ plain \in [Seconds -> FileType]
          /\ gz \in [Seconds -> FileType]
      BY SomeFiles DEF Types, FilesTyped
    <3>2. QED
      BY <1>e, <3>1 DEF Rename
  <2>2. fd' \in [Procs -> {Unlinked, Current} \cup Seconds]
    <3>1. fd \in [Procs -> {Unlinked, Current} \cup Seconds] /\ now \in Seconds
      BY DEF Types
    <3>2. fd' = [q \in Procs |-> IF fd[q] = Current THEN now
                               ELSE IF fd[q] = now THEN Unlinked ELSE fd[q]]
      BY <1>e DEF Rename
    <3>3. QED
      BY <3>1, <3>2
  <2>3. /\ pc' = [pc EXCEPT ![p] = "gzip"] /\ stamp' = [stamp EXCEPT ![p] = now]
        /\ back' = [back EXCEPT ![p] = next] /\ verdict' = [verdict EXCEPT ![p] = "none"]
        /\ UNCHANGED <<mark, lock, entry, seen, now, minted>>
    BY <1>e DEF Rename
  <2>4. QED
    BY <1>e, <2>1, <2>2, <2>3 DEF Types, FilesTyped
<1>f. ASSUME NEW p \in Procs, NEW f \in FileType, Written(p, f) PROVE FilesTyped'
  BY <1>f DEF Written, Types, FilesTyped
<1>g. ASSUME NEW p \in Procs PROVE Opened(p) \in FileType
  BY SomeFiles DEF Opened, Types, FilesTyped
<1>1. ASSUME NEW p \in Procs, StartAppend(p) PROVE Types'
  BY <1>1 DEF StartAppend, Types, FilesTyped
<1>2. ASSUME NEW p \in Procs, AcquireLock(p) PROVE Types'
  BY <1>2 DEF AcquireLock, Types, FilesTyped
<1>3. ASSUME NEW p \in Procs, AcquireFail(p) PROVE Types'
  BY <1>3, <1>d DEF AcquireFail, Types, FilesTyped, Unlinked, None
<1>4. ASSUME NEW p \in Procs, TimeOut(p) PROVE Types'
  BY <1>4, <1>d DEF TimeOut, Types, FilesTyped, Unlinked, None
<1>5. ASSUME NEW p \in Procs, RotateIfNeeded(p) PROVE Types'
  <2>1. CASE Rename(p, "read") /\ UNCHANGED history
    BY <1>e, <2>1 DEF Types
  <2>2. CASE Goto(p, "read") /\ UNCHANGED <<files, mark, lock, mine, verdict, bounds, history>>
    BY <2>2 DEF Types, FilesTyped
  <2>3. QED
    BY <1>5, <2>1, <2>2 DEF RotateIfNeeded
<1>6. ASSUME NEW p \in Procs, RotateNow(p) PROVE Types'
  <2>1. disturbed' \in BOOLEAN
    BY <1>6 DEF RotateNow, Types
  <2>2. QED
    BY <1>6, <1>e, <2>1 DEF RotateNow
<1>7. ASSUME NEW p \in Procs, GzipStart(p) PROVE Types'
  BY <1>7, SomeFiles DEF GzipStart, Types, FilesTyped
<1>8. ASSUME NEW p \in Procs, GzipFail(p) PROVE Types'
  BY <1>8, <1>d DEF GzipFail, Types, FilesTyped, Unlinked, None
<1>9. ASSUME NEW p \in Procs, GzipFinish(p) PROVE Types'
  <2>1. stamp[p] \in Seconds
    BY <1>9 DEF GzipFinish, Holders, Zipping
  <2>2. QED
    BY <1>9, <2>1 DEF GzipFinish, Types, FilesTyped
<1>10. ASSUME NEW p \in Procs, GzipUnlink(p) PROVE Types'
  BY <1>10, <1>d, SomeFiles DEF GzipUnlink, Types, FilesTyped
<1>11. ASSUME NEW p \in Procs, Read(p) PROVE Types'
  <2>1. CASE End(p) /\ UNCHANGED <<files, mark, verdict, bounds, history>>
    BY <2>1, <1>d DEF Types, FilesTyped, Unlinked, None
  <2>2. CASE /\ seen' = [seen EXCEPT ![p] = AllEntries] /\ Goto(p, "open")
             /\ UNCHANGED <<lock, entry, fd, stamp, back>>
             /\ UNCHANGED <<files, mark, verdict, bounds, history>>
    <3>1. AllEntries \in Seq(LineType)
      BY LogTypes DEF Types
    <3>2. QED
      BY <2>2, <3>1 DEF Types, FilesTyped
  <2>3. QED
    BY <1>11, <2>1, <2>2 DEF Read
<1>12. ASSUME NEW p \in Procs, Open(p) PROVE Types'
  BY <1>12, SomeFiles DEF Open, Types, FilesTyped
<1>13. ASSUME NEW p \in Procs, WriteLine(p) PROVE Types'
  <2> DEFINE line == [id |-> entry[p], prev |-> HeadOf(seen[p])]
  <2>1. line \in LineType
    <3>1. seen[p] # <<>> => Len(seen[p]) \in 1 .. Len(seen[p])
      BY <1>d, EmptySeq
    <3>2. HeadOf(seen[p]) \in Nat
      <4>1. seen[p] # <<>> => seen[p][Len(seen[p])] \in LineType
        BY <1>d, <3>1, ElementOfSeq
      <4>2. QED
        BY <4>1 DEF HeadOf, LineType
    <3>3. QED
      BY <1>d, <3>2 DEF LineType
  <2> HIDE DEF line
  <2>2. Put(Opened(p), line) \in FileType
    BY <1>g, <2>1, PutType
  <2>3. Written(p, Put(Opened(p), line))
    BY <1>13 DEF WriteLine, line
  <2>4. FilesTyped'
    BY <1>f, <2>2, <2>3
  <2>5. QED
    BY <1>13, <2>4 DEF WriteLine, Types
<1>14. ASSUME NEW p \in Procs, TearLine(p) PROVE Types'
  <2>1. Put(Opened(p), Junk) \in FileType
    BY <1>g, PutType, SomeFiles
  <2>2. FilesTyped'
    BY <1>14, <1>f, <2>1 DEF TearLine
  <2>3. QED
    BY <1>14, <1>d, <2>2 DEF TearLine, Types, Unlinked, None
<1>15. ASSUME NEW p \in Procs, WriteNewline(p) PROVE Types'
  <2>1. EndLine(Opened(p)) \in FileType
    BY <1>g, PutType, SomeFiles
  <2>2. FilesTyped'
    BY <1>15, <1>f, <2>1 DEF WriteNewline
  <2>3. QED
    BY <1>15, <2>2 DEF WriteNewline, Types
<1>16. ASSUME NEW p \in Procs, StoreMark(p) PROVE Types'
  <2>1. Len(seen[p]) + 1 \in Nat
    BY <1>d, LenProperties
  <2>2. mark' \in [count : Nat, head : Nat]
    BY <1>16, <1>d, <2>1 DEF StoreMark
  <2>3. returned' \in Seq(Nat)
    BY <1>16, <1>d, AppendProperties DEF StoreMark, Types
  <2>4. QED
    BY <1>16, <1>d, <2>2, <2>3 DEF StoreMark, Types, FilesTyped, Unlinked, None
<1>17. ASSUME NEW p \in Procs, AppendFail(p) PROVE Types'
  BY <1>17, <1>d DEF AppendFail, Types, FilesTyped, Unlinked, None
<1>18. ASSUME NEW p \in Procs, VerifyRead(p) PROVE Types'
  <2>1. AllEntries \in Seq(LineType)
    BY LogTypes DEF Types
  <2>2. seen' \in [Procs -> Seq(LineType)] /\ pc' \in [Procs -> Places]
        /\ verdict' \in [Procs -> {"none", "ok", "bad"}]
    <3>1. CASE AllParse
      <4>1. seen' = [seen EXCEPT ![p] = AllEntries] /\ pc' = [pc EXCEPT ![p] = "verify"]
            /\ verdict' = [verdict EXCEPT ![p] = "none"]
        BY <1>18, <3>1 DEF VerifyRead
      <4>2. QED
        BY <2>1, <4>1 DEF Types
    <3>2. CASE ~AllParse
      BY <1>18, <3>2 DEF VerifyRead, Types
    <3>3. QED
      BY <3>1, <3>2
  <2>3. known' \in [Procs -> Seq(Nat)]
    BY <1>18 DEF VerifyRead, Types
  <2>4. UNCHANGED <<files, mark, lock, entry, fd, stamp, back, bounds, returned, disturbed>>
    BY <1>18 DEF VerifyRead
  <2>5. QED
    BY <2>2, <2>3, <2>4 DEF Types, FilesTyped
<1>19. ASSUME NEW p \in Procs, VerifyMark(p) PROVE Types'
  BY <1>19 DEF VerifyMark, Types, FilesTyped
<1>20. ASSUME NEW p \in Procs, Crash(p) PROVE Types'
  BY <1>20, <1>d DEF Crash, Types, FilesTyped, Unlinked, None
<1>21. QED
  BY <1>a, <1>b, <1>c, <1>1, <1>2, <1>3, <1>4, <1>5, <1>6, <1>7, <1>8, <1>9, <1>10, <1>11,
     <1>12, <1>13, <1>14, <1>15, <1>16, <1>17, <1>18, <1>19, <1>20 DEF Next, Step

LEMMA HoldersStep ==
  ASSUME Types, Holders, [Next]_vars
  PROVE  Holders'
<1> USE DEF files, mine, bounds, history, Goto, Forget, End, Places, Holding, Zipping
<1>a. CASE UNCHANGED vars
  BY <1>a DEF vars, Holders
<1>b. CASE ClearLock
  BY <1>b DEF ClearLock, Holders
<1>c. CASE Tick
  BY <1>c DEF Tick, Holders
<1>d. /\ pc \in [Procs -> Places] /\ stamp \in [Procs -> {None} \cup Seconds]
      /\ back \in [Procs -> {"idle", "read"}] /\ now \in Seconds
      /\ lock \in Procs \cup {Nobody, Dead}
      /\ Nobody \notin Procs /\ Dead \notin Procs
  BY DEF Types
<1>e. ASSUME NEW p \in Procs, End(p) PROVE Holders'
  BY <1>d, <1>e DEF Holders
<1>f. ASSUME NEW p \in Procs, NEW next \in {"read", "idle"}, Rename(p, next),
             next = IF lock = p THEN "read" ELSE "idle"
      PROVE  Holders'
  BY <1>d, <1>f DEF Rename, Holders
(* p goes on to another place of the same kind. *)
<1>g. ASSUME NEW p \in Procs, NEW l \in Places, pc' = [pc EXCEPT ![p] = l],
             UNCHANGED <<lock, stamp, back>>, pc[p] \in Holding <=> l \in Holding,
             l \in Zipping => pc[p] \in Zipping, l \in Holding \ Zipping => lock = p
      PROVE  Holders'
  BY <1>d, <1>g DEF Holders
<1>1. ASSUME NEW p \in Procs, StartAppend(p) PROVE Holders'
  BY <1>1, <1>g DEF StartAppend
<1>2. ASSUME NEW p \in Procs, AcquireLock(p) PROVE Holders'
  BY <1>2, <1>d DEF AcquireLock, Holders
<1>3. ASSUME NEW p \in Procs, AcquireFail(p) PROVE Holders'
  BY <1>3, <1>d DEF AcquireFail, Holders
<1>4. ASSUME NEW p \in Procs, TimeOut(p) PROVE Holders'
  BY <1>4, <1>e DEF TimeOut
<1>5. ASSUME NEW p \in Procs, RotateIfNeeded(p) PROVE Holders'
  <2>1. pc[p] = "rotate" /\ lock = p
    BY <1>5, <1>d DEF RotateIfNeeded, Holders
  <2>2. CASE Rename(p, "read")
    BY <1>f, <2>1, <2>2
  <2>3. CASE Goto(p, "read") /\ UNCHANGED mine /\ lock' = lock
    BY <1>g, <2>1, <2>3
  <2>4. QED
    BY <1>5, <2>2, <2>3 DEF RotateIfNeeded
<1>6. ASSUME NEW p \in Procs, RotateNow(p) PROVE Holders'
  <2>1. lock # p
    BY <1>6 DEF RotateNow, Holders
  <2>2. QED
    BY <1>6, <1>f, <2>1 DEF RotateNow
<1>7. ASSUME NEW p \in Procs, GzipStart(p) PROVE Holders'
  BY <1>7, <1>g DEF GzipStart
<1>8. ASSUME NEW p \in Procs, GzipFail(p) PROVE Holders'
  BY <1>8, <1>e DEF GzipFail
<1>9. ASSUME NEW p \in Procs, GzipFinish(p) PROVE Holders'
  BY <1>9, <1>g DEF GzipFinish
<1>10. ASSUME NEW p \in Procs, GzipUnlink(p) PROVE Holders'
  BY <1>10, <1>d DEF GzipUnlink, Holders
<1>11. ASSUME NEW p \in Procs, Read(p) PROVE Holders'
  <2>1. lock = p /\ pc[p] = "read"
    BY <1>11, <1>d DEF Read, Holders
  <2>2. CASE Goto(p, "open") /\ UNCHANGED <<lock, stamp, back>>
    BY <1>g, <2>1, <2>2
  <2>3. QED
    BY <1>11, <1>e, <2>2 DEF Read
<1>12. ASSUME NEW p \in Procs, Open(p) PROVE Holders'
  BY <1>12, <1>d, <1>g DEF Open, Holders
<1>13. ASSUME NEW p \in Procs, WriteLine(p) PROVE Holders'
  BY <1>13, <1>d, <1>g DEF WriteLine, Holders
<1>14. ASSUME NEW p \in Procs, TearLine(p) PROVE Holders'
  BY <1>14, <1>e DEF TearLine
<1>15. ASSUME NEW p \in Procs, WriteNewline(p) PROVE Holders'
  BY <1>15, <1>d, <1>g DEF WriteNewline, Holders
<1>16. ASSUME NEW p \in Procs, StoreMark(p) PROVE Holders'
  BY <1>16, <1>e DEF StoreMark
<1>17. ASSUME NEW p \in Procs, AppendFail(p) PROVE Holders'
  BY <1>17, <1>e DEF AppendFail
<1>18. ASSUME NEW p \in Procs, VerifyRead(p) PROVE Holders'
  <2>1. CASE AllParse
    BY <1>18, <1>g, <2>1 DEF VerifyRead
  <2>2. CASE ~AllParse
    BY <1>18, <2>2 DEF VerifyRead, Holders
  <2>3. QED
    BY <2>1, <2>2
<1>19. ASSUME NEW p \in Procs, VerifyMark(p) PROVE Holders'
  BY <1>19, <1>g DEF VerifyMark
<1>20. ASSUME NEW p \in Procs, Crash(p) PROVE Holders'
  BY <1>20, <1>d DEF Crash, Holders
<1>21. QED
  BY <1>a, <1>b, <1>c, <1>1, <1>2, <1>3, <1>4, <1>5, <1>6, <1>7, <1>8, <1>9, <1>10, <1>11,
     <1>12, <1>13, <1>14, <1>15, <1>16, <1>17, <1>18, <1>19, <1>20 DEF Next, Step

-----------------------------------------------------------------------------
(* What holds while nothing is disturbed: the files and who works on them.   *)

(* No file of a later second exists, and one of a second is either not yet
   gzipped, or gzipped and whole, or somebody is about it. *)
FilesKept ==
  /\ Whole(current) /\ \A s \in Seconds : Whole(plain[s])
  /\ \A s \in Seconds : s > now => plain[s] = NoFile /\ gz[s] = NoFile
  /\ \A s \in Seconds :
       \/ gz[s] = NoFile
       \/ plain[s] = NoFile /\ Whole(gz[s])
       \/ \E p \in Procs : stamp[p] = s /\ pc[p] \in {"compress", "unlink"}

(* Rotations work on files of their own, and none beside an append. *)
GzipsApart ==
  /\ \A p \in Procs : pc[p] \in Zipping => plain[stamp[p]] # NoFile
  /\ \A p \in Procs : pc[p] = "gzip" => gz[stamp[p]] = NoFile
  /\ \A p \in Procs : pc[p] = "compress" => gz[stamp[p]] = PartialGz
  /\ \A p \in Procs : pc[p] = "unlink" => gz[stamp[p]] = plain[stamp[p]]
  /\ \A p, q \in Procs :
       pc[p] \in Zipping /\ pc[q] \in Zipping /\ p # q => stamp[p] # stamp[q]
  /\ lock \in Procs => \A q \in Procs : q # lock => pc[q] \notin Zipping

(* An append has a number, which makes its line none that is cut short. *)
Numbered ==
  /\ lock \in Procs => entry[lock] # 0
  /\ \A p \in Procs : pc[p] = "lock" => entry[p] # 0

(* An append has the current file open, which ends a line but while one is
   written. *)
CurrentOpen ==
  /\ \A p \in Procs : pc[p] \in {"write", "newline", "mark"} =>
       fd[p] = Current /\ current # NoFile
  /\ \A p \in Procs : pc[p] = "newline" => ~current.ended
  /\ (\A p \in Procs : pc[p] # "newline") => current = NoFile \/ current.ended

Calm == FilesKept /\ GzipsApart /\ Numbered /\ CurrentOpen

LEMMA CalmInit ==
  ASSUME Init
  PROVE  Calm
<1>1. FilesKept
  BY SomeFiles DEF Init, FilesKept
<1>2. GzipsApart /\ Numbered /\ CurrentOpen
  BY DEF Init, GzipsApart, Numbered, CurrentOpen, Zipping
<1>3. QED
  BY <1>1, <1>2 DEF Calm

(* A process that leaves does no harm, but in a line or a gzip. *)
LEMMA CalmLeave ==
  ASSUME Types, Holders, Calm, NEW p \in Procs, Forget(p), UNCHANGED files, now' = now,
         pc[p] \notin {"newline", "compress", "unlink"},
         lock' \in Procs => lock' = lock /\ lock # p
  PROVE  Calm'
<1> USE DEF files, Forget, Goto, Zipping, Places
<1>d. /\ pc \in [Procs -> Places] /\ stamp \in [Procs -> {None} \cup Seconds]
      /\ fd \in [Procs -> {Unlinked, Current} \cup Seconds] /\ entry \in [Procs -> Nat]
  BY DEF Types
<1>1. FilesKept'
  <2>1. ASSUME NEW q \in Procs, pc[q] \in {"compress", "unlink"}
        PROVE  pc'[q] = pc[q] /\ stamp'[q] = stamp[q]
    BY <1>d, <2>1
  <2>2. QED
    BY <2>1 DEF Calm, FilesKept, Whole
<1>2. GzipsApart'
  BY <1>d DEF Calm, GzipsApart
<1>3. Numbered'
  BY <1>d DEF Calm, Numbered
<1>4. CurrentOpen'
  BY <1>d DEF Calm, CurrentOpen
<1>5. QED
  BY <1>1, <1>2, <1>3, <1>4 DEF Calm

(* Nor does one that goes on where no file is touched. *)
LEMMA CalmGo ==
  ASSUME Types, Holders, Calm, NEW p \in Procs, NEW l, pc' = [pc EXCEPT ![p] = l],
         UNCHANGED <<files, fd, stamp, now, lock>>,
         pc[p] \notin Zipping /\ pc[p] # "newline",
         l \notin Zipping /\ l \notin {"write", "newline", "mark"},
         entry' = entry \/ entry' = [entry EXCEPT ![p] = minted + 1],
         l = "lock" => entry' = [entry EXCEPT ![p] = minted + 1]
  PROVE  Calm'
<1> USE DEF files, Zipping, Places
<1>d. /\ pc \in [Procs -> Places] /\ stamp \in [Procs -> {None} \cup Seconds]
      /\ entry \in [Procs -> Nat] /\ minted + 1 # 0
  BY DEF Types
<1>1. FilesKept'
  <2>1. ASSUME NEW q \in Procs, pc[q] \in {"compress", "unlink"}
        PROVE  pc'[q] = pc[q]
    BY <1>d, <2>1
  <2>2. QED
    BY <2>1 DEF Calm, FilesKept, Whole
<1>2. GzipsApart'
  BY <1>d DEF Calm, GzipsApart
<1>3. Numbered'
  BY <1>d DEF Calm, Numbered
<1>4. CurrentOpen'
  BY <1>d DEF Calm, CurrentOpen
<1>5. QED
  BY <1>1, <1>2, <1>3, <1>4 DEF Calm

(* A rotation, when no append but its own is under way and its second is free. *)
LEMMA CalmRename ==
  ASSUME Types, Holders, Calm, NEW p \in Procs, NEW next, Rename(p, next),
         pc[p] \in {"rotate", "idle"}, current # NoFile,
         plain[now] = NoFile, gz[now] = NoFile, lock \in Procs => lock = p
  PROVE  Calm'
<1> USE DEF Goto, Zipping, Places, bounds
<1>d. /\ pc \in [Procs -> Places] /\ stamp \in [Procs -> {None} \cup Seconds]
      /\ plain \in [Seconds -> FileType] /\ now \in Seconds
      /\ Seconds \subseteq Nat /\ current \in FileType
      /\ Nobody \notin Procs /\ Dead \notin Procs
  BY DEF Types, FilesTyped, Seconds
<1>e. /\ pc' = [pc EXCEPT ![p] = "gzip"] /\ stamp' = [stamp EXCEPT ![p] = now]
      /\ plain' = [plain EXCEPT ![now] = current] /\ current' = NoFile
      /\ UNCHANGED <<gz, lock, entry, now>>
  BY DEF Rename
<1>f. ASSUME NEW q \in Procs PROVE pc[q] \notin {"open", "write", "newline", "mark"}
  BY <1>d, <1>f DEF Holders, Holding
<1>1. FilesKept'
  <2>1. ASSUME NEW q \in Procs, pc[q] \in {"compress", "unlink"}
        PROVE  pc'[q] = pc[q] /\ stamp'[q] = stamp[q]
    BY <1>d, <1>e, <2>1
  <2>2. Whole(current') /\ \A s \in Seconds : Whole(plain'[s])
    BY <1>d, <1>e, SomeFiles DEF Calm, FilesKept
  <2>3. \A s \in Seconds : s > now => plain'[s] = NoFile /\ gz'[s] = NoFile
    BY <1>d, <1>e DEF Calm, FilesKept
  <2>4. ASSUME NEW s \in Seconds
        PROVE  \/ gz'[s] = NoFile
               \/ plain'[s] = NoFile /\ Whole(gz'[s])
               \/ \E q \in Procs : stamp'[q] = s /\ pc'[q] \in {"compress", "unlink"}
    BY <1>d, <1>e, <2>1 DEF Calm, FilesKept
  <2>5. QED
    BY <1>e, <2>2, <2>3, <2>4 DEF FilesKept, Whole
<1>2. GzipsApart'
  <2>1. ASSUME NEW q \in Procs, pc[q] \in Zipping
        PROVE  q # p /\ pc'[q] = pc[q] /\ stamp'[q] = stamp[q] /\ stamp[q] # now
               /\ plain'[stamp[q]] = plain[stamp[q]] /\ stamp[q] \in Seconds
    BY <1>d, <1>e, <2>1 DEF Calm, GzipsApart, Holders
  <2>2. ASSUME NEW q \in Procs, pc'[q] \in Zipping
        PROVE  \/ q = p /\ stamp'[q] = now /\ pc'[q] = "gzip"
               \/ q # p /\ pc[q] = pc'[q] /\ pc[q] \in Zipping
    BY <1>d, <1>e, <2>2
  <2>3. plain'[now] # NoFile /\ gz'[now] = NoFile
    BY <1>d, <1>e
  <2>4. \A q \in Procs : pc'[q] \in Zipping => plain'[stamp'[q]] # NoFile
    BY <2>1, <2>2, <2>3 DEF Calm, GzipsApart
  <2>5. \A q \in Procs : pc'[q] = "gzip" => gz'[stamp'[q]] = NoFile
    BY <1>e, <2>1, <2>2, <2>3 DEF Calm, GzipsApart
  <2>6. \A q \in Procs : pc'[q] = "compress" => gz'[stamp'[q]] = PartialGz
    BY <1>e, <2>1, <2>2 DEF Calm, GzipsApart
  <2>7. \A q \in Procs : pc'[q] = "unlink" => gz'[stamp'[q]] = plain'[stamp'[q]]
    BY <1>e, <2>1, <2>2 DEF Calm, GzipsApart
  <2>8. \A q, r \in Procs :
          pc'[q] \in Zipping /\ pc'[r] \in Zipping /\ q # r => stamp'[q] # stamp'[r]
    BY <2>1, <2>2 DEF Calm, GzipsApart
  <2>9. lock' \in Procs => \A q \in Procs : q # lock' => pc'[q] \notin Zipping
    BY <1>e, <2>2 DEF Calm, GzipsApart
  <2>10. QED
    BY <2>4, <2>5, <2>6, <2>7, <2>8, <2>9 DEF GzipsApart
<1>3. Numbered'
  BY <1>d, <1>e DEF Calm, Numbered
<1>4. CurrentOpen'
  <2>1. \A q \in Procs : pc'[q] \notin {"write", "newline", "mark"}
    BY <1>d, <1>e, <1>f
  <2>2. QED
    BY <1>e, <2>1 DEF CurrentOpen
<1>5. QED
  BY <1>1, <1>2, <1>3, <1>4 DEF Calm

(* A gzip that comes a step further on the file of its second. *)
LEMMA CalmGzip ==
  ASSUME Types, Holders, Calm, NEW p \in Procs, GzipStart(p) \/ GzipFinish(p)
  PROVE  Calm'
<1> USE DEF Goto, Zipping, Places, bounds, mine
<1> DEFINE s == stamp[p]
           g == IF pc[p] = "gzip" THEN PartialGz ELSE plain[s]
           l == IF pc[p] = "gzip" THEN "compress" ELSE "unlink"
<1>d. /\ pc \in [Procs -> Places] /\ s \in Seconds /\ gz \in [Seconds -> FileType]
      /\ now \in Seconds /\ Seconds \subseteq Nat
  <2>1. pc[p] \in Zipping
    BY DEF GzipStart, GzipFinish
  <2>2. QED
    BY <2>1 DEF Types, FilesTyped, Seconds, Holders
<1>e. /\ pc[p] \in {"gzip", "compress"} /\ pc' = [pc EXCEPT ![p] = l] /\ gz' = [gz EXCEPT ![s] = g]
      /\ UNCHANGED <<current, plain, stamp, fd, entry, lock, now>>
  BY DEF GzipStart, GzipFinish
<1>f. \A q \in Procs : q # p => pc'[q] = pc[q] /\ (pc[q] \in Zipping => stamp[q] # s)
  BY <1>d, <1>e DEF Calm, GzipsApart
<1>g. pc'[p] = l /\ gz'[s] = g /\ plain[s] # NoFile /\ \A z \in Seconds : z # s => gz'[z] = gz[z]
  BY <1>d, <1>e DEF Calm, GzipsApart
<1>1. FilesKept'
  <2>1. s <= now
    <3>1. ~(s > now)
      BY <1>d, <1>g DEF Calm, FilesKept
    <3>2. s \in Nat /\ now \in Nat
      BY <1>d
    <3>3. QED
      BY <3>1, <3>2
  <2>2. ASSUME NEW z \in Seconds, z # s
        PROVE  \/ gz'[z] = NoFile
               \/ plain'[z] = NoFile /\ Whole(gz'[z])
               \/ \E q \in Procs : stamp'[q] = z /\ pc'[q] \in {"compress", "unlink"}
    BY <1>e, <1>f, <1>g, <2>2 DEF Calm, FilesKept
  <2>3. stamp'[p] = s /\ pc'[p] \in {"compress", "unlink"}
    BY <1>e, <1>g
  <2>4. \A z \in Seconds : z > now => plain'[z] = NoFile /\ gz'[z] = NoFile
    BY <1>d, <1>e, <1>g, <2>1 DEF Calm, FilesKept
  <2>5. QED
    BY <1>e, <2>2, <2>3, <2>4 DEF Calm, FilesKept, Whole
<1>2. GzipsApart'
  <2>1. ASSUME NEW q \in Procs, q # p, pc[q] \in Zipping PROVE gz'[stamp[q]] = gz[stamp[q]]
    BY <1>f, <1>g, <2>1 DEF Holders
  <2>2. \A q \in Procs : pc'[q] = "gzip" => gz'[stamp'[q]] = NoFile
    BY <1>e, <1>f, <1>g, <2>1 DEF Calm, GzipsApart
  <2>3. \A q \in Procs : pc'[q] = "compress" => gz'[stamp'[q]] = PartialGz
    BY <1>e, <1>f, <1>g, <2>1 DEF Calm, GzipsApart
  <2>4. \A q \in Procs : pc'[q] = "unlink" => gz'[stamp'[q]] = plain'[stamp'[q]]
    BY <1>e, <1>f, <1>g, <2>1 DEF Calm, GzipsApart
  <2>5. QED
    BY <1>d, <1>e, <2>2, <2>3, <2>4 DEF Calm, GzipsApart
<1>3. Numbered'
  BY <1>d, <1>e DEF Calm, Numbered
<1>4. CurrentOpen'
  BY <1>d, <1>e DEF Calm, CurrentOpen
<1>5. QED
  BY <1>1, <1>2, <1>3, <1>4 DEF Calm

LEMMA CalmUnlink ==
  ASSUME Types, Holders, Calm, NEW p \in Procs, GzipUnlink(p)
  PROVE  Calm'
<1> USE DEF Goto, Zipping, Places, bounds
<1> DEFINE s == stamp[p]
<1>d. /\ pc \in [Procs -> Places] /\ s \in Seconds /\ plain \in [Seconds -> FileType]
      /\ stamp \in [Procs -> {None} \cup Seconds]
      /\ fd \in [Procs -> {Unlinked, Current} \cup Seconds] /\ Current \notin Seconds
      /\ pc[p] = "unlink" /\ back[p] \in {"idle", "read"} /\ Unlinked # Current
  BY DEF GzipUnlink, Types, FilesTyped, Seconds, Holders, Current, Unlinked
<1>e. /\ pc' = [pc EXCEPT ![p] = back[p]] /\ plain' = [plain EXCEPT ![s] = NoFile]
      /\ fd' = [q \in Procs |-> IF fd[q] = s THEN Unlinked ELSE fd[q]]
      /\ stamp' = [stamp EXCEPT ![p] = None]
      /\ UNCHANGED <<current, gz, entry, lock, now>>
  BY DEF GzipUnlink
<1>f. \A q \in Procs : q # p => pc'[q] = pc[q] /\ stamp'[q] = stamp[q]
                                /\ (pc[q] \in Zipping => stamp[q] # s)
  BY <1>d, <1>e DEF Calm, GzipsApart
<1>g. pc'[p] \notin Zipping /\ plain'[s] = NoFile /\ Whole(gz[s])
      /\ \A z \in Seconds : z # s => plain'[z] = plain[z]
  <2>1. gz[s] = plain[s]
    BY <1>d DEF Calm, GzipsApart
  <2>2. QED
    BY <1>d, <1>e, <2>1 DEF Calm, FilesKept
<1>1. FilesKept'
  <2>1. ASSUME NEW z \in Seconds, z # s
        PROVE  \/ gz'[z] = NoFile
               \/ plain'[z] = NoFile /\ Whole(gz'[z])
               \/ \E q \in Procs : stamp'[q] = z /\ pc'[q] \in {"compress", "unlink"}
    BY <1>e, <1>f, <1>g, <2>1 DEF Calm, FilesKept
  <2>2. \A z \in Seconds : Whole(plain'[z])
    BY <1>g, SomeFiles DEF Calm, FilesKept
  <2>3. \A z \in Seconds : z > now => plain'[z] = NoFile /\ gz'[z] = NoFile
    BY <1>e, <1>g DEF Calm, FilesKept
  <2>4. QED
    BY <1>e, <1>g, <2>1, <2>2, <2>3 DEF Calm, FilesKept, Whole
<1>2. GzipsApart'
  <2>1. ASSUME NEW q \in Procs, q # p, pc[q] \in Zipping PROVE plain'[stamp[q]] = plain[stamp[q]]
    BY <1>f, <1>g, <2>1 DEF Holders
  <2>2. \A q \in Procs : pc'[q] \in Zipping =>
          q # p /\ pc[q] = pc'[q] /\ stamp'[q] = stamp[q] /\ plain'[stamp[q]] = plain[stamp[q]]
    BY <1>f, <1>g, <2>1
  <2>3. QED
    BY <1>e, <2>2 DEF Calm, GzipsApart
<1>3. Numbered'
  BY <1>d, <1>e DEF Calm, Numbered
<1>4. CurrentOpen'
  BY <1>d, <1>e DEF Calm, CurrentOpen
<1>5. QED
  BY <1>1, <1>2, <1>3, <1>4 DEF Calm

(* The step of an append that has the lock changes the current file alone. *)
LEMMA CalmCurrent ==
  ASSUME Types, Holders, Calm, NEW p \in Procs, NEW l, lock = p,
         pc[p] \in {"open", "write", "newline"}, pc' = [pc EXCEPT ![p] = l],
         l \in {"write", "newline", "mark"}, UNCHANGED <<plain, gz, lock, entry, stamp, now>>,
         fd'[p] = Current, current' # NoFile, Whole(current'),
         current'.ended <=> l # "newline"
  PROVE  Calm'
<1> USE DEF Zipping, Places
<1>d. pc \in [Procs -> Places]
  BY DEF Types
<1>e. \A q \in Procs : q # p => pc'[q] = pc[q] /\ pc[q] \notin {"write", "newline", "mark"}
  BY <1>d DEF Holders, Holding
<1>f. \A q \in Procs : pc[q] \notin Zipping
  BY DEF Calm, GzipsApart
<1>1. FilesKept'
  <2>1. \A z \in Seconds : gz[z] = NoFile \/ (plain[z] = NoFile /\ Whole(gz[z]))
    BY <1>f DEF Calm, FilesKept
  <2>2. QED
    BY <2>1 DEF Calm, FilesKept, Whole
<1>2. GzipsApart'
  BY <1>d, <1>f DEF GzipsApart
<1>3. Numbered'
  BY <1>d DEF Calm, Numbered
<1>4. CurrentOpen'
  BY <1>d, <1>e DEF CurrentOpen
<1>5. QED
  BY <1>1, <1>2, <1>3, <1>4 DEF Calm

(* What an append finds before it writes. *)
LEMMA Writing ==
  ASSUME Types, Holders, Calm, NEW p \in Procs, pc[p] \in {"write", "newline"}
  PROVE  /\ lock = p /\ Opened(p) = current /\ current \in FileType /\ current # NoFile
         /\ pc[p] = "write" => current.ended
         /\ [id |-> entry[p], prev |-> HeadOf(seen[p])] \in LineType
         /\ [id |-> entry[p], prev |-> HeadOf(seen[p])] # Junk
<1>1. lock = p /\ fd[p] = Current /\ current # NoFile /\ entry[p] # 0 /\ current \in FileType
  BY DEF Holders, Calm, CurrentOpen, Numbered, Types, FilesTyped, Holding, Zipping
<1>2. Opened(p) = current
  <2>1. fd[p] \notin Seconds
    BY <1>1 DEF Current, Seconds
  <2>2. QED
    BY <1>1, <2>1 DEF Opened
<1>3. pc[p] = "write" => current.ended
  <2>1. \A q \in Procs : pc[q] = "newline" => lock = q
    BY DEF Holders, Holding, Zipping
  <2>2. QED
    BY <1>1, <2>1 DEF Calm, CurrentOpen
<1>4. HeadOf(seen[p]) \in Nat
  <2>1. seen[p] \in Seq(LineType)
    BY DEF Types
  <2>2. seen[p] # <<>> => seen[p][Len(seen[p])] \in LineType
    <3>1. seen[p] # <<>> => Len(seen[p]) \in 1 .. Len(seen[p])
      BY <2>1, EmptySeq
    <3>2. QED
      BY <2>1, <3>1, ElementOfSeq
  <2>3. QED
    BY <2>2 DEF HeadOf, LineType
<1>5. entry[p] \in Nat
  BY DEF Types
<1>6. [id |-> entry[p], prev |-> HeadOf(seen[p])] # Junk
  BY <1>1 DEF Junk
<1>7. QED
  BY <1>1, <1>2, <1>3, <1>4, <1>5, <1>6 DEF LineType

LEMMA CalmStep ==
  ASSUME Types, Holders, Calm, [Next]_vars, ~disturbed'
  PROVE  Calm'
<1> USE DEF files, mine, bounds, history, Goto, Places, Holding, Zipping
<1>d. /\ pc \in [Procs -> Places] /\ now \in Seconds /\ Seconds \subseteq Nat
      /\ fd \in [Procs -> {Unlinked, Current} \cup Seconds]
      /\ Nobody \notin Procs /\ Dead \notin Procs
  BY DEF Types, Seconds
<1>a. CASE UNCHANGED vars
  BY <1>a DEF vars, Calm, FilesKept, GzipsApart, Numbered, CurrentOpen, Whole
<1>b. CASE ClearLock
  BY <1>b, <1>d DEF ClearLock, Calm, FilesKept, GzipsApart, Numbered, CurrentOpen, Whole
<1>c. CASE Tick
  BY <1>c, <1>d DEF Tick, Calm, FilesKept, GzipsApart, Numbered, CurrentOpen, Whole
<1>1. ASSUME NEW p \in Procs, StartAppend(p) PROVE Calm'
  BY <1>1, CalmGo DEF StartAppend
<1>2. ASSUME NEW p \in Procs, AcquireLock(p) PROVE Calm'
  <2>1. \A q \in Procs : pc[q] \notin Zipping
    BY <1>2, <1>d DEF AcquireLock, RotatesBeside
  <2>2. \A q \in Procs : q # p => pc'[q] = pc[q]
    BY <1>2, <1>d DEF AcquireLock
  <2>3. UNCHANGED <<files, entry, fd, now>> /\ pc'[p] = "rotate" /\ lock' = p
    BY <1>2, <1>d DEF AcquireLock
  <2>4. FilesKept'
    BY <2>1, <2>3 DEF Calm, FilesKept, Whole
  <2>5. GzipsApart'
    BY <2>1, <2>2, <2>3 DEF GzipsApart
  <2>6. Numbered'
    BY <1>2, <2>2, <2>3 DEF AcquireLock, Calm, Numbered
  <2>7. CurrentOpen'
    BY <1>2, <2>2, <2>3 DEF AcquireLock, Calm, CurrentOpen
  <2>8. QED
    BY <2>4, <2>5, <2>6, <2>7 DEF Calm
<1>3. ASSUME NEW p \in Procs, AcquireFail(p) PROVE Calm'
  BY <1>3, <1>d, CalmLeave DEF AcquireFail
<1>4. ASSUME NEW p \in Procs, TimeOut(p) PROVE Calm'
  BY <1>4, <1>d, CalmLeave DEF TimeOut, End
<1>5. ASSUME NEW p \in Procs, RotateIfNeeded(p) PROVE Calm'
  <2>1. pc[p] = "rotate" /\ lock = p
    BY <1>5, <1>d DEF RotateIfNeeded, Holders
  <2>2. CASE /\ current # NoFile /\ plain[now] = NoFile /\ gz[now] = NoFile
             /\ Rename(p, "read")
    BY <2>1, <2>2, CalmRename
  <2>3. CASE Goto(p, "read") /\ UNCHANGED <<files, mark, lock, mine, verdict, bounds, history>>
    BY <2>1, <2>3, CalmGo
  <2>4. QED
    BY <1>5, <2>2, <2>3 DEF RotateIfNeeded
<1>6. ASSUME NEW p \in Procs, RotateNow(p) PROVE Calm'
  <2>1. /\ pc[p] = "idle" /\ current # NoFile /\ Rename(p, "idle")
        /\ lock \notin Procs /\ plain[now] = NoFile /\ gz[now] = NoFile
    BY <1>6 DEF RotateNow
  <2>2. QED
    BY <2>1, CalmRename
<1>7. ASSUME NEW p \in Procs, GzipStart(p) PROVE Calm'
  BY <1>7, CalmGzip
<1>8. ASSUME NEW p \in Procs, GzipFail(p) PROVE Calm'
  BY <1>8, <1>d, CalmLeave DEF GzipFail, End
<1>9. ASSUME NEW p \in Procs, GzipFinish(p) PROVE Calm'
  BY <1>9, CalmGzip
<1>10. ASSUME NEW p \in Procs, GzipUnlink(p) PROVE Calm'
  BY <1>10, CalmUnlink
<1>11. ASSUME NEW p \in Procs, Read(p) PROVE Calm'
  <2>1. CASE End(p)
    BY <1>11, <2>1, <1>d, CalmLeave DEF Read, End
  <2>2. CASE Goto(p, "open") /\ UNCHANGED <<lock, entry, fd, stamp, back>>
    BY <1>11, <2>2, CalmGo DEF Read
  <2>3. QED
    BY <1>11, <2>1, <2>2 DEF Read
<1>12. ASSUME NEW p \in Procs, Open(p) PROVE Calm'
  <2>1. lock = p /\ pc[p] = "open" /\ fd'[p] = Current
    BY <1>12, <1>d DEF Open, Holders
  <2>2. \A q \in Procs : pc[q] # "newline"
    BY <2>1 DEF Holders
  <2>3. current' # NoFile /\ Whole(current') /\ current'.ended
    BY <1>12, <2>2, SomeFiles DEF Open, Calm, FilesKept, CurrentOpen, EmptyFile
  <2>4. QED
    BY <1>12, <2>1, <2>3, CalmCurrent DEF Open
<1>13. ASSUME NEW p \in Procs, WriteLine(p) PROVE Calm'
  <2> DEFINE line == [id |-> entry[p], prev |-> HeadOf(seen[p])]
  <2>1. pc[p] = "write" /\ Written(p, Put(Opened(p), line))
    BY <1>13 DEF WriteLine
  <2>2. /\ lock = p /\ Opened(p) = current /\ current \in FileType /\ current.ended
        /\ line \in LineType /\ line # Junk
    BY <2>1, Writing
  <2>3. fd[p] = Current /\ Current \notin Seconds /\ Whole(current)
    BY <2>1 DEF Calm, CurrentOpen, FilesKept, Current, Seconds
  <2> HIDE DEF line
  <2>4. current' = Put(current, line) /\ plain' = plain /\ gz' = gz
    BY <2>1, <2>2, <2>3 DEF Written
  <2>5. Whole(current') /\ ~current'.ended /\ current' \in FileType
    BY <2>2, <2>3, <2>4, PutType, PutWhole
  <2>6. current' # NoFile
    <3>1. current'.lines = Append(current.lines, line) /\ current.lines \in Seq(LineType)
      BY <2>2, <2>4, PutType DEF FileType
    <3>2. current'.lines # <<>>
      BY <2>2, <3>1, AppendProperties
    <3>3. QED
      BY <3>2 DEF NoFile
  <2>7. QED
    BY <1>13, <2>1, <2>2, <2>3, <2>4, <2>5, <2>6, CalmCurrent DEF WriteLine
<1>14. ASSUME NEW p \in Procs, TearLine(p) PROVE Calm'
  BY <1>14 DEF TearLine
<1>15. ASSUME NEW p \in Procs, WriteNewline(p) PROVE Calm'
  <2>1. pc[p] = "newline" /\ Written(p, EndLine(Opened(p)))
    BY <1>15 DEF WriteNewline
  <2>2. /\ lock = p /\ Opened(p) = current /\ current \in FileType
    BY <2>1, Writing
  <2>3. fd[p] = Current /\ Current \notin Seconds /\ Whole(current)
    BY <2>1 DEF Calm, CurrentOpen, FilesKept, Current, Seconds
  <2>4. current' = EndLine(current) /\ plain' = plain /\ gz' = gz
    BY <2>1, <2>2, <2>3 DEF Written
  <2>5. current'.ended /\ current'.lines = current.lines
    BY <2>2, <2>4, PutType, SomeFiles
  <2>6. Whole(current') /\ current' # NoFile
    BY <2>3, <2>5 DEF Whole, NoFile
  <2>7. QED
    BY <1>15, <2>1, <2>2, <2>3, <2>4, <2>5, <2>6, CalmCurrent DEF WriteNewline
<1>16. ASSUME NEW p \in Procs, StoreMark(p) PROVE Calm'
  BY <1>16, <1>d, CalmLeave DEF StoreMark, End
<1>17. ASSUME NEW p \in Procs, AppendFail(p) PROVE Calm'
  BY <1>17, <1>d, CalmLeave DEF AppendFail, End
<1>18. ASSUME NEW p \in Procs, VerifyRead(p) PROVE Calm'
  <2>1. CASE AllParse
    BY <1>18, <2>1, CalmGo DEF VerifyRead
  <2>2. CASE ~AllParse
    <3>1. pc' = pc /\ UNCHANGED <<files, lock, entry, fd, stamp, now>>
      BY <1>18, <2>2 DEF VerifyRead
    <3>2. QED
      BY <3>1 DEF Calm, FilesKept, GzipsApart, Numbered, CurrentOpen, Whole
  <2>3. QED
    BY <2>1, <2>2
<1>19. ASSUME NEW p \in Procs, VerifyMark(p) PROVE Calm'
  BY <1>19, CalmGo DEF VerifyMark
<1>20. ASSUME NEW p \in Procs, Crash(p) PROVE Calm'
  BY <1>20, <1>d, CalmLeave DEF Crash
<1>21. QED
  BY <1>a, <1>b, <1>c, <1>1, <1>2, <1>3, <1>4, <1>5, <1>6, <1>7, <1>8, <1>9, <1>10, <1>11,
     <1>12, <1>13, <1>14, <1>15, <1>16, <1>17, <1>18, <1>19, <1>20 DEF Next, Step

-----------------------------------------------------------------------------
(* What is read from the files, and what a step makes of it.                 *)

(* Whatever is under way, a reader finds every entry of the log ... *)
LEMMA ReadsAll ==
  ASSUME FilesTyped
  PROVE  SubsequenceOf(History, AllEntries)
<1>1. ASSUME NEW s \in Seconds PROVE SubsequenceOf(Kept[s], Stored[s])
  <2> DEFINE a == Entries(plain[s])
             b == Entries(gz[s])
  <2>1. a \in Seq(LineType) /\ b \in Seq(LineType)
    BY EntriesType DEF FilesTyped
  <2>2. Stored[s] = a \o b /\ Kept[s] = IF plain[s] # NoFile THEN a ELSE b
    BY DEF Stored, Kept
  <2>3. SubsequenceOf(a, a) /\ SubsequenceOf(b, b)
    BY <2>1, SubsequenceSelf
  <2>4. SubsequenceOf(a, a \o b)
    BY <2>1, <2>3, SubsequenceBefore
  <2>5. plain[s] = NoFile => a \o b = b
    BY <2>1, SomeFiles, ConcatEmptySeq
  <2> HIDE DEF a, b
  <2>6. QED
    BY <2>2, <2>3, <2>4, <2>5
<1>2. SubsequenceOf(FlattenSeq(Kept), FlattenSeq(Stored))
  <2>1. MaxSeconds \in Nat /\ MaxSeconds >= 1 /\ Seconds = 1 .. MaxSeconds
    BY DEF Seconds, BoundsAssumption
  <2>2. QED
    BY <1>1, <2>1, LogTypes, FlattenWithin
<1>3. SubsequenceOf(Entries(current), Entries(current))
  BY LogTypes, SubsequenceSelf
<1>4. /\ FlattenSeq(Stored) \in Seq(LineType) /\ FlattenSeq(Kept) \in Seq(LineType)
      /\ Entries(current) \in Seq(LineType)
      /\ AllEntries = FlattenSeq(Stored) \o Entries(current)
      /\ History = FlattenSeq(Kept) \o Entries(current)
  BY LogTypes
<1>5. SubsequenceOf(FlattenSeq(Kept) \o Entries(current), FlattenSeq(Stored) \o Entries(current))
  BY <1>2, <1>3, <1>4, SubsequenceConcat
<1>6. QED
  BY <1>4, <1>5

(* ... and finds it once when no gzip is. *)
LEMMA QuietReads ==
  ASSUME Types, Calm, \A p \in Procs : pc[p] \notin {"compress", "unlink"}
  PROVE  AllParse /\ AllEntries = History
<1>1. FilesTyped
  BY DEF Types
<1>2. ASSUME NEW s \in Seconds
      PROVE  Stored[s] = Kept[s] /\ Parses(plain[s]) /\ Parses(gz[s])
  <2> DEFINE a == Entries(plain[s])
             b == Entries(gz[s])
  <2>1. a \in Seq(LineType) /\ b \in Seq(LineType)
        /\ plain[s] \in FileType /\ gz[s] \in FileType
    BY <1>1, EntriesType DEF FilesTyped
  <2>2. Whole(plain[s]) /\ (gz[s] = NoFile \/ (plain[s] = NoFile /\ Whole(gz[s])))
    BY DEF Calm, FilesKept
  <2>3. Stored[s] = a \o b /\ Kept[s] = IF plain[s] # NoFile THEN a ELSE b
    BY DEF Stored, Kept
  <2>4. (plain[s] = NoFile => a \o b = b) /\ (gz[s] = NoFile => a \o b = a)
    BY <2>1, SomeFiles, ConcatEmptySeq
  <2>5. Parses(plain[s]) /\ Parses(gz[s])
    BY <2>1, <2>2, SomeFiles, EntriesWhole
  <2>6. plain[s] # NoFile => gz[s] = NoFile
    BY <2>2
  <2> HIDE DEF a, b
  <2>7. QED
    BY <2>3, <2>4, <2>5, <2>6
<1>3. Parses(current)
  BY <1>1, EntriesWhole DEF FilesTyped, Calm, FilesKept
<1>4. Stored = Kept
  BY <1>2 DEF Stored, Kept
<1>5. QED
  BY <1>1, <1>2, <1>3, <1>4, LogTypes DEF AllParse

(* A rotation moves the newest entries to where the older ones end. *)
LEMMA HistoryRename ==
  ASSUME Types, Calm, NEW p \in Procs, NEW next, Rename(p, next), current # NoFile,
         plain[now] = NoFile, gz[now] = NoFile
  PROVE  History' = History
<1>1. FilesTyped /\ now \in Seconds /\ plain \in [Seconds -> FileType]
  BY DEF Types, FilesTyped
<1>2. plain' = [plain EXCEPT ![now] = current] /\ gz' = gz /\ current' = NoFile
  BY DEF Rename
<1> DEFINE r == Kept'
           e == Entries(current)
<1>3. r \in [Seconds -> Seq(LineType)] /\ r[now] = e /\ \A s \in Seconds : s # now => r[s] = Kept[s]
  <2>1. r = [s \in Seconds |-> IF plain'[s] # NoFile THEN Entries(plain'[s]) ELSE Entries(gz'[s])]
    BY DEF Kept
  <2>2. \A s \in Seconds : r[s] = IF s = now THEN e ELSE Kept[s]
    BY <1>1, <1>2, <2>1 DEF Kept
  <2>3. e \in Seq(LineType) /\ Kept \in [Seconds -> Seq(LineType)]
    BY <1>1, LogTypes
  <2>4. DOMAIN r = Seconds
    BY <2>1
  <2> HIDE DEF r, e
  <2>5. \A s \in Seconds : r[s] \in Seq(LineType)
    BY <2>2, <2>3
  <2>6. r = [s \in Seconds |-> r[s]]
    BY <2>1
  <2>7. QED
    BY <1>1, <2>2, <2>5, <2>6
<1>4. \A s \in Seconds : s >= now => Kept[s] = <<>>
  <2>1. ASSUME NEW s \in Seconds, s >= now PROVE plain[s] = NoFile /\ gz[s] = NoFile
    <3>1. s = now \/ s > now
      BY <1>1, <2>1 DEF Seconds
    <3>2. QED
      BY <3>1 DEF Calm, FilesKept
  <2>2. QED
    BY <2>1, SomeFiles DEF Kept
<1>5. FlattenSeq(r) = FlattenSeq(Kept) \o e
  <2>1. /\ MaxSeconds \in Nat /\ Seconds = 1 .. MaxSeconds
        /\ Kept \in [Seconds -> Seq(LineType)]
    BY <1>1, LogTypes DEF Seconds, BoundsAssumption
  <2> HIDE DEF r, e
  <2>2. \A s \in now .. MaxSeconds : s \in Seconds /\ s >= now
    BY <1>1, <2>1
  <2>3. Puts(r, Kept, now, MaxSeconds, LineType)
    BY <1>1, <1>3, <1>4, <2>1, <2>2 DEF Puts
  <2>4. QED
    BY <1>3, <2>3, FlattenPlus
<1>6. History = FlattenSeq(Kept) \o e /\ History \in Seq(LineType)
  BY <1>1, LogTypes
<1>7. History' = FlattenSeq(r) \o Entries(current')
  BY DEF History, Kept
<1>8. Entries(current') = <<>>
  BY <1>2, SomeFiles
<1> HIDE DEF r, e
<1>9. QED
  BY <1>5, <1>6, <1>7, <1>8, ConcatEmptySeq

(* The step leaves what is kept of each second, and the lines of the file. *)
LEMMA HistorySame ==
  ASSUME \A s \in Seconds : Kept'[s] = Kept[s], Entries(current') = Entries(current)
  PROVE  History' = History
<1>1. Kept' = Kept
  <2>1. Kept = [s \in Seconds |-> Kept[s]]
    BY DEF Kept
  <2>2. Kept' = [s \in Seconds |-> Kept'[s]]
    BY DEF Kept
  <2>3. QED
    BY <2>1, <2>2
<1>2. History = FlattenSeq(Kept) \o Entries(current)
  BY DEF History, Kept
<1>3. History' = FlattenSeq(Kept') \o Entries(current')
  BY DEF History, Kept
<1>4. QED
  BY <1>1, <1>2, <1>3

LEMMA ConcatAppend ==
  ASSUME NEW S, NEW s \in Seq(S), NEW t \in Seq(S), NEW x \in S
  PROVE  s \o Append(t, x) = Append(s \o t, x)
<1>1. <<x>> \in Seq(S) /\ s \o t \in Seq(S)
  BY ConcatProperties
<1>2. Append(t, x) = t \o <<x>> /\ Append(s \o t, x) = (s \o t) \o <<x>>
  BY <1>1, AppendIsConcat
<1>3. QED
  BY <1>1, <1>2, ConcatAssociative

LineOf(p) == [id |-> entry[p], prev |-> HeadOf(seen[p])]

LEMMA HistoryWrite ==
  ASSUME Types, Holders, Calm, NEW p \in Procs, WriteLine(p)
  PROVE  History' = Append(History, LineOf(p))
<1>1. pc[p] = "write" /\ Written(p, Put(Opened(p), LineOf(p)))
  BY DEF WriteLine, LineOf
<1>2. /\ lock = p /\ Opened(p) = current /\ current \in FileType /\ current.ended
      /\ LineOf(p) \in LineType /\ LineOf(p) # Junk
  BY <1>1, Writing DEF LineOf
<1>3. fd[p] = Current /\ Current \notin Seconds /\ Whole(current)
  BY <1>1 DEF Calm, CurrentOpen, FilesKept, Current, Seconds
<1>4. current' = Put(current, LineOf(p)) /\ plain' = plain /\ gz' = gz
  BY <1>1, <1>2, <1>3 DEF Written
<1>5. Entries(current') = Append(Entries(current), LineOf(p))
  <2>1. /\ current' \in FileType /\ Whole(current')
        /\ current'.lines = Append(current.lines, LineOf(p))
    BY <1>2, <1>3, <1>4, PutType, PutWhole
  <2>2. QED
    BY <1>2, <1>3, <2>1, EntriesWhole
<1>6. Kept' = Kept
  BY <1>4 DEF Kept
<1>7. History = FlattenSeq(Kept) \o Entries(current)
      /\ FlattenSeq(Kept) \in Seq(LineType) /\ Entries(current) \in Seq(LineType)
  BY LogTypes DEF Types
<1>8. History' = FlattenSeq(Kept') \o Entries(current')
  BY DEF History, Kept
<1>9. QED
  BY <1>2, <1>5, <1>6, <1>7, <1>8, ConcatAppend

(* The log changes by the line of an append, and by nothing else. *)
LEMMA HistoryStep ==
  ASSUME Types, Holders, Calm, [Next]_vars, ~disturbed',
         \A p \in Procs : ~WriteLine(p)
  PROVE  History' = History
<1> USE DEF files, mine, bounds, history, Goto, Places, Holding, Zipping
<1>a. ASSUME UNCHANGED files PROVE History' = History
  BY <1>a DEF History
<1>1. CASE UNCHANGED vars
  BY <1>1, <1>a DEF vars
<1>2. CASE ClearLock \/ Tick
  BY <1>2, <1>a DEF ClearLock, Tick
<1>3. ASSUME NEW p \in Procs,
             \/ StartAppend(p) \/ AcquireLock(p) \/ AcquireFail(p) \/ TimeOut(p) \/ GzipFail(p)
             \/ Read(p) \/ StoreMark(p) \/ AppendFail(p) \/ VerifyRead(p) \/ VerifyMark(p)
             \/ Crash(p)
      PROVE  History' = History
  <2>1. UNCHANGED files
    BY <1>3 DEF StartAppend, AcquireLock, AcquireFail, TimeOut, GzipFail, Read, StoreMark,
                AppendFail, VerifyRead, VerifyMark, Crash
  <2>2. QED
    BY <1>a, <2>1
<1>4. ASSUME NEW p \in Procs, RotateIfNeeded(p) PROVE History' = History
  <2>1. CASE UNCHANGED files
    BY <1>a, <2>1
  <2>2. CASE /\ current # NoFile /\ plain[now] = NoFile /\ gz[now] = NoFile
             /\ Rename(p, "read")
    BY <2>2, HistoryRename
  <2>3. QED
    BY <1>4, <2>1, <2>2 DEF RotateIfNeeded
<1>5. ASSUME NEW p \in Procs, RotateNow(p) PROVE History' = History
  <2>1. current # NoFile /\ Rename(p, "idle") /\ plain[now] = NoFile /\ gz[now] = NoFile
    BY <1>5 DEF RotateNow
  <2>2. QED
    BY <2>1, HistoryRename
<1>6. ASSUME NEW p \in Procs, GzipStart(p) \/ GzipFinish(p) PROVE History' = History
  <2>1. /\ pc[p] \in Zipping /\ UNCHANGED <<current, plain>>
        /\ \E g : gz' = [gz EXCEPT ![stamp[p]] = g]
    BY <1>6 DEF GzipStart, GzipFinish
  <2>2. plain[stamp[p]] # NoFile
    BY <2>1 DEF Calm, GzipsApart
  <2>3. \A s \in Seconds : plain[s] # NoFile \/ gz'[s] = gz[s]
    BY <2>1, <2>2 DEF Types, FilesTyped
  <2>4. \A s \in Seconds : Kept'[s] = Kept[s]
    BY <2>1, <2>3 DEF Kept
  <2>5. QED
    BY <2>1, <2>4, HistorySame
<1>7. ASSUME NEW p \in Procs, GzipUnlink(p) PROVE History' = History
  <2>1. /\ pc[p] = "unlink" /\ UNCHANGED <<current, gz>>
        /\ plain' = [plain EXCEPT ![stamp[p]] = NoFile]
    BY <1>7 DEF GzipUnlink
  <2>2. plain[stamp[p]] # NoFile /\ gz[stamp[p]] = plain[stamp[p]]
    BY <2>1 DEF Calm, GzipsApart
  <2>3. \A s \in Seconds : plain'[s] = IF s = stamp[p] THEN NoFile ELSE plain[s]
    BY <2>1 DEF Types, FilesTyped
  <2>4. \A s \in Seconds : Kept'[s] = Kept[s]
    BY <2>1, <2>2, <2>3 DEF Kept
  <2>5. QED
    BY <2>1, <2>4, HistorySame
<1>8. ASSUME NEW p \in Procs, Open(p) PROVE History' = History
  <2>1. /\ UNCHANGED <<plain, gz>>
        /\ current' = IF current = NoFile THEN EmptyFile ELSE current
    BY <1>8 DEF Open
  <2>2. Entries(current') = Entries(current)
    BY <2>1, SomeFiles
  <2>3. \A s \in Seconds : Kept'[s] = Kept[s]
    BY <2>1 DEF Kept
  <2>4. QED
    BY <2>2, <2>3, HistorySame
<1>9. ASSUME NEW p \in Procs, TearLine(p) PROVE History' = History
  BY <1>9 DEF TearLine
<1>10. ASSUME NEW p \in Procs, WriteNewline(p) PROVE History' = History
  <2>1. pc[p] = "newline" /\ Written(p, EndLine(Opened(p)))
    BY <1>10 DEF WriteNewline
  <2>2. /\ lock = p /\ Opened(p) = current /\ current \in FileType
    BY <2>1, Writing
  <2>3. fd[p] = Current /\ Current \notin Seconds
    BY <2>1 DEF Calm, CurrentOpen, Current, Seconds
  <2>4. current' = EndLine(current) /\ plain' = plain /\ gz' = gz
    BY <2>1, <2>2, <2>3 DEF Written
  <2>5. current'.lines = current.lines
    BY <2>2, <2>4, PutType, SomeFiles
  <2>6. Entries(current') = Entries(current)
    BY <2>5 DEF Entries
  <2>7. \A s \in Seconds : Kept'[s] = Kept[s]
    BY <2>4 DEF Kept
  <2>8. QED
    BY <2>6, <2>7, HistorySame
<1>11. QED
  BY <1>1, <1>2, <1>3, <1>4, <1>5, <1>6, <1>7, <1>8, <1>9, <1>10 DEF Next, Step

-----------------------------------------------------------------------------
(* The chain, the mark and the entries that were promised.                   *)

(* The log is a chain that the mark does not exceed and that has every entry
   whose append returned; an append knows the log it extends. *)
Logged ==
  /\ Chained(History) /\ Reaches(History, mark) /\ SubsequenceOf(returned, Ids(History))
  /\ \A p \in Procs : pc[p] \in {"open", "write"} => seen[p] = History
  /\ \A p \in Procs : pc[p] \in {"newline", "mark"} =>
       History = Append(seen[p], LineOf(p)) /\ SubsequenceOf(returned, Ids(seen[p]))

(* What a verification has read had every entry promised before. *)
Verified ==
  \A p \in Procs : /\ pc[p] = "verify" => Complete(p)
                   /\ verdict[p] = "ok" => pc[p] = "idle" /\ Complete(p)

LEMMA LoggedInit ==
  ASSUME Init
  PROVE  Logged /\ Verified
<1>1. Types /\ Calm
  BY AlwaysInit, CalmInit
<1>2. History \in Seq(LineType) /\ History = FlattenSeq(Kept) \o Entries(current)
  BY <1>1, LogTypes DEF Types
<1>3. History = <<>>
  <2>1. Entries(current) = <<>> /\ \A s \in Seconds : Kept[s] = <<>>
    BY SomeFiles DEF Init, Kept
  <2>2. /\ MaxSeconds \in Nat /\ Seconds = 1 .. MaxSeconds /\ 1 \in Seconds
        /\ Kept \in [Seconds -> Seq(LineType)]
    BY <1>1, LogTypes DEF Seconds, BoundsAssumption, Types
  <2>3. FlattenSeq(Kept) = <<>>
    <3>1. PICK F : Joins(F, Kept, MaxSeconds, LineType) /\ FlattenSeq(Kept) = F[MaxSeconds]
      BY <2>2, FlattenIs
    <3> DEFINE B == {i \in 1 .. MaxSeconds : F[i] = <<>>}
    <3>2. 1 \in B
      BY <2>1, <2>2, <3>1 DEF Joins
    <3>3. ASSUME NEW i \in 1 .. MaxSeconds, i \in B, i + 1 <= MaxSeconds PROVE i + 1 \in B
      <4> HIDE DEF B
      <4>1. i + 1 \in 1 .. MaxSeconds /\ i + 1 # 1 /\ (i + 1) - 1 = i
        BY <2>2, <3>3
      <4>2. F[i + 1] = F[i] \o Kept[i + 1] /\ Kept[i + 1] = <<>>
        BY <2>1, <2>2, <3>1, <4>1 DEF Joins
      <4>3. F[i] = <<>>
        BY <3>3 DEF B
      <4>4. F[i + 1] = <<>>
        BY <4>2, <4>3, ConcatEmptySeq, EmptySeq
      <4>5. QED
        BY <4>1, <4>4 DEF B
    <3> HIDE DEF B
    <3>4. \A i \in 1 .. MaxSeconds : i \in B
      BY <2>2, <3>2, <3>3, CountUp
    <3>5. MaxSeconds \in 1 .. MaxSeconds
      BY <2>2
    <3>6. QED
      BY <3>1, <3>4, <3>5 DEF B
  <2>4. QED
    BY <1>2, <2>1, <2>3, ConcatEmptySeq, EmptySeq
<1>4. Chained(History) /\ Reaches(History, mark)
  <2>1. Len(History) = 0 /\ mark.count = 0
    BY <1>3 DEF Init, NoMark
  <2>2. QED
    BY <2>1 DEF Chained, Reaches
<1>5. SubsequenceOf(returned, Ids(History))
  <2>1. Ids(<<>>) = <<>>
    BY IdsType, EmptySeq DEF Ids
  <2>2. <<>> \in Seq(Nat)
    OBVIOUS
  <2>3. QED
    BY <1>3, <2>1, <2>2, SubsequenceSelf DEF Init
<1>6. QED
  BY <1>4, <1>5 DEF Init, Logged, Verified

(* A step that neither the log nor what was promised depends on. *)
LEMMA LoggedGo ==
  ASSUME Types, Logged, NEW p \in Procs,
         \A q \in Procs : q # p => pc'[q] = pc[q] /\ entry'[q] = entry[q] /\ seen'[q] = seen[q],
         pc'[p] \notin {"open", "write", "newline", "mark"},
         History' = History, UNCHANGED <<mark, returned>>
  PROVE  Logged'
<1>1. Chained(History') /\ Reaches(History', mark') /\ SubsequenceOf(returned', Ids(History'))
  BY DEF Logged
<1>2. ASSUME NEW q \in Procs, pc'[q] \in {"open", "write"} PROVE seen'[q] = History'
  <2>1. q # p
    BY <1>2
  <2>2. QED
    BY <1>2, <2>1 DEF Logged
<1>3. ASSUME NEW q \in Procs, pc'[q] \in {"newline", "mark"}
      PROVE  History' = Append(seen'[q], LineOf(q)') /\ SubsequenceOf(returned', Ids(seen'[q]))
  <2>1. q # p
    BY <1>3
  <2>2. pc'[q] = pc[q] /\ entry'[q] = entry[q] /\ seen'[q] = seen[q]
    BY <2>1
  <2>3. LineOf(q)' = LineOf(q)
    BY <2>2 DEF LineOf
  <2>4. QED
    BY <1>3, <2>2, <2>3 DEF Logged
<1>4. QED
  BY <1>1, <1>2, <1>3 DEF Logged

LEMMA LoggedWrite ==
  ASSUME Types, Holders, Calm, Logged, NEW p \in Procs, WriteLine(p)
  PROVE  Logged'
<1> USE DEF mine, bounds, history, Goto
<1>1. /\ pc[p] = "write" /\ pc' = [pc EXCEPT ![p] = "newline"]
      /\ UNCHANGED <<mark, entry, seen, returned>>
  BY DEF WriteLine
<1>2. /\ pc \in [Procs -> Places] /\ History \in Seq(LineType) /\ entry[p] \in Nat
      /\ mark.count \in Nat /\ returned \in Seq(Nat)
  BY LogTypes DEF Types
<1>3. /\ seen[p] = History /\ Chained(History) /\ Reaches(History, mark)
      /\ SubsequenceOf(returned, Ids(History))
  BY <1>1 DEF Logged
<1>4. History' = Append(History, LineOf(p))
  BY HistoryWrite
<1>5. LineOf(p) = [id |-> entry[p], prev |-> HeadOf(History)] /\ LineOf(p) \in LineType
      /\ LineOf(p).id = entry[p]
  BY <1>1, <1>3, Writing DEF LineOf
<1>6. /\ Chained(History') /\ History' \in Seq(LineType) /\ Len(History') = Len(History) + 1
      /\ \A i \in 1 .. Len(History) : History'[i] = History[i]
  BY <1>2, <1>3, <1>4, <1>5, ChainGrows
<1>7. Reaches(History', mark')
  BY <1>1, <1>2, <1>3, <1>6, ReachesFurther
<1>8. SubsequenceOf(returned', Ids(History'))
  <2>1. Ids(History') = Append(Ids(History), entry[p]) /\ Ids(History) \in Seq(Nat)
    BY <1>2, <1>4, <1>5, IdsAppend, IdsType
  <2>2. QED
    BY <1>1, <1>2, <1>3, <2>1, SubsequenceAppend
<1>9. \A q \in Procs : q # p => pc'[q] \notin {"open", "write", "newline", "mark"}
  <2>1. lock = p
    BY <1>1, Writing
  <2>2. \A q \in Procs : q # p => pc[q] \notin {"open", "write", "newline", "mark"}
    BY <2>1 DEF Holders, Holding, Zipping
  <2>3. QED
    BY <1>1, <1>2, <2>2
<1>10. pc'[p] = "newline" /\ LineOf(p)' = LineOf(p) /\ seen'[p] = History
  BY <1>1, <1>2, <1>3 DEF LineOf
<1>11. ASSUME NEW q \in Procs, pc'[q] \in {"newline", "mark"}
       PROVE  History' = Append(seen'[q], LineOf(q)') /\ SubsequenceOf(returned', Ids(seen'[q]))
  <2>1. q = p
    BY <1>9, <1>11
  <2>2. QED
    BY <1>1, <1>3, <1>4, <1>10, <2>1
<1>12. \A q \in Procs : pc'[q] \notin {"open", "write"}
  BY <1>9, <1>10
<1>13. QED
  BY <1>6, <1>7, <1>8, <1>11, <1>12 DEF Logged

LEMMA LoggedMark ==
  ASSUME Types, Holders, Calm, Logged, NEW p \in Procs, StoreMark(p), History' = History
  PROVE  Logged'
<1> USE DEF Goto, Forget, End
<1>1. /\ pc[p] = "mark" /\ pc' = [pc EXCEPT ![p] = "idle"]
      /\ entry' = [entry EXCEPT ![p] = None] /\ seen' = [seen EXCEPT ![p] = <<>>]
      /\ mark' = [count |-> Len(seen[p]) + 1, head |-> entry[p]]
      /\ returned' = Append(returned, entry[p])
  BY DEF StoreMark
<1>2. /\ pc \in [Procs -> Places] /\ seen[p] \in Seq(LineType) /\ entry[p] \in Nat
      /\ returned \in Seq(Nat) /\ History \in Seq(LineType)
  BY LogTypes DEF Types
<1>3. History = Append(seen[p], LineOf(p)) /\ SubsequenceOf(returned, Ids(seen[p]))
      /\ Chained(History)
  BY <1>1 DEF Logged
<1>4. LineOf(p) \in LineType /\ LineOf(p).id = entry[p]
  <2>1. seen[p] # <<>> => seen[p][Len(seen[p])] \in LineType
    <3>1. seen[p] # <<>> => Len(seen[p]) \in 1 .. Len(seen[p])
      BY <1>2, EmptySeq
    <3>2. QED
      BY <1>2, <3>1, ElementOfSeq
  <2>2. HeadOf(seen[p]) \in Nat
    BY <2>1 DEF HeadOf, LineType
  <2>3. QED
    BY <1>2, <2>2 DEF LineOf, LineType
<1>5. Len(History) = Len(seen[p]) + 1 /\ History[Len(seen[p]) + 1] = LineOf(p)
      /\ Len(seen[p]) \in Nat
  BY <1>2, <1>3, <1>4, AppendProperties, LenProperties
<1>6. Reaches(History', mark')
  <2>1. mark'.count = Len(seen[p]) + 1 /\ mark'.head = entry[p]
    BY <1>1
  <2>2. Len(History) >= mark'.count /\ History[mark'.count].id = mark'.head
    BY <1>4, <1>5, <2>1
  <2>3. QED
    BY <2>2 DEF Reaches
<1>7. SubsequenceOf(returned', Ids(History'))
  <2>1. Ids(History) = Append(Ids(seen[p]), entry[p]) /\ Ids(seen[p]) \in Seq(Nat)
    BY <1>2, <1>3, <1>4, IdsAppend, IdsType
  <2>2. QED
    BY <1>1, <1>2, <1>3, <2>1, SubsequenceAppend
<1>8. \A q \in Procs : pc'[q] \notin {"open", "write", "newline", "mark"}
  <2>1. lock = p
    BY <1>1 DEF Holders, Holding, Zipping
  <2>2. \A q \in Procs : q # p => pc[q] \notin {"open", "write", "newline", "mark"}
    BY <2>1 DEF Holders, Holding, Zipping
  <2>3. QED
    BY <1>1, <1>2, <2>2
<1>9. QED
  BY <1>3, <1>6, <1>7, <1>8 DEF Logged

LEMMA LoggedStep ==
  ASSUME Types, Holders, Calm, Logged, [Next]_vars, ~disturbed'
  PROVE  Logged'
<1> USE DEF mine, bounds, history, Goto, Forget, End, Places, Holding, Zipping
<1>d. /\ pc \in [Procs -> Places] /\ entry \in [Procs -> Nat] /\ seen \in [Procs -> Seq(LineType)]
      /\ back \in [Procs -> {"idle", "read"}]
  BY DEF Types
<1>h. (\A p \in Procs : ~(pc[p] = "write" /\ pc'[p] = "newline")) => History' = History
  <2>1. \A p \in Procs : WriteLine(p) => pc[p] = "write" /\ pc'[p] = "newline"
    BY <1>d DEF WriteLine
  <2>2. QED
    BY <2>1, HistoryStep
<1>f. ASSUME UNCHANGED <<pc, entry, seen, mark, returned>> PROVE Logged'
  <2>1. History' = History
    BY <1>f, <1>h
  <2>2. \A p \in Procs : LineOf(p)' = LineOf(p)
    BY <1>f DEF LineOf
  <2>3. QED
    BY <1>f, <2>1, <2>2 DEF Logged
<1>g. ASSUME NEW p \in Procs, NEW l, pc' = [pc EXCEPT ![p] = l],
             l \notin {"open", "write", "newline", "mark"},
             \A q \in Procs : q # p => entry'[q] = entry[q] /\ seen'[q] = seen[q],
             UNCHANGED <<mark, returned>>
      PROVE  Logged'
  <2>1. (\A q \in Procs : q # p => pc'[q] = pc[q]) /\ pc'[p] = l
    BY <1>d, <1>g
  <2>2. \A q \in Procs : ~(pc[q] = "write" /\ pc'[q] = "newline")
    <3>1. ASSUME NEW q \in Procs, q = p PROVE pc'[q] # "newline"
      BY <1>g, <2>1, <3>1
    <3>2. ASSUME NEW q \in Procs, q # p, pc[q] = "write" PROVE pc'[q] # "newline"
      BY <2>1, <3>2
    <3>3. QED
      BY <3>1, <3>2
  <2>3. History' = History
    BY <1>h, <2>2
  <2>4. QED
    BY <1>g, <2>1, <2>3, LoggedGo
(* p goes on within an append that knows the log. *)
<1>i. ASSUME NEW p \in Procs, NEW l, pc' = [pc EXCEPT ![p] = l], lock = p,
             UNCHANGED <<entry, mark, returned>>, \A q \in Procs : q # p => seen'[q] = seen[q],
             \/ l \in {"open", "write"} /\ pc[p] # "write" /\ seen'[p] = History
             \/ l = "mark" /\ pc[p] = "newline" /\ seen' = seen
      PROVE  Logged'
  <2>1. /\ pc'[p] = l /\ \A q \in Procs : q # p =>
                           pc'[q] = pc[q] /\ pc[q] \notin {"open", "write", "newline", "mark"}
    BY <1>d, <1>i DEF Holders
  <2>2. History' = History
    BY <1>h, <1>i, <2>1
  <2>3. ASSUME NEW q \in Procs, pc'[q] \in {"newline", "mark"}
        PROVE  q = p /\ pc[q] = "newline" /\ LineOf(q)' = LineOf(q) /\ seen' = seen
    BY <1>i, <2>1, <2>3 DEF LineOf
  <2>4. ASSUME NEW q \in Procs, pc'[q] \in {"open", "write"} PROVE seen'[q] = History'
    BY <1>i, <2>1, <2>2, <2>4
  <2>5. \A q \in Procs : pc'[q] \in {"newline", "mark"} =>
          History' = Append(seen'[q], LineOf(q)') /\ SubsequenceOf(returned', Ids(seen'[q]))
    BY <1>i, <2>2, <2>3 DEF Logged
  <2>6. QED
    BY <1>i, <2>2, <2>4, <2>5 DEF Logged
<1>1. CASE UNCHANGED vars
  BY <1>1, <1>f DEF vars
<1>2. CASE ClearLock \/ Tick
  BY <1>2, <1>f DEF ClearLock, Tick
<1>3. ASSUME NEW p \in Procs, StartAppend(p) PROVE Logged'
  BY <1>3, <1>d, <1>g DEF StartAppend
<1>4. ASSUME NEW p \in Procs, AcquireLock(p) PROVE Logged'
  BY <1>4, <1>d, <1>g DEF AcquireLock
<1>5. ASSUME NEW p \in Procs, AcquireFail(p) PROVE Logged'
  BY <1>5, <1>d, <1>g DEF AcquireFail
<1>6. ASSUME NEW p \in Procs, TimeOut(p) PROVE Logged'
  BY <1>6, <1>d, <1>g DEF TimeOut
<1>7. ASSUME NEW p \in Procs, RotateIfNeeded(p) PROVE Logged'
  <2>1. CASE Rename(p, "read") /\ UNCHANGED history
    BY <2>1, <1>g DEF Rename
  <2>2. CASE Goto(p, "read") /\ UNCHANGED <<files, mark, lock, mine, verdict, bounds, history>>
    BY <2>2, <1>g
  <2>3. QED
    BY <1>7, <2>1, <2>2 DEF RotateIfNeeded
<1>8. ASSUME NEW p \in Procs, RotateNow(p) PROVE Logged'
  BY <1>8, <1>g DEF RotateNow, Rename
<1>9. ASSUME NEW p \in Procs, GzipStart(p) PROVE Logged'
  BY <1>9, <1>g DEF GzipStart
<1>10. ASSUME NEW p \in Procs, GzipFinish(p) PROVE Logged'
  BY <1>10, <1>g DEF GzipFinish
<1>11. ASSUME NEW p \in Procs, GzipFail(p) PROVE Logged'
  BY <1>11, <1>d, <1>g DEF GzipFail
<1>12. ASSUME NEW p \in Procs, GzipUnlink(p) PROVE Logged'
  <2>1. back[p] \notin {"open", "write", "newline", "mark"}
    BY <1>d
  <2>2. QED
    BY <1>12, <1>g, <2>1 DEF GzipUnlink
<1>13. ASSUME NEW p \in Procs, Read(p) PROVE Logged'
  <2>1. CASE End(p) /\ UNCHANGED <<files, mark, verdict, bounds, history>>
    BY <2>1, <1>d, <1>g
  <2>2. CASE /\ seen' = [seen EXCEPT ![p] = AllEntries] /\ Goto(p, "open")
             /\ UNCHANGED <<lock, entry, fd, stamp, back>>
             /\ UNCHANGED <<files, mark, verdict, bounds, history>>
    <3>1. lock = p /\ pc[p] = "read"
      BY <1>13 DEF Read, Holders
    <3>2. \A q \in Procs : pc[q] \notin {"compress", "unlink"}
      BY <3>1 DEF Calm, GzipsApart
    <3>3. AllEntries = History
      BY <3>2, QuietReads
    <3>4. seen'[p] = History /\ \A q \in Procs : q # p => seen'[q] = seen[q]
      BY <1>d, <2>2, <3>3
    <3>5. QED
      BY <1>i, <2>2, <3>1, <3>4
  <2>3. QED
    BY <1>13, <2>1, <2>2 DEF Read
<1>14. ASSUME NEW p \in Procs, Open(p) PROVE Logged'
  <2>1. lock = p /\ pc[p] = "open" /\ seen[p] = History
    BY <1>14 DEF Open, Holders, Logged
  <2>2. pc' = [pc EXCEPT ![p] = "write"] /\ UNCHANGED <<entry, mark, returned, seen>>
    BY <1>14 DEF Open
  <2>3. QED
    BY <1>i, <2>1, <2>2
<1>15. ASSUME NEW p \in Procs, WriteLine(p) PROVE Logged'
  BY <1>15, LoggedWrite
<1>16. ASSUME NEW p \in Procs, TearLine(p) PROVE Logged'
  BY <1>16 DEF TearLine
<1>17. ASSUME NEW p \in Procs, WriteNewline(p) PROVE Logged'
  <2>1. lock = p /\ pc[p] = "newline"
    BY <1>17 DEF WriteNewline, Holders
  <2>2. pc' = [pc EXCEPT ![p] = "mark"] /\ UNCHANGED <<entry, mark, returned, seen>>
    BY <1>17 DEF WriteNewline
  <2>3. QED
    BY <1>i, <2>1, <2>2
<1>18. ASSUME NEW p \in Procs, StoreMark(p) PROVE Logged'
  <2>1. pc[p] = "mark" /\ pc' = [pc EXCEPT ![p] = "idle"]
    BY <1>18 DEF StoreMark
  <2>2. History' = History
    BY <1>d, <1>h, <2>1
  <2>3. QED
    BY <1>18, <2>2, LoggedMark
<1>19. ASSUME NEW p \in Procs, AppendFail(p) PROVE Logged'
  BY <1>19, <1>d, <1>g DEF AppendFail
<1>20. ASSUME NEW p \in Procs, VerifyRead(p) PROVE Logged'
  <2>1. CASE AllParse
    BY <1>20, <1>d, <1>g, <2>1 DEF VerifyRead
  <2>2. CASE ~AllParse
    BY <1>20, <1>f, <2>2 DEF VerifyRead
  <2>3. QED
    BY <2>1, <2>2
<1>21. ASSUME NEW p \in Procs, VerifyMark(p) PROVE Logged'
  BY <1>21, <1>g DEF VerifyMark
<1>22. ASSUME NEW p \in Procs, Crash(p) PROVE Logged'
  BY <1>22, <1>d, <1>g DEF Crash
<1>23. QED
  BY <1>1, <1>2, <1>3, <1>4, <1>5, <1>6, <1>7, <1>8, <1>9, <1>10, <1>11, <1>12, <1>13,
     <1>14, <1>15, <1>16, <1>17, <1>18, <1>19, <1>20, <1>21, <1>22 DEF Next, Step

LEMMA VerifiedStep ==
  ASSUME Types, Holders, Calm, Logged, Verified, [Next]_vars
  PROVE  Verified'
<1> USE DEF files, mine, bounds, history, Goto, Forget, End, Places, Holding, Zipping
<1>d. /\ pc \in [Procs -> Places] /\ seen \in [Procs -> Seq(LineType)]
      /\ verdict \in [Procs -> {"none", "ok", "bad"}] /\ back \in [Procs -> {"idle", "read"}]
      /\ known \in [Procs -> Seq(Nat)] /\ returned \in Seq(Nat)
  BY DEF Types
<1>e. ASSUME NEW q \in Procs, pc'[q] = pc[q], verdict'[q] = verdict[q], seen'[q] = seen[q],
             known'[q] = known[q]
      PROVE  /\ pc'[q] = "verify" => Complete(q)'
             /\ verdict'[q] = "ok" => pc'[q] = "idle" /\ Complete(q)'
  <2>1. Complete(q)' <=> Complete(q)
    BY <1>e DEF Complete
  <2>2. QED
    BY <1>e, <2>1 DEF Verified
<1>f. ASSUME UNCHANGED <<pc, verdict, seen, known>> PROVE Verified'
  BY <1>e, <1>f DEF Verified
(* p does something else than verify. *)
<1>g. ASSUME NEW p \in Procs, NEW l \in Places, pc' = [pc EXCEPT ![p] = l], l # "verify",
             known' = known, \A q \in Procs : q # p => seen'[q] = seen[q],
             \/ verdict' = verdict /\ pc[p] # "idle"
             \/ verdict' = [verdict EXCEPT ![p] = "none"]
      PROVE  Verified'
  <2>1. \A q \in Procs : q # p =>
          pc'[q] = pc[q] /\ verdict'[q] = verdict[q] /\ seen'[q] = seen[q] /\ known'[q] = known[q]
    BY <1>d, <1>g
  <2>2. pc'[p] # "verify" /\ verdict'[p] # "ok"
    BY <1>d, <1>g DEF Verified
  <2>3. QED
    BY <1>e, <2>1, <2>2 DEF Verified
<1>1. CASE UNCHANGED vars
  BY <1>1, <1>f DEF vars
<1>2. CASE ClearLock \/ Tick
  BY <1>2, <1>f DEF ClearLock, Tick
<1>3. ASSUME NEW p \in Procs, StartAppend(p) PROVE Verified'
  BY <1>3, <1>g DEF StartAppend
<1>4. ASSUME NEW p \in Procs, AcquireLock(p) PROVE Verified'
  BY <1>4, <1>g DEF AcquireLock
<1>5. ASSUME NEW p \in Procs, AcquireFail(p) \/ TimeOut(p) PROVE Verified'
  BY <1>5, <1>d, <1>g DEF AcquireFail, TimeOut
<1>6. ASSUME NEW p \in Procs, RotateIfNeeded(p) PROVE Verified'
  <2>1. CASE Rename(p, "read") /\ UNCHANGED history
    BY <2>1, <1>g DEF Rename
  <2>2. CASE Goto(p, "read") /\ UNCHANGED <<files, mark, lock, mine, verdict, bounds, history>>
    BY <1>6, <2>2, <1>g DEF RotateIfNeeded
  <2>3. QED
    BY <1>6, <2>1, <2>2 DEF RotateIfNeeded
<1>7. ASSUME NEW p \in Procs, RotateNow(p) PROVE Verified'
  BY <1>7, <1>g DEF RotateNow, Rename
<1>8. ASSUME NEW p \in Procs, GzipStart(p) \/ GzipFinish(p) PROVE Verified'
  <2>1. CASE GzipStart(p)
    BY <2>1, <1>g DEF GzipStart
  <2>2. CASE GzipFinish(p)
    BY <2>2, <1>g DEF GzipFinish
  <2>3. QED
    BY <1>8, <2>1, <2>2
<1>9. ASSUME NEW p \in Procs, GzipFail(p) PROVE Verified'
  BY <1>9, <1>d, <1>g DEF GzipFail
<1>10. ASSUME NEW p \in Procs, GzipUnlink(p) PROVE Verified'
  <2>1. back[p] \in Places /\ back[p] # "verify"
    BY <1>d
  <2>2. QED
    BY <1>10, <1>g, <2>1 DEF GzipUnlink
<1>11. ASSUME NEW p \in Procs, Read(p) PROVE Verified'
  <2>1. CASE End(p) /\ UNCHANGED <<files, mark, verdict, bounds, history>>
    BY <1>11, <2>1, <1>d, <1>g DEF Read
  <2>2. CASE /\ seen' = [seen EXCEPT ![p] = AllEntries] /\ Goto(p, "open")
             /\ UNCHANGED <<files, mark, verdict, bounds, history>>
    BY <1>11, <2>2, <1>d, <1>g DEF Read
  <2>3. QED
    BY <1>11, <2>1, <2>2 DEF Read
<1>12. ASSUME NEW p \in Procs, Open(p) PROVE Verified'
  BY <1>12, <1>g DEF Open
<1>13. ASSUME NEW p \in Procs, WriteLine(p) PROVE Verified'
  BY <1>13, <1>g DEF WriteLine
<1>14. ASSUME NEW p \in Procs, TearLine(p) PROVE Verified'
  BY <1>14, <1>d, <1>g DEF TearLine
<1>15. ASSUME NEW p \in Procs, WriteNewline(p) PROVE Verified'
  BY <1>15, <1>g DEF WriteNewline
<1>16. ASSUME NEW p \in Procs, StoreMark(p) PROVE Verified'
  BY <1>16, <1>d, <1>g DEF StoreMark
<1>17. ASSUME NEW p \in Procs, AppendFail(p) PROVE Verified'
  BY <1>17, <1>d, <1>g DEF AppendFail
<1>18. ASSUME NEW p \in Procs, VerifyRead(p) PROVE Verified'
  <2>1. /\ pc[p] = "idle" /\ known' = [known EXCEPT ![p] = returned]
        /\ UNCHANGED <<plain, gz, current>>
    BY <1>18 DEF VerifyRead
  <2>2. CASE AllParse
    <3>1. /\ seen' = [seen EXCEPT ![p] = AllEntries] /\ verdict' = [verdict EXCEPT ![p] = "none"]
          /\ pc' = [pc EXCEPT ![p] = "verify"]
      BY <1>18, <2>2 DEF VerifyRead
    <3>2. \A q \in Procs : q # p =>
            pc'[q] = pc[q] /\ verdict'[q] = verdict[q] /\ seen'[q] = seen[q] /\ known'[q] = known[q]
      BY <1>d, <2>1, <3>1
    <3>3. seen'[p] = AllEntries /\ known'[p] = returned /\ verdict'[p] = "none"
      BY <1>d, <2>1, <3>1
    <3>4. SubsequenceOf(returned, Ids(AllEntries))
      <4>1. History \in Seq(LineType) /\ AllEntries \in Seq(LineType)
        BY LogTypes DEF Types
      <4>2. SubsequenceOf(Ids(History), Ids(AllEntries))
        BY <4>1, ReadsAll, IdsWithin DEF Types
      <4>3. Ids(History) \in Seq(Nat) /\ Ids(AllEntries) \in Seq(Nat)
        BY <4>1, IdsType
      <4>4. SubsequenceOf(returned, Ids(History))
        BY DEF Logged
      <4>5. QED
        BY <1>d, <4>2, <4>3, <4>4, SubsequenceTrans
    <3>5. Complete(p)'
      <4>1. Complete(p)' <=> SubsequenceOf(known'[p], Ids(seen'[p]))
        BY DEF Complete, Ids
      <4>2. QED
        BY <3>3, <3>4, <4>1
    <3>6. QED
      BY <1>e, <3>2, <3>3, <3>5 DEF Verified
  <2>3. CASE ~AllParse
    <3>1. verdict' = [verdict EXCEPT ![p] = "bad"] /\ UNCHANGED <<pc, seen>>
      BY <1>18, <2>3 DEF VerifyRead
    <3>2. \A q \in Procs : q # p =>
            pc'[q] = pc[q] /\ verdict'[q] = verdict[q] /\ seen'[q] = seen[q] /\ known'[q] = known[q]
      BY <1>d, <2>1, <3>1
    <3>3. pc'[p] = "idle" /\ verdict'[p] = "bad"
      BY <1>d, <2>1, <3>1
    <3>4. QED
      BY <1>e, <3>2, <3>3 DEF Verified
  <2>4. QED
    BY <2>2, <2>3
<1>19. ASSUME NEW p \in Procs, VerifyMark(p) PROVE Verified'
  <2>1. /\ pc[p] = "verify" /\ pc' = [pc EXCEPT ![p] = "idle"] /\ UNCHANGED <<seen, known>>
        /\ \E v \in {"ok", "bad"} : verdict' = [verdict EXCEPT ![p] = v]
    BY <1>19 DEF VerifyMark
  <2>2. Complete(p) /\ (Complete(p)' <=> Complete(p))
    BY <2>1 DEF Verified, Complete
  <2>3. \A q \in Procs : q # p => pc'[q] = pc[q] /\ verdict'[q] = verdict[q]
    BY <1>d, <2>1
  <2>4. pc'[p] = "idle"
    BY <1>d, <2>1
  <2>5. QED
    BY <1>e, <2>1, <2>2, <2>3, <2>4 DEF Verified
<1>20. ASSUME NEW p \in Procs, Crash(p) PROVE Verified'
  BY <1>20, <1>d, <1>g DEF Crash
<1>21. QED
  BY <1>1, <1>2, <1>3, <1>4, <1>5, <1>6, <1>7, <1>8, <1>9, <1>10, <1>11, <1>12, <1>13,
     <1>14, <1>15, <1>16, <1>17, <1>18, <1>19, <1>20 DEF Next, Step

-----------------------------------------------------------------------------
(* The theorems.                                                             *)

IInv == /\ Types /\ Holders
        /\ ~disturbed => Calm /\ Logged /\ Verified

(* Once something is cut short it stays so for the properties. *)
LEMMA StaysDisturbed ==
  ASSUME Types, [Next]_vars, ~disturbed'
  PROVE  ~disturbed
<1> USE DEF history
<1>1. disturbed \in BOOLEAN
  BY DEF Types
<1>2. CASE UNCHANGED vars
  BY <1>2 DEF vars
<1>3. CASE ClearLock \/ Tick
  BY <1>3 DEF ClearLock, Tick
<1>4. ASSUME NEW p \in Procs,
             \/ StartAppend(p) \/ AcquireFail(p) \/ TimeOut(p) \/ GzipStart(p) \/ GzipFail(p)
             \/ GzipFinish(p) \/ GzipUnlink(p) \/ Read(p) \/ Open(p) \/ WriteLine(p)
             \/ TearLine(p) \/ WriteNewline(p) \/ StoreMark(p) \/ VerifyRead(p) \/ VerifyMark(p)
      PROVE  ~disturbed
  BY <1>4 DEF StartAppend, AcquireFail, TimeOut, GzipStart, GzipFail, GzipFinish, GzipUnlink,
              Read, Open, WriteLine, TearLine, WriteNewline, StoreMark, VerifyRead, VerifyMark
<1>5. ASSUME NEW p \in Procs,
             AcquireLock(p) \/ RotateIfNeeded(p) \/ RotateNow(p) \/ AppendFail(p) \/ Crash(p)
      PROVE  ~disturbed
  BY <1>1, <1>5 DEF AcquireLock, RotateIfNeeded, RotateNow, AppendFail, Crash
<1>6. QED
  BY <1>2, <1>3, <1>4, <1>5 DEF Next, Step

(* The inductive invariant holds in every reachable state. *)
THEOREM Invariance == Spec => []IInv
<1>1. Init => IInv
  BY AlwaysInit, CalmInit, LoggedInit DEF IInv
<1>2. IInv /\ [Next]_vars => IInv'
  <2>1. SUFFICES ASSUME IInv, [Next]_vars PROVE IInv'
    OBVIOUS
  <2>2. Types' /\ Holders'
    BY <2>1, TypesStep, HoldersStep DEF IInv
  <2>3. ASSUME ~disturbed' PROVE Calm' /\ Logged' /\ Verified'
    <3>1. Types /\ Holders /\ Calm /\ Logged /\ Verified
      BY <2>1, <2>3, StaysDisturbed DEF IInv
    <3>2. QED
      BY <2>1, <2>3, <3>1, CalmStep, LoggedStep, VerifiedStep
  <2>4. QED
    BY <2>2, <2>3 DEF IInv
<1>3. QED
  BY <1>1, <1>2, PTL DEF Spec

(* A log of which nothing was cut short verifies against its mark, whoever
   failed or died between two steps (append_entry, rotate_if_needed). *)
THEOREM IntactVerifies == Spec => []IntactLogVerifies
<1>1. IInv => IntactLogVerifies
  <2>1. SUFFICES ASSUME IInv, ~disturbed, ~Gzipping PROVE AllParse /\ Verifies(AllEntries, mark)
    BY DEF IntactLogVerifies
  <2>2. AllParse /\ AllEntries = History
    BY <2>1, QuietReads DEF IInv, Gzipping
  <2>3. QED
    BY <2>1, <2>2 DEF IInv, Logged, Verifies
<1>2. QED
  BY <1>1, Invariance, PTL

(* An ok of `dl audit verify` over such a log means that no entry is missing
   of those whose append had returned (append_entry, verify_log). *)
THEOREM OkIsComplete == Spec => []IntactOkIsComplete
<1>1. IInv => IntactOkIsComplete
  BY DEF IInv, Verified, IntactOkIsComplete
<1>2. QED
  BY <1>1, Invariance, PTL

(* No step drops, repeats or reorders an entry of such a log, a rotation and
   a gzip in any state included (append_entry, rotate_current_log_at). *)
THEOREM LogOnlyGrows == Spec => OnlyGrows
<1>1. IInv /\ [Next]_vars => [~disturbed' => IsPrefix(History, History')]_vars
  <2>1. SUFFICES ASSUME IInv, [Next]_vars, ~disturbed' PROVE IsPrefix(History, History')
    OBVIOUS
  <2>2. Types /\ Holders /\ Calm
    BY <2>1, StaysDisturbed DEF IInv
  <2>3. History \in Seq(LineType)
    BY <2>2, LogTypes DEF Types
  <2>4. CASE \A p \in Procs : ~WriteLine(p)
    <3>1. History' = History
      BY <2>1, <2>2, <2>4, HistoryStep
    <3>2. QED
      BY <2>3, <3>1, PrefixBefore
  <2>5. ASSUME NEW p \in Procs, WriteLine(p) PROVE IsPrefix(History, History')
    <3>1. History' = Append(History, LineOf(p))
      BY <2>2, <2>5, HistoryWrite
    <3>2. LineOf(p) \in LineType
      BY <2>2, <2>5, Writing DEF WriteLine, LineOf
    <3>3. <<LineOf(p)>> \in Seq(LineType) /\ History' = History \o <<LineOf(p)>>
      BY <2>3, <3>1, <3>2, AppendIsConcat
    <3>4. QED
      BY <2>3, <3>3, PrefixBefore
  <2>6. QED
    BY <2>4, <2>5
<1>2. QED
  BY <1>1, Invariance, PTL DEF Spec, OnlyGrows
=============================================================================
