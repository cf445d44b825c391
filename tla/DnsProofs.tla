------------------------------ MODULE DnsProofs ------------------------------
(* Proofs of Composition and Dns.  First, induction: a function that is defined *)
(* by recursion is a CHOOSE, so that it exists has to be proved, and what it     *)
(* computes is proved by induction, both from the well-foundedness of the        *)
(* natural numbers.  Then the lists the zones are made of, the depth-first walk,  *)
(* and what a render serves.                                                     *)
EXTENDS Dns, WellFoundedInduction, SequenceTheorems, FiniteSetTheorems, TLAPS

-----------------------------------------------------------------------------
(* Induction. *)

\* Some numbers have a least one.
LEMMA Least ==
  ASSUME NEW T, T \subseteq Nat, T # {}
  PROVE  \E x \in T : \A y \in T : x <= y
<1> DEFINE R == OpToRel(<, Nat)
<1>1. IsWellFoundedOn(R, Nat)
  BY NatLessThanWellFounded
<1>2. \A x, y \in Nat : x < y => <<x, y>> \in R
  BY DEF OpToRel
<1> HIDE DEF R
<1>3. PICK x \in T : \A y \in T : ~(<<y, x>> \in R)
  BY <1>1, WFMin
<1>4. ASSUME NEW y \in T PROVE x <= y
  <2>1. x \in Nat /\ y \in Nat /\ ~(y < x)
    BY <1>2, <1>3
  <2> QED BY <2>1
<1> QED BY <1>4

\* A set of numbers that has 0, and n + 1 with n, has all of them.
LEMMA SetInduction ==
  ASSUME NEW S, 0 \in S, \A n \in Nat : n \in S => n + 1 \in S
  PROVE  \A n \in Nat : n \in S
<1>1. SUFFICES ASSUME Nat \ S # {} PROVE FALSE
  OBVIOUS
<1>2. PICK x \in Nat \ S : \A y \in Nat \ S : x <= y
  BY <1>1, Least
<1>3. x - 1 \in Nat
  BY <1>2
<1> QED BY <1>2, <1>3

IsStep(G, S) == \A x \in S : G[x] \in S

\* A step can be iterated.
LEMMA Iteration ==
  ASSUME NEW S, NEW x \in S, NEW G, IsStep(G, S)
  PROVE  \E f \in [Nat -> S] : f[0] = x /\ \A n \in Nat : f[n + 1] = G[f[n]]
<1> DEFINE Upto(n) == {g \in [0..n -> S] : g[0] = x /\ \A i \in 0..(n - 1) : g[i + 1] = G[g[i]]}
           Some == {n \in Nat : Upto(n) # {}}
           Same == {n \in Nat : \A k, l \in Nat : \A g \in Upto(k), h \in Upto(l) :
                                  n <= k /\ n <= l => g[n] = h[n]}
<1>1. \A n \in Nat : n \in Some
  <2>1. 0 \in Some
    <3>1. [i \in 0..0 |-> x] \in Upto(0)
      OBVIOUS
    <3> QED BY <3>1
  <2>2. ASSUME NEW n \in Nat, n \in Some PROVE n + 1 \in Some
    <3>1. PICK g : g \in Upto(n)
      BY <2>2
    <3> DEFINE h == [i \in 0..(n + 1) |-> IF i = n + 1 THEN G[g[n]] ELSE g[i]]
    <3>2. g[n] \in S /\ G[g[n]] \in S
      BY <3>1 DEF IsStep
    <3>3. h \in [0..(n + 1) -> S]
      BY <3>1, <3>2
    <3>4. h[0] = x
      BY <3>1
    <3>5. ASSUME NEW i \in 0..n PROVE h[i + 1] = G[h[i]]
      BY <3>1
    <3>6. h \in Upto(n + 1)
      <4> HIDE DEF h
      <4>1. \A i \in 0..(n + 1 - 1) : h[i + 1] = G[h[i]]
        BY <3>5
      <4> QED BY <4>1, <3>3, <3>4
    <3> QED BY <3>6
  <2> HIDE DEF Some
  <2> QED BY <2>1, <2>2, SetInduction
<1>2. \A n \in Nat : n \in Same
  <2>1. 0 \in Same
    OBVIOUS
  <2>2. ASSUME NEW n \in Nat, n \in Same PROVE n + 1 \in Same
    <3>1. SUFFICES ASSUME NEW k \in Nat, NEW l \in Nat, NEW g \in Upto(k), NEW h \in Upto(l),
                          n + 1 <= k, n + 1 <= l
                   PROVE  g[n + 1] = h[n + 1]
      OBVIOUS
    <3>2. g[n] = h[n]
      <4>1. n <= k /\ n <= l
        BY <3>1
      <4>2. \A p, q \in Nat : \A u \in Upto(p), v \in Upto(q) : n <= p /\ n <= q => u[n] = v[n]
        BY <2>2
      <4> HIDE DEF Upto
      <4> QED BY <4>1, <4>2
    <3>3. n \in 0..(k - 1) /\ n \in 0..(l - 1)
      BY <3>1
    <3> QED BY <3>2, <3>3
  <2> HIDE DEF Same
  <2> QED BY <2>1, <2>2, SetInduction
<1> DEFINE pick == [n \in Nat |-> CHOOSE g \in Upto(n) : TRUE]
           f == [n \in Nat |-> pick[n][n]]
<1>3. \A n \in Nat : pick[n] \in Upto(n)
  BY <1>1
<1> HIDE DEF pick
<1>4. f \in [Nat -> S]
  BY <1>3
<1>5. f[0] = x
  BY <1>3
<1>6. ASSUME NEW n \in Nat PROVE f[n + 1] = G[f[n]]
  <2>1. pick[n + 1] \in Upto(n + 1) /\ pick[n] \in Upto(n)
    BY <1>3
  <2>2. pick[n + 1][n] = pick[n][n]
    <3>1. \A k, l \in Nat : \A g \in Upto(k), h \in Upto(l) :
             n <= k /\ n <= l => g[n] = h[n]
      BY <1>2
    <3>2. n <= n + 1 /\ n <= n /\ n + 1 \in Nat
      OBVIOUS
    <3> HIDE DEF Upto
    <3> QED BY <2>1, <3>1, <3>2
  <2>3. n \in 0..(n + 1 - 1)
    OBVIOUS
  <2>4. pick[n + 1][n + 1] = G[pick[n + 1][n]]
    <3>1. \A i \in 0..(n + 1 - 1) : pick[n + 1][i + 1] = G[pick[n + 1][i]]
      BY <2>1
    <3> QED BY <2>3, <3>1
  <2>5. f[n + 1] = pick[n + 1][n + 1] /\ f[n] = pick[n][n]
    OBVIOUS
  <2> QED BY <2>2, <2>4, <2>5
<1> HIDE DEF f
<1> QED BY <1>4, <1>5, <1>6

\* What a definition by recursion says of an argument depends on the values at
\* arguments of a lower rank only.
Ranked(A, B, rank, G) ==
  /\ rank \in [A -> Nat] /\ G \in [[A -> B] -> [A -> B]]
  /\ \A f, g \in [A -> B] : \A a \in A :
       (\A b \in A : rank[b] < rank[a] => f[b] = g[b]) => G[f][a] = G[g][a]

\* Such a definition has a solution.
LEMMA Recursion ==
  ASSUME NEW A, NEW B, NEW some \in B, NEW rank, NEW G, Ranked(A, B, rank, G)
  PROVE  \E f \in [A -> B] : f = G[f]
<1> USE DEF Ranked
<1>0. PICK F : F = [A -> B]
  OBVIOUS
<1>1. PICK first : first \in F
  <2>1. [a \in A |-> some] \in F
    BY <1>0
  <2> QED BY <2>1
<1>2. PICK h \in [Nat -> F] : \A n \in Nat : h[n + 1] = G[h[n]]
  <2>1. IsStep(G, F)
    BY <1>0 DEF IsStep
  <2>2. \E h \in [Nat -> F] : h[0] = first /\ \A n \in Nat : h[n + 1] = G[h[n]]
    BY <1>1, <2>1, Iteration
  <2> QED BY <2>2
<1>3. \A n \in Nat : h[n] \in [A -> B]
  BY <1>0, <1>2
<1> DEFINE Still == {n \in Nat : \A a \in A : rank[a] < n => h[n + 1][a] = h[n][a]}
<1>4. \A n \in Nat : n \in Still
  <2>1. 0 \in Still
    <3>1. \A a \in A : ~(rank[a] < 0)
      OBVIOUS
    <3> QED BY <3>1
  <2>2. ASSUME NEW n \in Nat, n \in Still PROVE n + 1 \in Still
    <3>1. SUFFICES ASSUME NEW a \in A, rank[a] < n + 1
                   PROVE  h[n + 1 + 1][a] = h[n + 1][a]
      OBVIOUS
    <3>2. \A b \in A : rank[b] < rank[a] => h[n + 1][b] = h[n][b]
      BY <2>2, <3>1
    <3>3. h[n + 1] \in [A -> B] /\ h[n] \in [A -> B]
      BY <1>3
    <3>4. G[h[n + 1]][a] = G[h[n]][a]
      BY <3>2, <3>3
    <3>5. h[n + 1 + 1] = G[h[n + 1]] /\ h[n + 1] = G[h[n]]
      BY <1>2
    <3> QED BY <3>4, <3>5
  <2> HIDE DEF Still
  <2> QED BY <2>1, <2>2, SetInduction
<1> DEFINE Later == {k \in Nat : \A n \in Nat : \A a \in A : rank[a] < n => h[n + k][a] = h[n][a]}
<1>5. \A k \in Nat : k \in Later
  <2>1. 0 \in Later
    OBVIOUS
  <2>2. ASSUME NEW k \in Nat, k \in Later PROVE k + 1 \in Later
    <3>1. SUFFICES ASSUME NEW n \in Nat, NEW a \in A, rank[a] < n
                   PROVE  h[n + (k + 1)][a] = h[n][a]
      OBVIOUS
    <3>2. h[n + k][a] = h[n][a]
      BY <2>2, <3>1
    <3>3. n + k \in Still /\ rank[a] < n + k
      BY <1>4, <3>1
    <3>4. h[n + k + 1][a] = h[n + k][a]
      BY <3>3
    <3>5. n + (k + 1) = n + k + 1
      OBVIOUS
    <3> QED BY <3>2, <3>4, <3>5
  <2> HIDE DEF Later
  <2> QED BY <2>1, <2>2, SetInduction
<1> DEFINE f == [a \in A |-> h[rank[a] + 1][a]]
<1>6. f \in [A -> B]
  BY <1>3
<1>7. ASSUME NEW a \in A PROVE G[f][a] = f[a]
  <2>1. ASSUME NEW b \in A, rank[b] < rank[a] PROVE f[b] = h[rank[a]][b]
    <3>1. rank[a] - (rank[b] + 1) \in Nat /\ rank[b] + 1 \in Nat
      BY <2>1
    <3>2. PICK k \in Nat : rank[a] = rank[b] + 1 + k
      BY <3>1
    <3>3. \A n \in Nat : \A c \in A : rank[c] < n => h[n + k][c] = h[n][c]
      BY <1>5
    <3>4. h[rank[b] + 1 + k][b] = h[rank[b] + 1][b]
      BY <3>1, <3>3, rank[b] < rank[b] + 1
    <3> QED BY <3>2, <3>4
  <2>2. h[rank[a]] \in [A -> B]
    BY <1>3
  <2>3. G[f][a] = G[h[rank[a]]][a]
    <3> HIDE DEF f
    <3> QED BY <1>6, <2>1, <2>2
  <2> QED BY <1>2, <2>3
<1>8. G[f] = f
  <2>1. G[f] \in [A -> B]
    BY <1>6
  <2> HIDE DEF f
  <2> QED BY <1>6, <1>7, <2>1
<1> HIDE DEF f
<1> QED BY <1>6, <1>8

\* Numbers given to finitely many things have a bound.
LEMMA Bounded ==
  ASSUME NEW S, IsFiniteSet(S), NEW f, \A x \in S : f[x] \in Nat
  PROVE  \E k \in Nat : \A x \in S : f[x] <= k
<1>1. PICK n \in Nat : ExistsBijection(1..n, S)
  BY FS_CardinalityType
<1>2. PICK b \in [1..n -> S] : \A x \in S : \E i \in 1..n : b[i] = x
  BY <1>1 DEF ExistsBijection, Bijection, Surjection
<1> DEFINE Under == {m \in Nat : m <= n => \E k \in Nat : \A i \in 1..m : f[b[i]] <= k}
<1>3. \A m \in Nat : m \in Under
  <2>1. 0 \in Under
    OBVIOUS
  <2>2. ASSUME NEW m \in Nat, m \in Under PROVE m + 1 \in Under
    <3>1. SUFFICES ASSUME m + 1 <= n PROVE \E k \in Nat : \A i \in 1..(m + 1) : f[b[i]] <= k
      OBVIOUS
    <3>2. PICK k \in Nat : \A i \in 1..m : f[b[i]] <= k
      BY <2>2, <3>1
    <3>3. \A i \in 1..(m + 1) : f[b[i]] \in Nat
      BY <1>2, <3>1
    <3>4. PICK l \in Nat : l = f[b[m + 1]]
      BY <3>3
    <3>5. \A i \in 1..(m + 1) : f[b[i]] <= k + l
      <4>1. ASSUME NEW i \in 1..(m + 1) PROVE f[b[i]] <= k + l
        <5>1. CASE i = m + 1
          BY <5>1, <3>4
        <5>2. CASE i \in 1..m
          BY <5>2, <3>2, <3>3, <3>4
        <5> QED BY <5>1, <5>2
      <4> QED BY <4>1
    <3>6. PICK j \in Nat : j = k + l
      OBVIOUS
    <3> QED BY <3>5, <3>6
  <2> HIDE DEF Under
  <2> QED BY <2>1, <2>2, SetInduction
<1>4. PICK k \in Nat : \A i \in 1..n : f[b[i]] <= k
  <2>1. n \in Under
    BY <1>3
  <2>2. n <= n => \E k \in Nat : \A i \in 1..n : f[b[i]] <= k
    BY <2>1
  <2> QED BY <2>2
<1> QED BY <1>2, <1>4

-----------------------------------------------------------------------------
(* Lists of lists. *)

\* Each position of "flat" comes from a place of the first n lists of ss, a row and a
\* column, and each place goes to one position.
Places(ss, n, flat, row, col) ==
  /\ \A p \in DOMAIN flat : /\ row[p] \in 1..n /\ col[p] \in DOMAIN ss[row[p]]
                            /\ flat[p] = ss[row[p]][col[p]]
  /\ \A p, q \in DOMAIN flat : row[p] = row[q] /\ col[p] = col[q] => p = q
  /\ \A i \in 1..n : \A j \in DOMAIN ss[i] :
       \E p \in DOMAIN flat : row[p] = i /\ col[p] = j

\* One more list at the end.
LEMMA PlacesNext ==
  ASSUME NEW S, NEW ss \in Seq(Seq(S)), NEW n \in Nat, n + 1 \in DOMAIN ss,
         NEW flat \in Seq(S), NEW row, NEW col, Places(ss, n, flat, row, col)
  PROVE  /\ flat \o ss[n + 1] \in Seq(S)
         /\ \E r, c : Places(ss, n + 1, flat \o ss[n + 1], r, c)
<1>1. PICK t \in Seq(S) : t = ss[n + 1]
  OBVIOUS
<1> DEFINE m == Len(flat)
           longer == flat \o t
           r == [p \in 1..(m + Len(t)) |-> IF p <= m THEN row[p] ELSE n + 1]
           c == [p \in 1..(m + Len(t)) |-> IF p <= m THEN col[p] ELSE p - m]
<1>2. /\ longer \in Seq(S) /\ DOMAIN longer = 1..(m + Len(t)) /\ m \in Nat /\ Len(t) \in Nat
      /\ DOMAIN flat = 1..m /\ DOMAIN t = 1..Len(t)
      /\ \A p \in 1..m : longer[p] = flat[p]
      /\ \A p \in 1..Len(t) : longer[m + p] = t[p]
  OBVIOUS
<1>3. /\ \A p \in 1..m : r[p] = row[p] /\ c[p] = col[p]
      /\ \A p \in 1..Len(t) : r[m + p] = n + 1 /\ c[m + p] = p
  <2>1. \A p \in 1..m : p \in 1..(m + Len(t)) /\ p <= m
    BY <1>2
  <2>2. \A p \in 1..Len(t) : m + p \in 1..(m + Len(t)) /\ ~(m + p <= m) /\ m + p - m = p
    BY <1>2
  <2> HIDE DEF m
  <2>3. \A p \in 1..m : r[p] = row[p] /\ c[p] = col[p]
    BY <2>1
  <2>4. ASSUME NEW p \in 1..Len(t) PROVE r[m + p] = n + 1 /\ c[m + p] = p
    <3>1. PICK q : q = m + p
      OBVIOUS
    <3>2. q \in 1..(m + Len(t)) /\ ~(q <= m) /\ q - m = p
      BY <1>2, <2>2, <3>1
    <3>3. r[q] = n + 1 /\ c[q] = p
      BY <3>2
    <3> QED BY <3>1, <3>3
  <2> QED BY <2>3, <2>4
<1>4. \A p \in DOMAIN longer : p \in 1..m \/ \E q \in 1..Len(t) : p = m + q
  <2>1. ASSUME NEW p \in DOMAIN longer, p \notin 1..m PROVE \E q \in 1..Len(t) : p = m + q
    <3>1. p - m \in 1..Len(t) /\ p = m + (p - m)
      BY <1>2, <2>1
    <3> QED BY <3>1
  <2> QED BY <2>1
<1> HIDE DEF r, c, longer, m
<1>5. ASSUME NEW p \in DOMAIN longer
      PROVE  /\ r[p] \in 1..(n + 1) /\ c[p] \in DOMAIN ss[r[p]]
             /\ longer[p] = ss[r[p]][c[p]]
  <2>1. CASE p \in 1..m
    <3>1. row[p] \in 1..n /\ col[p] \in DOMAIN ss[row[p]] /\ flat[p] = ss[row[p]][col[p]]
      BY <1>2, <2>1 DEF Places
    <3> QED BY <1>2, <1>3, <2>1, <3>1
  <2>2. ASSUME NEW q \in 1..Len(t), p = m + q
        PROVE  /\ r[p] \in 1..(n + 1) /\ c[p] \in DOMAIN ss[r[p]]
               /\ longer[p] = ss[r[p]][c[p]]
    BY <1>1, <1>2, <1>3, <2>2
  <2> QED BY <1>4, <2>1, <2>2
<1>6. ASSUME NEW p \in DOMAIN longer, NEW q \in DOMAIN longer, r[p] = r[q], c[p] = c[q]
      PROVE  p = q
  <2>1. \A u \in 1..m : r[u] \in 1..n /\ r[u] = row[u] /\ c[u] = col[u]
    BY <1>2, <1>3 DEF Places
  <2>2. ~(n + 1 \in 1..n)
    OBVIOUS
  <2>3. CASE p \in 1..m /\ q \in 1..m
    <3>1. row[p] = row[q] /\ col[p] = col[q]
      BY <1>3, <1>6, <2>3
    <3>2. p \in DOMAIN flat /\ q \in DOMAIN flat
      BY <1>2, <2>3
    <3> QED BY <3>1, <3>2 DEF Places
  <2>4. CASE p \notin 1..m /\ q \notin 1..m
    <3>1. PICK u \in 1..Len(t) : p = m + u
      BY <1>4, <2>4
    <3>2. PICK v \in 1..Len(t) : q = m + v
      BY <1>4, <2>4
    <3>3. u = v
      BY <1>3, <1>6, <3>1, <3>2
    <3> QED BY <3>1, <3>2, <3>3
  <2>5. CASE p \in 1..m /\ q \notin 1..m
    <3>1. PICK v \in 1..Len(t) : q = m + v
      BY <1>4, <2>5
    <3>2. r[q] = n + 1 /\ r[p] \in 1..n
      BY <1>3, <2>1, <2>5, <3>1
    <3> QED BY <1>6, <2>2, <3>2
  <2>6. CASE p \notin 1..m /\ q \in 1..m
    <3>1. PICK u \in 1..Len(t) : p = m + u
      BY <1>4, <2>6
    <3>2. r[p] = n + 1 /\ r[q] \in 1..n
      BY <1>3, <2>1, <2>6, <3>1
    <3> QED BY <1>6, <2>2, <3>2
  <2> QED BY <2>3, <2>4, <2>5, <2>6
<1>7. ASSUME NEW i \in 1..(n + 1), NEW j \in DOMAIN ss[i]
      PROVE  \E p \in DOMAIN longer : r[p] = i /\ c[p] = j
  <2>1. CASE i \in 1..n
    <3>1. PICK p \in DOMAIN flat : row[p] = i /\ col[p] = j
      BY <1>7, <2>1 DEF Places
    <3>2. p \in DOMAIN longer /\ p \in 1..m
      BY <1>2, <3>1
    <3> QED BY <1>3, <3>1, <3>2
  <2>2. CASE i = n + 1
    <3>1. j \in 1..Len(t)
      BY <1>1, <1>2, <1>7, <2>2
    <3>2. m + j \in DOMAIN longer
      BY <1>2, <3>1
    <3> QED BY <1>3, <2>2, <3>1, <3>2
  <2>3. i \in 1..n \/ i = n + 1
    OBVIOUS
  <2> QED BY <2>1, <2>2, <2>3
<1>8. Places(ss, n + 1, longer, r, c)
  BY <1>5, <1>6, <1>7 DEF Places
<1> QED BY <1>1, <1>2, <1>8 DEF longer

\* The definition of FlattenSeq by recursion has a solution.
LEMMA FlattenExists ==
  ASSUME NEW S, NEW ss \in Seq(Seq(S)), ss # <<>>
  PROVE  \E f : f = [i \in 1..Len(ss) |-> IF i = 1 THEN ss[i] ELSE f[i - 1] \o ss[i]]
<1> DEFINE A == 1..Len(ss)
           B == Seq(S)
           rank == [i \in A |-> i]
           G == [f \in [A -> B] |-> [i \in A |-> IF i = 1 THEN ss[i] ELSE f[i - 1] \o ss[i]]]
<1>1. Len(ss) \in Nat /\ \A i \in A : ss[i] \in B /\ (i # 1 => i - 1 \in A /\ i - 1 < i)
  OBVIOUS
<1>2. \A s, t \in B : s \o t \in B
  OBVIOUS
<1>3. rank \in [A -> Nat]
  OBVIOUS
<1>4. PICK e : e \in B
  <2>1. <<>> \in B
    OBVIOUS
  <2> QED BY <2>1
<1>5. G \in [[A -> B] -> [A -> B]]
  <2> HIDE DEF A, B
  <2>1. ASSUME NEW f \in [A -> B], NEW i \in A
        PROVE  (IF i = 1 THEN ss[i] ELSE f[i - 1] \o ss[i]) \in B
    <3>1. CASE i = 1
      BY <1>1, <3>1
    <3>2. CASE i # 1
      BY <1>1, <1>2, <3>2
    <3> QED BY <3>1, <3>2
  <2> QED BY <2>1
<1>6. ASSUME NEW f \in [A -> B], NEW g \in [A -> B], NEW i \in A,
             \A j \in A : rank[j] < rank[i] => f[j] = g[j]
      PROVE  G[f][i] = G[g][i]
  <2>1. i # 1 => f[i - 1] = g[i - 1]
    BY <1>1, <1>6
  <2> HIDE DEF A, B
  <2> QED BY <2>1
<1> HIDE DEF A, B, rank, G
<1>7. Ranked(A, B, rank, G)
  BY <1>3, <1>5, <1>6 DEF Ranked
<1>8. \E f \in [A -> B] : f = G[f]
  BY ONLY <1>4, <1>7, Recursion
<1> QED BY <1>8 DEF G, A

\* FlattenSeq of lists is a list, and each of its positions comes from one place.
LEMMA Flattening ==
  ASSUME NEW S, NEW ss \in Seq(Seq(S))
  PROVE  /\ FlattenSeq(ss) \in Seq(S)
         /\ \E row, col : Places(ss, Len(ss), FlattenSeq(ss), row, col)
<1>1. CASE ss = <<>>
  <2>1. FlattenSeq(ss) = <<>> /\ Len(ss) = 0
    BY <1>1 DEF FlattenSeq
  <2>2. DOMAIN (<<>>) = {} /\ 1..0 = {}
    OBVIOUS
  <2>3. \A row, col : Places(ss, 0, <<>>, row, col)
    BY <2>2 DEF Places
  <2> QED BY <2>1, <2>3
<1>2. CASE ss # <<>>
  <2> DEFINE g == CHOOSE f : f = [i \in 1..Len(ss) |-> IF i = 1 THEN ss[i] ELSE f[i - 1] \o ss[i]]
             n == Len(ss)
  <2>1. g = [i \in 1..Len(ss) |-> IF i = 1 THEN ss[i] ELSE g[i - 1] \o ss[i]]
    BY <1>2, FlattenExists
  <2>2. n \in Nat /\ n # 0 /\ DOMAIN ss = 1..n
    BY <1>2
  <2>3. FlattenSeq(ss) = g[n]
    BY <2>2 DEF FlattenSeq
  <2> HIDE DEF g, n
  <2>4. g[1] = ss[1] /\ \A k \in Nat : k # 0 /\ k + 1 <= n => g[k + 1] = g[k] \o ss[k + 1]
    <3>1. \A i \in 1..n : g[i] = IF i = 1 THEN ss[i] ELSE g[i - 1] \o ss[i]
      BY <2>1 DEF n
    <3>2. 1 \in 1..n
      BY <2>2
    <3>3. \A k \in Nat : k # 0 /\ k + 1 <= n => k + 1 \in 1..n /\ k + 1 # 1 /\ k + 1 - 1 = k
      BY <2>2
    <3>4. ASSUME NEW k \in Nat, k # 0, k + 1 <= n PROVE g[k + 1] = g[k] \o ss[k + 1]
      <4>1. PICK i : i = k + 1
        OBVIOUS
      <4>2. i \in 1..n /\ i # 1 /\ i - 1 = k
        BY <3>3, <3>4, <4>1
      <4>3. g[i] = g[i - 1] \o ss[i]
        BY <3>1, <4>2
      <4> QED BY <4>1, <4>2, <4>3
    <3> QED BY <3>1, <3>2, <3>4
  <2> DEFINE Done == {k \in Nat : k # 0 /\ k <= n =>
                        g[k] \in Seq(S) /\ \E row, col : Places(ss, k, g[k], row, col)}
  <2>5. \A k \in Nat : k \in Done
    <3>1. 0 \in Done
      OBVIOUS
    <3>2. ASSUME NEW k \in Nat, k \in Done PROVE k + 1 \in Done
      <4>1. SUFFICES ASSUME k + 1 <= n
                     PROVE  /\ g[k + 1] \in Seq(S)
                            /\ \E row, col : Places(ss, k + 1, g[k + 1], row, col)
        OBVIOUS
      <4>2. CASE k = 0
        <5>1. 1 \in DOMAIN ss /\ ss[1] \in Seq(S)
          BY <2>2
        <5>2. PICK t \in Seq(S) : t = ss[1]
          BY <5>1
        <5>3. Places(ss, 1, t, [p \in DOMAIN t |-> 1], [p \in DOMAIN t |-> p])
          <6>1. \A i \in 1..1 : i = 1
            OBVIOUS
          <6> QED BY <5>2, <6>1 DEF Places
        <5> QED BY <2>4, <4>2, <5>2, <5>3
      <4>3. CASE k # 0
        <5>1. k <= n /\ k + 1 \in DOMAIN ss
          BY <2>2, <4>1
        <5>2. g[k] \in Seq(S) /\ \E row, col : Places(ss, k, g[k], row, col)
          BY <3>2, <4>3, <5>1
        <5>3. PICK flat \in Seq(S) : flat = g[k]
          BY <5>2
        <5>4. PICK row, col : Places(ss, k, flat, row, col)
          BY <5>2, <5>3
        <5>5. /\ flat \o ss[k + 1] \in Seq(S)
              /\ \E r, c : Places(ss, k + 1, flat \o ss[k + 1], r, c)
          BY <5>1, <5>4, PlacesNext
        <5>6. g[k + 1] = flat \o ss[k + 1]
          BY <2>4, <4>1, <4>3, <5>3
        <5> QED BY <5>5, <5>6
      <4> QED BY <4>2, <4>3
    <3> HIDE DEF Done
    <3> QED BY <3>1, <3>2, SetInduction
  <2>6. g[n] \in Seq(S) /\ \E row, col : Places(ss, n, g[n], row, col)
    <3>1. n \in Done
      BY <2>2, <2>5
    <3> QED BY <2>2, <3>1
  <2> QED BY <2>3, <2>6 DEF n
<1> QED BY <1>1, <1>2

\* What is in the lists is in the flat one, and nothing else.
LEMMA FlattenElements ==
  ASSUME NEW S, NEW ss \in Seq(Seq(S))
  PROVE  /\ \A x \in ToSet(FlattenSeq(ss)) : \E i \in DOMAIN ss : x \in ToSet(ss[i])
         /\ \A i \in DOMAIN ss : ToSet(ss[i]) \subseteq ToSet(FlattenSeq(ss))
<1>1. PICK row, col : Places(ss, Len(ss), FlattenSeq(ss), row, col)
  BY Flattening
<1>2. DOMAIN ss = 1..Len(ss)
  OBVIOUS
<1> HIDE DEF FlattenSeq
<1>3. ASSUME NEW x \in ToSet(FlattenSeq(ss)) PROVE \E i \in DOMAIN ss : x \in ToSet(ss[i])
  BY <1>1, <1>2, <1>3 DEF Places, ToSet
<1>4. ASSUME NEW i \in DOMAIN ss, NEW x \in ToSet(ss[i]) PROVE x \in ToSet(FlattenSeq(ss))
  <2>1. PICK j \in DOMAIN ss[i] : x = ss[i][j]
    BY <1>4 DEF ToSet
  <2>2. PICK p \in DOMAIN FlattenSeq(ss) : row[p] = i /\ col[p] = j
    BY <1>1, <1>2, <2>1 DEF Places
  <2>3. FlattenSeq(ss)[p] = x
    BY <1>1, <2>1, <2>2 DEF Places
  <2> QED BY <2>2, <2>3 DEF ToSet
<1> QED BY <1>3, <1>4

\* Each position of what is kept of s comes from one position of s.
From(s, T, kept, from) ==
  /\ \A p \in DOMAIN kept : /\ from[p] \in DOMAIN s /\ s[from[p]] \in T
                            /\ kept[p] = s[from[p]]
  /\ \A p, q \in DOMAIN kept : from[p] = from[q] => p = q
  /\ \A i \in DOMAIN s : s[i] \in T => \E p \in DOMAIN kept : from[p] = i

LEMMA Keeping ==
  ASSUME NEW S, NEW s \in Seq(S), NEW T
  PROVE  /\ Kept(s, T) \in Seq(S)
         /\ \E from : From(s, T, Kept(s, T), from)
         /\ ToSet(Kept(s, T)) = ToSet(s) \intersect T
<1> DEFINE ss == [i \in DOMAIN s |-> IF s[i] \in T THEN <<s[i]>> ELSE <<>>]
           kept == FlattenSeq(ss)
<1>1. ss \in Seq(Seq(S)) /\ DOMAIN ss = DOMAIN s /\ DOMAIN ss = 1..Len(ss)
  <2>1. \A i \in DOMAIN s : s[i] \in S
    OBVIOUS
  <2>2. \A x \in S : <<x>> \in Seq(S)
    OBVIOUS
  <2>3. <<>> \in Seq(S)
    OBVIOUS
  <2>4. \A i \in DOMAIN s : (IF s[i] \in T THEN <<s[i]>> ELSE <<>>) \in Seq(S)
    BY <2>1, <2>2, <2>3
  <2>5. DOMAIN s = 1..Len(s) /\ Len(s) \in Nat
    OBVIOUS
  <2>6. ss \in [1..Len(s) -> Seq(S)]
    BY <2>4, <2>5
  <2> HIDE DEF ss
  <2> QED BY <2>5, <2>6
<1>2. kept \in Seq(S) /\ \E row, col : Places(ss, Len(ss), kept, row, col)
  <2> HIDE DEF ss
  <2> QED BY <1>1, Flattening
<1>3. PICK row, col : Places(ss, Len(ss), kept, row, col)
  BY <1>2
<1>4. \A i \in DOMAIN s : \A j \in DOMAIN ss[i] : j = 1 /\ s[i] \in T /\ ss[i][j] = s[i]
  OBVIOUS
<1>5. \A i \in DOMAIN s : s[i] \in T => 1 \in DOMAIN ss[i]
  OBVIOUS
<1>6. kept = Kept(s, T)
  BY DEF Kept
<1> HIDE DEF ss, kept
<1>7. From(s, T, kept, row)
  <2>1. \A p \in DOMAIN kept : /\ row[p] \in DOMAIN s /\ col[p] = 1 /\ s[row[p]] \in T
                               /\ kept[p] = s[row[p]]
    BY <1>1, <1>3, <1>4 DEF Places
  <2>2. \A p, q \in DOMAIN kept : row[p] = row[q] => p = q
    BY <1>3, <2>1 DEF Places
  <2>3. \A i \in DOMAIN s : s[i] \in T => \E p \in DOMAIN kept : row[p] = i
    BY <1>1, <1>3, <1>5 DEF Places
  <2> QED BY <2>1, <2>2, <2>3 DEF From
<1>8. ToSet(kept) = ToSet(s) \intersect T
  BY <1>7 DEF From, ToSet
<1> QED BY <1>2, <1>6, <1>7, <1>8

\* In particular of its own elements.
LEMMA KeepingSome ==
  ASSUME NEW S, NEW s \in Seq(S), NEW T, T \subseteq ToSet(s)
  PROVE  /\ Kept(s, T) \in Seq(S) /\ ToSet(Kept(s, T)) = T
         /\ \E from : From(s, T, Kept(s, T), from)
<1>1. /\ Kept(s, T) \in Seq(S) /\ ToSet(Kept(s, T)) = ToSet(s) \intersect T
      /\ \E from : From(s, T, Kept(s, T), from)
  BY Keeping
<1> HIDE DEF Kept
<1>2. ToSet(s) \intersect T = T
  OBVIOUS
<1> QED BY <1>1, <1>2

-----------------------------------------------------------------------------
(* The depth-first walk. *)

IsGraph(inc) ==
  /\ IsFiniteSet(DOMAIN inc) /\ DOMAIN inc \subseteq Services
  /\ \A m \in DOMAIN inc : inc[m] \in Seq(Services)

\* What the members of a walk are, and that each way on is a walk again.
LEMMA WalkTypes ==
  ASSUME NEW inc, IsGraph(inc), NEW w \in Walks(inc)
  PROVE  /\ w.order \in Seq(Services) /\ w.todo \in Seq(Services)
         /\ w.stack \subseteq DOMAIN inc
         /\ w.todo # <<>> =>
              /\ Head(w.todo) \in Services
              /\ Past(w) \in Walks(inc) /\ Past(w).order = w.order
              /\ Past(w).todo = Tail(w.todo) /\ Past(w).stack = w.stack
              /\ \A order \in Seq(Services) :
                   /\ After(w, order) \in Walks(inc)
                   /\ After(w, order).order = Append(order, Head(w.todo))
                   /\ After(w, order).todo = Tail(w.todo)
                   /\ After(w, order).stack = w.stack
              /\ Head(w.todo) \in DOMAIN inc =>
                   /\ Below(inc, w) \in Walks(inc) /\ Below(inc, w).order = w.order
                   /\ Below(inc, w).todo = inc[Head(w.todo)]
                   /\ Below(inc, w).stack = w.stack \union {Head(w.todo)}
<1>1. w.order \in Seq(Services) /\ w.todo \in Seq(Services) /\ w.stack \subseteq DOMAIN inc
  BY DEF Walks
<1>2. ASSUME w.todo # <<>>
      PROVE  Head(w.todo) \in Services /\ Tail(w.todo) \in Seq(Services)
  <2>1. \A t \in Seq(Services) : t # <<>> => Head(t) \in Services /\ Tail(t) \in Seq(Services)
    OBVIOUS
  <2> QED BY <1>1, <1>2, <2>1
<1>3. \A order \in Seq(Services), m \in Services : Append(order, m) \in Seq(Services)
  OBVIOUS
<1>4. \A order, todo \in Seq(Services), stack \in SUBSET DOMAIN inc :
        [order |-> order, todo |-> todo, stack |-> stack] \in Walks(inc)
  BY DEF Walks
<1>5. w.todo # <<>> => Past(w) \in Walks(inc)
  BY <1>1, <1>2, <1>4 DEF Past
<1>6. ASSUME w.todo # <<>>, NEW order \in Seq(Services)
      PROVE  After(w, order) \in Walks(inc)
  BY <1>1, <1>2, <1>3, <1>4, <1>6 DEF After
<1>7. ASSUME w.todo # <<>>, Head(w.todo) \in DOMAIN inc
      PROVE  Below(inc, w) \in Walks(inc)
  <2>1. inc[Head(w.todo)] \in Seq(Services)
    BY <1>7 DEF IsGraph
  <2> QED BY <1>1, <1>4, <1>7, <2>1 DEF Below
<1>8. /\ Past(w).order = w.order /\ Past(w).todo = Tail(w.todo) /\ Past(w).stack = w.stack
      /\ Below(inc, w).order = w.order /\ Below(inc, w).todo = inc[Head(w.todo)]
      /\ Below(inc, w).stack = w.stack \union {Head(w.todo)}
  BY DEF Past, Below
<1>9. \A order : /\ After(w, order).order = Append(order, Head(w.todo))
                 /\ After(w, order).todo = Tail(w.todo)
                 /\ After(w, order).stack = w.stack
  BY DEF After
<1> QED BY <1>1, <1>2, <1>5, <1>6, <1>7, <1>8, <1>9

\* The branches of a visit.
LEMMA VisitCases ==
  ASSUME NEW inc, NEW f, NEW w
  PROVE  /\ w.todo = <<>> => Visit(f, inc, w) = [order |-> w.order, ok |-> TRUE]
         /\ w.todo # <<>> /\ Head(w.todo) \in ToSet(w.order) => Visit(f, inc, w) = f[Past(w)]
         /\ /\ w.todo # <<>> /\ Head(w.todo) \notin ToSet(w.order)
            /\ Head(w.todo) \in w.stack \/ Head(w.todo) \notin DOMAIN inc
            => Visit(f, inc, w) = [order |-> w.order, ok |-> FALSE]
         /\ /\ w.todo # <<>> /\ Head(w.todo) \notin ToSet(w.order)
            /\ Head(w.todo) \notin w.stack /\ Head(w.todo) \in DOMAIN inc
            => LET below == f[Below(inc, w)]
               IN Visit(f, inc, w) = IF below.ok THEN f[After(w, below.order)] ELSE below
<1>1. CASE w.todo = <<>>
  BY <1>1 DEF Visit
<1>2. CASE w.todo # <<>> /\ Head(w.todo) \in ToSet(w.order)
  BY <1>2 DEF Visit
<1>3. CASE w.todo # <<>> /\ Head(w.todo) \notin ToSet(w.order)
  BY <1>3 DEF Visit
<1> QED BY <1>1, <1>2, <1>3

\* What a visit looks at: the walk past the member, below it and after it.
LEMMA VisitLooks ==
  ASSUME NEW inc, IsGraph(inc), NEW w \in Walks(inc), NEW f \in [Walks(inc) -> Ends]
  PROVE  /\ Visit(f, inc, w) \in Ends
         /\ \A g :
              /\ w.todo # <<>> => f[Past(w)] = g[Past(w)]
              /\ w.todo # <<>> /\ Head(w.todo) \in DOMAIN inc \ w.stack =>
                   /\ f[Below(inc, w)] = g[Below(inc, w)]
                   /\ \A order \in Seq(Services) : f[After(w, order)] = g[After(w, order)]
              => Visit(f, inc, w) = Visit(g, inc, w)
<1>1. \A e \in Ends : e.order \in Seq(Services) /\ e.ok \in BOOLEAN
  BY DEF Ends
<1>2. \A order \in Seq(Services), ok \in BOOLEAN : [order |-> order, ok |-> ok] \in Ends
  BY DEF Ends
<1>3. CASE w.todo = <<>>
  <2>1. \A g : Visit(g, inc, w) = [order |-> w.order, ok |-> TRUE]
    BY <1>3, VisitCases
  <2>2. w.order \in Seq(Services)
    BY WalkTypes
  <2>3. [order |-> w.order, ok |-> TRUE] \in Ends
    BY <1>2, <2>2
  <2> QED BY <2>1, <2>3
<1>4. CASE w.todo # <<>> /\ Head(w.todo) \in ToSet(w.order)
  <2>1. \A g : Visit(g, inc, w) = g[Past(w)]
    BY <1>4, VisitCases
  <2>2. f[Past(w)] \in Ends
    BY <1>4, WalkTypes
  <2> QED BY <1>4, <2>1, <2>2
<1>5. CASE /\ w.todo # <<>> /\ Head(w.todo) \notin ToSet(w.order)
           /\ Head(w.todo) \in w.stack \/ Head(w.todo) \notin DOMAIN inc
  <2>1. \A g : Visit(g, inc, w) = [order |-> w.order, ok |-> FALSE]
    BY <1>5, VisitCases
  <2>2. w.order \in Seq(Services)
    BY WalkTypes
  <2>3. [order |-> w.order, ok |-> FALSE] \in Ends
    BY <1>2, <2>2
  <2> QED BY <2>1, <2>3
<1>6. CASE /\ w.todo # <<>> /\ Head(w.todo) \notin ToSet(w.order)
           /\ Head(w.todo) \notin w.stack /\ Head(w.todo) \in DOMAIN inc
  <2>1. Below(inc, w) \in Walks(inc)
    BY <1>6, WalkTypes
  <2>2. f[Below(inc, w)] \in Ends
    BY <2>1
  <2>3. After(w, f[Below(inc, w)].order) \in Walks(inc)
    BY <1>1, <1>6, <2>2, WalkTypes
  <2>4. \A g : Visit(g, inc, w) = IF g[Below(inc, w)].ok
                                  THEN g[After(w, g[Below(inc, w)].order)]
                                  ELSE g[Below(inc, w)]
    BY <1>6, VisitCases
  <2>5. f[After(w, f[Below(inc, w)].order)] \in Ends
    BY <2>3
  <2>6. f[Below(inc, w)].order \in Seq(Services)
    BY <1>1, <2>2
  <2> HIDE DEF Below
  <2> QED BY <1>6, <2>2, <2>4, <2>5, <2>6
<1> QED BY <1>3, <1>4, <1>5, <1>6

\* The walk ends: each visit looks at walks of a lower rank only, which counts
\* first who is not on the stack and then who is still to be visited.
WalkRank(inc, rank) ==
  /\ rank \in [Walks(inc) -> Nat]
  /\ \A w \in Walks(inc) :
       w.todo # <<>> =>
         /\ rank[Past(w)] < rank[w]
         /\ Head(w.todo) \in DOMAIN inc \ w.stack =>
              /\ rank[Below(inc, w)] < rank[w]
              /\ \A order \in Seq(Services) : rank[After(w, order)] < rank[w]

LEMMA RankExists ==
  ASSUME NEW inc, IsGraph(inc)
  PROVE  \E rank : WalkRank(inc, rank)
<1>1. PICK k \in Nat : \A m \in DOMAIN inc : Len(inc[m]) <= k
  <2> DEFINE lens == [m \in DOMAIN inc |-> Len(inc[m])]
  <2>1. \A m \in DOMAIN inc : lens[m] \in Nat
    BY DEF IsGraph
  <2>2. \E k \in Nat : \A m \in DOMAIN inc : lens[m] <= k
    <3> HIDE DEF lens
    <3> QED BY <2>1, Bounded DEF IsGraph
  <2> QED BY <2>2
<1> DEFINE left(w) == Cardinality(DOMAIN inc \ w.stack)
           rank == [w \in Walks(inc) |-> left(w) * (k + 1) + Len(w.todo)]
<1>2. \A w \in Walks(inc) : left(w) \in Nat /\ Len(w.todo) \in Nat
  <2>1. ASSUME NEW w \in Walks(inc) PROVE IsFiniteSet(DOMAIN inc \ w.stack)
    <3>1. DOMAIN inc \ w.stack \in SUBSET DOMAIN inc
      OBVIOUS
    <3> QED BY <3>1, FS_Subset DEF IsGraph
  <2>2. \A w \in Walks(inc) : w.todo \in Seq(Services)
    BY DEF Walks
  <2> QED BY <2>1, <2>2, FS_CardinalityType
<1>3. rank \in [Walks(inc) -> Nat]
  <2>1. \A n, l \in Nat : n * (k + 1) + l \in Nat
    OBVIOUS
  <2> HIDE DEF left
  <2> QED BY <1>2, <2>1
<1>4. ASSUME NEW w \in Walks(inc), w.todo # <<>>
      PROVE  /\ rank[Past(w)] < rank[w]
             /\ Head(w.todo) \in DOMAIN inc \ w.stack =>
                  /\ rank[Below(inc, w)] < rank[w]
                  /\ \A order \in Seq(Services) : rank[After(w, order)] < rank[w]
  <2>1. Len(Tail(w.todo)) < Len(w.todo) /\ Len(Tail(w.todo)) \in Nat
    <3>1. \A t \in Seq(Services) : t # <<>> => Len(Tail(t)) < Len(t) /\ Len(Tail(t)) \in Nat
      OBVIOUS
    <3> QED BY <1>4, <3>1, WalkTypes
  <2>2. \A v \in Walks(inc) : v.stack = w.stack /\ v.todo = Tail(w.todo) => rank[v] < rank[w]
    <3>1. \A n, i, j \in Nat : i < j => n * (k + 1) + i < n * (k + 1) + j
      OBVIOUS
    <3> HIDE DEF left
    <3>2. SUFFICES ASSUME NEW v \in Walks(inc), v.stack = w.stack, v.todo = Tail(w.todo)
                   PROVE  rank[v] < rank[w]
      OBVIOUS
    <3>3. left(v) = left(w)
      BY <3>2 DEF left
    <3> QED BY <1>2, <2>1, <3>1, <3>2, <3>3
  <2>3. ASSUME Head(w.todo) \in DOMAIN inc \ w.stack PROVE rank[Below(inc, w)] < rank[w]
    <3> DEFINE v == Below(inc, w)
    <3>1. v \in Walks(inc) /\ v.todo = inc[Head(w.todo)] /\ v.stack = w.stack \union {Head(w.todo)}
      BY <1>4, <2>3, WalkTypes
    <3>2. DOMAIN inc \ v.stack = (DOMAIN inc \ w.stack) \ {Head(w.todo)}
      BY <3>1
    <3>3. IsFiniteSet(DOMAIN inc \ w.stack)
      <4>1. DOMAIN inc \ w.stack \in SUBSET DOMAIN inc
        OBVIOUS
      <4> QED BY <4>1, FS_Subset DEF IsGraph
    <3>4. left(v) = left(w) - 1
      <4>1. Cardinality((DOMAIN inc \ w.stack) \ {Head(w.todo)}) = Cardinality(DOMAIN inc \ w.stack) - 1
        BY <2>3, <3>3, FS_RemoveElement
      <4> QED BY <3>2, <4>1
    <3>5. Len(v.todo) <= k
      BY <1>1, <2>3, <3>1
    <3>6. \A n, i, j \in Nat : n - 1 \in Nat /\ i <= k => (n - 1) * (k + 1) + i < n * (k + 1) + j
      <4>1. \A n \in Nat : (n - 1) * (k + 1) = n * (k + 1) - (k + 1)
        OBVIOUS
      <4>2. \A n \in Nat : n * (k + 1) \in Nat
        OBVIOUS
      <4> QED BY <4>1, <4>2
    <3> HIDE DEF v, left
    <3>7. left(v) \in Nat /\ left(w) \in Nat /\ Len(v.todo) \in Nat /\ Len(w.todo) \in Nat
      BY <1>2, <3>1
    <3>8. rank[v] < rank[w]
      BY <3>1, <3>4, <3>5, <3>6, <3>7
    <3> QED BY <3>8 DEF v
  <2> HIDE DEF rank
  <2> QED BY <1>4, <2>2, <2>3, WalkTypes
<1>5. WalkRank(inc, rank)
  <2> HIDE DEF rank
  <2> QED BY <1>3, <1>4 DEF WalkRank
<1> HIDE DEF rank
<1> QED BY <1>5

\* The definition of the walk by recursion has a solution.
LEMMA VisitExists ==
  ASSUME NEW inc, IsGraph(inc)
  PROVE  \E f \in [Walks(inc) -> Ends] : f = [w \in Walks(inc) |-> Visit(f, inc, w)]
<1>1. PICK rank : WalkRank(inc, rank)
  BY RankExists
<1> DEFINE G == [f \in [Walks(inc) -> Ends] |-> [w \in Walks(inc) |-> Visit(f, inc, w)]]
<1>2. G \in [[Walks(inc) -> Ends] -> [Walks(inc) -> Ends]]
  BY VisitLooks
<1>3. ASSUME NEW f \in [Walks(inc) -> Ends], NEW g \in [Walks(inc) -> Ends],
             NEW w \in Walks(inc),
             \A v \in Walks(inc) : rank[v] < rank[w] => f[v] = g[v]
      PROVE  G[f][w] = G[g][w]
  <2>1. w.todo # <<>> => f[Past(w)] = g[Past(w)]
    BY <1>1, <1>3, WalkTypes DEF WalkRank
  <2>2. w.todo # <<>> /\ Head(w.todo) \in DOMAIN inc \ w.stack =>
          /\ f[Below(inc, w)] = g[Below(inc, w)]
          /\ \A order \in Seq(Services) : f[After(w, order)] = g[After(w, order)]
    BY <1>1, <1>3, WalkTypes DEF WalkRank
  <2>3. Visit(f, inc, w) = Visit(g, inc, w)
    BY <2>1, <2>2, VisitLooks
  <2> QED BY <2>3
<1>4. PICK e : e \in Ends
  <2>1. [order |-> <<>>, ok |-> TRUE] \in Ends
    BY DEF Ends
  <2> QED BY <2>1
<1>5. \E f \in [Walks(inc) -> Ends] : f = G[f]
  <2> HIDE DEF G
  <2>1. Ranked(Walks(inc), Ends, rank, G)
    BY <1>1, <1>2, <1>3 DEF Ranked, WalkRank
  <2> QED BY <1>4, <2>1, Recursion
<1> QED BY <1>5

\* The chain is what such a solution says of the walk from the start.
Start(members) == [order |-> <<>>, todo |-> members, stack |-> {}]
IsVisit(f, inc) ==
  /\ f \in [Walks(inc) -> Ends]
  /\ \A w \in Walks(inc) : f[w] = Visit(f, inc, w)

LEMMA ChainIsVisit ==
  ASSUME NEW inc, IsGraph(inc), NEW members \in Seq(Services)
  PROVE  /\ Start(members) \in Walks(inc)
         /\ \E f : IsVisit(f, inc) /\ ChainOfAll(inc, members) = f[Start(members)]
<1> DEFINE visit == CHOOSE f : f = [w \in Walks(inc) |-> Visit(f, inc, w)]
<1>1. \E f : f = [w \in Walks(inc) |-> Visit(f, inc, w)]
  BY VisitExists
<1>2. visit = [w \in Walks(inc) |-> Visit(visit, inc, w)]
  BY <1>1
<1>3. ChainOfAll(inc, members) = visit[Start(members)]
  BY DEF ChainOfAll, Start
<1>4. Start(members) \in Walks(inc)
  BY DEF Start, Walks
<1> HIDE DEF visit
<1>5. PICK f \in [Walks(inc) -> Ends] : f = [w \in Walks(inc) |-> Visit(f, inc, w)]
  BY VisitExists
<1>6. PICK rank : WalkRank(inc, rank)
  BY RankExists
<1> DEFINE Same == {n \in Nat : \A w \in Walks(inc) : rank[w] < n => f[w] = visit[w]}
<1>7. \A n \in Nat : n \in Same
  <2>1. 0 \in Same
    <3>1. \A w \in Walks(inc) : ~(rank[w] < 0)
      BY <1>6 DEF WalkRank
    <3> QED BY <3>1
  <2>2. ASSUME NEW n \in Nat, n \in Same PROVE n + 1 \in Same
    <3>1. SUFFICES ASSUME NEW w \in Walks(inc), rank[w] < n + 1 PROVE f[w] = visit[w]
      OBVIOUS
    <3>2. \A v \in Walks(inc) : rank[v] < rank[w] => f[v] = visit[v]
      <4>1. \A v \in Walks(inc) : rank[v] \in Nat
        BY <1>6 DEF WalkRank
      <4> QED BY <2>2, <3>1, <4>1
    <3>3. w.todo # <<>> => f[Past(w)] = visit[Past(w)]
      BY <1>6, <3>2, WalkTypes DEF WalkRank
    <3>4. w.todo # <<>> /\ Head(w.todo) \in DOMAIN inc \ w.stack =>
            /\ f[Below(inc, w)] = visit[Below(inc, w)]
            /\ \A order \in Seq(Services) : f[After(w, order)] = visit[After(w, order)]
      BY <1>6, <3>2, WalkTypes DEF WalkRank
    <3>5. Visit(f, inc, w) = Visit(visit, inc, w)
      BY <3>3, <3>4, VisitLooks
    <3> QED BY <1>2, <1>5, <3>5
  <2> HIDE DEF Same
  <2> QED BY <2>1, <2>2, SetInduction
<1>8. f = visit
  <2>1. ASSUME NEW w \in Walks(inc) PROVE f[w] = visit[w]
    <3>1. rank[w] \in Nat
      BY <1>6 DEF WalkRank
    <3>2. rank[w] + 1 \in Same /\ rank[w] < rank[w] + 1
      BY <1>7, <3>1
    <3> QED BY <3>2
  <2> QED BY <1>2, <1>5, <2>1
<1>9. IsVisit(visit, inc)
  <2>1. \A w \in Walks(inc) : f[w] = Visit(f, inc, w)
    BY <1>5
  <2> QED BY <1>5, <1>8, <2>1 DEF IsVisit
<1> QED BY <1>3, <1>4, <1>9

\* Who is reached: the least set with S that is closed under what is included.
LEMMA ReachedFacts ==
  ASSUME NEW inc, IsGraph(inc), NEW S \in SUBSET Services
  PROVE  /\ S \subseteq Reached(inc, S) /\ Reached(inc, S) \subseteq Services
         /\ \A m \in Reached(inc, S) \intersect DOMAIN inc : ToSet(inc[m]) \subseteq Reached(inc, S)
         /\ \A T \in SUBSET Services :
              /\ S \subseteq T /\ \A m \in T \intersect DOMAIN inc : ToSet(inc[m]) \subseteq T
              => Reached(inc, S) \subseteq T
<1>1. \A m \in DOMAIN inc : ToSet(inc[m]) \subseteq Services
  BY DEF IsGraph, ToSet
<1>2. ASSUME NEW m \in Reached(inc, S) \intersect DOMAIN inc, NEW x \in ToSet(inc[m])
      PROVE  x \in Reached(inc, S)
  BY <1>1, <1>2 DEF Reached, Closed
<1> QED BY <1>2 DEF Reached, Closed

\* More is reached from more, and from what is reached nothing new.
LEMMA ReachedWithin ==
  ASSUME NEW inc, IsGraph(inc), NEW S \in SUBSET Services, NEW T \in SUBSET Services,
         S \subseteq Reached(inc, T)
  PROVE  Reached(inc, S) \subseteq Reached(inc, T)
<1>1. Reached(inc, T) \in SUBSET Services
  BY ReachedFacts
<1>2. \A m \in Reached(inc, T) \intersect DOMAIN inc : ToSet(inc[m]) \subseteq Reached(inc, T)
  BY ReachedFacts
<1> QED BY <1>1, <1>2, ReachedFacts

LEMMA TailElements ==
  ASSUME NEW S, NEW t \in Seq(S), t # <<>>
  PROVE  ToSet(t) = {Head(t)} \union ToSet(Tail(t)) /\ ToSet(t) \subseteq S
<1>1. t[1] = Head(t) /\ Len(t) \in Nat /\ Len(t) >= 1 /\ DOMAIN t = 1..Len(t)
  OBVIOUS
<1>2. DOMAIN Tail(t) = 1..(Len(t) - 1) /\ \A i \in 1..(Len(t) - 1) : Tail(t)[i] = t[i + 1]
  OBVIOUS
<1>3. \A i \in DOMAIN t : t[i] \in {Head(t)} \union ToSet(Tail(t))
  <2>1. ASSUME NEW i \in 2..Len(t) PROVE t[i] \in ToSet(Tail(t))
    <3>1. i - 1 \in 1..(Len(t) - 1) /\ i = (i - 1) + 1
      BY <1>1
    <3> QED BY <3>1, <1>2 DEF ToSet
  <2> QED BY <1>1, <2>1
<1>4. \A i \in DOMAIN Tail(t) : Tail(t)[i] \in ToSet(t)
  <2>1. ASSUME NEW i \in DOMAIN Tail(t) PROVE Tail(t)[i] \in ToSet(t)
    <3>1. i + 1 \in DOMAIN t
      BY <1>1, <1>2
    <3> QED BY <3>1, <1>2 DEF ToSet
  <2> QED BY <2>1
<1>5. \A i \in DOMAIN t : t[i] \in S
  OBVIOUS
<1>6. ToSet(t) \subseteq {Head(t)} \union ToSet(Tail(t))
  BY <1>3 DEF ToSet
<1>7. ToSet(Tail(t)) \subseteq ToSet(t)
  BY <1>4 DEF ToSet
<1>8. Head(t) \in ToSet(t)
  BY <1>1 DEF ToSet
<1> QED BY <1>5, <1>6, <1>7, <1>8 DEF ToSet

LEMMA AppendElements ==
  ASSUME NEW S, NEW t \in Seq(S), NEW m \in S
  PROVE  /\ ToSet(Append(t, m)) = ToSet(t) \union {m}
         /\ DOMAIN Append(t, m) = 1..(Len(t) + 1) /\ DOMAIN t = 1..Len(t) /\ Len(t) \in Nat
         /\ \A i \in 1..Len(t) : Append(t, m)[i] = t[i]
         /\ Append(t, m)[Len(t) + 1] = m
<1>1. /\ DOMAIN Append(t, m) = 1..(Len(t) + 1) /\ DOMAIN t = 1..Len(t) /\ Len(t) \in Nat
      /\ \A i \in 1..Len(t) : Append(t, m)[i] = t[i]
      /\ Append(t, m)[Len(t) + 1] = m
  OBVIOUS
<1>2. \A i \in 1..(Len(t) + 1) : i \in 1..Len(t) \/ i = Len(t) + 1
  BY <1>1
<1> HIDE DEF Append
<1>3. ToSet(Append(t, m)) \subseteq ToSet(t) \union {m}
  BY <1>1, <1>2 DEF ToSet
<1>4. ToSet(t) \union {m} \subseteq ToSet(Append(t, m))
  <2>1. 1..Len(t) \subseteq 1..(Len(t) + 1) /\ Len(t) + 1 \in 1..(Len(t) + 1)
    BY <1>1
  <2> QED BY <1>1, <2>1 DEF ToSet
<1> QED BY <1>1, <1>3, <1>4

\* Everybody in the order is there once, has a file, and comes after what it includes.
Listed(inc, order) ==
  /\ \A i, j \in DOMAIN order : order[i] = order[j] => i = j
  /\ ToSet(order) \subseteq DOMAIN inc
  /\ \A i \in DOMAIN order : \A x \in ToSet(inc[order[i]]) :
       \E j \in DOMAIN order : j < i /\ order[j] = x

\* One who is new and whose includes are listed can come next.
LEMMA ListedNext ==
  ASSUME NEW inc, NEW order \in Seq(Services), Listed(inc, order),
         NEW m \in DOMAIN inc, m \in Services, m \notin ToSet(order),
         ToSet(inc[m]) \subseteq ToSet(order)
  PROVE  Listed(inc, Append(order, m))
<1> DEFINE longer == Append(order, m)
           n == Len(order)
<1>1. /\ ToSet(longer) = ToSet(order) \union {m}
      /\ DOMAIN longer = 1..(n + 1) /\ DOMAIN order = 1..n /\ n \in Nat
      /\ \A i \in 1..n : longer[i] = order[i]
      /\ longer[n + 1] = m
  BY AppendElements
<1> HIDE DEF longer, n
<1>2. \A i \in 1..n : order[i] # m
  BY <1>1 DEF ToSet
<1>3. \A i \in 1..(n + 1) : i \in 1..n \/ i = n + 1
  BY <1>1
<1>4. \A i, j \in DOMAIN longer : longer[i] = longer[j] => i = j
  BY <1>1, <1>2, <1>3 DEF Listed
<1>5. ToSet(longer) \subseteq DOMAIN inc
  BY <1>1 DEF Listed
<1>6. ASSUME NEW i \in DOMAIN longer, NEW x \in ToSet(inc[longer[i]])
      PROVE  \E j \in DOMAIN longer : j < i /\ longer[j] = x
  <2>1. CASE i \in 1..n
    <3>1. PICK j \in DOMAIN order : j < i /\ order[j] = x
      BY <1>1, <1>6, <2>1 DEF Listed
    <3>2. j \in DOMAIN longer
      BY <1>1, <3>1
    <3> QED BY <1>1, <3>1, <3>2
  <2>2. CASE i = n + 1
    <3>1. PICK j \in DOMAIN order : order[j] = x
      BY <1>1, <1>6, <2>2 DEF ToSet
    <3>2. j \in DOMAIN longer /\ j < i
      BY <1>1, <2>2, <3>1
    <3> QED BY <1>1, <3>1, <3>2
  <2> QED BY <1>1, <1>3, <2>1, <2>2
<1>7. Listed(inc, longer)
  BY <1>4, <1>5, <1>6 DEF Listed
<1> QED BY <1>7 DEF longer

\* Where a walk may be, and what it then comes to.
WalkPre(inc, w) == Listed(inc, w.order) /\ ToSet(w.order) \intersect w.stack = {}

WalkDone(inc, w, e) ==
  /\ Listed(inc, e.order) /\ ToSet(e.order) \intersect w.stack = {}
  /\ ToSet(w.order) \subseteq ToSet(e.order) /\ ToSet(w.todo) \subseteq ToSet(e.order)
  /\ ToSet(e.order) \subseteq ToSet(w.order) \union Reached(inc, ToSet(w.todo))

\* Somebody has no file, or is met again below those who are being visited or below
\* itself.
Astray(inc, S, stack) ==
  \E x \in Reached(inc, S) :
    x \notin DOMAIN inc \/ x \in stack \/ x \in Reached(inc, ToSet(inc[x]))

WalkPost(inc, w, e) ==
  IF e.ok THEN WalkDone(inc, w, e) ELSE Astray(inc, ToSet(w.todo), w.stack)

\* One visit keeps to this if the visits that it looks at do.
LEMMA VisitStep ==
  ASSUME NEW inc, IsGraph(inc), NEW f, IsVisit(f, inc),
         NEW w \in Walks(inc), WalkPre(inc, w),
         w.todo # <<>> /\ WalkPre(inc, Past(w)) => WalkPost(inc, Past(w), f[Past(w)]),
         w.todo # <<>> /\ Head(w.todo) \in DOMAIN inc \ w.stack =>
           /\ WalkPre(inc, Below(inc, w)) => WalkPost(inc, Below(inc, w), f[Below(inc, w)])
           /\ \A order \in Seq(Services) :
                WalkPre(inc, After(w, order)) => WalkPost(inc, After(w, order), f[After(w, order)])
  PROVE  WalkPost(inc, w, f[w])
<1> DEFINE m == Head(w.todo)
           rest == Tail(w.todo)
<1>1. f[w] = Visit(f, inc, w)
  BY DEF IsVisit
<1>2. \A v \in Walks(inc) : f[v] \in Ends
  BY DEF IsVisit
<1>3. \A e \in Ends : e.order \in Seq(Services) /\ e.ok \in BOOLEAN
  BY DEF Ends
<1>4. \A t \in Seq(Services) : ToSet(t) \in SUBSET Services
  BY DEF ToSet
<1>5. w.order \in Seq(Services) /\ w.todo \in Seq(Services)
  BY WalkTypes
<1>6. CASE w.todo = <<>>
  <2>1. f[w] = [order |-> w.order, ok |-> TRUE]
    BY <1>1, <1>6, VisitCases
  <2>2. ToSet(w.todo) = {}
    BY <1>6 DEF ToSet
  <2> QED BY <2>1, <2>2 DEF WalkPre, WalkPost, WalkDone
<1>7. ASSUME w.todo # <<>>
      PROVE  /\ m \in ToSet(w.todo) /\ m \in Services /\ rest \in Seq(Services)
             /\ ToSet(w.todo) = {m} \union ToSet(rest)
             /\ m \in Reached(inc, ToSet(w.todo))
             /\ Reached(inc, ToSet(rest)) \subseteq Reached(inc, ToSet(w.todo))
             /\ m \in DOMAIN inc => /\ inc[m] \in Seq(Services)
                                    /\ Reached(inc, ToSet(inc[m])) \subseteq Reached(inc, ToSet(w.todo))
  <2>1. m \in Services /\ rest \in Seq(Services)
    <3>1. \A t \in Seq(Services) : t # <<>> => Head(t) \in Services /\ Tail(t) \in Seq(Services)
      OBVIOUS
    <3> QED BY <1>5, <1>7, <3>1
  <2>2. ToSet(w.todo) = {m} \union ToSet(rest)
    BY <1>5, <1>7, TailElements
  <2>3. ToSet(w.todo) \subseteq Reached(inc, ToSet(w.todo))
    BY <1>4, <1>5, ReachedFacts
  <2>4. Reached(inc, ToSet(rest)) \subseteq Reached(inc, ToSet(w.todo))
    <3>1. ToSet(rest) \subseteq Reached(inc, ToSet(w.todo))
      BY <2>2, <2>3
    <3> QED BY <1>4, <1>5, <2>1, <3>1, ReachedWithin
  <2>5. ASSUME m \in DOMAIN inc
        PROVE  /\ inc[m] \in Seq(Services)
               /\ Reached(inc, ToSet(inc[m])) \subseteq Reached(inc, ToSet(w.todo))
    <3>1. inc[m] \in Seq(Services)
      BY <2>5 DEF IsGraph
    <3>2. ToSet(inc[m]) \subseteq Reached(inc, ToSet(w.todo))
      BY <1>4, <1>5, <2>2, <2>3, <2>5, ReachedFacts
    <3> QED BY <1>4, <1>5, <3>1, <3>2, ReachedWithin
  <2> QED BY <2>1, <2>2, <2>3, <2>4, <2>5
<1>8. ASSUME w.todo # <<>>, Astray(inc, ToSet(rest), w.stack)
      PROVE  Astray(inc, ToSet(w.todo), w.stack)
  BY <1>7, <1>8 DEF Astray
<1>9. CASE w.todo # <<>> /\ m \in ToSet(w.order)
  <2>1. f[w] = f[Past(w)]
    BY <1>1, <1>9, VisitCases
  <2>2. Past(w).order = w.order /\ Past(w).todo = rest /\ Past(w).stack = w.stack
    BY DEF Past
  <2>3. WalkPost(inc, Past(w), f[Past(w)])
    BY <1>9, <2>2 DEF WalkPre
  <2> HIDE DEF m, rest
  <2>4. CASE f[w].ok
    <3>1. WalkDone(inc, Past(w), f[w])
      BY <2>1, <2>3, <2>4 DEF WalkPost
    <3>2. WalkDone(inc, w, f[w])
      BY <1>7, <1>9, <2>2, <3>1 DEF WalkDone
    <3> QED BY <2>4, <3>2 DEF WalkPost
  <2>5. CASE ~f[w].ok
    <3>1. Astray(inc, ToSet(rest), w.stack)
      BY <2>1, <2>2, <2>3, <2>5 DEF WalkPost
    <3> QED BY <1>8, <1>9, <2>5, <3>1 DEF WalkPost
  <2> QED BY <2>4, <2>5
<1>10. CASE w.todo # <<>> /\ m \notin ToSet(w.order) /\ (m \in w.stack \/ m \notin DOMAIN inc)
  <2>1. f[w] = [order |-> w.order, ok |-> FALSE]
    BY <1>1, <1>10, VisitCases
  <2>2. Astray(inc, ToSet(w.todo), w.stack)
    BY <1>7, <1>10 DEF Astray
  <2> QED BY <2>1, <2>2 DEF WalkPost
<1>11. CASE w.todo # <<>> /\ m \notin ToSet(w.order) /\ m \notin w.stack /\ m \in DOMAIN inc
  <2> DEFINE b == Below(inc, w)
             below == f[b]
             a == After(w, below.order)
  <2>1. f[w] = IF below.ok THEN f[a] ELSE below
    BY <1>1, <1>11, VisitCases
  <2>2. b \in Walks(inc) /\ b.order = w.order /\ b.todo = inc[m] /\ b.stack = w.stack \union {m}
    BY <1>11, WalkTypes
  <2>3. below.order \in Seq(Services) /\ below.ok \in BOOLEAN
    BY <1>2, <1>3, <2>2
  <2>4. WalkPost(inc, b, below)
    <3>1. WalkPre(inc, b)
      BY <1>11, <2>2 DEF WalkPre
    <3> QED BY <1>11, <3>1
  <2>5. /\ a.order = Append(below.order, m) /\ a.todo = rest /\ a.stack = w.stack
        /\ m \in DOMAIN inc \ w.stack
    BY <1>11 DEF After
  <2>6. WalkPre(inc, a) => WalkPost(inc, a, f[a])
    BY <1>11, <2>3
  <2> HIDE DEF m, rest, b, a, below
  <2>7. CASE ~below.ok
    <3>1. Astray(inc, ToSet(inc[m]), w.stack \union {m})
      BY <2>2, <2>4, <2>7 DEF WalkPost
    <3>2. PICK x \in Reached(inc, ToSet(inc[m])) :
            \/ x \notin DOMAIN inc \/ x \in w.stack \union {m}
            \/ x \in Reached(inc, ToSet(inc[x]))
      BY <3>1 DEF Astray
    <3>3. x \in Reached(inc, ToSet(w.todo)) /\ m \in Reached(inc, ToSet(w.todo))
      BY <1>7, <1>11, <3>2
    <3>4. Astray(inc, ToSet(w.todo), w.stack)
      <4>1. CASE x = m
        BY <3>2, <3>3, <4>1 DEF Astray
      <4>2. CASE x # m
        BY <3>2, <3>3, <4>2 DEF Astray
      <4> QED BY <4>1, <4>2
    <3> QED BY <2>1, <2>7, <3>4 DEF WalkPost
  <2>8. CASE below.ok
    <3>1. WalkDone(inc, b, below)
      BY <2>4, <2>8 DEF WalkPost
    <3>2. /\ Listed(inc, below.order) /\ m \notin ToSet(below.order)
          /\ ToSet(below.order) \intersect w.stack = {}
          /\ ToSet(w.order) \subseteq ToSet(below.order)
          /\ ToSet(inc[m]) \subseteq ToSet(below.order)
          /\ ToSet(below.order) \subseteq ToSet(w.order) \union Reached(inc, ToSet(inc[m]))
      BY <2>2, <3>1 DEF WalkDone
    <3>3. ToSet(a.order) = ToSet(below.order) \union {m}
      BY <1>7, <1>11, <2>3, <2>5, AppendElements
    <3>4. WalkPre(inc, a)
      <4>1. Listed(inc, a.order)
        BY <1>7, <1>11, <2>3, <2>5, <3>2, ListedNext
      <4> QED BY <2>5, <3>2, <3>3, <4>1 DEF WalkPre
    <3>5. WalkPost(inc, a, f[w]) /\ f[w] = f[a]
      BY <2>1, <2>6, <2>8, <3>4
    <3>6. CASE f[w].ok
      <4>1. WalkDone(inc, a, f[w])
        BY <3>5, <3>6 DEF WalkPost
      <4>2. /\ Listed(inc, f[w].order) /\ ToSet(f[w].order) \intersect w.stack = {}
            /\ ToSet(a.order) \subseteq ToSet(f[w].order)
            /\ ToSet(rest) \subseteq ToSet(f[w].order)
            /\ ToSet(f[w].order) \subseteq ToSet(a.order) \union Reached(inc, ToSet(rest))
        BY <2>5, <4>1 DEF WalkDone
      <4>3. ToSet(f[w].order) \subseteq ToSet(w.order) \union Reached(inc, ToSet(w.todo))
        BY <1>7, <1>11, <3>2, <3>3, <4>2
      <4>4. WalkDone(inc, w, f[w])
        BY <1>7, <1>11, <3>2, <3>3, <4>2, <4>3 DEF WalkDone
      <4> QED BY <3>6, <4>4 DEF WalkPost
    <3>7. CASE ~f[w].ok
      <4>1. Astray(inc, ToSet(rest), w.stack)
        BY <2>5, <3>5, <3>7 DEF WalkPost
      <4> QED BY <1>8, <1>11, <3>7, <4>1 DEF WalkPost
    <3> QED BY <3>6, <3>7
  <2> QED BY <2>7, <2>8
<1> QED BY <1>6, <1>9, <1>10, <1>11

\* So does every walk, by induction on the rank.
LEMMA VisitsAreSound ==
  ASSUME NEW inc, IsGraph(inc), NEW f, IsVisit(f, inc)
  PROVE  \A w \in Walks(inc) : WalkPre(inc, w) => WalkPost(inc, w, f[w])
<1>1. PICK rank : WalkRank(inc, rank)
  BY RankExists
<1> DEFINE Sound == {n \in Nat : \A w \in Walks(inc) :
                       rank[w] < n /\ WalkPre(inc, w) => WalkPost(inc, w, f[w])}
<1>2. \A w \in Walks(inc) : rank[w] \in Nat
  BY <1>1 DEF WalkRank
<1>3. \A n \in Nat : n \in Sound
  <2>1. 0 \in Sound
    <3>1. \A w \in Walks(inc) : ~(rank[w] < 0)
      BY <1>2
    <3> QED BY <3>1
  <2>2. ASSUME NEW n \in Nat, n \in Sound PROVE n + 1 \in Sound
    <3>1. SUFFICES ASSUME NEW w \in Walks(inc), rank[w] < n + 1, WalkPre(inc, w)
                   PROVE  WalkPost(inc, w, f[w])
      OBVIOUS
    <3>2. \A v \in Walks(inc) : rank[v] < rank[w] /\ WalkPre(inc, v) => WalkPost(inc, v, f[v])
      BY <1>2, <2>2, <3>1
    <3>3. w.todo # <<>> /\ WalkPre(inc, Past(w)) => WalkPost(inc, Past(w), f[Past(w)])
      BY <1>1, <3>2, WalkTypes DEF WalkRank
    <3>4. w.todo # <<>> /\ Head(w.todo) \in DOMAIN inc \ w.stack =>
            /\ WalkPre(inc, Below(inc, w)) => WalkPost(inc, Below(inc, w), f[Below(inc, w)])
            /\ \A order \in Seq(Services) :
                 WalkPre(inc, After(w, order)) => WalkPost(inc, After(w, order), f[After(w, order)])
      BY <1>1, <3>2, WalkTypes DEF WalkRank
    <3> QED BY <3>1, <3>3, <3>4, VisitStep
  <2> HIDE DEF Sound
  <2> QED BY <2>1, <2>2, SetInduction
<1>4. ASSUME NEW w \in Walks(inc), WalkPre(inc, w) PROVE WalkPost(inc, w, f[w])
  <2>1. rank[w] + 1 \in Sound /\ rank[w] < rank[w] + 1
    BY <1>2, <1>3
  <2> QED BY <1>4, <2>1
<1> QED BY <1>4

\* Below what is listed only what is listed before it is reached.
LEMMA ListedReach ==
  ASSUME NEW inc, IsGraph(inc), NEW order \in Seq(Services), Listed(inc, order),
         NEW n \in Nat, NEW S \in SUBSET Services,
         \A x \in S : \E j \in DOMAIN order : j < n /\ order[j] = x
  PROVE  \A x \in Reached(inc, S) : \E j \in DOMAIN order : j < n /\ order[j] = x
<1> DEFINE T == {order[j] : j \in {k \in DOMAIN order : k < n}}
<1>1. T \in SUBSET Services
  OBVIOUS
<1>2. S \subseteq T
  OBVIOUS
<1>3. ASSUME NEW m \in T \intersect DOMAIN inc, NEW x \in ToSet(inc[m]) PROVE x \in T
  <2>1. PICK k \in DOMAIN order : k < n /\ order[k] = m
    BY <1>3
  <2>2. PICK j \in DOMAIN order : j < k /\ order[j] = x
    BY <1>3, <2>1 DEF Listed
  <2>3. j \in Nat /\ k \in Nat
    OBVIOUS
  <2> QED BY <2>1, <2>2, <2>3
<1>4. Reached(inc, S) \subseteq T
  <2> HIDE DEF T
  <2> QED BY <1>1, <1>2, <1>3, ReachedFacts
<1> QED BY <1>4

\* The walk of an include graph succeeds exactly when nothing reached is missing or
\* reaches itself, and then lists everything reached once, includes before includers.
THEOREM WalksAreExact ==
  ASSUME NEW inc, IsGraph(inc), NEW members \in Seq(Services)
  PROVE  WalkIsExact(inc, members)
<1>1. PICK f : IsVisit(f, inc) /\ ChainOfAll(inc, members) = f[Start(members)]
  BY ChainIsVisit
<1>2. Start(members) \in Walks(inc)
  BY ChainIsVisit
<1> DEFINE end == ChainOfAll(inc, members)
           reached == Reached(inc, ToSet(members))
<1>3. end.order \in Seq(Services) /\ end.ok \in BOOLEAN
  BY <1>1, <1>2 DEF IsVisit, Ends
<1>4. ToSet(members) \in SUBSET Services
  BY DEF ToSet
<1>5. /\ Start(members).order = <<>> /\ Start(members).todo = members
      /\ Start(members).stack = {}
  BY DEF Start
<1>6. WalkPost(inc, Start(members), end)
  <2>1. WalkPre(inc, Start(members))
    <3>1. Listed(inc, <<>>)
      BY DEF Listed, ToSet
    <3> QED BY <1>5, <3>1 DEF WalkPre
  <2> QED BY <1>1, <1>2, <2>1, VisitsAreSound
<1> HIDE DEF end
<1>7. ASSUME end.ok
      PROVE  /\ Listed(inc, end.order) /\ ToSet(end.order) = reached
             /\ Orderable(inc, ToSet(members))
  <2>1. /\ Listed(inc, end.order) /\ ToSet(members) \subseteq ToSet(end.order)
        /\ ToSet(end.order) \subseteq reached
    <3>1. WalkDone(inc, Start(members), end)
      BY <1>6, <1>7 DEF WalkPost
    <3>2. ToSet(<<>>) = {}
      BY DEF ToSet
    <3> QED BY <1>5, <3>1, <3>2 DEF WalkDone
  <2>2. /\ ToSet(end.order) \in SUBSET Services
        /\ \A m \in ToSet(end.order) : ToSet(inc[m]) \subseteq ToSet(end.order)
    <3>1. ToSet(end.order) \in SUBSET Services
      BY <1>3 DEF ToSet
    <3>2. ASSUME NEW m \in ToSet(end.order), NEW x \in ToSet(inc[m])
          PROVE  x \in ToSet(end.order)
      <4>1. PICK i \in DOMAIN end.order : end.order[i] = m
        BY <3>2 DEF ToSet
      <4>2. PICK j \in DOMAIN end.order : end.order[j] = x
        BY <2>1, <3>2, <4>1 DEF Listed
      <4> QED BY <4>2 DEF ToSet
    <3> QED BY <3>1, <3>2
  <2>3. reached \subseteq ToSet(end.order)
    BY <1>4, <2>1, <2>2, ReachedFacts
  <2>4. reached \subseteq DOMAIN inc
    BY <2>1, <2>3 DEF Listed
  <2>5. ASSUME NEW m \in reached PROVE m \notin Reached(inc, ToSet(inc[m]))
    <3>1. PICK i \in DOMAIN end.order : end.order[i] = m
      BY <2>3 DEF ToSet
    <3>2. i \in Nat
      BY <1>3
    <3>3. \A x \in ToSet(inc[m]) : \E j \in DOMAIN end.order : j < i /\ end.order[j] = x
      BY <2>1, <3>1 DEF Listed
    <3>4. ToSet(inc[m]) \in SUBSET Services
      BY <2>2, <2>3
    <3>5. \A x \in Reached(inc, ToSet(inc[m])) :
            \E j \in DOMAIN end.order : j < i /\ end.order[j] = x
      BY <1>3, <2>1, <3>2, <3>3, <3>4, ListedReach
    <3>6. ~ \E j \in DOMAIN end.order : j < i /\ end.order[j] = m
      BY <2>1, <3>1, <3>2 DEF Listed
    <3> QED BY <3>5, <3>6
  <2> QED BY <2>1, <2>3, <2>4, <2>5 DEF Orderable
<1>8. ASSUME ~end.ok PROVE ~Orderable(inc, ToSet(members))
  <2>1. Astray(inc, ToSet(members), {})
    BY <1>5, <1>6, <1>8 DEF WalkPost
  <2> QED BY <2>1 DEF Astray, Orderable
<1>9. end.ok = Orderable(inc, ToSet(members))
  <2>1. Orderable(inc, ToSet(members)) \in BOOLEAN
    BY DEF Orderable
  <2> QED BY <1>3, <1>7, <1>8, <2>1
<1>10. ASSUME end.ok
       PROVE  /\ IsInjective(end.order)
              /\ \A i, j \in DOMAIN end.order :
                   end.order[j] \in ToSet(inc[end.order[i]]) => j < i
  <2>1. IsInjective(end.order)
    BY <1>7, <1>10 DEF Listed, IsInjective
  <2>2. ASSUME NEW i \in DOMAIN end.order, NEW j \in DOMAIN end.order,
               end.order[j] \in ToSet(inc[end.order[i]])
        PROVE  j < i
    <3>1. Listed(inc, end.order)
      BY <1>7, <1>10
    <3>2. PICK k \in DOMAIN end.order : k < i /\ end.order[k] = end.order[j]
      BY <2>2, <3>1 DEF Listed
    <3>3. k = j
      BY <3>1, <3>2 DEF Listed
    <3> QED BY <3>2, <3>3
  <2> QED BY <2>1, <2>2
<1> QED BY <1>7, <1>9, <1>10 DEF WalkIsExact, end

-----------------------------------------------------------------------------
(* The configuration. *)

\* The configuration is one of those there may be, and every host serves something.
TypeOK ==
  /\ network \in Networks /\ mapping \in Mappings /\ catalogue \in Catalogues
  /\ DOMAIN served = Hosts

LEMMA InitTypeOK == Init => TypeOK
BY DEF Init, TypeOK

LEMMA NextTypeOK == TypeOK /\ [Next]_vars => TypeOK'
<1>1. ASSUME TypeOK, Next PROVE TypeOK'
  <2>1. CASE Rewrite
    BY <1>1, <2>1 DEF TypeOK, Rewrite
  <2>2. CASE Bump
    BY <1>1, <2>2 DEF TypeOK, Bump
  <2>3. CASE Stamp
    BY <1>1, <2>3 DEF TypeOK, Stamp
  <2>4. CASE Render
    BY <1>1, <2>4 DEF TypeOK, Render
  <2> QED BY <1>1, <2>1, <2>2, <2>3, <2>4 DEF Next
<1>2. ASSUME TypeOK, UNCHANGED vars PROVE TypeOK'
  BY <1>2 DEF TypeOK, vars
<1> QED BY <1>1, <1>2

LEMMA AlwaysTypeOK == Spec => []TypeOK
BY InitTypeOK, NextTypeOK, PTL DEF Spec

\* In every configuration the chains of the mapped services are walked exactly.
THEOREM ChainsHold == Spec => []ChainsAreExact
<1>1. TypeOK => ChainsAreExact
  <2>1. SUFFICES ASSUME TypeOK, NEW h \in Hosts
                 PROVE  WalkIsExact(catalogue.includes, mapping[h])
    BY DEF ChainsAreExact
  <2>2. IsGraph(catalogue.includes)
    BY <2>1, CataloguesAssumption DEF TypeOK, IsGraph
  <2>3. mapping[h] \in Seq(Services)
    BY <2>1, EditsAssumption DEF TypeOK
  <2> QED BY <2>2, <2>3, WalksAreExact
<1> QED BY <1>1, AlwaysTypeOK, PTL

-----------------------------------------------------------------------------
(* The lists of the configuration. *)

LEMMA ListIn ==
  ASSUME NEW s, IsList(s), NEW S, ToSet(s) \subseteq S
  PROVE  s \in Seq(S)
BY SeqMonotonic DEF IsList

\* What a list keeps of another where each element is met first has it once.
LEMMA FirstsOnly ==
  ASSUME NEW S, NEW s \in Seq(S)
  PROVE  LET t == FlattenSeq([i \in DOMAIN s |->
                                IF \E j \in 1..(i - 1) : s[j] = s[i] THEN <<>> ELSE <<s[i]>>])
         IN /\ t \in Seq(S) /\ ToSet(t) = ToSet(s)
            /\ \A p, q \in DOMAIN t : t[p] = t[q] => p = q
<1> DEFINE ss == [i \in DOMAIN s |->
                    IF \E j \in 1..(i - 1) : s[j] = s[i] THEN <<>> ELSE <<s[i]>>]
           t == FlattenSeq(ss)
<1>1. DOMAIN s = 1..Len(s) /\ Len(s) \in Nat /\ \A i \in DOMAIN s : s[i] \in S
  OBVIOUS
<1>2. ss \in Seq(Seq(S)) /\ Len(ss) = Len(s)
  <2>1. <<>> \in Seq(S) /\ \A x \in S : <<x>> \in Seq(S)
    OBVIOUS
  <2>2. ss \in [1..Len(s) -> Seq(S)]
    BY <1>1, <2>1
  <2> HIDE DEF ss
  <2> QED BY <1>1, <2>2
<1>3. \A i \in DOMAIN s : \A j \in DOMAIN ss[i] :
        j = 1 /\ ss[i][j] = s[i] /\ \A k \in 1..(i - 1) : s[k] # s[i]
  OBVIOUS
<1>4. \A i \in DOMAIN s : (\A k \in 1..(i - 1) : s[k] # s[i]) => 1 \in DOMAIN ss[i]
  OBVIOUS
<1> HIDE DEF ss
<1>5. t \in Seq(S) /\ \E row, col : Places(ss, Len(ss), t, row, col)
  BY <1>2, Flattening
<1>6. PICK row, col : Places(ss, Len(ss), t, row, col)
  BY <1>5
<1> HIDE DEF t
<1>7. \A p \in DOMAIN t : /\ row[p] \in DOMAIN s /\ col[p] = 1 /\ t[p] = s[row[p]]
                          /\ \A k \in 1..(row[p] - 1) : s[k] # s[row[p]]
  <2>1. ASSUME NEW p \in DOMAIN t
        PROVE  row[p] \in DOMAIN s /\ col[p] \in DOMAIN ss[row[p]] /\ t[p] = ss[row[p]][col[p]]
    BY <1>1, <1>2, <1>6 DEF Places
  <2>2. ASSUME NEW p \in DOMAIN t
        PROVE  /\ col[p] = 1 /\ ss[row[p]][col[p]] = s[row[p]]
               /\ \A k \in 1..(row[p] - 1) : s[k] # s[row[p]]
    BY <1>3, <2>1
  <2> QED BY <2>1, <2>2
<1>8. ASSUME NEW p \in DOMAIN t, NEW q \in DOMAIN t, t[p] = t[q] PROVE p = q
  <2>1. row[p] \in Nat /\ row[q] \in Nat /\ row[p] >= 1 /\ row[q] >= 1
    BY <1>1, <1>7
  <2>2. ~(row[p] < row[q])
    <3>1. row[p] < row[q] => row[p] \in 1..(row[q] - 1)
      BY <2>1
    <3> QED BY <1>7, <1>8, <3>1
  <2>3. ~(row[q] < row[p])
    <3>1. row[q] < row[p] => row[q] \in 1..(row[p] - 1)
      BY <2>1
    <3> QED BY <1>7, <1>8, <3>1
  <2>4. row[p] = row[q]
    BY <2>1, <2>2, <2>3
  <2> QED BY <1>6, <1>7, <2>4 DEF Places
<1>9. ASSUME NEW x \in ToSet(s) PROVE x \in ToSet(t)
  <2> DEFINE T == {i \in DOMAIN s : s[i] = x}
  <2>1. T # {} /\ T \subseteq Nat
    BY <1>1, <1>9 DEF ToSet
  <2>2. PICK i \in T : \A j \in T : i <= j
    BY <2>1, Least
  <2>3. \A k \in 1..(i - 1) : s[k] # s[i]
    <3>1. ASSUME NEW k \in 1..(i - 1), s[k] = s[i] PROVE FALSE
      <4>1. k \in DOMAIN s /\ k < i
        BY <1>1
      <4>2. i <= k
        BY <2>2, <3>1, <4>1
      <4> QED BY <1>1, <4>1, <4>2
    <3> QED BY <3>1
  <2>4. 1 \in DOMAIN ss[i] /\ i \in 1..Len(ss)
    BY <1>1, <1>2, <1>4, <2>3
  <2>5. PICK p \in DOMAIN t : row[p] = i
    BY <1>6, <2>4 DEF Places
  <2>6. t[p] = x
    BY <1>7, <2>2, <2>5
  <2> QED BY <2>6 DEF ToSet
<1>10. ToSet(t) \subseteq ToSet(s)
  BY <1>7 DEF ToSet
<1> QED BY <1>5, <1>8, <1>9, <1>10 DEF t, ss

\* The services that run somewhere, each once.
LEMMA AllServicesFacts ==
  ASSUME TypeOK
  PROVE  /\ AllServices \in Seq(Services)
         /\ ToSet(AllServices) = UNION {ToSet(mapping[h]) : h \in Hosts}
         /\ \A p, q \in DOMAIN AllServices : AllServices[p] = AllServices[q] => p = q
<1>1. mapping \in [Hosts -> Seq(Services)]
  BY EditsAssumption DEF TypeOK
<1> DEFINE ss == [i \in DOMAIN HostOrder |-> mapping[HostOrder[i]]]
<1>2. HostOrder \in Seq(Hosts)
  BY HostsAssumption DEF IsList, Hosts
<1>3. ss \in Seq(Seq(Services)) /\ DOMAIN ss = DOMAIN HostOrder
  <2>1. \A i \in DOMAIN HostOrder : HostOrder[i] \in Hosts
    BY DEF Hosts, ToSet
  <2>2. DOMAIN HostOrder = 1..Len(HostOrder) /\ Len(HostOrder) \in Nat
    BY <1>2
  <2>3. ss \in [1..Len(HostOrder) -> Seq(Services)]
    BY <1>1, <2>1, <2>2
  <2> HIDE DEF ss
  <2> QED BY <2>2, <2>3
<1>4. Mapped = FlattenSeq(ss)
  BY DEF Mapped
<1>5. \A i \in DOMAIN HostOrder : ss[i] = mapping[HostOrder[i]]
  OBVIOUS
<1> HIDE DEF ss
<1>6. Mapped \in Seq(Services)
  BY <1>3, <1>4, Flattening
<1>7. ToSet(Mapped) = UNION {ToSet(mapping[h]) : h \in Hosts}
  <2>1. \A x \in ToSet(Mapped) : \E i \in DOMAIN ss : x \in ToSet(ss[i])
    BY <1>3, <1>4, FlattenElements
  <2>2. \A i \in DOMAIN ss : ToSet(ss[i]) \subseteq ToSet(Mapped)
    BY <1>3, <1>4, FlattenElements
  <2>3. \A h \in Hosts : \E i \in DOMAIN HostOrder : HostOrder[i] = h
    BY DEF Hosts, ToSet
  <2>4. \A i \in DOMAIN HostOrder : HostOrder[i] \in Hosts
    BY DEF Hosts, ToSet
  <2> HIDE DEF Mapped
  <2>5. ASSUME NEW x \in ToSet(Mapped) PROVE \E h \in Hosts : x \in ToSet(mapping[h])
    BY <1>3, <1>5, <2>1, <2>4, <2>5
  <2>6. ASSUME NEW h \in Hosts, NEW x \in ToSet(mapping[h]) PROVE x \in ToSet(Mapped)
    <3>1. PICK i \in DOMAIN HostOrder : HostOrder[i] = h
      BY <2>3
    <3>2. ss[i] = mapping[h] /\ i \in DOMAIN ss
      BY <1>3, <1>5, <3>1
    <3> QED BY <2>2, <2>6, <3>2
  <2> QED BY <2>5, <2>6
<1> HIDE DEF Mapped
<1> QED BY <1>6, <1>7, FirstsOnly DEF AllServices

\* The hosts and the services that run and that network.yaml has, each once.
LEMMA SitesFacts ==
  ASSUME TypeOK
  PROVE  LET sites == Sites(AllServices)
         IN /\ sites \in Seq(Hosts \union Services) /\ ToSet(sites) = Running
            /\ \A p, q \in DOMAIN sites : sites[p] = sites[q] => p = q
            /\ Running \subseteq DOMAIN network.entries
<1> DEFINE known == DOMAIN network.entries
           kept == Kept(AllServices, known)
           n == Len(HostOrder)
           sites == HostOrder \o kept
<1>1. /\ HostOrder \in Seq(Hosts) /\ Hosts \intersect Services = {}
      /\ \A i, j \in DOMAIN HostOrder : HostOrder[i] = HostOrder[j] => i = j
      /\ ToSet(HostOrder) = Hosts
  BY HostsAssumption DEF IsList, Hosts, IsInjective
<1>2. /\ AllServices \in Seq(Services)
      /\ ToSet(AllServices) = UNION {ToSet(mapping[h]) : h \in Hosts}
      /\ \A p, q \in DOMAIN AllServices : AllServices[p] = AllServices[q] => p = q
  BY AllServicesFacts
<1>3. /\ kept \in Seq(Services) /\ ToSet(kept) = ToSet(AllServices) \intersect known
      /\ \E from : From(AllServices, known, kept, from)
  <2> HIDE DEF known
  <2> QED BY <1>2, Keeping
<1>4. PICK from : From(AllServices, known, kept, from)
  BY <1>3
<1>5. \A p, q \in DOMAIN kept : kept[p] = kept[q] => p = q
  <2> HIDE DEF kept, known
  <2> QED BY <1>2, <1>4 DEF From
<1>6. Sites(AllServices) = sites
  BY DEF Sites
<1> HIDE DEF kept
<1>7. /\ sites \in Seq(Hosts \union Services)
      /\ n \in Nat /\ DOMAIN HostOrder = 1..n /\ DOMAIN kept = 1..Len(kept) /\ Len(kept) \in Nat
      /\ DOMAIN sites = 1..(n + Len(kept))
      /\ \A p \in 1..n : sites[p] = HostOrder[p]
      /\ \A p \in 1..Len(kept) : sites[n + p] = kept[p]
  <2>1. HostOrder \in Seq(Hosts \union Services) /\ kept \in Seq(Hosts \union Services)
    BY <1>1, <1>3
  <2> QED BY <2>1
<1>8. \A p \in DOMAIN sites : p \in 1..n \/ \E q \in 1..Len(kept) : p = n + q
  <2>1. ASSUME NEW p \in DOMAIN sites, p \notin 1..n PROVE \E q \in 1..Len(kept) : p = n + q
    <3>1. p - n \in 1..Len(kept) /\ p = n + (p - n)
      BY <1>7, <2>1
    <3> QED BY <3>1
  <2> QED BY <2>1
<1> HIDE DEF sites, n
<1>9. /\ \A p \in 1..n : sites[p] \in Hosts
      /\ \A p \in 1..Len(kept) : sites[n + p] \in Services
  BY <1>1, <1>3, <1>7
<1>10. ASSUME NEW p \in DOMAIN sites, NEW q \in DOMAIN sites, sites[p] = sites[q]
       PROVE  p = q
  <2>1. CASE p \in 1..n /\ q \in 1..n
    BY <1>1, <1>7, <1>10, <2>1
  <2>2. CASE p \notin 1..n /\ q \notin 1..n
    <3>1. PICK u \in 1..Len(kept) : p = n + u
      BY <1>8, <2>2
    <3>2. PICK v \in 1..Len(kept) : q = n + v
      BY <1>8, <2>2
    <3>3. kept[u] = kept[v]
      BY <1>7, <1>10, <3>1, <3>2
    <3>4. u = v
      BY <1>5, <1>7, <3>3
    <3> QED BY <3>1, <3>2, <3>4
  <2>3. CASE p \in 1..n /\ q \notin 1..n
    <3>1. sites[p] \in Hosts /\ sites[q] \in Services
      BY <1>8, <1>9, <2>3
    <3> QED BY <1>1, <1>10, <3>1
  <2>4. CASE p \notin 1..n /\ q \in 1..n
    <3>1. sites[q] \in Hosts /\ sites[p] \in Services
      BY <1>8, <1>9, <2>4
    <3> QED BY <1>1, <1>10, <3>1
  <2> QED BY <2>1, <2>2, <2>3, <2>4
<1>11. ToSet(sites) = Running
  <2>1. ToSet(sites) \subseteq ToSet(HostOrder) \union ToSet(kept)
    BY <1>7, <1>8 DEF ToSet
  <2>2. ToSet(HostOrder) \subseteq ToSet(sites)
    <3>1. \A p \in 1..n : p \in DOMAIN sites
      BY <1>7
    <3> QED BY <1>7, <3>1 DEF ToSet
  <2>3. ToSet(kept) \subseteq ToSet(sites)
    <3>1. \A p \in 1..Len(kept) : n + p \in DOMAIN sites
      BY <1>7
    <3> QED BY <1>7, <3>1 DEF ToSet
  <2> QED BY <1>1, <1>2, <1>3, <2>1, <2>2, <2>3 DEF Running
<1>12. Running \subseteq known
  <2>1. Hosts \subseteq known
    BY NetworksAssumption DEF TypeOK
  <2> QED BY <2>1 DEF Running
<1> QED BY <1>6, <1>7, <1>10, <1>11, <1>12

\* The entries of the sites: each position is a place that is deployed, and each such
\* place is at one position.
Owned(entries, own, at) ==
  /\ \A p \in DOMAIN entries : /\ own[p] \in Running /\ at[p] \in DOMAIN network.entries[own[p]]
                               /\ entries[p] = network.entries[own[p]][at[p]]
  /\ \A p, q \in DOMAIN entries : own[p] = own[q] /\ at[p] = at[q] => p = q
  /\ \A s \in Running : \A j \in DOMAIN network.entries[s] :
       \E p \in DOMAIN entries : own[p] = s /\ at[p] = j

Known == UNION {ToSet(network.entries[s]) : s \in DOMAIN network.entries}

LEMMA EntriesFacts ==
  ASSUME TypeOK
  PROVE  /\ Entries(Sites(AllServices)) \in Seq(Known)
         /\ \E own, at : Owned(Entries(Sites(AllServices)), own, at)
<1> DEFINE sites == Sites(AllServices)
           ss == [i \in DOMAIN sites |-> network.entries[sites[i]]]
<1>1. /\ sites \in Seq(Hosts \union Services) /\ ToSet(sites) = Running
      /\ \A p, q \in DOMAIN sites : sites[p] = sites[q] => p = q
      /\ Running \subseteq DOMAIN network.entries
  BY SitesFacts
<1> HIDE DEF sites
<1>2. DOMAIN sites = 1..Len(sites) /\ Len(sites) \in Nat
  BY <1>1
<1>3. \A s \in DOMAIN network.entries : network.entries[s] \in Seq(Known)
  <2>1. ASSUME NEW s \in DOMAIN network.entries PROVE network.entries[s] \in Seq(Known)
    <3>1. IsList(network.entries[s])
      BY NetworksAssumption DEF TypeOK
    <3>2. ToSet(network.entries[s]) \subseteq Known
      BY DEF Known
    <3> QED BY <3>1, <3>2, ListIn
  <2> QED BY <2>1
<1>4. \A i \in DOMAIN sites : sites[i] \in Running
  BY <1>1 DEF ToSet
<1>5. ss \in Seq(Seq(Known)) /\ Len(ss) = Len(sites)
  <2>1. ss \in [1..Len(sites) -> Seq(Known)]
    BY <1>1, <1>2, <1>3, <1>4
  <2> HIDE DEF ss
  <2> QED BY <1>2, <2>1
<1>6. Entries(sites) = FlattenSeq(ss)
  BY DEF Entries
<1>7. \A i \in DOMAIN sites : ss[i] = network.entries[sites[i]]
  OBVIOUS
<1> HIDE DEF ss
<1>8. PICK row, col : Places(ss, Len(ss), Entries(sites), row, col)
  BY <1>5, <1>6, Flattening
<1> DEFINE entries == Entries(sites)
           own == [p \in DOMAIN entries |-> sites[row[p]]]
<1> HIDE DEF entries
<1>9. \A p \in DOMAIN entries : /\ row[p] \in DOMAIN sites /\ col[p] \in DOMAIN ss[row[p]]
                                /\ entries[p] = ss[row[p]][col[p]]
  BY <1>2, <1>5, <1>8 DEF Places, entries
<1>10. ASSUME NEW p \in DOMAIN entries
       PROVE  /\ own[p] \in Running /\ col[p] \in DOMAIN network.entries[own[p]]
              /\ entries[p] = network.entries[own[p]][col[p]]
  <2>1. own[p] = sites[row[p]] /\ row[p] \in DOMAIN sites
    BY <1>9
  <2>2. ss[row[p]] = network.entries[own[p]] /\ own[p] \in Running
    BY <1>4, <1>7, <2>1
  <2> QED BY <1>9, <2>2
<1>11. ASSUME NEW p \in DOMAIN entries, NEW q \in DOMAIN entries, own[p] = own[q],
              col[p] = col[q]
       PROVE  p = q
  <2>1. row[p] = row[q]
    BY <1>1, <1>9, <1>11
  <2> QED BY <1>8, <1>11, <2>1 DEF Places, entries
<1>12. ASSUME NEW s \in Running, NEW j \in DOMAIN network.entries[s]
       PROVE  \E p \in DOMAIN entries : own[p] = s /\ col[p] = j
  <2>1. PICK i \in DOMAIN sites : sites[i] = s
    BY <1>1 DEF ToSet
  <2>2. j \in DOMAIN ss[i] /\ i \in 1..Len(ss)
    BY <1>2, <1>5, <1>7, <1>12, <2>1
  <2>3. PICK p \in DOMAIN entries : row[p] = i /\ col[p] = j
    BY <1>8, <2>2 DEF Places, entries
  <2> QED BY <2>1, <2>3
<1>13. Owned(entries, own, col)
  BY <1>10, <1>11, <1>12 DEF Owned
<1>14. entries \in Seq(Known)
  BY <1>5, <1>6, Flattening DEF entries
<1> QED BY <1>13, <1>14 DEF entries, sites

LEMMA Joined ==
  ASSUME NEW X, NEW s \in Seq(X), NEW t \in Seq(X)
  PROVE  /\ s \o t \in Seq(X) /\ DOMAIN (s \o t) = 1..(Len(s) + Len(t))
         /\ DOMAIN s = 1..Len(s) /\ Len(s) \in Nat /\ Len(t) \in Nat
         /\ \A p \in DOMAIN s : p \in DOMAIN (s \o t) /\ (s \o t)[p] = s[p]
         /\ \A p \in DOMAIN (s \o t) :
              p \notin DOMAIN s => \E q \in DOMAIN t : (s \o t)[p] = t[q]
         /\ ToSet(s \o t) = ToSet(s) \union ToSet(t)
<1> DEFINE st == s \o t
           n == Len(s)
<1>1. /\ st \in Seq(X) /\ DOMAIN st = 1..(n + Len(t)) /\ n \in Nat /\ Len(t) \in Nat
      /\ DOMAIN s = 1..n /\ DOMAIN t = 1..Len(t)
      /\ \A p \in 1..n : st[p] = s[p]
      /\ \A p \in 1..Len(t) : st[n + p] = t[p]
  OBVIOUS
<1> HIDE DEF st, n
<1>2. \A p \in DOMAIN s : p \in DOMAIN st /\ st[p] = s[p]
  BY <1>1
<1>3. \A p \in DOMAIN t : n + p \in DOMAIN st /\ st[n + p] = t[p]
  BY <1>1
<1>4. ASSUME NEW p \in DOMAIN st, p \notin DOMAIN s PROVE \E q \in DOMAIN t : st[p] = t[q]
  <2>1. p - n \in DOMAIN t /\ p = n + (p - n)
    BY <1>1, <1>4
  <2>2. st[p] = t[p - n]
    BY <1>3, <2>1
  <2> QED BY <2>1, <2>2
<1>5. ToSet(st) = ToSet(s) \union ToSet(t)
  <2>1. ToSet(st) \subseteq ToSet(s) \union ToSet(t)
    BY <1>2, <1>4 DEF ToSet
  <2>2. ToSet(s) \subseteq ToSet(st)
    BY <1>2 DEF ToSet
  <2>3. ToSet(t) \subseteq ToSet(st)
    BY <1>3 DEF ToSet
  <2> QED BY <2>1, <2>2, <2>3
<1> QED BY <1>1, <1>2, <1>4, <1>5 DEF st, n

-----------------------------------------------------------------------------
(* Records. *)

\* The records of a zone: first one of each entry of the zone, in the order of the
\* entries, and then, in a reverse zone, the pointers to the addresses in it.
Made(z, kept) ==
  LET entries == Entries(Sites(AllServices))
      records == ZoneRecords(AllServices, z)
      mine == {e \in ToSet(entries) : e.zone = z.name}
  IN /\ kept \in Seq(Known) /\ ToSet(kept) = mine
     /\ \E from : From(entries, mine, kept, from)
     /\ DOMAIN kept \subseteq DOMAIN records
     /\ \A p \in DOMAIN kept : records[p] = Record(kept[p])
     /\ \A p \in DOMAIN records \ DOMAIN kept :
          /\ Reverses(z)
          /\ \E e \in ToSet(entries) :
               e.ptr /\ e.type = "A" /\ Belongs(Data(e), z) /\ records[p] = PointerTo(e, z)
     /\ Reverses(z) => \A e \in ToSet(entries) :
          e.ptr /\ e.type = "A" /\ Belongs(Data(e), z) => PointerTo(e, z) \in ToSet(records)
     /\ IsFiniteSet(DOMAIN records)

LEMMA RecordsFacts ==
  ASSUME TypeOK, NEW z
  PROVE  \E kept : Made(z, kept)
<1> DEFINE entries == Entries(Sites(AllServices))
           mine == {e \in ToSet(entries) : e.zone = z.name}
           kept == Kept(entries, mine)
           asking == Pointers(AllServices)
           here == {e \in ToSet(asking) : Belongs(Data(e), z)}
           pointers == Kept(asking, here)
           X == {Record(e) : e \in Known} \union {PointerTo(e, z) : e \in Known}
           first == [i \in DOMAIN kept |-> Record(kept[i])]
           second == IF Reverses(z) THEN [i \in DOMAIN pointers |-> PointerTo(pointers[i], z)]
                     ELSE <<>>
           records == ZoneRecords(AllServices, z)
<1>1. records = first \o second
  BY DEF ZoneRecords
<1>2. entries \in Seq(Known)
  BY EntriesFacts
<1> HIDE DEF entries, records
<1>3. /\ kept \in Seq(Known) /\ ToSet(kept) = mine
      /\ \E from : From(entries, mine, kept, from)
  <2>1. mine \subseteq ToSet(entries)
    OBVIOUS
  <2> HIDE DEF mine
  <2> QED BY <1>2, <2>1, KeepingSome
<1>4. /\ asking \in Seq(Known)
      /\ ToSet(asking) = {e \in ToSet(entries) : e.ptr /\ e.type = "A"}
  <2> DEFINE T == {e \in ToSet(entries) : e.ptr /\ e.type = "A"}
  <2>1. asking = Kept(entries, T)
    BY DEF Pointers, Asking, entries
  <2>2. T \subseteq ToSet(entries)
    OBVIOUS
  <2> HIDE DEF T, asking
  <2>3. asking \in Seq(Known) /\ ToSet(asking) = T
    BY <1>2, <2>1, <2>2, KeepingSome
  <2> QED BY <2>3 DEF T
<1> HIDE DEF asking
<1>5. pointers \in Seq(Known) /\ ToSet(pointers) = here
  <2>1. here \subseteq ToSet(asking)
    OBVIOUS
  <2> HIDE DEF here
  <2> QED BY <1>4, <2>1, KeepingSome
<1> HIDE DEF kept, pointers
<1>6. first \in Seq(X) /\ DOMAIN first = DOMAIN kept
  <2>1. DOMAIN kept = 1..Len(kept) /\ Len(kept) \in Nat /\ \A i \in DOMAIN kept : kept[i] \in Known
    BY <1>3
  <2>2. \A i \in DOMAIN kept : Record(kept[i]) \in X
    BY <2>1
  <2> HIDE DEF X
  <2>3. first \in [1..Len(kept) -> X]
    BY <2>1, <2>2
  <2> HIDE DEF first
  <2> QED BY <2>1, <2>3
<1>7. second \in Seq(X)
  <2>1. DOMAIN pointers = 1..Len(pointers) /\ Len(pointers) \in Nat
        /\ \A i \in DOMAIN pointers : pointers[i] \in Known
    BY <1>5
  <2>2. \A i \in DOMAIN pointers : PointerTo(pointers[i], z) \in X
    BY <2>1
  <2> HIDE DEF X
  <2>3. [i \in DOMAIN pointers |-> PointerTo(pointers[i], z)] \in [1..Len(pointers) -> X]
    BY <2>1, <2>2
  <2>4. \A f \in [1..Len(pointers) -> X] : f \in Seq(X)
    BY <2>1
  <2>5. <<>> \in Seq(X)
    OBVIOUS
  <2> QED BY <2>3, <2>4, <2>5
<1>8. /\ records \in Seq(X)
      /\ \A p \in DOMAIN first : p \in DOMAIN records /\ records[p] = first[p]
      /\ \A p \in DOMAIN records : p \notin DOMAIN first =>
           \E q \in DOMAIN second : records[p] = second[q]
      /\ ToSet(second) \subseteq ToSet(records)
  <2> HIDE DEF first, second, X
  <2> QED BY <1>1, <1>6, <1>7, Joined
<1>9. /\ DOMAIN kept \subseteq DOMAIN records
      /\ \A p \in DOMAIN kept : records[p] = Record(kept[p])
  BY <1>8
<1>10. ASSUME NEW p \in DOMAIN records \ DOMAIN kept
       PROVE  /\ Reverses(z)
              /\ \E e \in ToSet(entries) :
                   e.ptr /\ e.type = "A" /\ Belongs(Data(e), z) /\ records[p] = PointerTo(e, z)
  <2>1. PICK q \in DOMAIN second : records[p] = second[q]
    BY <1>6, <1>8, <1>10
  <2>2. Reverses(z)
    <3>1. DOMAIN (<<>>) = {}
      OBVIOUS
    <3> QED BY <2>1, <3>1
  <2>3. q \in DOMAIN pointers /\ records[p] = PointerTo(pointers[q], z)
    BY <2>1, <2>2
  <2>4. pointers[q] \in here
    BY <1>5, <2>3 DEF ToSet
  <2> QED BY <1>4, <2>2, <2>3, <2>4
<1>11. ASSUME Reverses(z), NEW e \in ToSet(entries), e.ptr, e.type = "A", Belongs(Data(e), z)
       PROVE  PointerTo(e, z) \in ToSet(records)
  <2>1. e \in ToSet(pointers)
    BY <1>4, <1>5, <1>11
  <2>2. PICK q \in DOMAIN pointers : pointers[q] = e
    BY <2>1 DEF ToSet
  <2>3. q \in DOMAIN second /\ second[q] = PointerTo(e, z)
    BY <1>11, <2>2
  <2> HIDE DEF second
  <2> QED BY <1>8, <2>3 DEF ToSet
<1>12. IsFiniteSet(DOMAIN records)
  <2>1. DOMAIN records = 1..Len(records) /\ Len(records) \in Nat
    BY <1>8
  <2> QED BY <2>1, FS_Interval
<1>13. Made(z, kept)
  <2> HIDE DEF kept
  <2> QED BY <1>3, <1>9, <1>10, <1>11, <1>12 DEF Made, entries, records
<1> QED BY <1>13

EntryAt(p) == network.entries[p[1]][p[2]]
DueIn(name) == {p \in Deployed : EntryAt(p).zone = name}

LEMMA RecordTypes ==
  ASSUME NEW e, NEW z
  PROVE  /\ Record(e).type = e.type /\ PointerTo(e, z).type = "PTR"
         /\ PointerTo(e, z).data = <<e.name, e.zone>>
         /\ PointerTo(e, z).name = PointerName(Data(e), z)
         /\ Record(e) = [name |-> <<e.name>>, type |-> e.type, data |-> Data(e)]
         /\ e.type # "A" => Record(e).data = <<e.at>>
         /\ e.type = "A" => Record(e).data = network.address[e.at]
BY DEF Record, PointerTo, Data

\* A zone has a record that is not a pointer as often as what is deployed has an entry
\* for it: position by position.
LEMMA AnswersCount ==
  ASSUME TypeOK, NEW z, NEW r, r.type # "PTR"
  PROVE  LET records == ZoneRecords(AllServices, z)
         IN Cardinality({i \in DOMAIN records : records[i] = r})
              = Cardinality({p \in DueIn(z.name) : Record(EntryAt(p)) = r})
<1> DEFINE entries == Entries(Sites(AllServices))
           records == ZoneRecords(AllServices, z)
           mine == {e \in ToSet(entries) : e.zone = z.name}
           P == {i \in DOMAIN records : records[i] = r}
           Q == {p \in DueIn(z.name) : Record(EntryAt(p)) = r}
<1>0. PICK kept : Made(z, kept)
  BY RecordsFacts
<1>1. /\ \E from : From(entries, mine, kept, from)
      /\ DOMAIN kept \subseteq DOMAIN records
      /\ \A p \in DOMAIN kept : records[p] = Record(kept[p])
      /\ \A p \in DOMAIN records \ DOMAIN kept :
           \E e \in ToSet(entries) : records[p] = PointerTo(e, z)
      /\ IsFiniteSet(DOMAIN records)
  BY <1>0 DEF Made
<1>2. PICK from : From(entries, mine, kept, from)
  BY <1>1
<1>3. PICK own, at : Owned(entries, own, at)
  BY EntriesFacts
<1> HIDE DEF entries, records
<1>4. ASSUME NEW i \in P
      PROVE  i \in DOMAIN kept /\ from[i] \in DOMAIN entries /\ kept[i] = entries[from[i]]
             /\ Record(kept[i]) = r /\ entries[from[i]].zone = z.name
  <2>1. i \in DOMAIN kept
    BY <1>1, RecordTypes
  <2> QED BY <1>1, <1>2, <2>1 DEF From
<1> DEFINE place(i) == <<own[from[i]], at[from[i]]>>
           f == [i \in P |-> place(i)]
<1>5. ASSUME NEW i \in P PROVE place(i) \in Q
  <2>1. /\ own[from[i]] \in Running /\ at[from[i]] \in DOMAIN network.entries[own[from[i]]]
        /\ entries[from[i]] = network.entries[own[from[i]]][at[from[i]]]
    BY <1>3, <1>4 DEF Owned
  <2>2. place(i) \in Deployed
    BY <2>1 DEF Deployed
  <2>3. EntryAt(place(i)) = kept[i]
    BY <1>4, <2>1 DEF EntryAt
  <2> QED BY <1>4, <2>2, <2>3 DEF DueIn
<1>6. ASSUME NEW i \in P, NEW j \in P, place(i) = place(j) PROVE i = j
  <2>1. own[from[i]] = own[from[j]] /\ at[from[i]] = at[from[j]]
    BY <1>6
  <2>2. from[i] = from[j]
    BY <1>3, <1>4, <2>1 DEF Owned
  <2> QED BY <1>2, <1>4, <2>2 DEF From
<1>7. ASSUME NEW q \in Q PROVE \E i \in P : place(i) = q
  <2>1. PICK s \in Running : \E j \in DOMAIN network.entries[s] : q = <<s, j>>
    BY DEF DueIn, Deployed
  <2>2. PICK j \in DOMAIN network.entries[s] : q = <<s, j>>
    BY <2>1
  <2>3. EntryAt(q) = network.entries[s][j]
    BY <2>2 DEF EntryAt
  <2>4. PICK p \in DOMAIN entries : own[p] = s /\ at[p] = j
    BY <1>3, <2>2 DEF Owned
  <2>5. entries[p] = EntryAt(q)
    BY <1>3, <2>3, <2>4 DEF Owned
  <2>6. EntryAt(q).zone = z.name /\ Record(EntryAt(q)) = r
    BY DEF DueIn
  <2>7. entries[p] \in mine
    BY <2>5, <2>6 DEF ToSet
  <2>8. PICK i \in DOMAIN kept : from[i] = p
    BY <1>2, <2>7 DEF From
  <2>9. kept[i] = entries[p]
    BY <1>2, <2>8 DEF From
  <2>10. i \in P
    BY <1>1, <2>5, <2>6, <2>8, <2>9
  <2> QED BY <2>2, <2>4, <2>8, <2>10
<1> HIDE DEF P, Q, place
<1>8. f \in Bijection(P, Q)
  <2>1. f \in [P -> Q]
    BY <1>5
  <2>2. \A i \in P : f[i] = place(i)
    OBVIOUS
  <2> HIDE DEF f
  <2>3. DOMAIN f = P
    BY <2>1
  <2>4. IsInjective(f)
    BY <1>6, <2>2, <2>3 DEF IsInjective
  <2>5. \A q \in Q : \E i \in P : f[i] = q
    BY <1>7, <2>2
  <2> QED BY <2>1, <2>4, <2>5 DEF Bijection, Injection, Surjection
<1>9. ExistsBijection(P, Q)
  BY <1>8 DEF ExistsBijection
<1>10. IsFiniteSet(P)
  <2>1. P \in SUBSET DOMAIN records
    BY DEF P
  <2> QED BY <1>1, <2>1, FS_Subset
<1> QED BY <1>9, <1>10, FS_Bijection DEF P, Q, records

-----------------------------------------------------------------------------
(* Files. *)

\* The greatest of some numbers below a bound is one of them.
LEMMA MaxIsOne ==
  ASSUME NEW n \in Nat, NEW T \in SUBSET (1..n), T # {}
  PROVE  Max(T) \in T
<1> DEFINE gaps == {n - i : i \in T}
<1>1. gaps \subseteq Nat /\ gaps # {}
  <2>1. \A i \in T : i \in 1..n
    OBVIOUS
  <2>2. \A i \in 1..n : n - i \in Nat
    OBVIOUS
  <2> QED BY <2>1, <2>2
<1>2. PICK g \in gaps : \A h \in gaps : g <= h
  <2> HIDE DEF gaps
  <2> QED BY <1>1, Least
<1>3. PICK i \in T : g = n - i
  OBVIOUS
<1>4. ASSUME NEW j \in T PROVE i >= j
  <2>1. n - i <= n - j
    BY <1>2, <1>3
  <2> QED BY <2>1
<1> QED BY <1>3, <1>4 DEF Max

\* The zone files of a service whose chain can be walked are a list, and so are those
\* that match a zone.
LEMMA ZoneFilesFacts ==
  ASSUME TypeOK, NEW z \in Zones, Internal(z), z.provider # NoProvider,
         ChainOf(z.provider).ok
  PROVE  IsList(Matching(z))
<1> DEFINE inc == catalogue.includes
           order == ChainOf(z.provider).order
           files == catalogue.files
           setting == {i \in DOMAIN order : files[order[i]] # <<>>}
<1>1. IsGraph(inc) /\ DOMAIN files = DOMAIN inc
  BY CataloguesAssumption DEF TypeOK, IsGraph
<1>2. z.provider \in Services
  BY CataloguesAssumption DEF TypeOK, Zones, Internal
<1>3. PICK members \in Seq(Services) : members = <<z.provider>>
  <2>1. \A s \in Services : <<s>> \in Seq(Services)
    OBVIOUS
  <2> QED BY <1>2, <2>1
<1>4. ChainOf(z.provider) = ChainOfAll(inc, members)
  BY <1>3 DEF ChainOf, Chain
<1>5. order \in Seq(Services)
  <2>1. ChainOfAll(inc, members) \in Ends
    BY <1>1, ChainIsVisit DEF IsVisit
  <2> QED BY <1>4, <2>1 DEF Ends
<1>6. ToSet(order) \subseteq DOMAIN inc
  <2>1. WalkIsExact(inc, members)
    BY <1>1, WalksAreExact
  <2> QED BY <1>4, <2>1 DEF WalkIsExact, Orderable
<1>7. ZoneFiles(z.provider) = IF setting = {} THEN <<>> ELSE files[order[Max(setting)]][1]
  BY DEF ZoneFiles, Resolved
<1> HIDE DEF order
<1>8. IsList(ZoneFiles(z.provider))
  <2>1. CASE setting = {}
    BY <1>7, <2>1 DEF IsList
  <2>2. CASE setting # {}
    <3>1. DOMAIN order = 1..Len(order) /\ Len(order) \in Nat
      BY <1>5
    <3>2. Max(setting) \in setting
      <4>1. setting \in SUBSET (1..Len(order))
        BY <3>1
      <4> HIDE DEF setting
      <4> QED BY <2>2, <3>1, <4>1, MaxIsOne
    <3> HIDE DEF files
    <3>3. PICK s : s = order[Max(setting)] /\ files[s] # <<>> /\ s \in DOMAIN files
      BY <1>1, <1>6, <3>2 DEF ToSet
    <3>4. IsList(files[s][1])
      BY <3>3, CataloguesAssumption DEF TypeOK, files
    <3> QED BY <1>7, <2>2, <3>3, <3>4
  <2> QED BY <2>1, <2>2
<1>9. PICK all : all = ZoneFiles(z.provider)
  OBVIOUS
<1>10. PICK S : S = ToSet(all)
  OBVIOUS
<1>11. PICK T : T = {f \in S : f.zone \in {"*", z.name}}
  OBVIOUS
<1>12. Matching(z) = Kept(all, T)
  BY <1>9, <1>10, <1>11 DEF Matching
<1>13. Kept(all, T) \in Seq(S) /\ ToSet(Kept(all, T)) = T
  <2>1. all \in Seq(S) /\ T \subseteq ToSet(all)
    BY <1>8, <1>9, <1>10, <1>11 DEF IsList
  <2> QED BY <2>1, KeepingSome
<1>14. \A s \in Seq(S) : s \in Seq(ToSet(s))
  BY DEF ToSet
<1> QED BY <1>12, <1>13, <1>14 DEF IsList

\* So are the services of a host that provide a zone.
LEMMA ProvidingFacts ==
  ASSUME TypeOK, NEW h \in Hosts, NEW provider
  PROVE  IsList(Providing(h, provider))
<1>1. PICK S : S = Services
  OBVIOUS
<1>2. mapping[h] \in Seq(S)
  BY <1>1, EditsAssumption DEF TypeOK
<1>3. Providing(h, provider) \in Seq(S)
  BY <1>2, Keeping DEF Providing
<1>4. \A s \in Seq(S) : s \in Seq(ToSet(s))
  BY DEF ToSet
<1> QED BY <1>3, <1>4 DEF IsList

\* What a host writes for a zone, and for all.
WriteOf(z, f, s) ==
  [at |-> [service |-> s, path |-> Path(f, z)], is |-> Content(AllServices, z, f.template)]
Wanted(h, z) ==
  {WriteOf(z, f, s) : f \in ToSet(Matching(z)), s \in ToSet(Providing(h, z.provider))}
WantedOf(h) == UNION {Wanted(h, z) : z \in {y \in Zones : Internal(y)}}

LEMMA WritesFacts ==
  ASSUME NEW h, NEW z, IsList(Matching(z)), IsList(Providing(h, z.provider))
  PROVE  Writes(h, z) \in Seq(Wanted(h, z)) /\ ToSet(Writes(h, z)) = Wanted(h, z)
<1>1. PICK files : files = Matching(z)
  OBVIOUS
<1>2. PICK by : by = Providing(h, z.provider)
  OBVIOUS
<1>3. PICK W : W = Wanted(h, z)
  OBVIOUS
<1>4. PICK F : F = ToSet(files)
  OBVIOUS
<1>5. PICK B : B = ToSet(by)
  OBVIOUS
<1>6. /\ files \in Seq(F) /\ DOMAIN files = 1..Len(files) /\ Len(files) \in Nat
      /\ by \in Seq(B) /\ DOMAIN by = 1..Len(by) /\ Len(by) \in Nat
  BY <1>1, <1>2, <1>4, <1>5 DEF IsList
<1>7. W = {WriteOf(z, f, s) : f \in F, s \in B}
  BY <1>1, <1>2, <1>3, <1>4, <1>5 DEF Wanted
<1> DEFINE row(i) == [j \in DOMAIN by |-> WriteOf(z, files[i], by[j])]
           ss == [i \in DOMAIN files |-> row(i)]
<1>8. Writes(h, z) = FlattenSeq(ss)
  BY <1>1, <1>2 DEF Writes, WriteOf
<1>9. \A i \in DOMAIN files : \A j \in DOMAIN by : WriteOf(z, files[i], by[j]) \in W
  BY <1>4, <1>5, <1>7 DEF ToSet
<1>10. \A i \in DOMAIN files : row(i) \in Seq(W) /\ DOMAIN row(i) = DOMAIN by
  <2>1. ASSUME NEW i \in DOMAIN files PROVE row(i) \in [1..Len(by) -> W]
    BY <1>6, <1>9
  <2>2. \A g \in [1..Len(by) -> W] : g \in Seq(W) /\ DOMAIN g = 1..Len(by)
    BY <1>6
  <2> HIDE DEF row
  <2> QED BY <1>6, <2>1, <2>2
<1>11. \A i \in DOMAIN files : \A j \in DOMAIN by : row(i)[j] = WriteOf(z, files[i], by[j])
  OBVIOUS
<1> HIDE DEF row
<1>12. ss \in Seq(Seq(W)) /\ DOMAIN ss = DOMAIN files
  <2>1. ss \in [1..Len(files) -> Seq(W)]
    BY <1>6, <1>10
  <2> HIDE DEF ss
  <2> QED BY <1>6, <2>1
<1>13. \A i \in DOMAIN files : ss[i] = row(i)
  OBVIOUS
<1> HIDE DEF ss
<1>14. /\ FlattenSeq(ss) \in Seq(W)
       /\ \A i \in DOMAIN ss : ToSet(ss[i]) \subseteq ToSet(FlattenSeq(ss))
  BY <1>12, Flattening, FlattenElements
<1>15. ToSet(FlattenSeq(ss)) \subseteq W
  <2>1. PICK t \in Seq(W) : t = FlattenSeq(ss)
    BY <1>14
  <2> QED BY <2>1 DEF ToSet
<1>16. ASSUME NEW w \in W PROVE w \in ToSet(FlattenSeq(ss))
  <2>1. PICK f \in F, s \in B : w = WriteOf(z, f, s)
    BY <1>7
  <2>2. PICK i \in DOMAIN files : files[i] = f
    BY <1>4 DEF ToSet
  <2>3. PICK j \in DOMAIN by : by[j] = s
    BY <1>5 DEF ToSet
  <2>4. w \in ToSet(ss[i])
    BY <1>10, <1>11, <1>13, <2>1, <2>2, <2>3 DEF ToSet
  <2> QED BY <1>12, <1>14, <2>4
<1> QED BY <1>3, <1>8, <1>14, <1>15, <1>16

\* Nothing refuses the configuration on this host.
Accepted(h) == \A z \in Zones : ~Refused(h, z)

LEMMA AllWritesFacts ==
  ASSUME TypeOK, NEW h \in Hosts, Accepted(h)
  PROVE  AllWrites(h) \in Seq(WantedOf(h)) /\ ToSet(AllWrites(h)) = WantedOf(h)
<1>1. PICK zones : zones = catalogue.zones
  OBVIOUS
<1>2. PICK W : W = WantedOf(h)
  OBVIOUS
<1>3. zones \in Seq(Zones) /\ DOMAIN zones = 1..Len(zones) /\ Len(zones) \in Nat
  <2>1. IsList(zones)
    BY <1>1, CataloguesAssumption DEF TypeOK
  <2>2. Zones = ToSet(zones)
    BY <1>1 DEF Zones
  <2>3. zones \in Seq(Zones)
    BY <2>1, <2>2 DEF IsList
  <2> QED BY <2>3
<1>4. \A z \in Zones : \E i \in DOMAIN zones : zones[i] = z
  BY <1>1 DEF Zones, ToSet
<1>5. ASSUME NEW z \in Zones, Internal(z)
      PROVE  Writes(h, z) \in Seq(Wanted(h, z)) /\ ToSet(Writes(h, z)) = Wanted(h, z)
  <2>1. z.provider # NoProvider /\ ChainOf(z.provider).ok
    BY <1>5 DEF Accepted, Refused
  <2> QED BY <1>5, <2>1, ZoneFilesFacts, ProvidingFacts, WritesFacts
<1>6. ASSUME NEW z \in Zones, Internal(z) PROVE Wanted(h, z) \subseteq W
  BY <1>2, <1>6 DEF WantedOf
<1>7. ASSUME NEW z \in Zones, Internal(z) PROVE Writes(h, z) \in Seq(W)
  BY <1>5, <1>6, <1>7, SeqMonotonic
<1> DEFINE ss == [i \in DOMAIN zones |-> IF Internal(zones[i]) THEN Writes(h, zones[i]) ELSE <<>>]
<1>8. AllWrites(h) = FlattenSeq(ss)
  BY <1>1 DEF AllWrites
<1>9. ss \in Seq(Seq(W)) /\ DOMAIN ss = DOMAIN zones
  <2>1. <<>> \in Seq(W)
    OBVIOUS
  <2>2. \A i \in DOMAIN zones : zones[i] \in Zones
    BY <1>3
  <2>3. ss \in [1..Len(zones) -> Seq(W)]
    BY <1>3, <1>7, <2>1, <2>2
  <2> HIDE DEF ss
  <2> QED BY <1>3, <2>3
<1>10. \A i \in DOMAIN zones : ss[i] = IF Internal(zones[i]) THEN Writes(h, zones[i]) ELSE <<>>
  OBVIOUS
<1> HIDE DEF ss
<1>11. /\ FlattenSeq(ss) \in Seq(W)
       /\ \A i \in DOMAIN ss : ToSet(ss[i]) \subseteq ToSet(FlattenSeq(ss))
  BY <1>9, Flattening, FlattenElements
<1>12. ToSet(FlattenSeq(ss)) \subseteq W
  <2>1. PICK t \in Seq(W) : t = FlattenSeq(ss)
    BY <1>11
  <2> QED BY <2>1 DEF ToSet
<1>13. ASSUME NEW w \in W PROVE w \in ToSet(FlattenSeq(ss))
  <2>1. PICK z \in Zones : Internal(z) /\ w \in Wanted(h, z)
    BY <1>2 DEF WantedOf
  <2>2. PICK i \in DOMAIN zones : zones[i] = z
    BY <1>4
  <2>3. w \in ToSet(ss[i])
    BY <1>5, <1>10, <2>1, <2>2
  <2> QED BY <1>9, <1>11, <2>2, <2>3
<1> QED BY <1>2, <1>8, <1>11, <1>12, <1>13

\* The tree has the files that are wanted, each with the content of a write to it.
LEMMA TreeFacts ==
  ASSUME TypeOK, NEW h \in Hosts, Accepted(h)
  PROVE  /\ DOMAIN Tree(h) = {w.at : w \in WantedOf(h)}
         /\ \A k \in DOMAIN Tree(h) : \E w \in WantedOf(h) : w.at = k /\ Tree(h)[k] = w.is
<1>1. PICK W : W = WantedOf(h)
  OBVIOUS
<1>2. PICK writes \in Seq(W) : writes = AllWrites(h)
  BY <1>1, AllWritesFacts
<1>3. ToSet(writes) = W
  BY <1>1, <1>2, AllWritesFacts
<1> DEFINE of(k) == {i \in DOMAIN writes : writes[i].at = k}
           tree == [k \in {w.at : w \in ToSet(writes)} |-> writes[Max(of(k))].is]
<1>4. Tree(h) = tree
  BY <1>2 DEF Tree
<1>5. ASSUME NEW k \in {w.at : w \in ToSet(writes)}
      PROVE  \E w \in W : w.at = k /\ tree[k] = w.is
  <2>1. DOMAIN writes = 1..Len(writes) /\ Len(writes) \in Nat
    OBVIOUS
  <2>2. of(k) \in SUBSET (1..Len(writes))
    BY <2>1
  <2>3. of(k) # {}
    BY <1>5 DEF ToSet
  <2>4. Max(of(k)) \in of(k)
    <3> HIDE DEF of
    <3> QED BY <2>1, <2>2, <2>3, MaxIsOne
  <2>5. PICK i \in of(k) : i = Max(of(k))
    BY <2>4
  <2>6. tree[k] = writes[i].is
    BY <1>5, <2>5
  <2>7. writes[i] \in W /\ writes[i].at = k
    BY <1>3 DEF ToSet
  <2> QED BY <2>6, <2>7
<1>6. DOMAIN tree = {w.at : w \in W}
  BY <1>3
<1> HIDE DEF tree
<1> QED BY <1>1, <1>3, <1>4, <1>5, <1>6

\* A zone has the labels of its name.
LEMMA LabelsFacts ==
  ASSUME TypeOK, NEW z \in Zones
  PROVE  LabelsOf(z.name) = z.labels
<1>1. \A x, y \in Zones : x.name = y.name => x.labels = y.labels
  BY CataloguesAssumption DEF TypeOK, Zones
<1>2. PICK y : y = CHOOSE x \in Zones : x.name = z.name
  OBVIOUS
<1>3. y \in Zones /\ y.name = z.name
  BY <1>2
<1> QED BY <1>1, <1>2, <1>3 DEF LabelsOf

\* A file of the tree is some zone's, made of some entry for some service.
LEMMA FileFacts ==
  ASSUME TypeOK, NEW h \in Hosts, Accepted(h), NEW k \in DOMAIN Tree(h)
  PROVE  \E z \in Zones :
           /\ Internal(z) /\ Tree(h)[k].zone = z.name /\ LabelsOf(z.name) = z.labels
           /\ Tree(h)[k].records = ZoneRecords(AllServices, z)
           /\ \E f \in ToSet(Matching(z)) : /\ Tree(h)[k] = Content(AllServices, z, f.template)
                                            /\ k.path = Path(f, z)
<1>1. PICK w \in WantedOf(h) : w.at = k /\ Tree(h)[k] = w.is
  BY TreeFacts
<1>2. PICK z \in Zones : Internal(z) /\ w \in Wanted(h, z)
  BY <1>1 DEF WantedOf
<1>3. PICK f \in ToSet(Matching(z)), s \in ToSet(Providing(h, z.provider)) :
        w = WriteOf(z, f, s)
  BY <1>2 DEF Wanted
<1>4. Tree(h)[k] = Content(AllServices, z, f.template) /\ k.path = Path(f, z)
  BY <1>1, <1>3 DEF WriteOf
<1>5. /\ Content(AllServices, z, f.template).zone = z.name
      /\ Content(AllServices, z, f.template).records = ZoneRecords(AllServices, z)
  BY DEF Content
<1>6. LabelsOf(z.name) = z.labels
  BY LabelsFacts
<1> QED BY <1>2, <1>4, <1>5, <1>6

\* What a host serves anew is the tree of a configuration that nothing refuses and
\* whose hashes are declared.
LEMMA RenderFacts ==
  ASSUME TypeOK, [Next]_vars, NEW h \in Hosts, Renders(h)
  PROVE  served'[h] = Tree(h) /\ Accepted(h) /\ AllStamped
<1>1. Render
  BY DEF Next, vars, Rewrite, Bump, Stamp, Renders
<1>2. PICK g \in Hosts :
        /\ served' = [served EXCEPT ![g] = Tree(g)]
        /\ \A z \in Zones : ~Refused(g, z)
        /\ AllStamped
  BY <1>1 DEF Render, Renders, Rendered
<1>3. g = h /\ DOMAIN served = Hosts
  BY <1>2 DEF Renders, TypeOK
<1> QED BY <1>2, <1>3 DEF Accepted

-----------------------------------------------------------------------------
(* What a host serves. *)

\* A step from a state of the types serves what is stamped.
LEMMA StampedStep ==
  ASSUME TypeOK, [Next]_vars, NEW h \in Hosts, Renders(h)
  PROVE  /\ \A k \in DOMAIN served'[h] :
              LET c == served'[h][k]
              IN (\A z \in Zones : Internal(z) /\ z.name = c.zone => Len(Matching(z)) = 1)
                   => c = hash[c.zone]
         /\ \A z \in {y \in Zones : Internal(y)} :
              \A f \in ToSet(Matching(z)), s \in ToSet(Providing(h, z.provider)) :
                LET k == [service |-> s, path |-> Path(f, z)]
                IN /\ k \in DOMAIN served'[h]
                   /\ f.perZone => served'[h][k].zone = z.name
<1>1. served'[h] = Tree(h) /\ Accepted(h) /\ AllStamped
  BY RenderFacts
<1>2. ASSUME NEW k \in DOMAIN Tree(h),
             \A z \in Zones : Internal(z) /\ z.name = Tree(h)[k].zone => Len(Matching(z)) = 1
      PROVE  Tree(h)[k] = hash[Tree(h)[k].zone]
  <2>1. PICK z \in Zones :
          /\ Internal(z) /\ Tree(h)[k].zone = z.name
          /\ \E f \in ToSet(Matching(z)) : Tree(h)[k] = Content(AllServices, z, f.template)
    BY <1>1, FileFacts
  <2>2. PICK f \in ToSet(Matching(z)) : Tree(h)[k] = Content(AllServices, z, f.template)
    BY <2>1
  <2>3. PICK all : all = Matching(z)
    OBVIOUS
  <2>4. all \in Seq(ToSet(all))
    <3>1. z.provider # NoProvider /\ ChainOf(z.provider).ok
      BY <1>1, <2>1 DEF Accepted, Refused
    <3>2. IsList(Matching(z))
      BY <2>1, <3>1, ZoneFilesFacts
    <3> QED BY <2>3, <3>2 DEF IsList
  <2>5. \A g \in ToSet(all) : g = f
    <3>1. Len(all) = 1 /\ f \in ToSet(all)
      BY <1>2, <2>1, <2>2, <2>3
    <3>2. DOMAIN all = 1..1
      BY <2>4, <3>1
    <3> QED BY <3>1, <3>2 DEF ToSet
  <2>6. Templated(z)[1] = f
    <3>1. PICK files : files = Templated(z)
      OBVIOUS
    <3>2. PICK T : T = {g \in ToSet(all) : g.template # ""}
      OBVIOUS
    <3>3. files = Kept(all, T) /\ T \subseteq ToSet(all)
      BY <2>3, <3>1, <3>2 DEF Templated
    <3>4. files \in Seq(ToSet(all)) /\ ToSet(files) = T
      BY <2>4, <3>3, KeepingSome
    <3>5. files # <<>>
      BY <1>1, <2>1, <3>1 DEF AllStamped, Stamped
    <3>6. files[1] \in ToSet(all)
      BY <3>4, <3>5
    <3> QED BY <2>5, <3>1, <3>6
  <2>7. Tree(h)[k] = Expected(z)
    BY <2>2, <2>6 DEF Expected
  <2>8. hash[z.name] = Expected(z)
    BY <1>1, <2>1 DEF AllStamped, Stamped
  <2> QED BY <2>1, <2>7, <2>8
<1>3. ASSUME NEW z \in Zones, Internal(z), NEW f \in ToSet(Matching(z)),
             NEW s \in ToSet(Providing(h, z.provider)),
             NEW k, k = [service |-> s, path |-> Path(f, z)]
      PROVE  k \in DOMAIN Tree(h) /\ (f.perZone => Tree(h)[k].zone = z.name)
  <2>1. WriteOf(z, f, s) \in WantedOf(h) /\ WriteOf(z, f, s).at = k
    <3>1. WriteOf(z, f, s) \in Wanted(h, z)
      BY <1>3 DEF Wanted
    <3>2. WriteOf(z, f, s).at = k
      BY <1>3 DEF WriteOf
    <3> QED BY <1>3, <3>1, <3>2 DEF WantedOf
  <2>2. k \in DOMAIN Tree(h)
    BY <1>1, <2>1, TreeFacts
  <2>3. ASSUME f.perZone PROVE Tree(h)[k].zone = z.name
    <3>1. PICK y \in Zones :
            /\ Tree(h)[k].zone = y.name
            /\ \E g \in ToSet(Matching(y)) : k.path = Path(g, y)
      BY <1>1, <2>2, FileFacts
    <3>2. PICK g \in ToSet(Matching(y)) : k.path = Path(g, y)
      BY <3>1
    <3>3. k.path = <<f.path, z.name>>
      BY <1>3, <2>3 DEF Path
    <3>4. Path(g, y) = <<g.path, y.name>> \/ Path(g, y) = <<g.path>>
      BY DEF Path
    <3>5. Len(<<g.path>>) = 1 /\ Len(<<f.path, z.name>>) = 2
      OBVIOUS
    <3>6. <<g.path, y.name>> = <<f.path, z.name>>
      BY <3>2, <3>3, <3>4, <3>5
    <3>7. y.name = z.name
      BY <3>6
    <3> QED BY <3>1, <3>7
  <2> QED BY <2>2, <2>3
<1>4. \A z \in {y \in Zones : Internal(y)} :
        \A f \in ToSet(Matching(z)), s \in ToSet(Providing(h, z.provider)) :
          LET k == [service |-> s, path |-> Path(f, z)]
          IN k \in DOMAIN Tree(h) /\ (f.perZone => Tree(h)[k].zone = z.name)
  BY <1>3
<1> QED BY <1>1, <1>2, <1>4

\* Hosts serve what is stamped, and every zone in each of its files.
THEOREM StampedServed == Spec => StampedIsServed
<1>1. ASSUME TypeOK, [Next]_vars
      PROVE  [\A h \in Hosts : Renders(h) =>
       /\ \A k \in DOMAIN served'[h] :
            LET c == served'[h][k]
            IN (\A z \in Zones : Internal(z) /\ z.name = c.zone => Len(Matching(z)) = 1)
                 => c = hash[c.zone]
       /\ \A z \in {y \in Zones : Internal(y)} :
            \A f \in ToSet(Matching(z)), s \in ToSet(Providing(h, z.provider)) :
              LET k == [service |-> s, path |-> Path(f, z)]
              IN /\ k \in DOMAIN served'[h]
                 /\ f.perZone => served'[h][k].zone = z.name]_vars
  BY <1>1, StampedStep
<1> QED BY <1>1, AlwaysTypeOK, PTL DEF Spec, StampedIsServed

\* What a host serves has every record as often as it is deployed.
THEOREM AnswersDeployed == Spec => AnswersAreDeployed
<1>1. ASSUME TypeOK, [Next]_vars, NEW h \in Hosts, Renders(h), NEW k \in DOMAIN served'[h]
      PROVE  LET c == served'[h][k]
                 entry(p) == network.entries[p[1]][p[2]]
                 due == {p \in Deployed : entry(p).zone = c.zone}
                 answers == {r \in ToSet(c.records) \union {Record(entry(p)) : p \in due} :
                               r.type # "PTR"}
             IN \A r \in answers :
                  Cardinality({i \in DOMAIN c.records : c.records[i] = r})
                    = Cardinality({p \in due : Record(entry(p)) = r})
  <2>1. served'[h] = Tree(h) /\ Accepted(h)
    BY <1>1, RenderFacts
  <2>2. PICK z \in Zones : /\ served'[h][k].zone = z.name
                           /\ served'[h][k].records = ZoneRecords(AllServices, z)
    BY <1>1, <2>1, FileFacts
  <2>3. PICK c : c = served'[h][k]
    OBVIOUS
  <2> DEFINE due == {p \in Deployed : network.entries[p[1]][p[2]].zone = c.zone}
  <2>4. due = DueIn(z.name)
    BY <2>2, <2>3 DEF DueIn, EntryAt
  <2>5. ASSUME NEW r, r.type # "PTR"
        PROVE  Cardinality({i \in DOMAIN c.records : c.records[i] = r})
                 = Cardinality({p \in due : Record(network.entries[p[1]][p[2]]) = r})
    <3>1. c.records = ZoneRecords(AllServices, z)
      BY <2>2, <2>3
    <3>2. Cardinality({i \in DOMAIN c.records : c.records[i] = r})
            = Cardinality({p \in due : Record(EntryAt(p)) = r})
      <4> HIDE DEF due
      <4> QED BY <1>1, <2>4, <2>5, <3>1, AnswersCount
    <3> HIDE DEF due
    <3> QED BY <3>2 DEF EntryAt
  <2> QED BY <2>3, <2>5
<1>2. ASSUME TypeOK, [Next]_vars
      PROVE  [\A h \in Hosts : Renders(h) =>
       \A k \in DOMAIN served'[h] :
         LET c == served'[h][k]
             entry(p) == network.entries[p[1]][p[2]]
             due == {p \in Deployed : entry(p).zone = c.zone}
             answers == {r \in ToSet(c.records) \union {Record(entry(p)) : p \in due} :
                           r.type # "PTR"}
         IN \A r \in answers :
              Cardinality({i \in DOMAIN c.records : c.records[i] = r})
                = Cardinality({p \in due : Record(entry(p)) = r})]_vars
  BY <1>1, <1>2
<1> QED BY <1>2, AlwaysTypeOK, PTL DEF Spec, AnswersAreDeployed

LEMMA Concatenated ==
  ASSUME NEW X, NEW s \in Seq(X), NEW t \in Seq(X)
  PROVE  /\ s \o t \in Seq(X) /\ Len(s \o t) = Len(s) + Len(t)
         /\ \A p \in 1..Len(s) : (s \o t)[p] = s[p]
         /\ \A p \in 1..Len(t) : (s \o t)[Len(s) + p] = t[p]
OBVIOUS

\* In a /24 network the name of a pointer and the labels of the zone are the octets of
\* the address from the last one on.
LEMMA Octets ==
  ASSUME NEW X, NEW ip \in [1..4 -> X], NEW labels \in Seq(X), Len(labels) = 3,
         SubSeq(ip, 1, 3) = Reverse(labels)
  PROVE  Reverse(SubSeq(ip, 4, 4) \o labels) = ip
<1>1. ip \in Seq(X) /\ Len(ip) = 4 /\ DOMAIN ip = 1..4
  <2>1. PICK n \in Nat : n = 4
    OBVIOUS
  <2>2. ip \in [1..n -> X]
    BY <2>1
  <2>3. ip \in Seq(X) /\ Len(ip) = n
    BY <2>2
  <2> QED BY <2>1, <2>3
<1>2. PICK last : last = SubSeq(ip, 4, 4)
  OBVIOUS
<1>3. last \in Seq(X) /\ Len(last) = 1 /\ last[1] = ip[4]
  BY <1>1, <1>2
<1>4. PICK back : back = Reverse(labels)
  OBVIOUS
<1>5. back[1] = labels[3] /\ back[2] = labels[2] /\ back[3] = labels[1]
  BY <1>4 DEF Reverse
<1>6. back[1] = ip[1] /\ back[2] = ip[2] /\ back[3] = ip[3]
  BY <1>1, <1>4
<1>7. PICK joined : joined = last \o labels
  OBVIOUS
<1>8. /\ joined \in Seq(X) /\ Len(joined) = 4 /\ joined[1] = ip[4] /\ joined[2] = ip[3]
      /\ joined[3] = ip[2] /\ joined[4] = ip[1]
  <2>1. /\ joined \in Seq(X) /\ Len(joined) = Len(last) + Len(labels)
        /\ \A p \in 1..Len(last) : joined[p] = last[p]
        /\ \A p \in 1..Len(labels) : joined[Len(last) + p] = labels[p]
    <3>1. last \in Seq(X) /\ labels \in Seq(X)
      BY <1>3
    <3>2. /\ last \o labels \in Seq(X) /\ Len(last \o labels) = Len(last) + Len(labels)
          /\ \A p \in 1..Len(last) : (last \o labels)[p] = last[p]
          /\ \A p \in 1..Len(labels) : (last \o labels)[Len(last) + p] = labels[p]
      BY ONLY <3>1, Concatenated
    <3> QED BY <1>7, <3>2
  <2>2. Len(joined) = 4 /\ joined[1] = last[1]
    BY <1>3, <2>1
  <2>3. joined[2] = labels[1] /\ joined[3] = labels[2] /\ joined[4] = labels[3]
    <3>1. \A p \in 1..3 : joined[1 + p] = labels[p]
      BY <1>3, <2>1
    <3>2. joined[1 + 1] = labels[1] /\ joined[1 + 2] = labels[2] /\ joined[1 + 3] = labels[3]
      BY <3>1
    <3> QED BY <3>2
  <2> QED BY <1>3, <1>5, <1>6, <2>1, <2>2, <2>3
<1>9. PICK whole : whole = Reverse(joined)
  OBVIOUS
<1>10. DOMAIN whole = 1..4 /\ whole = [i \in 1..4 |-> joined[(4 - i) + 1]]
  BY <1>8, <1>9 DEF Reverse
<1>11. \A i \in 1..4 : whole[i] = ip[i]
  <2>1. \A i \in 1..4 : i = 1 \/ i = 2 \/ i = 3 \/ i = 4
    OBVIOUS
  <2>2. whole[1] = ip[1] /\ whole[2] = ip[2] /\ whole[3] = ip[3] /\ whole[4] = ip[4]
    BY <1>8, <1>10
  <2> QED BY <2>1, <2>2
<1>12. whole = ip
  BY <1>1, <1>10, <1>11
<1> QED BY <1>2, <1>7, <1>9, <1>12

\* An address of a zone that can be collected has four octets.
LEMMA Collectable ==
  ASSUME TypeOK, NEW y, ~Uncollectable(y), NEW e \in ToSet(Entries(Sites(AllServices))),
         e.type = "A", e.zone = y.name
  PROVE  Data(e) \in [1..4 -> STRING]
<1>1. e.at \in DOMAIN network.address
  BY DEF Uncollectable, Resolvable
<1> QED BY <1>1, NetworksAssumption DEF TypeOK, Data

LEMMA PointerFacts ==
  ASSUME TypeOK, NEW z \in Zones, Internal(z), Len(z.labels) = 3,
         NEW y, ~Uncollectable(y), NEW e \in ToSet(Entries(Sites(AllServices))),
         e.type = "A", e.zone = y.name, SubSeq(Data(e), 1, 3) = Reverse(z.labels)
  PROVE  Reverse(PointerTo(e, z).name \o z.labels) = Data(e)
<1>1. z.labels \in Seq(STRING)
  BY CataloguesAssumption DEF TypeOK, Zones
<1>2. PICK ip \in [1..4 -> STRING] : ip = Data(e)
  BY Collectable
<1>3. PointerTo(e, z).name = SubSeq(ip, 4, 4)
  <2>1. PointerTo(e, z).name = PointerName(Data(e), z)
    BY RecordTypes
  <2>2. Len(z.labels) + 1 = 4
    OBVIOUS
  <2> QED BY <1>2, <2>1, <2>2 DEF PointerName
<1>4. PICK labels \in Seq(STRING) : labels = z.labels
  BY <1>1
<1>5. Len(labels) = 3 /\ SubSeq(ip, 1, 3) = Reverse(labels)
  BY <1>2, <1>4
<1>6. Reverse(SubSeq(ip, 4, 4) \o labels) = ip
  BY <1>5, Octets
<1> QED BY <1>2, <1>3, <1>4, <1>6

\* A pointer that is made for a name of a collectable zone leads to an address there.
LEMMA PointerLeads ==
  ASSUME TypeOK, NEW z \in Zones, Internal(z), Len(z.labels) = 3,
         NEW y, ~Uncollectable(y), NEW r \in ToSet(ZoneRecords(AllServices, z)),
         r.type = "PTR", Len(r.data) = 2, r.data[2] = y.name
  PROVE  [name |-> <<r.data[1]>>, type |-> "A", data |-> Reverse(r.name \o z.labels)]
           \in ToSet(ZoneRecords(AllServices, y))
<1> DEFINE entries == Entries(Sites(AllServices))
           records == ZoneRecords(AllServices, z)
           forward == ZoneRecords(AllServices, y)
<1>1. PICK kept : Made(z, kept)
  BY RecordsFacts
<1>2. PICK there : Made(y, there)
  BY RecordsFacts
<1>3. PICK p \in DOMAIN records : records[p] = r
  BY DEF ToSet
<1>4. p \notin DOMAIN kept
  <2>1. ASSUME p \in DOMAIN kept PROVE FALSE
    <3>1. r = Record(kept[p])
      BY <1>1, <1>3, <2>1 DEF Made
    <3>2. kept[p].type # "A"
      BY <3>1, RecordTypes
    <3>3. r.data = <<kept[p].at>>
      BY <3>1, <3>2, RecordTypes
    <3>4. Len(<<kept[p].at>>) = 1
      OBVIOUS
    <3> QED BY <3>3, <3>4
  <2> QED BY <2>1
<1>5. PICK e \in ToSet(entries) :
        e.ptr /\ e.type = "A" /\ Belongs(Data(e), z) /\ r = PointerTo(e, z)
  BY <1>1, <1>3, <1>4 DEF Made
<1>6. r.data = <<e.name, e.zone>>
  BY <1>5, RecordTypes
<1>7. r.data[1] = e.name /\ e.zone = y.name
  BY <1>6
<1>8. SubSeq(Data(e), 1, 3) = Reverse(z.labels)
  BY <1>5 DEF Belongs
<1>9. Reverse(r.name \o z.labels) = Data(e)
  BY <1>5, <1>7, <1>8, PointerFacts
<1>10. e \in ToSet(there)
  BY <1>2, <1>7 DEF Made
<1>11. PICK q \in DOMAIN there : there[q] = e
  BY <1>10 DEF ToSet
<1>12. q \in DOMAIN forward /\ forward[q] = Record(e)
  BY <1>2, <1>11 DEF Made
<1>13. Record(e) = [name |-> <<e.name>>, type |-> "A", data |-> Data(e)]
  BY <1>5, RecordTypes
<1>14. Record(e) \in ToSet(forward)
  <2>1. PICK s : s = forward
    OBVIOUS
  <2> QED BY <1>12, <2>1 DEF ToSet
<1> QED BY <1>7, <1>9, <1>13, <1>14

\* And every address of the network that asks for one has such a pointer.
LEMMA PointerExists ==
  ASSUME TypeOK, NEW z \in Zones, Internal(z), Len(z.labels) = 3,
         NEW y, ~Uncollectable(y), NEW e \in ToSet(Entries(Sites(AllServices))),
         e.zone = y.name, e.ptr, e.type = "A", SubSeq(Data(e), 1, 3) = Reverse(z.labels)
  PROVE  \E r \in ToSet(ZoneRecords(AllServices, z)) :
           /\ r.type = "PTR" /\ Len(r.data) = 2 /\ r.data = <<e.name, e.zone>>
           /\ Reverse(r.name \o z.labels) = Data(e)
<1>1. PICK kept : Made(z, kept)
  BY RecordsFacts
<1>2. Reverses(z)
  <2>1. Len(<<>>) = 0
    OBVIOUS
  <2>2. z.labels # <<>>
    BY <2>1
  <2> QED BY <2>2 DEF Reverses
<1>3. Belongs(Data(e), z)
  <2>1. 3 \in 1..3
    OBVIOUS
  <2> QED BY <2>1 DEF Belongs
<1>4. PointerTo(e, z) \in ToSet(ZoneRecords(AllServices, z))
  BY <1>1, <1>2, <1>3 DEF Made
<1>5. PointerTo(e, z).type = "PTR" /\ PointerTo(e, z).data = <<e.name, e.zone>>
  BY RecordTypes
<1>6. Len(<<e.name, e.zone>>) = 2
  OBVIOUS
<1>7. Reverse(PointerTo(e, z).name \o z.labels) = Data(e)
  BY PointerFacts
<1> QED BY <1>4, <1>5, <1>6, <1>7

\* The reverse zone of a /24 network and the forward zones of a host say the same.
THEOREM PtrsMirror == Spec => PtrsMirrorForward
<1>1. ASSUME TypeOK, [Next]_vars, NEW h \in Hosts, Renders(h),
             NEW k \in DOMAIN served'[h], NEW l \in DOMAIN served'[h]
      PROVE  LET labels == LabelsOf(served'[h][k].zone)
                 forward == served'[h][l]
                 ptrs == {r \in ToSet(served'[h][k].records) :
                            r.type = "PTR" /\ Len(r.data) = 2}
             IN Len(labels) = 3 =>
                  /\ \A r \in ptrs :
                       r.data[2] = forward.zone =>
                         [name |-> <<r.data[1]>>, type |-> "A",
                          data |-> Reverse(r.name \o labels)] \in ToSet(forward.records)
                  /\ \A e \in ToSet(Entries(Sites(AllServices))) :
                       /\ e.zone = forward.zone /\ e.ptr /\ e.type = "A"
                       /\ SubSeq(Data(e), 1, 3) = Reverse(labels)
                       => \E r \in ptrs : /\ r.data = <<e.name, e.zone>>
                                          /\ Reverse(r.name \o labels) = Data(e)
  <2>1. served'[h] = Tree(h) /\ Accepted(h)
    BY <1>1, RenderFacts
  <2>2. PICK z \in Zones : /\ Internal(z) /\ LabelsOf(served'[h][k].zone) = z.labels
                           /\ served'[h][k].records = ZoneRecords(AllServices, z)
    BY <1>1, <2>1, FileFacts
  <2>3. PICK y \in Zones : /\ Internal(y) /\ served'[h][l].zone = y.name
                           /\ served'[h][l].records = ZoneRecords(AllServices, y)
    BY <1>1, <2>1, FileFacts
  <2>4. ~Uncollectable(y)
    BY <2>1, <2>3 DEF Accepted, Refused
  <2>5. SUFFICES ASSUME Len(z.labels) = 3
        PROVE  /\ \A r \in ToSet(ZoneRecords(AllServices, z)) :
                    r.type = "PTR" /\ Len(r.data) = 2 /\ r.data[2] = y.name =>
                      [name |-> <<r.data[1]>>, type |-> "A",
                       data |-> Reverse(r.name \o z.labels)]
                        \in ToSet(ZoneRecords(AllServices, y))
               /\ \A e \in ToSet(Entries(Sites(AllServices))) :
                    /\ e.zone = y.name /\ e.ptr /\ e.type = "A"
                    /\ SubSeq(Data(e), 1, 3) = Reverse(z.labels)
                    => \E r \in ToSet(ZoneRecords(AllServices, z)) :
                         /\ r.type = "PTR" /\ Len(r.data) = 2 /\ r.data = <<e.name, e.zone>>
                         /\ Reverse(r.name \o z.labels) = Data(e)
    BY <2>2, <2>3
  <2>6. \A r \in ToSet(ZoneRecords(AllServices, z)) :
          r.type = "PTR" /\ Len(r.data) = 2 /\ r.data[2] = y.name =>
            [name |-> <<r.data[1]>>, type |-> "A", data |-> Reverse(r.name \o z.labels)]
              \in ToSet(ZoneRecords(AllServices, y))
    BY <1>1, <2>2, <2>4, <2>5, PointerLeads
  <2>7. \A e \in ToSet(Entries(Sites(AllServices))) :
          /\ e.zone = y.name /\ e.ptr /\ e.type = "A"
          /\ SubSeq(Data(e), 1, 3) = Reverse(z.labels)
          => \E r \in ToSet(ZoneRecords(AllServices, z)) :
               /\ r.type = "PTR" /\ Len(r.data) = 2 /\ r.data = <<e.name, e.zone>>
               /\ Reverse(r.name \o z.labels) = Data(e)
    BY <1>1, <2>2, <2>4, <2>5, PointerExists
  <2> QED BY <2>6, <2>7
<1>2. ASSUME TypeOK, [Next]_vars
      PROVE  [\A h \in Hosts : Renders(h) =>
       \A k, l \in DOMAIN served'[h] :
         LET labels == LabelsOf(served'[h][k].zone)
             forward == served'[h][l]
             ptrs == {r \in ToSet(served'[h][k].records) :
                        r.type = "PTR" /\ Len(r.data) = 2}
         IN Len(labels) = 3 =>
              /\ \A r \in ptrs :
                   r.data[2] = forward.zone =>
                     [name |-> <<r.data[1]>>, type |-> "A",
                      data |-> Reverse(r.name \o labels)] \in ToSet(forward.records)
              /\ \A e \in ToSet(Entries(Sites(AllServices))) :
                   /\ e.zone = forward.zone /\ e.ptr /\ e.type = "A"
                   /\ SubSeq(Data(e), 1, 3) = Reverse(labels)
                   => \E r \in ptrs : /\ r.data = <<e.name, e.zone>>
                                      /\ Reverse(r.name \o labels) = Data(e)]_vars
  BY <1>1, <1>2
<1> QED BY <1>2, AlwaysTypeOK, PTL DEF Spec, PtrsMirrorForward
=============================================================================
