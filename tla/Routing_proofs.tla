---------------------------- MODULE Routing_proofs ----------------------------
(***************************************************************************)
(* The match of a request, for every pool of well-formed routes: whatever  *)
(* sort puts the candidates in their order, the answer is the best of the  *)
(* pages that cover the path, and what Routing says of it follows.         *)
(***************************************************************************)
EXTENDS Routing, FiniteSetTheorems, SequenceTheorems, WellFoundedInduction, TLAPS

-----------------------------------------------------------------------------
(* Recursion along a sequence.                                             *)
LEMMA LeastNumber ==
  ASSUME NEW T \in SUBSET Nat, T # {}
  PROVE  \E x \in T : \A y \in T : x <= y
<1> DEFINE R == OpToRel(<, Nat)
<1>1. IsWellFoundedOn(R, Nat)
  BY NatLessThanWellFounded
<1>2. R = {s \in Nat \X Nat : s[1] < s[2]}
  BY DEF OpToRel
<1> HIDE DEF R
<1>3. PICK x \in T : \A y \in T : ~(<<y, x>> \in R)
  BY <1>1, WFMin
<1>4. ASSUME NEW y \in T PROVE x <= y
  <2> SUFFICES ASSUME ~(x <= y) PROVE FALSE
    OBVIOUS
  <2>1. y < x /\ <<y, x>> \in Nat \X Nat
    OBVIOUS
  <2> QED BY <1>2, <1>3, <2>1
<1> QED BY <1>4

\* What holds at the beginning and goes on with each place holds at all of them.
LEMMA Along ==
  ASSUME NEW N \in Nat, NEW Good, 0 \in Good, \A n \in 1 .. N : n - 1 \in Good => n \in Good
  PROVE  \A n \in 0 .. N : n \in Good
<1> SUFFICES ASSUME NEW l \in 0 .. N, l \notin Good PROVE FALSE
  OBVIOUS
<1> DEFINE bad == {n \in 0 .. N : n \notin Good}
<1>1. PICK m \in bad : \A k \in bad : m <= k
  <2>1. bad \in SUBSET Nat /\ bad # {}
    OBVIOUS
  <2> HIDE DEF bad
  <2> QED BY <2>1, LeastNumber
<1>2. m \in 1 .. N /\ m - 1 \in 0 .. N
  OBVIOUS
<1>3. m - 1 \notin bad
  <2>1. ~(m <= m - 1)
    BY <1>2
  <2> HIDE DEF bad
  <2> QED BY <1>1, <2>1
<1> QED BY <1>2, <1>3

\* A function that goes by steps exists: there would be a least number up to which it does
\* not.
StepsOf(h, V, N) == h \in [1 .. N -> [V -> V]]
Runs(F, h, base, V, N) == F \in [0 .. N -> V] /\ F[0] = base /\ \A n \in 1 .. N : F[n] = h[n][F[n - 1]]
LEMMA Recursion ==
  ASSUME NEW V, NEW N \in Nat, NEW base \in V, NEW h, StepsOf(h, V, N)
  PROVE  \E F : Runs(F, h, base, V, N)
<1> USE DEF StepsOf, Runs
<1> DEFINE Up(n, F) == F \in [0 .. n -> V] /\ F[0] = base /\ \A k \in 1 .. n : F[k] = h[k][F[k - 1]]
           good == {n \in 0 .. N : \E F : Up(n, F)}
<1>1. 0 \in good
  <2>1. Up(0, [i \in 0 .. 0 |-> base])
    OBVIOUS
  <2>2. 0 \in 0 .. N
    OBVIOUS
  <2> HIDE DEF Up
  <2> QED BY <2>1, <2>2
<1>2. ASSUME NEW m \in 1 .. N, m - 1 \in good PROVE m \in good
  <2>1. PICK F : Up(m - 1, F)
    BY <1>2
  <2> DEFINE last == h[m][F[m - 1]]
             H == [i \in 0 .. m |-> IF i = m THEN last ELSE F[i]]
  <2>2. F[m - 1] \in V /\ last \in V
    BY <2>1
  <2>3. \A i \in 0 .. m : i = m \/ (i \in 0 .. (m - 1) /\ F[i] \in V)
    BY <2>1
  <2> HIDE DEF last
  <2>4. H \in [0 .. m -> V] /\ H[0] = base
    BY <2>1, <2>2, <2>3
  <2>5. ASSUME NEW k \in 1 .. m PROVE H[k] = h[k][H[k - 1]]
    <3>1. H[k - 1] = F[k - 1]
      OBVIOUS
    <3>2. CASE k = m
      BY <3>1, <3>2 DEF last
    <3>3. CASE k # m
      <4>1. k \in 1 .. (m - 1) /\ H[k] = F[k]
        BY <3>3
      <4> QED BY <2>1, <3>1, <4>1
    <3> QED BY <3>2, <3>3
  <2>6. Up(m, H)
    <3> HIDE DEF H
    <3> QED BY <2>4, <2>5
  <2>7. m \in 0 .. N
    OBVIOUS
  <2> HIDE DEF Up
  <2> QED BY <2>6, <2>7
<1>3. N \in good
  <2> HIDE DEF good
  <2>1. \A n \in 0 .. N : n \in good
    BY ONLY N \in Nat, <1>1, <1>2, Along
  <2> QED BY <2>1
<1> QED BY <1>3

\* The sum of scores, place by place.
LEMMA Sums ==
  ASSUME NEW s \in Seq(Int)
  PROVE  \E S \in [0 .. Len(s) -> Int] :
           S[0] = 0 /\ S[Len(s)] = Total(s) /\ \A n \in 1 .. Len(s) : S[n] = S[n - 1] + s[n]
<1> DEFINE N == Len(s)
           h == [i \in 1 .. N |-> [x \in Int |-> x + s[i]]]
           Is(G) == G = [n \in 0 .. N |-> IF n = 0 THEN 0 ELSE G[n - 1] + s[n]]
           G == CHOOSE f : Is(f)
<1>1. N \in Nat /\ \A i \in 1 .. N : s[i] \in Int
  OBVIOUS
<1>2. h \in [1 .. N -> [Int -> Int]] /\ \A i \in 1 .. N : \A x \in Int : h[i][x] = x + s[i]
  BY <1>1
<1>3. Total(s) = G[N]
  BY DEF Total
<1> HIDE DEF h, N
<1>4. PICK F : Runs(F, h, 0, Int, N)
  <2>1. StepsOf(h, Int, N) /\ 0 \in Int
    BY <1>2 DEF StepsOf
  <2> QED BY <1>1, <2>1, Recursion
<1>6. F \in [0 .. N -> Int] /\ F[0] = 0 /\ \A n \in 1 .. N : F[n] = h[n][F[n - 1]]
  BY <1>4 DEF Runs
<1>5. \A n \in 1 .. N : F[n - 1] \in Int /\ F[n] = F[n - 1] + s[n]
  <2>1. \A n \in 1 .. N : n - 1 \in 0 .. N
    BY <1>1
  <2> QED BY <1>2, <1>6, <2>1
<1>7. Is(F)
  <2>1. \A n \in 0 .. N : F[n] = IF n = 0 THEN 0 ELSE F[n - 1] + s[n]
    BY <1>1, <1>5, <1>6
  <2>2. F = [n \in 0 .. N |-> F[n]]
    BY <1>6
  <2> QED BY <2>1, <2>2
<1>8. G \in [0 .. N -> Int] /\ G[0] = 0 /\ \A n \in 1 .. N : G[n] = G[n - 1] + s[n]
  <2>1. Is(G)
    BY <1>7
  <2>2. \A n \in 0 .. N : G[n] = F[n]
    <3>1. G[0] = 0 /\ \A n \in 1 .. N : G[n] = G[n - 1] + s[n]
      <4> HIDE DEF G
      <4>1. 0 \in 0 .. N /\ \A n \in 1 .. N : n \in 0 .. N /\ n # 0
        BY <1>1
      <4> QED BY <2>1, <4>1
    <3> HIDE DEF G
    <3> DEFINE good == {n \in 0 .. N : G[n] = F[n]}
    <3>2. 0 \in good
      BY <1>1, <1>6, <3>1
    <3>3. \A n \in 1 .. N : n - 1 \in good => n \in good
      BY <1>5, <3>1
    <3>4. \A n \in 0 .. N : n \in good
      <4> HIDE DEF good
      <4> QED BY ONLY <1>1, <3>2, <3>3, Along
    <3> QED BY <3>4
  <2>3. G = [n \in 0 .. N |-> G[n]]
    BY <2>1
  <2> HIDE DEF G
  <2>4. G = F
    BY <1>6, <2>2, <2>3
  <2> QED BY <1>5, <1>6, <2>4
<1> HIDE DEF G
<1> QED BY <1>3, <1>8 DEF N

-----------------------------------------------------------------------------
(* Segments.                                                               *)
Kinds == {"static", "dynamic", "catchall", "optional"}

LEMMA PoolTypes ==
  ASSUME WellFormed, NEW p \in DOMAIN Pool
  PROVE  /\ p \in Int /\ Pool[p] \in Seq(Segments) /\ Len(Pool[p]) \in Nat
         /\ DOMAIN Pool[p] = 1 .. Len(Pool[p])
         /\ \A i \in DOMAIN Pool[p] : Pool[p][i] \in Segments /\ Pool[p][i].kind \in Kinds
<1>1. Pool \in Seq(Seq(Segments)) /\ \A s \in Segments : s.kind \in Kinds
  BY DEF WellFormed, Kinds
<1> HIDE DEF Kinds
<1> QED BY <1>1

\* The pathname, directory by directory.
ShownIs(F, p) ==
  /\ F \in [0 .. Len(Pool[p]) -> Seq(Segments)]
  /\ F[0] = <<>> /\ F[Len(Pool[p])] = Pathname(p)
  /\ \A n \in 1 .. Len(Pool[p]) :
       F[n] = IF Transparent(Pool[p][n]) THEN F[n - 1] ELSE Append(F[n - 1], Pool[p][n])
LEMMA ShownSoFar ==
  ASSUME WellFormed, NEW p \in DOMAIN Pool
  PROVE  \E F : ShownIs(F, p)
<1> DEFINE N == Len(Pool[p])
           s == Pool[p]
           V == Seq(Segments)
           Step(n, x) == IF Transparent(s[n]) THEN x ELSE Append(x, s[n])
           h == [i \in 1 .. N |-> [x \in V |-> Step(i, x)]]
           Is(G) == G = [n \in 0 .. N |-> IF n = 0 THEN <<>> ELSE Step(n, G[n - 1])]
           G == CHOOSE f : Is(f)
<1>1. N \in Nat /\ <<>> \in V /\ \A i \in 1 .. N : s[i] \in Segments
  BY PoolTypes
<1>2. h \in [1 .. N -> [V -> V]] /\ \A i \in 1 .. N : \A x \in V : h[i][x] = Step(i, x)
  <2>1. \A i \in 1 .. N : \A x \in V : Step(i, x) \in V
    BY <1>1, AppendProperties
  <2> HIDE DEF V, N, Step
  <2> QED BY <2>1
<1>3. Pathname(p) = G[N]
  BY DEF Pathname
<1> HIDE DEF h, N, V, Step
<1>4. PICK F : Runs(F, h, <<>>, V, N)
  <2>1. StepsOf(h, V, N)
    BY <1>2 DEF StepsOf
  <2> QED BY <1>1, <2>1, Recursion
<1>6. F \in [0 .. N -> V] /\ F[0] = <<>> /\ \A n \in 1 .. N : F[n] = h[n][F[n - 1]]
  BY <1>4 DEF Runs
<1>5. \A n \in 1 .. N : F[n - 1] \in V /\ F[n] = Step(n, F[n - 1])
  <2>1. \A n \in 1 .. N : n - 1 \in 0 .. N
    BY <1>1
  <2> QED BY <1>2, <1>6, <2>1
<1>7. Is(F)
  <2>1. \A n \in 0 .. N : F[n] = IF n = 0 THEN <<>> ELSE Step(n, F[n - 1])
    BY <1>1, <1>5, <1>6
  <2>2. F = [n \in 0 .. N |-> F[n]]
    BY <1>6
  <2> QED BY <2>1, <2>2
<1>8. G \in [0 .. N -> V] /\ G[0] = <<>> /\ \A n \in 1 .. N : G[n] = Step(n, G[n - 1])
  <2>1. Is(G)
    BY <1>7
  <2>2. \A n \in 0 .. N : G[n] = F[n]
    <3>1. G[0] = <<>> /\ \A n \in 1 .. N : G[n] = Step(n, G[n - 1])
      <4> HIDE DEF G
      <4>1. 0 \in 0 .. N /\ \A n \in 1 .. N : n \in 0 .. N /\ n # 0
        BY <1>1
      <4> QED BY <2>1, <4>1
    <3> HIDE DEF G
    <3> DEFINE good == {n \in 0 .. N : G[n] = F[n]}
    <3>2. 0 \in good
      BY <1>1, <1>6, <3>1
    <3>3. \A n \in 1 .. N : n - 1 \in good => n \in good
      BY <1>5, <3>1
    <3>4. \A n \in 0 .. N : n \in good
      <4> HIDE DEF good
      <4> QED BY ONLY <1>1, <3>2, <3>3, Along
    <3> QED BY <3>4
  <2>3. G = [n \in 0 .. N |-> G[n]]
    BY <2>1
  <2> HIDE DEF G
  <2>4. G = F
    BY <1>6, <2>2, <2>3
  <2> QED BY <1>5, <1>6, <2>4
<1> HIDE DEF G
<1>9. ShownIs(G, p)
  BY <1>3, <1>8 DEF N, V, Step, ShownIs
<1> QED BY <1>9

\* What is taken of a path, segment by segment.
TakenIs(F, s, t) ==
  /\ F \in [0 .. Len(s) -> -1 .. Len(t)]
  /\ F[0] = 0 /\ (MatchSegments(s, t) <=> F[Len(s)] = Len(t))
  /\ \A n \in 1 .. Len(s) : F[n] = Taken(s[n], F[n - 1], t)

LEMMA TakenType ==
  ASSUME NEW s, s.kind \in Kinds, NEW T, NEW t \in Seq(T), NEW n \in -1 .. Len(t)
  PROVE  Taken(s, n, t) \in -1 .. Len(t)
<1>1. Len(t) \in Nat
  OBVIOUS
<1> QED BY <1>1 DEF Taken, Kinds, CatchAllTakes

LEMMA TakenSoFar ==
  ASSUME WellFormed, NEW s \in Seq(Segments), NEW T, NEW t \in Seq(T)
  PROVE  \E F : TakenIs(F, s, t)
<1> DEFINE N == Len(s)
           V == -1 .. Len(t)
           Step(n, x) == Taken(s[n], x, t)
           h == [i \in 1 .. N |-> [x \in V |-> Step(i, x)]]
           Is(G) == G = [n \in 0 .. N |-> IF n = 0 THEN 0 ELSE Step(n, G[n - 1])]
           G == CHOOSE f : Is(f)
<1>1. N \in Nat /\ 0 \in V /\ \A i \in 1 .. N : s[i].kind \in Kinds
  <2>1. \A x \in Segments : x.kind \in Kinds
    BY DEF WellFormed, Kinds
  <2>2. Len(t) \in Nat /\ N \in Nat /\ \A i \in 1 .. N : s[i] \in Segments
    OBVIOUS
  <2> QED BY <2>1, <2>2
<1>2. h \in [1 .. N -> [V -> V]] /\ \A i \in 1 .. N : \A x \in V : h[i][x] = Step(i, x)
  <2>1. \A i \in 1 .. N : \A x \in V : Step(i, x) \in V
    BY <1>1, TakenType
  <2> HIDE DEF V, N, Step
  <2> QED BY <2>1
<1>3. MatchSegments(s, t) <=> G[N] = Len(t)
  BY DEF MatchSegments
<1> HIDE DEF h, N, V, Step
<1>4. PICK F : Runs(F, h, 0, V, N)
  <2>1. StepsOf(h, V, N)
    BY <1>2 DEF StepsOf
  <2> QED BY <1>1, <2>1, Recursion
<1>6. F \in [0 .. N -> V] /\ F[0] = 0 /\ \A n \in 1 .. N : F[n] = h[n][F[n - 1]]
  BY <1>4 DEF Runs
<1>5. \A n \in 1 .. N : F[n - 1] \in V /\ F[n] = Step(n, F[n - 1])
  <2>1. \A n \in 1 .. N : n - 1 \in 0 .. N
    BY <1>1
  <2> QED BY <1>2, <1>6, <2>1
<1>7. Is(F)
  <2>1. \A n \in 0 .. N : F[n] = IF n = 0 THEN 0 ELSE Step(n, F[n - 1])
    BY <1>1, <1>5, <1>6
  <2>2. F = [n \in 0 .. N |-> F[n]]
    BY <1>6
  <2> QED BY <2>1, <2>2
<1>8. G \in [0 .. N -> V] /\ G[0] = 0 /\ \A n \in 1 .. N : G[n] = Step(n, G[n - 1])
  <2>1. Is(G)
    BY <1>7
  <2>2. \A n \in 0 .. N : G[n] = F[n]
    <3>1. G[0] = 0 /\ \A n \in 1 .. N : G[n] = Step(n, G[n - 1])
      <4> HIDE DEF G
      <4>1. 0 \in 0 .. N /\ \A n \in 1 .. N : n \in 0 .. N /\ n # 0
        BY <1>1
      <4> QED BY <2>1, <4>1
    <3> HIDE DEF G
    <3> DEFINE good == {n \in 0 .. N : G[n] = F[n]}
    <3>2. 0 \in good
      BY <1>1, <1>6, <3>1
    <3>3. \A n \in 1 .. N : n - 1 \in good => n \in good
      BY <1>5, <3>1
    <3>4. \A n \in 0 .. N : n \in good
      <4> HIDE DEF good
      <4> QED BY ONLY <1>1, <3>2, <3>3, Along
    <3> QED BY <3>4
  <2>3. G = [n \in 0 .. N |-> G[n]]
    BY <2>1
  <2> HIDE DEF G
  <2>4. G = F
    BY <1>6, <2>2, <2>3
  <2> QED BY <1>5, <1>6, <2>4
<1> HIDE DEF G
<1>9. TakenIs(G, s, t)
  BY <1>3, <1>8 DEF N, V, Step, TakenIs
<1> QED BY <1>9

\* The pathname has the directories that are not transparent, and no others.
LEMMA PathnameType ==
  ASSUME WellFormed, NEW p \in DOMAIN Pool
  PROVE  /\ Pathname(p) \in Seq(Segments) /\ Len(Pathname(p)) <= Len(Pool[p])
         /\ \A i \in 1 .. Len(Pathname(p)) :
              /\ Pathname(p)[i] \in Segments /\ ~Transparent(Pathname(p)[i])
              /\ \E j \in DOMAIN Pool[p] : Pathname(p)[i] = Pool[p][j]
<1> DEFINE N == Len(Pool[p])
           Of(x) == ~Transparent(x) /\ \E j \in DOMAIN Pool[p] : x = Pool[p][j]
           Fits(q, n) == Len(q) <= n /\ \A i \in 1 .. Len(q) : Of(q[i])
<1>1. PICK F : ShownIs(F, p)
  BY ShownSoFar
<1>2. N \in Nat /\ DOMAIN Pool[p] = 1 .. N /\ \A i \in 1 .. N : Pool[p][i] \in Segments
  BY PoolTypes
<1>3. \A n \in 0 .. N : F[n] \in Seq(Segments)
  BY <1>1 DEF ShownIs
<1> DEFINE good == {n \in 0 .. N : Fits(F[n], n)}
<1>4. 0 \in good
  BY <1>1, <1>2 DEF ShownIs
<1>5. ASSUME NEW n \in 1 .. N, n - 1 \in good PROVE n \in good
  <2>1. n - 1 \in 0 .. N /\ F[n - 1] \in Seq(Segments) /\ Fits(F[n - 1], n - 1) /\ Pool[p][n] \in Segments
    BY <1>2, <1>3, <1>5
  <2>2. CASE Transparent(Pool[p][n])
    <3>1. F[n] = F[n - 1]
      BY <1>1, <2>2 DEF ShownIs
    <3>2. Len(F[n]) \in Nat
      BY <2>1, <3>1
    <3> HIDE DEF Of
    <3> QED BY <2>1, <3>1, <3>2
  <2>3. CASE ~Transparent(Pool[p][n])
    <3>1. F[n] = Append(F[n - 1], Pool[p][n])
      BY <1>1, <2>3 DEF ShownIs
    <3>2. Of(Pool[p][n])
      BY <1>2, <2>3
    <3> HIDE DEF Of
    <3>3. Len(F[n]) = Len(F[n - 1]) + 1 /\ Len(F[n - 1]) \in Nat
      BY <2>1, <3>1
    <3>4. \A i \in 1 .. Len(F[n]) : F[n][i] = IF i = Len(F[n]) THEN Pool[p][n] ELSE F[n - 1][i]
      BY <2>1, <3>1
    <3>5. ASSUME NEW i \in 1 .. Len(F[n]) PROVE Of(F[n][i])
      <4>1. i = Len(F[n]) \/ i \in 1 .. Len(F[n - 1])
        BY <3>3
      <4> QED BY <2>1, <3>2, <3>4, <4>1
    <3>6. Len(F[n]) <= n
      BY <2>1, <3>3
    <3>7. n \in 0 .. N
      BY <1>2
    <3> QED BY <3>5, <3>6, <3>7
  <2> QED BY <2>2, <2>3
<1>6. \A n \in 0 .. N : n \in good
  <2> HIDE DEF good
  <2> QED BY ONLY <1>2, <1>4, <1>5, Along
<1>7. Fits(F[N], N) /\ F[N] \in Seq(Segments)
  BY <1>2, <1>3, <1>6
<1>8. F[N] = Pathname(p)
  BY <1>1 DEF ShownIs
<1>9. \A i \in 1 .. Len(Pathname(p)) : Pathname(p)[i] \in Segments
  BY <1>7, <1>8
<1> QED BY <1>7, <1>8, <1>9

\* What is shown after some directories is a beginning of the pathname.
Begins(a, q) == Len(a) <= Len(q) /\ \A i \in 1 .. Len(a) : a[i] = q[i]
LEMMA ShownBegins ==
  ASSUME WellFormed, NEW p \in DOMAIN Pool, NEW F, ShownIs(F, p)
  PROVE  \A n \in 0 .. Len(Pool[p]) : Begins(F[n], Pathname(p))
<1> DEFINE N == Len(Pool[p])
           Q == Pathname(p)
<1>1. N \in Nat /\ \A i \in 1 .. N : Pool[p][i] \in Segments
  BY PoolTypes
<1>2. \A n \in 0 .. N : F[n] \in Seq(Segments)
  BY DEF ShownIs
<1> DEFINE good == {k \in 0 .. N : Begins(F[N - k], Q)}
<1>3. 0 \in good
  <2>1. F[N - 0] = Q /\ F[N] \in Seq(Segments) /\ 0 \in 0 .. N
    BY <1>1, <1>2 DEF ShownIs
  <2>2. Begins(Q, Q)
    BY <2>1 DEF Begins
  <2> QED BY <2>1, <2>2
<1>4. ASSUME NEW k \in 1 .. N, k - 1 \in good PROVE k \in good
  <2> DEFINE n == N - k + 1
  <2>1. n \in 1 .. N /\ n - 1 = N - k /\ n - 1 \in 0 .. N /\ n = N - (k - 1) /\ n \in 0 .. N
    BY <1>1
  <2> HIDE DEF n
  <2>2. F[n] \in Seq(Segments) /\ F[n - 1] \in Seq(Segments) /\ Begins(F[n], Q) /\ Pool[p][n] \in Segments
    BY <1>1, <1>2, <1>4, <2>1
  <2>3. CASE Transparent(Pool[p][n])
    <3>1. F[n] = F[n - 1]
      BY <2>1, <2>3 DEF ShownIs
    <3> QED BY <2>1, <2>2, <3>1
  <2>4. CASE ~Transparent(Pool[p][n])
    <3>1. F[n] = Append(F[n - 1], Pool[p][n])
      BY <2>1, <2>4 DEF ShownIs
    <3>2. Len(F[n]) = Len(F[n - 1]) + 1 /\ Len(F[n - 1]) \in Nat
      BY <2>2, <3>1
    <3>3. \A i \in 1 .. Len(F[n - 1]) : F[n][i] = F[n - 1][i]
      BY <2>2, <3>1
    <3>4. Len(Q) \in Nat
      BY PathnameType
    <3>5. Begins(F[n - 1], Q)
      <4> HIDE DEF Q, N
      <4> QED BY <2>2, <3>2, <3>3, <3>4 DEF Begins
    <3> QED BY <2>1, <3>5
  <2> QED BY <2>3, <2>4
<1>5. \A k \in 0 .. N : k \in good
  <2> HIDE DEF good
  <2> QED BY ONLY <1>1, <1>3, <1>4, Along
<1>6. ASSUME NEW n \in 0 .. N PROVE Begins(F[n], Q)
  <2>1. N - n \in 0 .. N /\ N - (N - n) = n
    BY <1>1
  <2> QED BY <1>5, <2>1
<1> QED BY <1>6

\* A route takes of a path what its pathname takes.
LEMMA PathnameTakesTheSame ==
  ASSUME WellFormed, NEW p \in DOMAIN Pool, NEW T, NEW t \in Seq(T)
  PROVE  MatchSegments(Pool[p], t) <=> MatchSegments(Pathname(p), t)
<1> DEFINE N == Len(Pool[p])
           Q == Pathname(p)
<1>1. PICK F : ShownIs(F, p)
  BY ShownSoFar
<1>2. N \in Nat /\ Pool[p] \in Seq(Segments) /\ Q \in Seq(Segments) /\ Len(Q) \in Nat
  BY PoolTypes, PathnameType
<1>3. PICK A : TakenIs(A, Pool[p], t)
  BY <1>2, TakenSoFar
<1>4. PICK G : TakenIs(G, Q, t)
  <2> HIDE DEF Q
  <2> QED BY <1>2, TakenSoFar
<1>5. \A n \in 0 .. N : F[n] \in Seq(Segments) /\ Begins(F[n], Q)
  BY <1>1, ShownBegins DEF ShownIs
<1> DEFINE good == {n \in 0 .. N : A[n] = G[Len(F[n])]}
<1>6. 0 \in good
  <2>1. Len(F[0]) = 0
    BY <1>1 DEF ShownIs
  <2> QED BY <1>2, <1>3, <1>4, <2>1 DEF TakenIs
<1>7. ASSUME NEW n \in 1 .. N, n - 1 \in good PROVE n \in good
  <2>1. n - 1 \in 0 .. N /\ n \in 0 .. N /\ A[n - 1] = G[Len(F[n - 1])]
    BY <1>2, <1>7
  <2>2. A[n] = Taken(Pool[p][n], A[n - 1], t) /\ A[n - 1] \in -1 .. Len(t)
    BY <1>3, <2>1 DEF TakenIs
  <2>3. CASE Transparent(Pool[p][n])
    <3>1. F[n] = F[n - 1]
      BY <1>1, <2>3 DEF ShownIs
    <3>2. A[n] = A[n - 1]
      BY <2>2, <2>3 DEF Taken
    <3> QED BY <2>1, <3>1, <3>2
  <2>4. CASE ~Transparent(Pool[p][n])
    <3>1. F[n] = Append(F[n - 1], Pool[p][n])
      BY <1>1, <2>4 DEF ShownIs
    <3>2. Len(F[n]) = Len(F[n - 1]) + 1 /\ Len(F[n - 1]) \in Nat /\ F[n][Len(F[n])] = Pool[p][n]
      BY <1>5, <2>1, <3>1
    <3>3. Len(F[n]) \in 1 .. Len(Q) /\ Q[Len(F[n])] = Pool[p][n]
      <4>1. Begins(F[n], Q)
        BY <1>5, <2>1
      <4>2. Len(F[n]) <= Len(Q) /\ \A i \in 1 .. Len(F[n]) : F[n][i] = Q[i]
        BY <4>1 DEF Begins
      <4> DEFINE l == Len(F[n])
      <4>3. l \in 1 .. l /\ l \in Nat \ {0}
        BY <3>2
      <4> HIDE DEF Q, N, l
      <4>4. l \in 1 .. Len(Q)
        BY <1>2, <4>2, <4>3 DEF l
      <4> QED BY <3>2, <4>2, <4>3, <4>4 DEF l
    <3>4. G[Len(F[n])] = Taken(Q[Len(F[n])], G[Len(F[n]) - 1], t)
      BY <1>4, <3>3 DEF TakenIs
    <3>5. Len(F[n]) - 1 = Len(F[n - 1])
      BY <3>2
    <3> QED BY <2>1, <2>2, <3>3, <3>4, <3>5
  <2> QED BY <2>3, <2>4
<1>8. \A n \in 0 .. N : n \in good
  <2> HIDE DEF good
  <2> QED BY ONLY <1>2, <1>6, <1>7, Along
<1>9. A[N] = G[Len(F[N])] /\ F[N] = Q
  <2>1. N \in 0 .. N
    BY <1>2
  <2>2. A[N] = G[Len(F[N])]
    BY <1>8, <2>1
  <2> QED BY <1>1, <2>2 DEF ShownIs
<1> QED BY <1>3, <1>4, <1>9 DEF TakenIs

-----------------------------------------------------------------------------
(* What a page matches is what it means.                                   *)
LEMMA CoversIsMatched ==
  ASSUME WellFormed, NEW s \in Seq(Segments), \A i \in 1 .. Len(s) : ~Transparent(s[i]),
         NEW T, NEW t \in Seq(T)
  PROVE  Covers(s, t) <=> MatchSegments(s, t)
<1> DEFINE N == Len(s)
           M == Len(t)
<1>1. N \in Nat /\ M \in Nat /\ DOMAIN s = 1 .. N
  OBVIOUS
<1>2. \A i \in 1 .. N : s[i].kind \in Kinds /\ ~Transparent(s[i])
  BY DEF WellFormed, Kinds
<1>3. PICK G : TakenIs(G, s, t)
  BY TakenSoFar
<1>4. /\ G \in [0 .. N -> -1 .. M] /\ G[0] = 0 /\ (MatchSegments(s, t) <=> G[N] = M)
      /\ \A n \in 1 .. N : G[n] = Taken(s[n], G[n - 1], t)
  BY <1>3 DEF TakenIs
<1> HIDE DEF N, M
<1>5. ASSUME NEW n \in 1 .. N, NEW x \in -1 .. M
      PROVE  /\ x = -1 => Taken(s[n], x, t) = -1
             /\ x # -1 /\ s[n].kind = "static" =>
                  Taken(s[n], x, t) = IF x < M /\ t[x + 1] = s[n].name THEN x + 1 ELSE -1
             /\ x # -1 /\ s[n].kind = "dynamic" => Taken(s[n], x, t) = IF x < M THEN x + 1 ELSE -1
             /\ x # -1 /\ s[n].kind = "catchall" => Taken(s[n], x, t) = IF x < M THEN M ELSE -1
             /\ x # -1 /\ s[n].kind = "optional" => Taken(s[n], x, t) = M
  <2>1. CASE x = -1
    BY <2>1 DEF Taken
  <2>2. CASE x # -1
    BY <1>1, <1>2, <2>2 DEF Taken, M, CatchAllTakes
  <2> QED BY <2>1, <2>2
<1>6. ASSUME MatchSegments(s, t) PROVE Covers(s, t)
  <2> DEFINE good == {k \in 0 .. N : G[N - k] # -1}
  <2>1. 0 \in good
    BY <1>1, <1>4, <1>6
  <2>2. ASSUME NEW k \in 1 .. N, k - 1 \in good PROVE k \in good
    <3>1. N - k + 1 \in 1 .. N /\ N - k \in 0 .. N /\ N - k + 1 - 1 = N - k /\ N - (k - 1) = N - k + 1
      BY <1>1
    <3>2. G[N - k + 1] # -1 /\ G[N - k] \in -1 .. M /\ G[N - k + 1] = Taken(s[N - k + 1], G[N - k], t)
      BY <1>4, <2>2, <3>1
    <3> QED BY <1>5, <3>1, <3>2
  <2>3. \A k \in 0 .. N : k \in good
    <3> HIDE DEF good
    <3> QED BY ONLY <1>1, <2>1, <2>2, Along
  <2>4. ASSUME NEW n \in 0 .. N PROVE G[n] \in 0 .. M
    <3>1. PICK k \in 0 .. N : N - k = n
      <4>1. N - n \in 0 .. N /\ N - (N - n) = n
        BY <1>1
      <4> QED BY <4>1
    <3>2. G[n] # -1
      BY <2>3, <3>1
    <3>3. G[n] \in -1 .. M
      BY <1>4
    <3> QED BY <1>1, <3>2, <3>3
  <2>5. G \in [0 .. N -> 0 .. M] /\ G[0] = 0 /\ G[N] = M
    BY <1>4, <1>6, <2>4
  <2>6. ASSUME NEW i \in 1 .. N
        PROVE  CASE s[i].kind = "static" -> G[i] = G[i - 1] + 1 /\ t[G[i]] = s[i].name
                 [] s[i].kind = "dynamic" -> G[i] = G[i - 1] + 1
                 [] s[i].kind = "catchall" -> G[i] = M /\ G[i - 1] < M
                 [] s[i].kind = "optional" -> G[i] = M
    <3>1. i - 1 \in 0 .. N /\ i \in 0 .. N
      BY <1>1
    <3>2. G[i - 1] \in 0 .. M /\ G[i] \in 0 .. M /\ G[i] = Taken(s[i], G[i - 1], t)
      BY <1>4, <2>4, <3>1
    <3>3. G[i - 1] \in -1 .. M /\ G[i - 1] # -1 /\ G[i] # -1
      BY <1>1, <3>2
    <3> HIDE DEF Kinds
    <3>4. CASE s[i].kind = "static"
      BY <1>5, <3>2, <3>3, <3>4
    <3>5. CASE s[i].kind = "dynamic"
      BY <1>5, <3>2, <3>3, <3>5
    <3>6. CASE s[i].kind = "catchall"
      BY <1>5, <3>2, <3>3, <3>6
    <3>7. CASE s[i].kind = "optional"
      BY <1>5, <3>2, <3>3, <3>7
    <3> QED BY <1>2, <3>4, <3>5, <3>6, <3>7 DEF Kinds
  <2> QED BY <1>1, <2>5, <2>6 DEF Covers, N, M
<1>7. ASSUME Covers(s, t) PROVE MatchSegments(s, t)
  <2>1. PICK cut \in [0 .. N -> 0 .. M] :
          /\ cut[0] = 0 /\ cut[N] = M
          /\ \A i \in 1 .. N :
               CASE s[i].kind = "static" -> cut[i] = cut[i - 1] + 1 /\ t[cut[i]] = s[i].name
                 [] s[i].kind = "dynamic" -> cut[i] = cut[i - 1] + 1
                 [] s[i].kind = "catchall" -> cut[i] = M /\ cut[i - 1] < M
                 [] s[i].kind = "optional" -> cut[i] = M
    BY <1>1, <1>7 DEF Covers, N, M
  <2> DEFINE good == {n \in 0 .. N : G[n] = cut[n]}
  <2>2. 0 \in good
    BY <1>1, <1>4, <2>1
  <2>3. ASSUME NEW n \in 1 .. N, n - 1 \in good PROVE n \in good
    <3>1. n - 1 \in 0 .. N /\ n \in 0 .. N
      BY <1>1
    <3>2. G[n - 1] = cut[n - 1] /\ cut[n - 1] \in 0 .. M /\ cut[n] \in 0 .. M /\ G[n] = Taken(s[n], G[n - 1], t)
      BY <1>4, <2>1, <2>3, <3>1
    <3>3. G[n - 1] \in -1 .. M /\ G[n - 1] # -1
      BY <1>1, <3>2
    <3>4. CASE s[n].kind = "static"
      <4>1. cut[n] = cut[n - 1] + 1 /\ t[cut[n]] = s[n].name
        BY <2>1, <3>4
      <4> QED BY <1>1, <1>5, <3>1, <3>2, <3>3, <3>4, <4>1
    <3>5. CASE s[n].kind = "dynamic"
      <4>1. cut[n] = cut[n - 1] + 1
        BY <2>1, <3>5
      <4> QED BY <1>1, <1>5, <3>1, <3>2, <3>3, <3>5, <4>1
    <3>6. CASE s[n].kind = "catchall"
      <4>1. cut[n] = M /\ cut[n - 1] < M
        BY <2>1, <3>6
      <4> QED BY <1>1, <1>5, <3>1, <3>2, <3>3, <3>6, <4>1
    <3>7. CASE s[n].kind = "optional"
      <4>1. cut[n] = M
        BY <2>1, <3>7
      <4> QED BY <1>1, <1>5, <3>1, <3>2, <3>3, <3>7, <4>1
    <3> QED BY <1>2, <3>4, <3>5, <3>6, <3>7 DEF Kinds
  <2>4. \A n \in 0 .. N : n \in good
    <3> HIDE DEF good
    <3> QED BY ONLY <1>1, <2>2, <2>3, Along
  <2>5. G[N] = M
    <3>1. N \in 0 .. N
      BY <1>1
    <3> QED BY <2>1, <2>4, <3>1
  <2> QED BY <1>4, <2>5
<1> QED BY <1>6, <1>7

LEMMA PageCovers ==
  ASSUME WellFormed, NEW p \in DOMAIN Pool, NEW T, NEW t \in Seq(T)
  PROVE  Covers(Pathname(p), t) <=> MatchSegments(Pool[p], t)
<1>1. Pathname(p) \in Seq(Segments) /\ \A i \in 1 .. Len(Pathname(p)) : ~Transparent(Pathname(p)[i])
  BY PathnameType
<1>2. Covers(Pathname(p), t) <=> MatchSegments(Pathname(p), t)
  <2> DEFINE s == Pathname(p)
  <2> HIDE DEF s
  <2>1. s \in Seq(Segments) /\ \A i \in 1 .. Len(s) : ~Transparent(s[i])
    BY <1>1 DEF s
  <2>2. Covers(s, t) <=> MatchSegments(s, t)
    BY ONLY WellFormed, <2>1, t \in Seq(T), CoversIsMatched
  <2> QED BY <2>2 DEF s
<1> QED BY <1>2, PathnameTakesTheSame

-----------------------------------------------------------------------------
(* The order of the candidates.                                            *)
Scores(p, mode) == [i \in DOMAIN Pool[p] |-> SegmentScore(Pool[p][i], mode)]

LEMMA SegmentScoreType == \A s, mode : SegmentScore(s, mode) \in Int
BY DEF SegmentScore

LEMMA ScoresType ==
  ASSUME WellFormed, NEW p \in DOMAIN Pool, NEW mode
  PROVE  /\ Scores(p, mode) \in Seq(Int) /\ Len(Scores(p, mode)) = Len(Pool[p])
         /\ \A i \in 1 .. Len(Pool[p]) : Scores(p, mode)[i] = SegmentScore(Pool[p][i], mode)
<1>1. Len(Pool[p]) \in Nat /\ DOMAIN Pool[p] = 1 .. Len(Pool[p])
  BY PoolTypes
<1>2. Scores(p, mode) \in [1 .. Len(Pool[p]) -> Int]
  BY <1>1, SegmentScoreType DEF Scores
<1>3. \A i \in 1 .. Len(Pool[p]) : Scores(p, mode)[i] = SegmentScore(Pool[p][i], mode)
  BY <1>1 DEF Scores
<1> QED BY <1>1, <1>2, <1>3

\* The score of a page, directory by directory.
ScoresIs(S, p, mode) ==
  /\ S \in [0 .. Len(Pool[p]) -> Int]
  /\ S[0] = 0 /\ S[Len(Pool[p])] = SumScores(p, mode)
  /\ \A n \in 1 .. Len(Pool[p]) : S[n] = S[n - 1] + SegmentScore(Pool[p][n], mode)
LEMMA ScoreSoFar ==
  ASSUME WellFormed, NEW p \in DOMAIN Pool, NEW mode
  PROVE  \E S : ScoresIs(S, p, mode)
<1> DEFINE s == Scores(p, mode)
<1>1. /\ s \in Seq(Int) /\ Len(s) = Len(Pool[p])
      /\ \A i \in 1 .. Len(Pool[p]) : s[i] = SegmentScore(Pool[p][i], mode)
  BY ScoresType
<1>2. SumScores(p, mode) = Total(s)
  BY DEF SumScores, Scores
<1> HIDE DEF s
<1>3. PICK S \in [0 .. Len(s) -> Int] :
        S[0] = 0 /\ S[Len(s)] = Total(s) /\ \A n \in 1 .. Len(s) : S[n] = S[n - 1] + s[n]
  BY <1>1, Sums
<1>4. ScoresIs(S, p, mode)
  BY <1>1, <1>2, <1>3 DEF ScoresIs
<1> QED BY <1>4

LEMMA ScoreType ==
  ASSUME WellFormed, NEW p \in DOMAIN Pool, NEW mode
  PROVE  SumScores(p, mode) \in Int /\ Score(p, mode) \in Int
<1>1. PICK S : ScoresIs(S, p, mode)
  BY ScoreSoFar
<1>2. Len(Pool[p]) \in 0 .. Len(Pool[p])
  BY PoolTypes
<1>3. SumScores(p, mode) \in Int
  BY <1>1, <1>2 DEF ScoresIs
<1> QED BY <1>3 DEF Score

LEMMA ScanScoreType ==
  ASSUME WellFormed, NEW p \in DOMAIN Pool
  PROVE  ScanScore(p) \in Int
<1> DEFINE s == [i \in DOMAIN Pool[p] |-> CASE Pool[p][i].kind = "static" -> 100
                                            [] Pool[p][i].kind = "dynamic" -> 10
                                            [] Pool[p][i].kind = "catchall" -> 1
                                            [] OTHER -> 0]
<1>1. Len(Pool[p]) \in Nat /\ DOMAIN Pool[p] = 1 .. Len(Pool[p])
  BY PoolTypes
<1>2. s \in [1 .. Len(Pool[p]) -> Int]
  BY <1>1
<1>3. s \in Seq(Int)
  <2> HIDE DEF s
  <2> QED BY <1>1, <1>2
<1>4. ScanScore(p) = Total(s)
  BY DEF ScanScore
<1> HIDE DEF s
<1>5. PICK S \in [0 .. Len(s) -> Int] : S[Len(s)] = Total(s)
  BY <1>3, Sums
<1> QED BY <1>3, <1>4, <1>5

\* A page is ahead of another by the first of five things that tells them apart.
Bit(b) == IF b THEN 1 ELSE 0
Ahead(l, r, mode) ==
  \/ Score(l, mode) > Score(r, mode)
  \/ /\ Score(l, mode) = Score(r, mode)
     /\ \/ Len(Pool[l]) > Len(Pool[r])
        \/ /\ Len(Pool[l]) = Len(Pool[r])
           /\ \/ Bit(SlotName(l) # None) < Bit(SlotName(r) # None)
              \/ /\ Bit(SlotName(l) # None) = Bit(SlotName(r) # None)
                 /\ \/ Bit(InterceptTarget(l) # None) < Bit(InterceptTarget(r) # None)
                    \/ Bit(InterceptTarget(l) # None) = Bit(InterceptTarget(r) # None) /\ l < r

LEMMA KeyTypes ==
  ASSUME WellFormed, NEW p \in DOMAIN Pool, NEW mode
  PROVE  /\ Score(p, mode) \in Int /\ Len(Pool[p]) \in Int /\ p \in Int
         /\ Bit(SlotName(p) # None) \in Int /\ Bit(InterceptTarget(p) # None) \in Int
BY PoolTypes, ScoreType DEF Bit

LEMMA CompareIs ==
  ASSUME WellFormed, NEW l \in DOMAIN Pool, NEW r \in DOMAIN Pool, NEW mode
  PROVE  /\ Compare(l, r, mode) < 0 <=> Ahead(l, r, mode)
         /\ Compare(l, r, mode) = 0 <=> l = r
<1>1. /\ Score(l, mode) \in Int /\ Len(Pool[l]) \in Int /\ l \in Int
      /\ Score(r, mode) \in Int /\ Len(Pool[r]) \in Int /\ r \in Int
  BY KeyTypes
<1> QED BY <1>1 DEF Compare, Ahead, Bit

LEMMA AheadOrders ==
  ASSUME WellFormed, NEW l \in DOMAIN Pool, NEW r \in DOMAIN Pool, NEW q \in DOMAIN Pool, NEW mode
  PROVE  /\ Ahead(l, r, mode) \/ l = r \/ Ahead(r, l, mode)
         /\ ~(Ahead(l, r, mode) /\ Ahead(r, l, mode))
         /\ ~Ahead(l, l, mode)
         /\ Ahead(l, r, mode) /\ Ahead(r, q, mode) => Ahead(l, q, mode)
<1>1. \A p \in {l, r, q} :
         /\ Score(p, mode) \in Int /\ Len(Pool[p]) \in Int /\ p \in Int
         /\ Bit(SlotName(p) # None) \in Int /\ Bit(InterceptTarget(p) # None) \in Int
  BY KeyTypes
<1> QED BY <1>1 DEF Ahead

\* Which candidate comes before which.
LEMMA BeforeIs ==
  ASSUME WellFormed, NEW N \in Nat, NEW ps \in [1 .. N -> DOMAIN Pool], NEW mode,
         NEW i \in 1 .. N, NEW j \in 1 .. N
  PROVE  Before(ps, i, j, mode) <=> Ahead(ps[i], ps[j], mode) \/ (ps[i] = ps[j] /\ i <= j)
<1>1. ps[i] \in DOMAIN Pool /\ ps[j] \in DOMAIN Pool
  OBVIOUS
<1>2. ps[i] = ps[j] => (Scanned(ps, i, j) <=> i <= j)
  <2>1. ScanScore(ps[i]) \in Int
    BY <1>1, ScanScoreType
  <2> QED BY <2>1 DEF Scanned
<1> QED BY <1>1, <1>2, CompareIs DEF Before

\* Some candidate comes before all.
LEMMA SomeIsFirst ==
  ASSUME WellFormed, NEW N \in Nat, NEW ps \in [1 .. N -> DOMAIN Pool], NEW mode,
         NEW W \in SUBSET (1 .. N), W # {}
  PROVE  \E i \in W : \A j \in W : Before(ps, i, j, mode)
<1> DEFINE Le(i, j) == Ahead(ps[i], ps[j], mode) \/ (ps[i] = ps[j] /\ i <= j)
           good == {n \in 0 .. N : W \cap (1 .. n) = {} \/ \E i \in W \cap (1 .. n) : \A j \in W \cap (1 .. n) : Le(i, j)}
<1>1. \A i \in 1 .. N : ps[i] \in DOMAIN Pool
  OBVIOUS
<1>2. \A i, j, k \in 1 .. N : Le(i, i) /\ (Le(i, j) \/ Le(j, i)) /\ (Le(i, j) /\ Le(j, k) => Le(i, k))
  BY <1>1, AheadOrders
<1>3. 0 \in good
  OBVIOUS
<1> HIDE DEF Le
<1>4. ASSUME NEW n \in 1 .. N, n - 1 \in good PROVE n \in good
  <2>1. n \in 0 .. N /\ 1 .. n = (1 .. (n - 1)) \cup {n}
    OBVIOUS
  <2>2. CASE n \notin W
    <3>1. W \cap (1 .. n) = W \cap (1 .. (n - 1))
      BY <2>1, <2>2
    <3> HIDE DEF good
    <3> QED BY <1>4, <2>1, <3>1 DEF good
  <2>3. CASE n \in W /\ W \cap (1 .. (n - 1)) = {}
    <3>1. W \cap (1 .. n) = {n}
      BY <2>1, <2>3
    <3> QED BY <1>2, <2>1, <2>3, <3>1
  <2>4. CASE n \in W /\ W \cap (1 .. (n - 1)) # {}
    <3>1. PICK i \in W \cap (1 .. (n - 1)) : \A j \in W \cap (1 .. (n - 1)) : Le(i, j)
      BY <1>4, <2>4
    <3>2. CASE Le(i, n)
      <4>1. i \in W \cap (1 .. n) /\ \A j \in W \cap (1 .. n) : Le(i, j)
        BY <2>1, <3>1, <3>2
      <4> QED BY <2>1, <4>1
    <3>3. CASE Le(n, i)
      <4>1. n \in W \cap (1 .. n) /\ \A j \in W \cap (1 .. n) : Le(n, j)
        BY <1>2, <2>1, <2>4, <3>1, <3>3
      <4> QED BY <2>1, <4>1
    <3> QED BY <1>2, <3>2, <3>3
  <2> QED BY <2>2, <2>3, <2>4
<1>5. N \in good
  <2> HIDE DEF good
  <2>1. \A n \in 0 .. N : n \in good
    BY ONLY N \in Nat, <1>3, <1>4, Along
  <2> QED BY <2>1
<1>6. W \cap (1 .. N) = W
  OBVIOUS
<1>7. \E i \in W : \A j \in W : Le(i, j)
  BY <1>5, <1>6
<1> QED BY <1>7, BeforeIs DEF Le

-----------------------------------------------------------------------------
(* The page a request is answered with.                                    *)
\* The best of some pages: it passes a test, none passes an earlier one, and it is ahead of
\* all others that pass it.
Best(m, Q, mode) ==
  /\ m \in Q
  /\ \E k \in 1 .. 4 :
       /\ Wanted(k, m, mode)
       /\ \A q \in Q : \A j \in 1 .. (k - 1) : ~Wanted(j, q, mode)
       /\ \A q \in Q : Wanted(k, q, mode) => q = m \/ Ahead(m, q, mode)

LEMMA BestIsOne ==
  ASSUME WellFormed, NEW Q \in SUBSET DOMAIN Pool, NEW mode, NEW m, Best(m, Q, mode), NEW n, Best(n, Q, mode)
  PROVE  m = n
<1>1. PICK k \in 1 .. 4 :
        /\ Wanted(k, m, mode)
        /\ \A q \in Q : \A j \in 1 .. (k - 1) : ~Wanted(j, q, mode)
        /\ \A q \in Q : Wanted(k, q, mode) => q = m \/ Ahead(m, q, mode)
  BY DEF Best
<1>2. PICK l \in 1 .. 4 :
        /\ Wanted(l, n, mode)
        /\ \A q \in Q : \A j \in 1 .. (l - 1) : ~Wanted(j, q, mode)
        /\ \A q \in Q : Wanted(l, q, mode) => q = n \/ Ahead(n, q, mode)
  BY DEF Best
<1>3. m \in Q /\ n \in Q
  BY DEF Best
<1>4. k = l
  <2>1. ~(k < l) /\ ~(l < k)
    <3>1. k < l => k \in 1 .. (l - 1)
      OBVIOUS
    <3>2. l < k => l \in 1 .. (k - 1)
      OBVIOUS
    <3> QED BY <1>1, <1>2, <1>3, <3>1, <3>2
  <2> QED BY <2>1
<1>5. m = n \/ (Ahead(m, n, mode) /\ Ahead(n, m, mode))
  BY <1>1, <1>2, <1>3, <1>4
<1> QED BY <1>3, <1>5, AheadOrders

\* Wherever the sort puts them, the page that is selected is the best of the candidates.
LEMMA PrimaryIsBest ==
  ASSUME WellFormed, NEW N \in Nat, NEW ps \in [1 .. N -> DOMAIN Pool], NEW mode,
         NEW found \in SUBSET (1 .. N), found # {}
  PROVE  Best(Primary(ps, found, mode), {ps[i] : i \in found}, mode)
<1> DEFINE tests == {k \in 1 .. 4 : \E i \in found : Wanted(k, ps[i], mode)}
           test == Min(tests)
           wanted == {i \in found : Wanted(test, ps[i], mode)}
           first == {i \in wanted : \A j \in wanted : Before(ps, i, j, mode)}
           c == CHOOSE i \in first : TRUE
<1>1. Primary(ps, found, mode) = ps[c]
  BY DEF Primary
<1>2. test \in tests /\ \A k \in tests : test <= k
  <2>1. 4 \in tests
    BY DEF Wanted
  <2>4. \A k \in 1 .. 4 : k \in Nat
    OBVIOUS
  <2>5. \A k \in tests : k \in 1 .. 4
    OBVIOUS
  <2> HIDE DEF tests
  <2>2. tests \in SUBSET Nat /\ tests # {}
    BY <2>1, <2>4, <2>5
  <2>3. \E x \in tests : \A y \in tests : x <= y
    BY <2>2, LeastNumber
  <2> QED BY <2>3 DEF Min
<1>3. wanted # {} /\ wanted \in SUBSET (1 .. N)
  BY <1>2
<1> HIDE DEF test
<1>4. c \in first
  <2>1. first # {}
    <3> HIDE DEF wanted
    <3> QED BY <1>3, SomeIsFirst
  <2> HIDE DEF first
  <2> QED BY <2>1
<1> HIDE DEF c
<1>5. c \in found /\ c \in 1 .. N /\ Wanted(test, ps[c], mode) /\ test \in 1 .. 4
  BY <1>2, <1>4
<1>6. ASSUME NEW i \in found, NEW j \in 1 .. (test - 1) PROVE ~Wanted(j, ps[i], mode)
  <2>1. j \in 1 .. 4 /\ ~(test <= j)
    BY <1>5
  <2> QED BY <1>2, <2>1
<1>7. ASSUME NEW i \in found, Wanted(test, ps[i], mode) PROVE ps[i] = ps[c] \/ Ahead(ps[c], ps[i], mode)
  <2>1. Before(ps, c, i, mode) /\ i \in 1 .. N
    BY <1>4, <1>7
  <2> QED BY <1>5, <2>1, BeforeIs
<1>8. Best(ps[c], {ps[i] : i \in found}, mode)
  BY <1>5, <1>6, <1>7 DEF Best
<1> QED BY <1>1, <1>8

\* A match, as the pages that match and the best of them.
Matching(ps, t) == {q \in Range(ps) : MatchSegments(Pool[q], t)}
Beside(ps, Q, m) ==
  {q \in Q : SlotName(q) # None /\ Canonical(ps, q) = Canonical(ps, m) /\ InterceptTarget(q) = InterceptTarget(m)}
IsMatch(a, ps, Q, mode) ==
  IF Q = {} THEN a = NoAnswer("none")
  ELSE \E m \in Q : Best(m, Q, mode) /\ a = [is |-> "matched", page |-> m, slots |-> Beside(ps, Q, m)]

LEMMA MatchIs ==
  ASSUME WellFormed, NEW N \in Nat, NEW ps \in [1 .. N -> DOMAIN Pool], NEW mode, NEW t
  PROVE  IsMatch(Match(ps, t, mode), ps, Matching(ps, t), mode)
<1> DEFINE found == Candidates(ps, t)
           Q == Matching(ps, t)
           m == Primary(ps, found, mode)
<1>1. found \in SUBSET (1 .. N) /\ Q = {ps[i] : i \in found} /\ (found = {} <=> Q = {})
  BY DEF Candidates, Matching, Range
<1>2. CASE found = {}
  BY <1>1, <1>2 DEF Match, IsMatch
<1>3. CASE found # {}
  <2>1. Best(m, Q, mode)
    <3> HIDE DEF found, Q
    <3> QED BY <1>1, <1>3, PrimaryIsBest
  <2>2. Parallel(ps, found, m) = Beside(ps, Q, m)
    <3> HIDE DEF found, Q, m
    <3> QED BY <1>1 DEF Parallel, Beside
  <2>3. Match(ps, t, mode) = [is |-> "matched", page |-> m, slots |-> Parallel(ps, found, m)]
    BY <1>3 DEF Match
  <2> HIDE DEF found, Q, m
  <2>4. m \in Q /\ Q # {}
    BY <2>1 DEF Best
  <2>5. IsMatch(Match(ps, t, mode), ps, Q, mode)
    BY <2>1, <2>2, <2>3, <2>4 DEF IsMatch
  <2> QED BY <2>5 DEF Q
<1> QED BY <1>2, <1>3

LEMMA SamePages ==
  ASSUME NEW r, NEW s, Range(r) = Range(s), NEW t
  PROVE  Matching(r, t) = Matching(s, t) /\ \A Q, m : Beside(r, Q, m) = Beside(s, Q, m)
<1>1. \A p : Canonical(r, p) = Canonical(s, p)
  BY DEF Canonical
<1> QED BY <1>1 DEF Matching, Beside

-----------------------------------------------------------------------------
(* What Routing says of an answer.                                         *)
LEMMA AnswerIs ==
  ASSUME WellFormed, Inv
  PROVE  /\ Range(pages) \subseteq DOMAIN Pool /\ Matching(pages, path) \subseteq Range(pages)
         /\ \E N \in Nat : pages \in [1 .. N -> DOMAIN Pool]
         /\ Matched \/ answer.is = "none" =>
              /\ NoConflicts(pages) /\ answer = Match(pages, path, intercept)
              /\ IsMatch(answer, pages, Matching(pages, path), intercept)
<1>1. PICK N \in Nat : pages \in [1 .. N -> DOMAIN Pool]
  BY DEF Inv
<1>2. IsMatch(Match(pages, path, intercept), pages, Matching(pages, path), intercept)
  BY <1>1, MatchIs
<1>3. Matched \/ answer.is = "none" => NoConflicts(pages) /\ answer = Match(pages, path, intercept)
  BY DEF Inv, NoAnswer, Matched
<1>4. Range(pages) \subseteq DOMAIN Pool
  BY <1>1 DEF Range
<1>5. Matching(pages, path) \subseteq Range(pages)
  BY DEF Matching
<1> QED BY <1>1, <1>2, <1>3, <1>4, <1>5

LEMMA MatchedIs ==
  ASSUME WellFormed, Inv, Matched
  PROVE  /\ Matching(pages, path) # {} /\ answer.page \in Matching(pages, path)
         /\ Best(answer.page, Matching(pages, path), intercept)
         /\ answer.slots = Beside(pages, Matching(pages, path), answer.page)
<1> DEFINE Q == Matching(pages, path)
<1> HIDE DEF Q
<1>1. IsMatch(answer, pages, Q, intercept)
  BY AnswerIs DEF Q
<1>2. Q # {}
  BY <1>1 DEF IsMatch, NoAnswer, Matched
<1> QED BY <1>1, <1>2 DEF IsMatch, Q

LEMMA NoneIs ==
  ASSUME WellFormed, Inv, answer.is = "none"
  PROVE  Matching(pages, path) = {}
<1> DEFINE Q == Matching(pages, path)
<1> HIDE DEF Q
<1>1. IsMatch(answer, pages, Q, intercept)
  BY AnswerIs DEF Q
<1> QED BY <1>1 DEF IsMatch, NoAnswer, Q

\* A pathname is a sequence of segments.
PathIsSequence == path \in Seq(Range(path))

LEMMA AnswersCover == WellFormed /\ Inv /\ PathIsSequence => AnswerCovers
<1> SUFFICES ASSUME WellFormed, Inv, PathIsSequence PROVE AnswerCovers
  OBVIOUS
<1>1. \A p \in Range(pages) :
        p \in DOMAIN Pool /\ (Covers(Pathname(p), path) <=> p \in Matching(pages, path))
  <2> SUFFICES ASSUME NEW p \in Range(pages)
               PROVE  p \in DOMAIN Pool /\ (Covers(Pathname(p), path) <=> p \in Matching(pages, path))
    OBVIOUS
  <2>1. p \in DOMAIN Pool
    BY AnswerIs
  <2>2. Covers(Pathname(p), path) <=> MatchSegments(Pool[p], path)
    BY <2>1, PageCovers DEF PathIsSequence
  <2> QED BY <2>1, <2>2 DEF Matching
<1>2. Matched => Covers(Pathname(answer.page), path)
  <2> SUFFICES ASSUME Matched PROVE Covers(Pathname(answer.page), path)
    OBVIOUS
  <2>1. answer.page \in Matching(pages, path) /\ answer.page \in Range(pages)
    BY MatchedIs, AnswerIs
  <2> QED BY <1>1, <2>1
<1>3. answer.is = "none" => \A i \in DOMAIN pages : ~Covers(Pathname(pages[i]), path)
  <2> SUFFICES ASSUME answer.is = "none", NEW i \in DOMAIN pages PROVE ~Covers(Pathname(pages[i]), path)
    OBVIOUS
  <2>1. pages[i] \in Range(pages)
    BY DEF Range
  <2> QED BY <1>1, <2>1, NoneIs
<1> QED BY <1>2, <1>3 DEF AnswerCovers

\* The best of the candidates does not depend on where they are.
LEMMA OrdersAgree == WellFormed /\ Inv => OrderDoesNotMatter
<1> SUFFICES ASSUME WellFormed, Inv, Matched,
                    NEW s \in [DOMAIN pages -> Range(pages)], Range(s) = Range(pages)
             PROVE  Match(s, path, intercept) = answer
  BY DEF OrderDoesNotMatter
<1> DEFINE Q == Matching(pages, path)
<1>1. Matching(s, path) = Q /\ \A m : Beside(s, Q, m) = Beside(pages, Q, m)
  BY SamePages
<1>2. Q \in SUBSET DOMAIN Pool
  BY AnswerIs
<1>3. IsMatch(Match(s, path, intercept), s, Q, intercept)
  <2>1. PICK N \in Nat : pages \in [1 .. N -> DOMAIN Pool]
    BY AnswerIs
  <2>2. s \in [1 .. N -> DOMAIN Pool]
    BY <2>1 DEF Range
  <2> HIDE DEF Q
  <2>3. IsMatch(Match(s, path, intercept), s, Matching(s, path), intercept)
    BY <2>2, MatchIs
  <2> QED BY <1>1, <2>3
<1>4. IsMatch(answer, pages, Q, intercept) /\ Q # {}
  BY AnswerIs, MatchedIs
<1> HIDE DEF Q
<1>5. PICK m \in Q : /\ Best(m, Q, intercept)
                     /\ Match(s, path, intercept) = [is |-> "matched", page |-> m, slots |-> Beside(s, Q, m)]
  BY <1>3, <1>4 DEF IsMatch
<1>6. PICK n \in Q : /\ Best(n, Q, intercept)
                     /\ answer = [is |-> "matched", page |-> n, slots |-> Beside(pages, Q, n)]
  BY <1>4 DEF IsMatch
<1>7. m = n
  BY <1>2, <1>5, <1>6, BestIsOne
<1> QED BY <1>1, <1>5, <1>6, <1>7

\* Two slots of one name and one interception, beside one page, would be a conflict.
LEMMA SlotsAreOwn == WellFormed /\ Inv /\ PathIsSequence => SlotsAreTheirOwn
<1> SUFFICES ASSUME WellFormed, Inv, PathIsSequence, Matched
             PROVE  /\ Cardinality({SlotName(q) : q \in answer.slots}) = Cardinality(answer.slots)
                    /\ (\E p \in Range(pages) : SlotName(p) = None /\ Covers(Pathname(p), path)) =>
                         SlotName(answer.page) = None
  BY DEF SlotsAreTheirOwn
<1> DEFINE Q == Matching(pages, path)
<1>1. /\ Q \subseteq Range(pages) /\ Range(pages) \subseteq DOMAIN Pool /\ NoConflicts(pages)
      /\ answer.page \in Q /\ Best(answer.page, Q, intercept)
      /\ answer.slots = Beside(pages, Q, answer.page)
  BY AnswerIs, MatchedIs
<1> DEFINE S == answer.slots
           T == {SlotName(q) : q \in S}
           f == [q \in S |-> SlotName(q)]
<1>2. ASSUME NEW q \in S, NEW r \in S, SlotName(q) = SlotName(r) PROVE q = r
  <2>1. /\ q \in Range(pages) /\ r \in Range(pages) /\ SlotName(q) # None /\ SlotName(r) # None
        /\ Canonical(pages, q) = Canonical(pages, r) /\ InterceptTarget(q) = InterceptTarget(r)
    BY <1>1 DEF Beside
  <2>2. ASSUME NEW p \in {q, r}
        PROVE  \/ Canonical(pages, p) = p
               \/ IsPrimary(Canonical(pages, p)) /\ Shown(Canonical(pages, p)) = Shown(p)
    BY DEF Canonical
  <2>3. ~IsPrimary(q) /\ ~IsPrimary(r)
    BY <2>1 DEF IsPrimary
  <2>4. q = r \/ Shown(q) = Shown(r)
    BY <2>1, <2>2, <2>3
  <2>5. Shown(q) = Shown(r) => ConflictKey(q) = ConflictKey(r)
    BY <1>2, <2>1 DEF ConflictKey
  <2>6. PICK i \in DOMAIN pages, j \in DOMAIN pages : q = pages[i] /\ r = pages[j]
    BY <2>1 DEF Range
  <2> QED BY <1>1, <2>4, <2>5, <2>6 DEF NoConflicts
<1>3. IsFiniteSet(S)
  <2>1. Len(Pool) \in Nat /\ DOMAIN Pool = 1 .. Len(Pool)
    BY DEF WellFormed
  <2>2. IsFiniteSet(DOMAIN Pool)
    BY <2>1, FS_Interval
  <2>3. S \subseteq DOMAIN Pool
    BY <1>1 DEF Beside
  <2> QED BY <2>2, <2>3, FS_Subset
<1>4. Cardinality(T) = Cardinality(S)
  <2>1. f \in Surjection(S, T) /\ f \in Injection(S, T)
    <3>1. f \in [S -> T] /\ IsInjective(f)
      BY <1>2 DEF IsInjective
    <3>2. \A x \in T : \E q \in S : f[q] = x
      OBVIOUS
    <3> HIDE DEF f, T, S
    <3> QED BY <3>1, <3>2 DEF Surjection, Injection
  <2> HIDE DEF f, T, S
  <2> QED BY <1>3, <2>1, FS_Surjection
<1>5. ASSUME NEW p \in Range(pages), SlotName(p) = None, Covers(Pathname(p), path)
      PROVE  SlotName(answer.page) = None
  <2>1. p \in Q
    BY <1>1, <1>5, PageCovers DEF Matching, PathIsSequence
  <2>2. Wanted(3, p, intercept)
    BY <1>5 DEF Wanted
  <2>3. PICK k \in 1 .. 4 : Wanted(k, answer.page, intercept) /\ \A j \in 1 .. (k - 1) : ~Wanted(j, p, intercept)
    BY <1>1, <2>1 DEF Best
  <2>4. k # 4
    <3>1. 3 \in 1 .. (4 - 1)
      OBVIOUS
    <3> QED BY <2>2, <2>3, <3>1
  <2> QED BY <2>3, <2>4 DEF Wanted, IsPrimary
<1> QED BY <1>4, <1>5

\* Where every segment takes one of the path, it is the one at its own place.
LEMMA OneEach ==
  ASSUME NEW s \in Seq(Segments), NEW T, NEW t \in Seq(T),
         NEW cut \in [0 .. Len(s) -> 0 .. Len(t)], cut[0] = 0,
         \A i \in 1 .. Len(s) : cut[i] = cut[i - 1] + 1
  PROVE  \A n \in 0 .. Len(s) : cut[n] = n
<1> DEFINE N == Len(s)
           good == {n \in 0 .. N : cut[n] = n}
<1>1. N \in Nat
  OBVIOUS
<1> HIDE DEF N
<1>2. 0 \in good
  BY <1>1
<1>3. ASSUME NEW n \in 1 .. N, n - 1 \in good PROVE n \in good
  <2>1. cut[n] = cut[n - 1] + 1
    BY DEF N
  <2> QED BY <1>3, <2>1
<1>4. \A n \in 0 .. N : n \in good
  <2> HIDE DEF good
  <2> QED BY ONLY <1>1, <1>2, <1>3, Along
<1> QED BY <1>4 DEF N

\* A segment that is not an empty optional one takes at least one.
LEMMA AtLeastOneEach ==
  ASSUME NEW s \in Seq(Segments), \A i \in 1 .. Len(s) : s[i].kind \in Kinds, NEW T, NEW t \in Seq(T),
         Covers(s, t), \A i \in 1 .. Len(s) : s[i].kind = "optional" => i <= Len(t)
  PROVE  Len(s) <= Len(t)
<1> DEFINE N == Len(s)
           M == Len(t)
<1>1. N \in Nat /\ M \in Nat /\ DOMAIN s = 1 .. N
  OBVIOUS
<1>2. PICK cut \in [0 .. N -> 0 .. M] :
        /\ cut[0] = 0 /\ cut[N] = M
        /\ \A i \in DOMAIN s :
             CASE s[i].kind = "static" -> cut[i] = cut[i - 1] + 1 /\ t[cut[i]] = s[i].name
               [] s[i].kind = "dynamic" -> cut[i] = cut[i - 1] + 1
               [] s[i].kind = "catchall" -> cut[i] = M /\ cut[i - 1] < M
               [] s[i].kind = "optional" -> cut[i] = M
  BY DEF Covers
<1> DEFINE good == {n \in 0 .. N : n <= cut[n]}
<1> HIDE DEF N, M
<1>3. 0 \in good
  BY <1>1, <1>2
<1>4. ASSUME NEW n \in 1 .. N, n - 1 \in good PROVE n \in good
  <2>1. n - 1 <= cut[n - 1] /\ n - 1 \in 0 .. N /\ cut[n - 1] \in 0 .. M /\ cut[n] \in 0 .. M /\ n \in DOMAIN s
    BY <1>1, <1>2, <1>4
  <2>2. CASE s[n].kind = "static"
    <3>1. cut[n] = cut[n - 1] + 1
      BY <1>2, <2>1, <2>2
    <3> QED BY ONLY <1>1, <2>1, <3>1, n \in 1 .. N
  <2>3. CASE s[n].kind = "dynamic"
    <3>1. cut[n] = cut[n - 1] + 1
      BY <1>2, <2>1, <2>3
    <3> QED BY ONLY <1>1, <2>1, <3>1, n \in 1 .. N
  <2>4. CASE s[n].kind = "catchall"
    <3>1. cut[n] = M /\ cut[n - 1] < M
      BY <1>2, <2>1, <2>4
    <3> QED BY ONLY <1>1, <2>1, <3>1, n \in 1 .. N
  <2>5. CASE s[n].kind = "optional"
    <3>1. n <= M
      BY <2>5 DEF N, M
    <3>2. cut[n] = M
      BY <1>2, <2>1, <2>5
    <3> QED BY <1>1, <3>1, <3>2
  <2>6. s[n].kind \in Kinds
    BY DEF N
  <2> QED BY <2>2, <2>3, <2>4, <2>5, <2>6 DEF Kinds
<1>5. \A n \in 0 .. N : n \in good
  <2> HIDE DEF good
  <2> QED BY ONLY <1>1, <1>3, <1>4, Along
<1>6. N <= M
  <2>1. N \in 0 .. N
    BY <1>1
  <2> QED BY <1>2, <1>5, <2>1
<1> QED BY <1>6 DEF N, M

LEMMA StaticCovers ==
  ASSUME NEW s \in Seq(Segments), \A i \in 1 .. Len(s) : s[i].kind \in {"static", "dynamic"},
         NEW T, NEW t \in Seq(T), Covers(s, t)
  PROVE  /\ Len(s) = Len(t)
         /\ \A i \in 1 .. Len(s) : s[i].kind = "static" => t[i] = s[i].name
<1> DEFINE N == Len(s)
           M == Len(t)
<1>1. N \in Nat /\ M \in Nat /\ DOMAIN s = 1 .. N
  OBVIOUS
<1>2. PICK cut \in [0 .. N -> 0 .. M] :
        /\ cut[0] = 0 /\ cut[N] = M
        /\ \A i \in DOMAIN s :
             CASE s[i].kind = "static" -> cut[i] = cut[i - 1] + 1 /\ t[cut[i]] = s[i].name
               [] s[i].kind = "dynamic" -> cut[i] = cut[i - 1] + 1
               [] s[i].kind = "catchall" -> cut[i] = M /\ cut[i - 1] < M
               [] s[i].kind = "optional" -> cut[i] = M
  BY DEF Covers
<1>3. \A i \in 1 .. N : cut[i] = cut[i - 1] + 1 /\ (s[i].kind = "static" => t[cut[i]] = s[i].name)
  <2> SUFFICES ASSUME NEW i \in 1 .. N
               PROVE  cut[i] = cut[i - 1] + 1 /\ (s[i].kind = "static" => t[cut[i]] = s[i].name)
    OBVIOUS
  <2>1. i \in DOMAIN s /\ s[i].kind \in {"static", "dynamic"}
    BY <1>1
  <2>2. CASE s[i].kind = "static"
    BY <1>2, <2>1, <2>2
  <2>3. CASE s[i].kind = "dynamic"
    BY <1>2, <2>1, <2>3
  <2> QED BY <2>1, <2>2, <2>3
<1>4. \A n \in 0 .. N : cut[n] = n
  BY <1>2, <1>3, OneEach
<1> HIDE DEF N, M
<1>5. N = M /\ \A i \in 1 .. N : s[i].kind = "static" => t[i] = s[i].name
  <2>1. N \in 0 .. N /\ \A i \in 1 .. N : i \in 0 .. N
    BY <1>1
  <2> QED BY <1>2, <1>3, <1>4, <2>1
<1> QED BY <1>5 DEF N, M

\* Segments of one each cover what is as long and has the names of the static ones.
LEMMA CoveredByOneEach ==
  ASSUME NEW s \in Seq(Segments), \A i \in 1 .. Len(s) : s[i].kind \in {"static", "dynamic"},
         NEW T, NEW t \in Seq(T), Len(s) = Len(t),
         \A i \in 1 .. Len(s) : s[i].kind = "static" => t[i] = s[i].name
  PROVE  Covers(s, t)
<1> DEFINE N == Len(s)
           cut == [i \in 0 .. N |-> i]
<1>1. N \in Nat /\ DOMAIN s = 1 .. N /\ N = Len(t)
  OBVIOUS
<1>2. cut \in [0 .. N -> 0 .. N] /\ cut[0] = 0 /\ cut[N] = N
  BY <1>1
<1>3. ASSUME NEW i \in 1 .. N
      PROVE  CASE s[i].kind = "static" -> cut[i] = cut[i - 1] + 1 /\ t[cut[i]] = s[i].name
               [] s[i].kind = "dynamic" -> cut[i] = cut[i - 1] + 1
               [] s[i].kind = "catchall" -> cut[i] = Len(t) /\ cut[i - 1] < Len(t)
               [] s[i].kind = "optional" -> cut[i] = Len(t)
  <2>1. cut[i] = i /\ cut[i - 1] = i - 1 /\ s[i].kind \in {"static", "dynamic"}
    BY <1>1
  <2> HIDE DEF cut
  <2>2. CASE s[i].kind = "static"
    BY <2>1, <2>2
  <2>3. CASE s[i].kind = "dynamic"
    BY <2>1, <2>3
  <2> QED BY <2>1, <2>2, <2>3
<1> HIDE DEF cut
<1> QED BY <1>1, <1>2, <1>3 DEF Covers

\* The adapters and the server agree where every segment takes one of the path.
LEMMA AdaptersAgree == WellFormed /\ Inv /\ PathIsSequence => AdapterAgrees
<1> SUFFICES ASSUME WellFormed, Inv, PathIsSequence, answer.is \in {"matched", "none"},
                    \A p \in Range(pages) : \A i \in DOMAIN Pool[p] :
                      Pool[p][i].kind \notin {"catchall", "optional"}
             PROVE  Matched <=> \E p \in Range(pages) : AdapterMatches(p)
  BY DEF AdapterAgrees
<1>1. Matched <=> Matching(pages, path) # {}
  BY MatchedIs, NoneIs DEF Matched
<1>2. ASSUME NEW p \in Range(pages) PROVE AdapterMatches(p) <=> p \in Matching(pages, path)
  <2> DEFINE s == Pathname(p)
  <2>1. p \in DOMAIN Pool
    BY AnswerIs
  <2>2. s \in Seq(Segments) /\ Len(s) \in Nat /\ DOMAIN s = 1 .. Len(s)
    BY <2>1, PathnameType
  <2>3. \A i \in 1 .. Len(s) : s[i].kind \in {"static", "dynamic"}
    BY <2>1, PathnameType, PoolTypes DEF Kinds
  <2>4. AdapterMatches(p) <=> /\ Len(path) <= Len(s)
                             /\ \A i \in 1 .. Len(s) :
                                  i <= Len(path) /\ (s[i].kind = "static" => path[i] = s[i].name)
    BY <2>2, <2>3 DEF AdapterMatches, OneSegment
  <2>5. p \in Matching(pages, path) <=> Covers(s, path)
    BY <2>1, PageCovers DEF Matching, PathIsSequence
  <2>6. path \in Seq(Range(path)) /\ Len(path) \in Nat
    BY DEF PathIsSequence
  <2> HIDE DEF s
  <2>7. ASSUME Covers(s, path) PROVE AdapterMatches(p)
    <3>1. Len(s) = Len(path) /\ \A i \in 1 .. Len(s) : s[i].kind = "static" => path[i] = s[i].name
      BY ONLY <2>2, <2>3, <2>6, <2>7, StaticCovers
    <3> QED BY <2>4, <2>6, <3>1
  <2>8. ASSUME AdapterMatches(p) PROVE Covers(s, path)
    <3>1. Len(s) = Len(path)
      <4>1. Len(s) # 0 => Len(s) \in 1 .. Len(s)
        BY <2>2
      <4> QED BY <2>2, <2>4, <2>6, <2>8, <4>1
    <3>2. \A i \in 1 .. Len(s) : s[i].kind = "static" => path[i] = s[i].name
      BY <2>4, <2>8
    <3> QED BY ONLY <2>2, <2>3, <2>6, <3>1, <3>2, CoveredByOneEach
  <2> QED BY <2>5, <2>7, <2>8
<1>3. Matching(pages, path) \subseteq Range(pages)
  BY DEF Matching
<1> QED BY <1>1, <1>2, <1>3

-----------------------------------------------------------------------------
(* A page of the path itself.                                              *)
LEMMA GreatestNumber ==
  ASSUME NEW n \in Nat, NEW T \in SUBSET (1 .. n), T # {}
  PROVE  Max(T) \in T
<1> DEFINE U == {n - x : x \in T}
<1>1. U \in SUBSET Nat /\ U # {}
  <2>1. \A x \in T : n - x \in Nat
    <3> SUFFICES ASSUME NEW x \in T PROVE n - x \in Nat
      OBVIOUS
    <3>1. x \in 1 .. n
      OBVIOUS
    <3> QED BY ONLY n \in Nat, <3>1
  <2>2. PICK x \in T : TRUE
    OBVIOUS
  <2> QED BY <2>1, <2>2
<1>2. PICK u \in U : \A y \in U : u <= y
  <2> HIDE DEF U
  <2> QED BY <1>1, LeastNumber
<1>3. PICK x \in T : u = n - x
  OBVIOUS
<1>4. \A y \in T : x >= y
  <2> SUFFICES ASSUME NEW y \in T PROVE x >= y
    OBVIOUS
  <2>1. n - y \in U
    OBVIOUS
  <2>2. n - x <= n - y
    <3> HIDE DEF U
    <3> QED BY <1>2, <1>3, <2>1
  <2>3. x \in Int /\ y \in Int
    OBVIOUS
  <2> QED BY ONLY n \in Nat, <2>2, <2>3
<1> QED BY <1>4 DEF Max

LEMMA WithoutName ==
  ASSUME WellFormed, NEW p \in DOMAIN Pool
  PROVE  /\ SlotName(p) = None <=> Directories(p, "parallel") = {}
         /\ InterceptTarget(p) = None <=> Directories(p, "intercepting") = {}
<1>1. Len(Pool[p]) \in Nat /\ DOMAIN Pool[p] = 1 .. Len(Pool[p])
      /\ \A i \in DOMAIN Pool[p] : Pool[p][i] \in Segments
  BY PoolTypes
<1>2. ASSUME NEW sem, Directories(p, sem) # {}
      PROVE  Max(Directories(p, sem)) \in DOMAIN Pool[p] /\ Pool[p][Max(Directories(p, sem))].sem = sem
  <2>1. Directories(p, sem) \in SUBSET (1 .. Len(Pool[p]))
    BY <1>1 DEF Directories
  <2>2. Max(Directories(p, sem)) \in Directories(p, sem)
    BY <1>1, <1>2, <2>1, GreatestNumber
  <2> QED BY <2>2 DEF Directories
<1>3. \A s \in Segments : (s.sem = "parallel" => s.name # None) /\ (s.sem = "intercepting" => s.marker # None)
  BY DEF WellFormed
<1>4. Directories(p, "parallel") # {} => SlotName(p) # None
  BY <1>1, <1>2, <1>3 DEF SlotName
<1>5. Directories(p, "intercepting") # {} => InterceptTarget(p) # None
  BY <1>1, <1>2, <1>3 DEF InterceptTarget
<1> QED BY <1>4, <1>5 DEF SlotName, InterceptTarget

\* What a segment of a primary page is worth.
LEMMA PrimarySegment ==
  ASSUME WellFormed, NEW p \in DOMAIN Pool, IsPrimary(p), NEW i \in 1 .. Len(Pool[p]), NEW mode
  PROVE  /\ Transparent(Pool[p][i]) => SegmentScore(Pool[p][i], mode) = 2
         /\ ~Transparent(Pool[p][i]) /\ Pool[p][i].kind = "static" => SegmentScore(Pool[p][i], mode) = 100
         /\ ~Transparent(Pool[p][i]) /\ Pool[p][i].kind # "static" => SegmentScore(Pool[p][i], mode) <= 20
<1>1. Pool[p][i].sem # "intercepting"
  <2>1. Directories(p, "intercepting") = {} /\ i \in DOMAIN Pool[p]
    BY WithoutName, PoolTypes DEF IsPrimary
  <2> QED BY <2>1 DEF Directories
<1> QED BY <1>1 DEF SegmentScore

LEMMA ExactScore ==
  ASSUME WellFormed, NEW p \in DOMAIN Pool, IsPrimary(p), NEW mode,
         \A i \in 1 .. Len(Pathname(p)) : Pathname(p)[i].kind = "static"
  PROVE  SumScores(p, mode) >= 100 * Len(Pathname(p))
<1> DEFINE N == Len(Pool[p])
           Q == Pathname(p)
<1>1. PICK F : ShownIs(F, p)
  BY ShownSoFar
<1>2. PICK S : ScoresIs(S, p, mode)
  BY ScoreSoFar
<1>3. N \in Nat /\ Len(Q) \in Nat /\ \A i \in 1 .. N : Pool[p][i] \in Segments
  BY PoolTypes, PathnameType
<1>4. \A n \in 0 .. N : F[n] \in Seq(Segments) /\ S[n] \in Int /\ Begins(F[n], Q) /\ Len(F[n]) \in Nat
  <2>1. \A n \in 0 .. N : F[n] \in Seq(Segments) /\ S[n] \in Int
    BY <1>1, <1>2 DEF ShownIs, ScoresIs
  <2>2. \A n \in 0 .. N : Begins(F[n], Q)
    BY <1>1, ShownBegins
  <2> HIDE DEF N, Q
  <2> QED BY <2>1, <2>2
<1> DEFINE good == {n \in 0 .. N : S[n] >= 100 * Len(F[n])}
<1>5. 0 \in good
  <2>1. Len(F[0]) = 0 /\ S[0] = 0
    BY <1>1, <1>2 DEF ShownIs, ScoresIs
  <2> QED BY <1>3, <2>1
<1>6. ASSUME NEW n \in 1 .. N, n - 1 \in good PROVE n \in good
  <2>1. /\ n - 1 \in 0 .. N /\ n \in 0 .. N /\ S[n - 1] >= 100 * Len(F[n - 1])
        /\ S[n] = S[n - 1] + SegmentScore(Pool[p][n], mode)
    BY <1>2, <1>3, <1>6 DEF ScoresIs
  <2>2. CASE Transparent(Pool[p][n])
    <3>1. F[n] = F[n - 1]
      BY <1>1, <2>2 DEF ShownIs
    <3>2. SegmentScore(Pool[p][n], mode) = 2
      BY <2>2, PrimarySegment
    <3>3. S[n] >= 100 * Len(F[n])
      BY <1>4, <2>1, <3>1, <3>2
    <3> QED BY <2>1, <3>3
  <2>3. CASE ~Transparent(Pool[p][n])
    <3>1. F[n] = Append(F[n - 1], Pool[p][n])
      BY <1>1, <2>3 DEF ShownIs
    <3>2. Len(F[n]) = Len(F[n - 1]) + 1 /\ F[n][Len(F[n])] = Pool[p][n]
      BY <1>3, <1>4, <2>1, <3>1
    <3>3. Pool[p][n].kind = "static"
      <4> DEFINE l == Len(F[n])
      <4>1. l \in 1 .. l /\ l <= Len(Q) /\ l \in Nat \ {0} /\ \A i \in 1 .. l : F[n][i] = Q[i]
        BY <1>4, <2>1, <3>2 DEF Begins
      <4> HIDE DEF l
      <4>2. l \in 1 .. Len(Q) /\ F[n][l] = Q[l]
        BY <1>3, <4>1
      <4> QED BY <3>2, <4>2 DEF l
    <3>4. SegmentScore(Pool[p][n], mode) = 100
      BY <2>3, <3>3, PrimarySegment
    <3>5. S[n] >= 100 * Len(F[n])
      BY <1>4, <2>1, <3>2, <3>4
    <3> QED BY <2>1, <3>5
  <2> QED BY <2>2, <2>3
<1>7. \A n \in 0 .. N : n \in good
  <2> HIDE DEF good
  <2> QED BY ONLY <1>3, <1>5, <1>6, Along
<1>8. S[N] >= 100 * Len(F[N])
  <2>1. N \in 0 .. N
    BY <1>3
  <2> QED BY <1>7, <2>1
<1> QED BY <1>1, <1>2, <1>8 DEF ShownIs, ScoresIs

\* Each segment that is not static costs eighty.
Loose(q) == \E i \in 1 .. Len(q) : q[i].kind # "static"
LEMMA LooseScore ==
  ASSUME WellFormed, NEW p \in DOMAIN Pool, IsPrimary(p), NEW mode, Loose(Pathname(p))
  PROVE  SumScores(p, mode) <= 98 * Len(Pathname(p)) + 2 * Len(Pool[p]) - 80
<1> DEFINE N == Len(Pool[p])
           Q == Pathname(p)
           Cost(q) == IF Loose(q) THEN 80 ELSE 0
<1>1. PICK F : ShownIs(F, p)
  BY ShownSoFar
<1>2. PICK S : ScoresIs(S, p, mode)
  BY ScoreSoFar
<1>3. N \in Nat /\ Len(Q) \in Nat /\ \A i \in 1 .. N : Pool[p][i] \in Segments
  BY PoolTypes, PathnameType
<1>4. \A n \in 0 .. N : F[n] \in Seq(Segments) /\ S[n] \in Int /\ Len(F[n]) \in Nat
  BY <1>1, <1>2 DEF ShownIs, ScoresIs
<1>10. \A q : Cost(q) \in {0, 80} /\ (Loose(q) <=> Cost(q) = 80)
  OBVIOUS
<1> HIDE DEF Cost
<1> DEFINE good == {n \in 0 .. N : S[n] <= 98 * Len(F[n]) + 2 * n - Cost(F[n])}
<1>5. 0 \in good
  <2>1. Len(F[0]) = 0 /\ S[0] = 0 /\ ~Loose(F[0])
    BY <1>1, <1>2 DEF ShownIs, ScoresIs, Loose
  <2> QED BY <1>3, <1>10, <2>1
<1>6. ASSUME NEW n \in 1 .. N, n - 1 \in good PROVE n \in good
  <2>1. /\ n - 1 \in 0 .. N /\ n \in 0 .. N /\ S[n - 1] <= 98 * Len(F[n - 1]) + 2 * (n - 1) - Cost(F[n - 1])
        /\ S[n] = S[n - 1] + SegmentScore(Pool[p][n], mode) /\ n \in Int
    BY <1>2, <1>3, <1>6 DEF ScoresIs
  <2>2. SegmentScore(Pool[p][n], mode) \in Int
    BY SegmentScoreType
  <2>3. CASE Transparent(Pool[p][n])
    <3>1. F[n] = F[n - 1]
      BY <1>1, <2>3 DEF ShownIs
    <3>2. SegmentScore(Pool[p][n], mode) = 2
      BY <2>3, PrimarySegment
    <3>3. /\ S[n - 1] \in Int /\ S[n] \in Int /\ Len(F[n - 1]) \in Nat /\ Cost(F[n - 1]) \in Int
          /\ Len(F[n]) = Len(F[n - 1]) /\ Cost(F[n]) = Cost(F[n - 1]) /\ S[n] = S[n - 1] + 2
      BY <1>4, <1>10, <2>1, <3>1, <3>2
    <3>4. S[n] <= 98 * Len(F[n]) + 2 * n - Cost(F[n])
      <4>1. \A y, l, c, m \in Int : y <= 98 * l + 2 * (m - 1) - c => y + 2 <= 98 * l + 2 * m - c
        OBVIOUS
      <4>2. Len(F[n - 1]) \in Int /\ n \in Int
        BY <2>1, <3>3
      <4>3. S[n - 1] + 2 <= 98 * Len(F[n - 1]) + 2 * n - Cost(F[n - 1])
        BY ONLY <2>1, <3>3, <4>1, <4>2, Zenon
      <4> QED BY ONLY <3>3, <4>3, Zenon
    <3> QED BY <2>1, <3>4
  <2>4. CASE ~Transparent(Pool[p][n])
    <3>1. F[n] = Append(F[n - 1], Pool[p][n])
      BY <1>1, <2>4 DEF ShownIs
    <3>2. Len(F[n]) = Len(F[n - 1]) + 1 /\ F[n][Len(F[n])] = Pool[p][n]
          /\ \A i \in 1 .. Len(F[n - 1]) : F[n][i] = F[n - 1][i]
      BY <1>3, <1>4, <2>1, <3>1
    <3>3. Loose(F[n]) => Loose(F[n - 1]) \/ Pool[p][n].kind # "static"
      <4>1. \A i \in 1 .. Len(F[n]) : i = Len(F[n]) \/ i \in 1 .. Len(F[n - 1])
        BY <1>4, <2>1, <3>2
      <4> QED BY <3>2, <4>1 DEF Loose
    <3>4. S[n] <= 98 * Len(F[n]) + 2 * n - Cost(F[n])
      <4>0. /\ S[n - 1] \in Int /\ S[n] \in Int /\ Len(F[n - 1]) \in Nat
            /\ Cost(F[n - 1]) \in {0, 80} /\ Cost(F[n]) \in {0, 80} /\ Len(F[n]) = Len(F[n - 1]) + 1
        BY <1>4, <1>10, <2>1, <3>2
      <4>1. CASE Pool[p][n].kind = "static"
        <5>1. SegmentScore(Pool[p][n], mode) = 100 /\ Cost(F[n]) <= Cost(F[n - 1])
          BY <1>10, <2>4, <3>3, <4>1, PrimarySegment
        <5>2. \A y, l, c, d, m \in Int :
                y <= 98 * l + 2 * (m - 1) - c /\ d <= c => y + 100 <= 98 * (l + 1) + 2 * m - d
          OBVIOUS
        <5>3. Cost(F[n - 1]) \in Int /\ Cost(F[n]) \in Int
          BY <4>0
        <5>4. S[n - 1] \in Int /\ Len(F[n - 1]) \in Int /\ n \in Int /\ Cost(F[n]) <= Cost(F[n - 1])
          BY <2>1, <4>0, <5>1
        <5>5. S[n - 1] + 100 <= 98 * (Len(F[n - 1]) + 1) + 2 * n - Cost(F[n])
          BY ONLY <2>1, <5>2, <5>3, <5>4, Zenon
        <5>6. S[n] = S[n - 1] + 100
          BY <2>1, <5>1
        <5> QED BY ONLY <4>0, <5>5, <5>6, Zenon
      <4>2. CASE Pool[p][n].kind # "static"
        <5>1. SegmentScore(Pool[p][n], mode) <= 20
          BY <2>4, <4>2, PrimarySegment
        <5>2. \A y, l, c, d, m, x \in Int :
                y <= 98 * l + 2 * (m - 1) - c /\ d <= 80 /\ c >= 0 /\ x <= 20 => y + x <= 98 * (l + 1) + 2 * m - d
          OBVIOUS
        <5>3. Cost(F[n - 1]) \in Int /\ Cost(F[n]) \in Int /\ Cost(F[n - 1]) >= 0 /\ Cost(F[n]) <= 80
          BY <4>0
        <5>4. S[n - 1] \in Int /\ Len(F[n - 1]) \in Int /\ n \in Int
          BY <2>1, <4>0
        <5>5. S[n - 1] + SegmentScore(Pool[p][n], mode) <= 98 * (Len(F[n - 1]) + 1) + 2 * n - Cost(F[n])
          BY ONLY <2>1, <2>2, <5>1, <5>2, <5>3, <5>4, Zenon
        <5> QED BY ONLY <2>1, <4>0, <5>5, Zenon
      <4> QED BY <4>1, <4>2
    <3> QED BY <2>1, <3>4
  <2> QED BY <2>3, <2>4
<1>7. \A n \in 0 .. N : n \in good
  <2> HIDE DEF good
  <2> QED BY ONLY <1>3, <1>5, <1>6, Along
<1>8. S[N] <= 98 * Len(F[N]) + 2 * N - Cost(F[N])
  <2>1. N \in 0 .. N
    BY <1>3
  <2> QED BY <1>7, <2>1
<1>9. F[N] = Q /\ S[N] = SumScores(p, mode)
  BY <1>1, <1>2 DEF ShownIs, ScoresIs
<1> QED BY <1>8, <1>9, <1>10

\* The static page is ahead of every page with a loose segment that has few groups.
LEMMA ExactWins == WellFormed /\ Inv /\ PathIsSequence => ExactPageWins
<1> DEFINE Exact(p) == IsPrimary(p) /\ \A i \in DOMAIN Pathname(p) : Pathname(p)[i].kind = "static"
           Empty(p) == \E i \in DOMAIN Pathname(p) : Pathname(p)[i].kind = "optional" /\ Len(path) < i
           a == answer.page
           Q == Matching(pages, path)
<1> SUFFICES ASSUME WellFormed, Inv, PathIsSequence, Matched, ~intercept,
                    NEW e \in Range(pages), Exact(e), Covers(Pathname(e), path), ~Exact(a), ~Empty(a),
                    ~ManyGroups(a)
             PROVE  FALSE
  BY DEF ExactPageWins
<1>1. /\ a \in Q /\ Best(a, Q, intercept) /\ Q \subseteq Range(pages) /\ Range(pages) \subseteq DOMAIN Pool
      /\ \A q \in Q : MatchSegments(Pool[q], path)
  BY AnswerIs, MatchedIs DEF Matching
<1>2. e \in DOMAIN Pool /\ e \in Q
  BY <1>1, PageCovers DEF Matching, PathIsSequence
<1>3. a \in DOMAIN Pool /\ Covers(Pathname(a), path)
  BY <1>1, PageCovers DEF PathIsSequence
<1>4. IsPrimary(a) /\ (e = a \/ Ahead(a, e, intercept))
  <2>1. PICK k \in 1 .. 4 :
          /\ Wanted(k, a, intercept)
          /\ \A q \in Q : \A j \in 1 .. (k - 1) : ~Wanted(j, q, intercept)
          /\ \A q \in Q : Wanted(k, q, intercept) => q = a \/ Ahead(a, q, intercept)
    BY <1>1 DEF Best
  <2>2. Wanted(1, e, intercept)
    BY DEF Wanted, IsPrimary
  <2>3. k = 1
    <3>1. k # 1 => 1 \in 1 .. (k - 1)
      OBVIOUS
    <3> QED BY <1>2, <2>1, <2>2, <3>1
  <2> QED BY <1>2, <2>1, <2>2, <2>3 DEF Wanted, IsPrimary
<1> DEFINE A == Pathname(a)
           E == Pathname(e)
<1>5. /\ A \in Seq(Segments) /\ E \in Seq(Segments) /\ path \in Seq(Range(path))
      /\ Len(A) \in Nat /\ Len(E) \in Nat /\ Len(path) \in Nat
      /\ DOMAIN A = 1 .. Len(A) /\ DOMAIN E = 1 .. Len(E)
      /\ \A i \in 1 .. Len(A) : A[i].kind \in Kinds
      /\ \A i \in 1 .. Len(E) : E[i].kind = "static"
  <2>1. A \in Seq(Segments) /\ E \in Seq(Segments) /\ \A i \in 1 .. Len(A) : A[i].kind \in Kinds
    BY <1>2, <1>3, PathnameType, PoolTypes
  <2>2. Len(A) \in Nat /\ Len(E) \in Nat /\ DOMAIN A = 1 .. Len(A) /\ DOMAIN E = 1 .. Len(E)
    BY <2>1
  <2>3. path \in Seq(Range(path)) /\ Len(path) \in Nat
    BY DEF PathIsSequence
  <2> QED BY <2>1, <2>2, <2>3
<1>6. Loose(A)
  BY <1>4, <1>5 DEF Loose
<1>7. \A i \in 1 .. Len(A) : A[i].kind = "optional" => i <= Len(path)
  BY <1>5
<1>8. SumScores(e, intercept) >= 100 * Len(E)
  BY <1>2, <1>5, ExactScore
<1>9. SumScores(a, intercept) <= 98 * Len(A) + 2 * Len(Pool[a]) - 80
  BY <1>3, <1>4, <1>6, LooseScore
<1>10. Len(Pool[a]) < Len(A) + 40 /\ Len(Pool[a]) \in Nat
  <2>1. Len(Pool[a]) \in Nat /\ Len(A) \in Nat
    BY <1>3, <1>5, PoolTypes
  <2> QED BY <2>1 DEF ManyGroups
<1>11. Covers(A, path) /\ Covers(E, path)
  BY <1>3
<1> HIDE DEF A, E
<1>12. Len(A) <= Len(path)
  BY ONLY <1>5, <1>7, <1>11, AtLeastOneEach
<1>13. Len(E) = Len(path)
  <2>1. \A i \in 1 .. Len(E) : E[i].kind \in {"static", "dynamic"}
    BY <1>5
  <2> QED BY ONLY <1>5, <1>11, <2>1, StaticCovers
<1>14. /\ SumScores(a, intercept) \in Int /\ SumScores(e, intercept) \in Int
       /\ Score(a, intercept) = SumScores(a, intercept) + 15
       /\ Score(e, intercept) = SumScores(e, intercept) + 15
  <2>1. SumScores(a, intercept) \in Int /\ SumScores(e, intercept) \in Int
    BY <1>2, <1>3, ScoreType
  <2>2. ASSUME NEW p, IsPrimary(p), SumScores(p, intercept) \in Int
        PROVE  Score(p, intercept) = SumScores(p, intercept) + 15
    BY <2>2 DEF Score, IsPrimary
  <2> QED BY <1>4, <2>1, <2>2
<1>15. Score(e, intercept) > Score(a, intercept)
  <2>1. Len(A) \in Nat /\ Len(E) \in Nat /\ Len(path) \in Nat
    BY <1>5
  <2>2. \A x, y, l, c, m \in Int :
          x >= 100 * c /\ y <= 98 * l + 2 * m - 80 /\ m < l + 40 /\ l <= c => x > y
    OBVIOUS
  <2>3. SumScores(e, intercept) > SumScores(a, intercept)
    <3>1. /\ SumScores(e, intercept) \in Int /\ SumScores(a, intercept) \in Int
          /\ Len(A) \in Int /\ Len(E) \in Int /\ Len(Pool[a]) \in Int /\ Len(A) <= Len(E)
      BY ONLY <1>10, <1>12, <1>13, <1>14, <2>1
    <3> QED BY ONLY <1>8, <1>9, <1>10, <2>2, <3>1, Zenon
  <2> QED BY ONLY <1>14, <2>3
<1>16. Ahead(e, a, intercept)
  BY <1>15 DEF Ahead
<1> QED BY <1>2, <1>3, <1>4, <1>16, AheadOrders

-----------------------------------------------------------------------------
(* The match of a page's flight.                                           *)
\* An interception gains the same for every page that is one.
LEMMA ScoreShift ==
  ASSUME WellFormed, NEW p \in DOMAIN Pool, OneInterception(p), NEW on, on, NEW off, ~off
  PROVE  /\ Score(p, on) \in Int /\ Score(p, off) \in Int
         /\ InterceptTarget(p) = None => Score(p, on) = Score(p, off)
         /\ InterceptTarget(p) # None => Score(p, on) = Score(p, off) + 50
<1> DEFINE N == Len(Pool[p])
           D == Directories(p, "intercepting")
           Gain(n) == IF D \cap (1 .. n) = {} THEN 0 ELSE 35
<1>1. PICK S : ScoresIs(S, p, on)
  BY ScoreSoFar
<1>2. PICK R : ScoresIs(R, p, off)
  BY ScoreSoFar
<1>3. N \in Nat /\ DOMAIN Pool[p] = 1 .. N
  BY PoolTypes
<1>4. D \subseteq 1 .. N /\ \A i, j \in D : i = j
  BY <1>3 DEF Directories, OneInterception
<1>5. \A n \in 1 .. N : SegmentScore(Pool[p][n], on) = SegmentScore(Pool[p][n], off) + (IF n \in D THEN 35 ELSE 0)
  BY <1>3 DEF SegmentScore, Transparent, Directories
<1>6. \A n \in 0 .. N : S[n] \in Int /\ R[n] \in Int
  BY <1>1, <1>2 DEF ScoresIs
<1> DEFINE good == {n \in 0 .. N : S[n] = R[n] + Gain(n)}
<1>7. 0 \in good
  BY <1>1, <1>2, <1>3 DEF ScoresIs
<1>8. ASSUME NEW n \in 1 .. N, n - 1 \in good PROVE n \in good
  <2>1. n - 1 \in 0 .. N /\ n \in 0 .. N
    BY <1>3
  <2>2. S[n - 1] = R[n - 1] + Gain(n - 1)
    BY <1>8
  <2>3. /\ S[n] = S[n - 1] + SegmentScore(Pool[p][n], on)
        /\ R[n] = R[n - 1] + SegmentScore(Pool[p][n], off)
    BY <1>1, <1>2 DEF ScoresIs
  <2>4. Gain(n) = Gain(n - 1) + (IF n \in D THEN 35 ELSE 0)
    <3>1. 1 .. n = (1 .. (n - 1)) \cup {n} /\ n \notin 1 .. (n - 1)
      OBVIOUS
    <3>2. CASE n \in D
      <4>1. D \cap (1 .. (n - 1)) = {} /\ D \cap (1 .. n) # {}
        BY <1>4, <3>1, <3>2
      <4> QED BY <3>2, <4>1
    <3>3. CASE n \notin D
      <4>1. D \cap (1 .. (n - 1)) = D \cap (1 .. n)
        BY <3>1, <3>3
      <4> QED BY <3>3, <4>1
    <3> QED BY <3>2, <3>3
  <2>5. Gain(n - 1) \in Int
    OBVIOUS
  <2>6. SegmentScore(Pool[p][n], off) \in Int /\ SegmentScore(Pool[p][n], on) \in Int
    BY SegmentScoreType
  <2>7. SegmentScore(Pool[p][n], on) = SegmentScore(Pool[p][n], off) + (IF n \in D THEN 35 ELSE 0)
    BY <1>5
  <2>8. S[n] = R[n] + Gain(n)
    <3>1. R[n - 1] \in Int /\ S[n - 1] \in Int
      BY <1>6, <2>1
    <3> HIDE DEF Gain, D
    <3> QED BY ONLY <2>2, <2>3, <2>4, <2>5, <2>6, <2>7, <3>1
  <2> QED BY <2>1, <2>8
<1>9. S[N] = R[N] + Gain(N)
  <2> HIDE DEF good
  <2>1. \A n \in 0 .. N : n \in good
    BY ONLY <1>3, <1>7, <1>8, Along
  <2>2. N \in 0 .. N
    BY <1>3
  <2> QED BY <2>1, <2>2 DEF good
<1>10. D \cap (1 .. N) = D /\ (D = {} <=> InterceptTarget(p) = None)
  BY <1>4, WithoutName
<1>11. SumScores(p, on) = SumScores(p, off) + (IF InterceptTarget(p) = None THEN 0 ELSE 35)
  BY <1>1, <1>2, <1>9, <1>10 DEF ScoresIs
<1>12. SumScores(p, on) \in Int /\ SumScores(p, off) \in Int
  BY ScoreType
<1>13. /\ Score(p, on) = SumScores(p, on) + (IF SlotName(p) = None THEN 10 ELSE 0)
                           + (IF InterceptTarget(p) = None THEN 5 ELSE 15)
       /\ Score(p, off) = SumScores(p, off) + (IF SlotName(p) = None THEN 10 ELSE 0)
                           + (IF InterceptTarget(p) = None THEN 5 ELSE 0)
  BY DEF Score
<1> QED BY ONLY <1>11, <1>12, <1>13

\* What a difference of scores makes of the order.
LEMMA AheadByScore ==
  ASSUME NEW m, NEW q, NEW a, NEW b, Score(m, a) \in Int, Score(q, a) \in Int, Ahead(m, q, a)
  PROVE  /\ Score(m, a) >= Score(q, a)
         /\ Score(m, b) > Score(q, b) => Ahead(m, q, b)
         /\ (Score(m, a) > Score(q, a) => Score(m, b) > Score(q, b))
              /\ (Score(m, a) = Score(q, a) => Score(m, b) = Score(q, b)) => Ahead(m, q, b)
<1>1. Score(m, b) > Score(q, b) => Ahead(m, q, b)
  BY DEF Ahead
<1>2. Score(m, a) >= Score(q, a)
  BY DEF Ahead
<1>3. CASE Score(m, a) > Score(q, a)
  BY <1>1, <1>2, <1>3
<1>4. CASE ~(Score(m, a) > Score(q, a))
  <2>1. Score(m, a) = Score(q, a)
    BY <1>2, <1>4
  <2>2. Score(m, b) = Score(q, b) => Ahead(m, q, b)
    BY <1>4, <2>1 DEF Ahead
  <2> QED BY <1>1, <1>2, <2>1, <2>2
<1> QED BY <1>3, <1>4

\* A page that is ahead of another stays so where its own kind of request is made.
LEMMA StaysAhead ==
  ASSUME WellFormed, NEW mode \in BOOLEAN, NEW m \in DOMAIN Pool, NEW q \in DOMAIN Pool,
         OneInterception(m), OneInterception(q),
         NEW own \in BOOLEAN, own <=> InterceptTarget(m) # None, Ahead(m, q, mode)
  PROVE  Ahead(m, q, own)
<1>1. CASE mode <=> own
  <2>1. mode = own
    BY <1>1
  <2> QED BY <2>1
<1>2. CASE mode /\ ~own
  <2>1. \A p \in {m, q} :
          /\ Score(p, mode) \in Int /\ Score(p, own) \in Int
          /\ InterceptTarget(p) = None => Score(p, mode) = Score(p, own)
          /\ InterceptTarget(p) # None => Score(p, mode) = Score(p, own) + 50
    <3>1. \A p \in {m, q} : p \in DOMAIN Pool /\ OneInterception(p)
      OBVIOUS
    <3> QED BY <1>2, <3>1, ScoreShift
  <2>2. InterceptTarget(m) = None /\ Score(m, mode) >= Score(q, mode)
    BY <1>2, <2>1, AheadByScore
  <2>3. CASE InterceptTarget(q) = None
    BY <2>1, <2>2, <2>3, AheadByScore
  <2>4. CASE InterceptTarget(q) # None
    <3>1. Score(m, own) > Score(q, own)
      BY <2>1, <2>2, <2>4
    <3> QED BY <2>1, <3>1, AheadByScore
  <2> QED BY <2>3, <2>4
<1>3. CASE own /\ ~mode
  <2>1. \A p \in {m, q} :
          /\ Score(p, mode) \in Int /\ Score(p, own) \in Int
          /\ InterceptTarget(p) = None => Score(p, own) = Score(p, mode)
          /\ InterceptTarget(p) # None => Score(p, own) = Score(p, mode) + 50
    <3>1. \A p \in {m, q} : p \in DOMAIN Pool /\ OneInterception(p)
      OBVIOUS
    <3> QED BY <1>3, <3>1, ScoreShift
  <2>2. InterceptTarget(m) # None /\ Score(m, mode) >= Score(q, mode)
    BY <1>3, <2>1, AheadByScore
  <2>3. CASE InterceptTarget(q) # None
    <3>1. /\ Score(m, mode) > Score(q, mode) => Score(m, own) > Score(q, own)
          /\ Score(m, mode) = Score(q, mode) => Score(m, own) = Score(q, own)
      BY <2>1, <2>2, <2>3
    <3> QED BY <2>1, <3>1, AheadByScore
  <2>4. CASE InterceptTarget(q) = None
    <3>1. Score(m, own) > Score(q, own)
      BY <2>1, <2>2, <2>4
    <3> QED BY <2>1, <3>1, AheadByScore
  <2> QED BY <2>3, <2>4
<1> QED BY <1>1, <1>2, <1>3

\* The best page of a request is the best of the request its own href makes.
LEMMA StaysBest ==
  ASSUME WellFormed, NEW mode \in BOOLEAN, NEW Q \in SUBSET DOMAIN Pool, NEW m,
         \A q \in Q : OneInterception(q), Best(m, Q, mode)
  PROVE  Best(m, Q, InterceptTarget(m) # None)
<1> DEFINE own == InterceptTarget(m) # None
<1>0. own \in BOOLEAN
  OBVIOUS
<1>1. PICK k \in 1 .. 4 :
        /\ Wanted(k, m, mode)
        /\ \A q \in Q : \A j \in 1 .. (k - 1) : ~Wanted(j, q, mode)
        /\ \A q \in Q : Wanted(k, q, mode) => q = m \/ Ahead(m, q, mode)
  BY DEF Best
<1>2. m \in Q /\ \A q \in Q : q \in DOMAIN Pool
  BY DEF Best
<1>3. \A q \in Q : Wanted(k, q, mode) => q = m \/ Ahead(m, q, own)
  <2> SUFFICES ASSUME NEW q \in Q, Wanted(k, q, mode), q # m PROVE Ahead(m, q, own)
    OBVIOUS
  <2>1. /\ Ahead(m, q, mode) /\ m \in DOMAIN Pool /\ q \in DOMAIN Pool
        /\ OneInterception(m) /\ OneInterception(q)
    BY <1>1, <1>2
  <2>2. own <=> InterceptTarget(m) # None
    OBVIOUS
  <2> HIDE DEF own
  <2> QED BY ONLY WellFormed, mode \in BOOLEAN, <1>0, <2>1, <2>2, StaysAhead
<1>4. CASE mode = own
  BY <1>4
<1>5. CASE mode # own /\ SlotName(m) = None
  <2>1. k \in {2, 3}
    <3>1. Wanted(3, m, mode)
      BY <1>5 DEF Wanted
    <3>2. k # 4
      <4>1. 3 \in 1 .. (4 - 1)
        OBVIOUS
      <4> QED BY <1>1, <1>2, <3>1, <4>1
    <3>3. k # 1
      BY <1>1, <1>5 DEF Wanted
    <3> QED BY <3>2, <3>3
  <2>2. ASSUME NEW q \in Q, Wanted(1, q, own) PROVE Wanted(k, q, mode)
    <3>1. SlotName(q) = None /\ ((InterceptTarget(q) # None) <=> own)
      BY <2>2 DEF Wanted
    <3>2. CASE k = 2
      <4>1. IsPrimary(m)
        BY <1>1, <3>2 DEF Wanted
      <4>2. IsPrimary(q)
        BY <3>1, <4>1 DEF IsPrimary
      <4> QED BY <3>2, <4>2 DEF Wanted
    <3>3. CASE k = 3
      BY <3>1, <3>3 DEF Wanted
    <3> QED BY <2>1, <3>2, <3>3
  <2>3. Wanted(1, m, own)
    BY <1>5 DEF Wanted
  <2>4. \A q \in Q : \A j \in 1 .. (1 - 1) : ~Wanted(j, q, own)
    OBVIOUS
  <2>5. \A q \in Q : Wanted(1, q, own) => q = m \/ Ahead(m, q, own)
    BY <1>3, <2>2
  <2>6. 1 \in 1 .. 4
    OBVIOUS
  <2> HIDE DEF own
  <2>7. Best(m, Q, own)
    BY ONLY <1>2, <2>3, <2>4, <2>5, <2>6 DEF Best
  <2> QED BY <2>7 DEF own
<1>6. CASE mode # own /\ SlotName(m) # None
  <2>1. k = 4
    BY <1>1, <1>6 DEF Wanted, IsPrimary
  <2>2. \A q \in Q : SlotName(q) # None
    <3>1. 3 \in 1 .. (4 - 1)
      OBVIOUS
    <3>2. \A q \in Q : ~Wanted(3, q, mode)
      BY <1>1, <2>1, <3>1
    <3> QED BY <3>2 DEF Wanted
  <2>3. Wanted(4, m, own)
    BY DEF Wanted
  <2>4. \A q \in Q : \A j \in 1 .. (4 - 1) : ~Wanted(j, q, own)
    BY <2>2 DEF Wanted, IsPrimary
  <2>5. \A q \in Q : Wanted(4, q, own) => q = m \/ Ahead(m, q, own)
    BY <1>3, <2>1 DEF Wanted
  <2>6. 4 \in 1 .. 4
    OBVIOUS
  <2> HIDE DEF own
  <2>7. Best(m, Q, own)
    BY ONLY <1>2, <2>3, <2>4, <2>5, <2>6 DEF Best
  <2> QED BY <2>7 DEF own
<1> QED BY <1>4, <1>5, <1>6

\* Asking for a page as it was answered answers it again.
LEMMA AskedAgain ==
  ASSUME WellFormed, NEW N \in Nat, NEW ps \in [1 .. N -> DOMAIN Pool],
         \A p \in Range(ps) : OneInterception(p), NEW t, NEW mode \in BOOLEAN, Match(ps, t, mode).is = "matched"
  PROVE  Match(ps, t, InterceptTarget(Match(ps, t, mode).page) # None) = Match(ps, t, mode)
<1> DEFINE Q == Matching(ps, t)
           a == Match(ps, t, mode)
           own == InterceptTarget(a.page) # None
<1>1. IsMatch(a, ps, Q, mode) /\ IsMatch(Match(ps, t, own), ps, Q, own)
  BY MatchIs
<1>2. Q \in SUBSET DOMAIN Pool /\ \A q \in Q : OneInterception(q)
  BY DEF Matching, Range
<1> HIDE DEF Q
<1>3. Q # {}
  BY <1>1 DEF IsMatch, NoAnswer
<1>4. PICK m \in Q : Best(m, Q, mode) /\ a = [is |-> "matched", page |-> m, slots |-> Beside(ps, Q, m)]
  BY <1>1, <1>3 DEF IsMatch
<1>5. a.page = m
  BY <1>4
<1>6. Best(m, Q, own)
  BY <1>2, <1>4, <1>5, StaysBest
<1> HIDE DEF own, a
<1>7. PICK n \in Q : /\ Best(n, Q, own)
                     /\ Match(ps, t, own) = [is |-> "matched", page |-> n, slots |-> Beside(ps, Q, n)]
  BY <1>1, <1>3 DEF IsMatch
<1>8. n = m
  BY <1>2, <1>6, <1>7, BestIsOne
<1> QED BY <1>4, <1>7, <1>8 DEF own, a
=============================================================================
