----------------------------- MODULE Induction -----------------------------
(***************************************************************************)
(* Induction without operators as parameters: a property is a set, of      *)
(* numbers or of finite sets.  Both principles come from the theorem that  *)
(* the finite subsets of a set are well-founded under strict inclusion.    *)
(* From them: functions that satisfy a recursive equation exist, and what  *)
(* the powers of two of Sizes are.                                         *)
(***************************************************************************)
EXTENDS Sizes, FiniteSets, FiniteSetTheorems, SequenceTheorems, WellFoundedInduction, TLAPS

\* A set of numbers that is not empty has a least one.
LEMMA LeastNumber ==
  ASSUME NEW T, T \subseteq Nat, T # {}
  PROVE  \E x \in T : \A y \in T : x <= y
<1> DEFINE U == {0..n : n \in T}
<1>1. U \subseteq FiniteSubsetsOf(Nat) /\ U # {}
  <2> SUFFICES ASSUME NEW n \in T PROVE 0..n \subseteq Nat /\ IsFiniteSet(0..n)
    BY DEF FiniteSubsetsOf
  <2> QED
    BY FS_Interval
<1> HIDE DEF U
<1>2. PICK s \in U : \A t \in U : ~(<<t, s>> \in StrictSubsetOrdering(Nat))
  BY <1>1, WFMin, FS_StrictSubsetOrderingWellFounded, Zenon
<1> USE DEF U
<1>3. PICK x \in T : s = 0..x
  OBVIOUS
<1>4. ASSUME NEW y \in T, y < x PROVE FALSE
  <2>1. 0..y \subseteq 0..x /\ x \notin 0..y /\ x \in 0..x
    BY <1>4
  <2>2. 0..y \in SUBSET Nat /\ 0..x \in SUBSET Nat /\ 0..y # 0..x
    BY <2>1
  <2>3. ~(<<0..y, 0..x>> \in StrictSubsetOrdering(Nat))
    BY <1>2, <1>3
  <2> QED
    BY <2>1, <2>2, <2>3 DEF StrictSubsetOrdering
<1> QED
  BY <1>4

\* First() of numbers is the least of them.
LEMMA FirstIsLeast ==
  ASSUME NEW S, S \subseteq Nat, S # {}
  PROVE  First(S) \in S /\ \A o \in S : First(S) <= o
BY LeastNumber DEF First

\* A set that holds 0 and with each number the next one holds every number.
LEMMA NumberInduction ==
  ASSUME NEW S, 0 \in S, \A n \in Nat : n \in S => n + 1 \in S
  PROVE  Nat \subseteq S
<1> DEFINE T == {n \in Nat : n \notin S}
<1> SUFFICES ASSUME T # {} PROVE FALSE
  OBVIOUS
<1>1. T \subseteq Nat
  OBVIOUS
<1> HIDE DEF T
<1>2. PICK x \in T : \A y \in T : x <= y
  BY <1>1, LeastNumber
<1> USE DEF T
<1>3. x # 0 /\ x \in Nat /\ x - 1 \in Nat /\ x - 1 \notin T
  BY <1>2
<1>4. x - 1 \in S /\ (x - 1) + 1 = x
  BY <1>3
<1> QED
  BY <1>3, <1>4

\* The same for sets that only need to hold the numbers up to a bound.
LEMMA BoundedInduction ==
  ASSUME NEW S, NEW m \in Nat, 0 \in S, \A n \in Nat : n < m /\ n \in S => n + 1 \in S
  PROVE  0..m \subseteq S
<1> DEFINE T == {n \in Nat : n <= m => n \in S}
<1>1. 0 \in T /\ \A n \in Nat : n \in T => n + 1 \in T
  OBVIOUS
<1> HIDE DEF T
<1>2. Nat \subseteq T
  BY <1>1, NumberInduction
<1> QED
  BY <1>2 DEF T

\* A set of subsets of a finite set that is not empty has a smallest one.
LEMMA SmallestSet ==
  ASSUME NEW D, IsFiniteSet(D), NEW U \in SUBSET SUBSET D, U # {}
  PROVE  \E s \in U : \A t \in U : t \subseteq s => t = s
<1>1. U \subseteq FiniteSubsetsOf(D)
  BY FS_FiniteSubsetsOfFinite
<1>2. PICK s \in U : \A t \in U : ~(<<t, s>> \in StrictSubsetOrdering(D))
  BY <1>1, WFMin, FS_StrictSubsetOrderingWellFounded, Zenon
<1> QED
  BY <1>2 DEF StrictSubsetOrdering

\* a value, what to do with a value, and the sequence of values that doing it
\* over and over leads to
SelfMaps(X) == [X -> X]

Iterates(X, x, step, f) ==
    f \in [Nat -> X] /\ f[0] = x /\ \A n \in Nat : f[n + 1] = step[f[n]]

\* There is such a sequence.
LEMMA NumberRecursion ==
  ASSUME NEW X, NEW x, NEW step, x \in X, step \in SelfMaps(X)
  PROVE  \E f : Iterates(X, x, step, f)
<1> USE DEF SelfMaps, Iterates
<1> DEFINE Walk(p, n) ==
      p \in [0..n -> X] /\ p[0] = x /\ \A i \in Nat : i < n => p[i + 1] = step[p[i]]
<1>1. \A n \in Nat : \E p : Walk(p, n)
  <2> DEFINE S == {n \in Nat : \E p : Walk(p, n)}
  <2>1. Walk([i \in 0..0 |-> x], 0)
    OBVIOUS
  <2>2. ASSUME NEW n \in Nat, n \in S PROVE n + 1 \in S
    <3>1. PICK p : Walk(p, n)
      BY <2>2
    <3> DEFINE q == [i \in 0..n + 1 |-> IF i = n + 1 THEN step[p[n]] ELSE p[i]]
    <3>2. Walk(q, n + 1)
      BY <3>1
    <3> HIDE DEF q, Walk
    <3> QED
      BY <3>2
  <2>3. 0 \in S
    BY <2>1
  <2> HIDE DEF S
  <2>4. Nat \subseteq S
    BY <2>2, <2>3, NumberInduction
  <2> QED
    BY <2>4 DEF S
<1>2. ASSUME NEW m \in Nat, NEW n \in Nat, NEW p, NEW q, Walk(p, m), Walk(q, n), m <= n
      PROVE  p[m] = q[m]
  <2> DEFINE S == {i \in Nat : i <= m => p[i] = q[i]}
  <2>1. 0 \in S /\ \A i \in Nat : i \in S => i + 1 \in S
    BY <1>2
  <2> HIDE DEF S
  <2>2. Nat \subseteq S
    BY <2>1, NumberInduction
  <2> QED
    BY <2>2 DEF S
<1> DEFINE walk(n) == CHOOSE p : Walk(p, n)
           f == [n \in Nat |-> walk(n)[n]]
<1>3. \A n \in Nat : Walk(walk(n), n)
  BY <1>1
<1> HIDE DEF walk
<1>4. f \in [Nat -> X] /\ f[0] = x
  BY <1>3
<1>5. ASSUME NEW n \in Nat PROVE f[n + 1] = step[f[n]]
  <2>1. Walk(walk(n), n) /\ Walk(walk(n + 1), n + 1) /\ n + 1 \in Nat /\ n <= n + 1
    BY <1>3
  <2>2. walk(n)[n] = walk(n + 1)[n]
    <3> HIDE DEF Walk
    <3> QED
      BY <1>2, <2>1
  <2> QED
    BY <1>3, <2>2
<1> QED
  BY <1>4, <1>5

\* A walk over the places D that stops at those of "stops", and what to make of
\* the value of the place a step leads to; the measure goes down with each step.
Measured(D, X, stops, ends, succ, makes, measure) ==
    /\ ends \in [D -> X] /\ succ \in [D -> D]
    /\ makes \in [D -> [X -> X]] /\ measure \in [D -> Nat]
    /\ \A d \in D : d \notin stops => measure[succ[d]] < measure[d]

Recurses(D, X, stops, ends, succ, makes, g) ==
    /\ g \in [D -> X]
    /\ \A d \in D : g[d] = IF d \in stops THEN ends[d] ELSE makes[d][g[succ[d]]]

\* There is a value for every place from which the walk may start.
LEMMA MeasuredRecursion ==
  ASSUME NEW D, NEW X, NEW stops, NEW ends, NEW succ, NEW makes, NEW measure,
         Measured(D, X, stops, ends, succ, makes, measure)
  PROVE  \E g : Recurses(D, X, stops, ends, succ, makes, g)
<1> USE DEF Measured, Recurses
<1> DEFINE Y == [D -> X]
           step == [f \in Y |-> [d \in D |->
               IF d \in stops THEN ends[d] ELSE makes[d][f[succ[d]]]]]
<1>1. ends \in Y /\ step \in [Y -> Y]
  OBVIOUS
<1>2. PICK F \in [Nat -> Y] : F[0] = ends /\ \A n \in Nat : F[n + 1] = step[F[n]]
  <2>1. ends \in Y /\ step \in SelfMaps(Y)
    BY <1>1 DEF SelfMaps
  <2> HIDE DEF Y, step
  <2>2. \E f : Iterates(Y, ends, step, f)
    BY <2>1, NumberRecursion
  <2> QED
    BY <2>2 DEF Iterates
<1>3. ASSUME NEW n \in Nat
      PROVE  F[n] \in [D -> X] /\ \A d \in D :
         F[n + 1][d] = IF d \in stops THEN ends[d] ELSE makes[d][F[n][succ[d]]]
  <2>1. F[n] \in Y /\ F[n + 1] = step[F[n]]
    BY <1>2
  <2>2. step[F[n]] = [d \in D |-> IF d \in stops THEN ends[d] ELSE makes[d][F[n][succ[d]]]]
    BY <2>1
  <2> QED
    BY <2>1, <2>2
<1> HIDE DEF Y, step
<1> DEFINE S == {n \in Nat : \A d \in D : measure[d] <= n => F[n + 2][d] = F[n + 1][d]}
<1>4. 0 \in S
  <2> SUFFICES ASSUME NEW d \in D, measure[d] <= 0 PROVE F[0 + 2][d] = F[0 + 1][d]
    OBVIOUS
  <2>1. d \in stops
    OBVIOUS
  <2>2. F[0 + 1][d] = ends[d] /\ F[1 + 1][d] = ends[d]
    BY <1>3, <2>1
  <2> QED
    BY <2>2
<1>5. ASSUME NEW n \in Nat, n \in S PROVE n + 1 \in S
  <2> SUFFICES ASSUME NEW d \in D, measure[d] <= n + 1
               PROVE  F[(n + 1) + 2][d] = F[(n + 1) + 1][d]
    OBVIOUS
  <2>1. /\ F[(n + 2) + 1][d] = IF d \in stops THEN ends[d] ELSE makes[d][F[n + 2][succ[d]]]
        /\ F[(n + 1) + 1][d] = IF d \in stops THEN ends[d] ELSE makes[d][F[n + 1][succ[d]]]
    BY <1>3, n + 1 \in Nat, n + 2 \in Nat
  <2>2. d \notin stops => F[n + 2][succ[d]] = F[n + 1][succ[d]]
    BY <1>5
  <2> QED
    BY <2>1, <2>2, (n + 2) + 1 = (n + 1) + 2
<1> HIDE DEF S
<1>6. Nat \subseteq S
  BY <1>4, <1>5, NumberInduction
<1>7. \A n \in Nat : \A d \in D : measure[d] <= n => F[n + 2][d] = F[n + 1][d]
  BY <1>6 DEF S
<1>8. ASSUME NEW d \in D, NEW m \in Nat, m >= measure[d]
      PROVE  F[m + 1][d] = F[measure[d] + 1][d]
  <2> DEFINE T == {k \in Nat : F[(measure[d] + k) + 1][d] = F[measure[d] + 1][d]}
  <2>1. 0 \in T
    OBVIOUS
  <2>2. ASSUME NEW k \in Nat, k \in T PROVE k + 1 \in T
    <3>1. F[(measure[d] + k) + 2][d] = F[(measure[d] + k) + 1][d]
      BY <1>7
    <3> QED
      BY <2>2, <3>1, (measure[d] + k) + 2 = (measure[d] + (k + 1)) + 1
  <2> HIDE DEF T
  <2>3. m - measure[d] \in T
    BY <1>8, <2>1, <2>2, NumberInduction, m - measure[d] \in Nat
  <2> QED
    BY <2>3, measure[d] + (m - measure[d]) = m DEF T
<1> DEFINE g == [d \in D |-> F[measure[d] + 1][d]]
<1>9. g \in [D -> X]
  BY <1>3
<1>10. ASSUME NEW d \in D
       PROVE  g[d] = IF d \in stops THEN ends[d] ELSE makes[d][g[succ[d]]]
  <2>1. F[measure[d] + 1][d] =
           IF d \in stops THEN ends[d] ELSE makes[d][F[measure[d]][succ[d]]]
    BY <1>3
  <2>2. ASSUME d \notin stops PROVE F[measure[d]][succ[d]] = g[succ[d]]
    <3>1. measure[d] - 1 \in Nat /\ measure[d] - 1 >= measure[succ[d]]
      BY <2>2
    <3> QED
      BY <1>8, <3>1, (measure[d] - 1) + 1 = measure[d]
  <2> QED
    BY <2>1, <2>2
<1> QED
  BY <1>9, <1>10

\* A walk that is not known to stop, whose value is that of the place where it
\* does.
Follows(D, X, ends, succ) == ends \in [D -> X] /\ succ \in SelfMaps(D)

Arrives(D, X, stops, ends, succ, g) ==
    /\ g \in [D -> X]
    /\ \A d \in D : g[d] = IF d \in stops THEN ends[d] ELSE g[succ[d]]

\* Such values exist: those of walks that never stop are all the same.
LEMMA TailRecursion ==
  ASSUME NEW D, NEW X, NEW stops, NEW ends, NEW succ, Follows(D, X, ends, succ)
  PROVE  \E g : Arrives(D, X, stops, ends, succ, g)
<1> DEFINE way(d) == CHOOSE f : Iterates(D, d, succ, f)
           hits(d) == {n \in Nat : way(d)[n] \in stops}
           some == CHOOSE d \in D : TRUE
           g == [d \in D |-> IF hits(d) = {} THEN ends[some] ELSE ends[way(d)[First(hits(d))]]]
<1>1. ASSUME NEW d \in D PROVE Iterates(D, d, succ, way(d))
  <2>1. succ \in SelfMaps(D)
    BY DEF Follows
  <2> QED
    BY <2>1, NumberRecursion
<1> HIDE DEF way
<1>2. ASSUME NEW d \in D
      PROVE  way(d) \in [Nat -> D] /\ way(d)[0] = d /\ \A n \in Nat : way(d)[n + 1] = succ[way(d)[n]]
  BY <1>1 DEF Iterates
<1>3. ends \in [D -> X] /\ succ \in [D -> D]
  BY DEF Follows, SelfMaps
<1>4. ASSUME NEW d \in D PROVE \A n \in Nat : way(succ[d])[n] = way(d)[n + 1]
  <2> DEFINE S == {n \in Nat : way(succ[d])[n] = way(d)[n + 1]}
  <2>1. succ[d] \in D
    BY <1>3
  <2>2. 0 \in S
    BY <1>2, <2>1, way(d)[0 + 1] = succ[way(d)[0]]
  <2>3. ASSUME NEW n \in Nat, n \in S PROVE n + 1 \in S
    <3>1. way(succ[d])[n + 1] = succ[way(succ[d])[n]]
      BY <1>2, <2>1
    <3>2. way(d)[(n + 1) + 1] = succ[way(d)[n + 1]]
      BY <1>2
    <3> QED
      BY <2>3, <3>1, <3>2
  <2> HIDE DEF S
  <2>4. Nat \subseteq S
    BY <2>2, <2>3, NumberInduction
  <2> QED
    BY <2>4 DEF S
<1>5. ASSUME NEW d \in D, hits(d) # {}
      PROVE  First(hits(d)) \in hits(d) /\ \A n \in hits(d) : First(hits(d)) <= n
  <2>1. hits(d) \subseteq Nat
    OBVIOUS
  <2> HIDE DEF hits
  <2> QED
    BY <1>5, <2>1, FirstIsLeast
<1>6. g \in [D -> X]
  <2> SUFFICES ASSUME NEW d \in D
               PROVE  /\ ends[some] \in X
                      /\ hits(d) # {} => ends[way(d)[First(hits(d))]] \in X
    OBVIOUS
  <2>1. some \in D
    OBVIOUS
  <2>2. ASSUME hits(d) # {} PROVE way(d)[First(hits(d))] \in D
    <3>1. First(hits(d)) \in Nat
      BY <1>5, <2>2
    <3> HIDE DEF hits
    <3> QED
      BY <1>2, <3>1
  <2> HIDE DEF hits, some
  <2> QED
    BY <1>3, <2>1, <2>2
<1>7. ASSUME NEW d \in D PROVE g[d] = IF d \in stops THEN ends[d] ELSE g[succ[d]]
  <2>1. CASE d \in stops
    <3>1. 0 \in hits(d)
      BY <1>2, <2>1
    <3>2. First(hits(d)) = 0
      BY <1>5, <3>1
    <3> QED
      BY <1>2, <2>1, <3>1, <3>2
  <2>2. CASE d \notin stops
    <3>1. 0 \notin hits(d) /\ succ[d] \in D
      BY <1>2, <1>3, <2>2
    <3>2. \A n \in Nat : n \in hits(succ[d]) <=> n + 1 \in hits(d)
      BY <1>4
    <3>3. CASE hits(d) = {}
      <4>1. hits(succ[d]) = {}
        BY <3>2, <3>3
      <4> QED
        BY <2>2, <3>1, <3>3, <4>1
    <3>4. CASE hits(d) # {}
      <4> DEFINE k == First(hits(d))
      <4>1. k \in Nat /\ k \in hits(d) /\ \A n \in hits(d) : k <= n
        BY <1>5, <3>4
      <4>2. k - 1 \in Nat /\ (k - 1) + 1 = k
        BY <3>1, <4>1
      <4> HIDE DEF k
      <4>3. k - 1 \in hits(succ[d])
        BY <3>2, <4>1, <4>2
      <4>4. First(hits(succ[d])) \in hits(succ[d]) /\ First(hits(succ[d])) <= k - 1
        BY <1>5, <3>1, <4>3
      <4>5. First(hits(succ[d])) \in Nat /\ k <= First(hits(succ[d])) + 1
        BY <3>2, <4>1, <4>4
      <4>6. First(hits(succ[d])) = k - 1
        BY <4>1, <4>2, <4>4, <4>5
      <4>7. way(succ[d])[k - 1] = way(d)[k]
        BY <1>4, <4>2
      <4>8. g[d] = ends[way(d)[k]]
        BY <3>4 DEF k
      <4>9. g[succ[d]] = ends[way(succ[d])[k - 1]]
        BY <3>1, <4>3, <4>6
      <4> QED
        BY <2>2, <4>7, <4>8, <4>9
    <3> QED
      BY <3>3, <3>4
  <2> QED
    BY <2>1, <2>2
<1> QED
  <2> HIDE DEF g
  <2> QED
    BY <1>6, <1>7 DEF Arrives

-----------------------------------------------------------------------------
(* Sizes *)

\* The powers of two double, and outgrow their exponents.
LEMMA PowerOfTwo ==
  /\ Power[0] = 1
  /\ \A n \in Nat : Power[n] \in Nat /\ Power[n] > n /\ Power[n + 1] = 2 * Power[n]
<1> DEFINE twice == [p \in Nat |-> 2 * p]
<1>1. PICK f : Iterates(Nat, 1, twice, f)
  <2>1. twice \in SelfMaps(Nat)
    BY DEF SelfMaps
  <2> HIDE DEF twice
  <2> QED
    BY <2>1, NumberRecursion
<1>2. f = [n \in Nat |-> IF n = 0 THEN 1 ELSE 2 * f[n - 1]]
  <2>1. ASSUME NEW n \in Nat PROVE f[n] = IF n = 0 THEN 1 ELSE 2 * f[n - 1]
    <3>1. CASE n # 0
      <4>1. n - 1 \in Nat /\ (n - 1) + 1 = n
        BY <3>1
      <4> QED
        BY <1>1, <3>1, <4>1 DEF Iterates
    <3> QED
      BY <1>1, <3>1 DEF Iterates
  <2> QED
    BY <1>1, <2>1 DEF Iterates
<1>3. Power = [n \in Nat |-> IF n = 0 THEN 1 ELSE 2 * Power[n - 1]]
  BY <1>2 DEF Power
<1> HIDE DEF Power
<1>4. Power[0] = 1
  BY <1>3
<1>5. ASSUME NEW n \in Nat PROVE Power[n + 1] = 2 * Power[n]
  BY <1>3
<1> DEFINE S == {n \in Nat : Power[n] \in Nat /\ Power[n] > n}
<1>6. 0 \in S /\ \A n \in Nat : n \in S => n + 1 \in S
  BY <1>4, <1>5
<1> HIDE DEF S
<1>7. Nat \subseteq S
  BY <1>6, NumberInduction
<1> QED
  BY <1>4, <1>5, <1>7 DEF S

\* IsPower() holds of the powers of two ...
LEMMA PowerOfTwoIs ==
  ASSUME NEW n \in Nat
  PROVE  IsPower(Power[n])
BY PowerOfTwo DEF IsPower

\* ... which are closed under doubling and, from four on, under quartering.
LEMMA PowersOfTwo ==
  ASSUME NEW c, c \in Nat, IsPower(c)
  PROVE  /\ c >= 1
         /\ IsPower(2 * c)
         /\ c >= 4 => c \div 4 \in Nat /\ IsPower(c \div 4)
<1>1. PICK n \in 0..c : c = Power[n]
  BY DEF IsPower
<1>2. c >= 1 /\ IsPower(2 * c)
  <2>1. n + 1 \in Nat /\ Power[n + 1] = 2 * c
    BY <1>1, PowerOfTwo
  <2> QED
    BY <1>1, <2>1, PowerOfTwo, PowerOfTwoIs
<1>3. ASSUME c >= 4 PROVE c \div 4 \in Nat /\ IsPower(c \div 4)
  <2>1. n # 0 /\ n # 1
    <3>1. Power[0] = 1 /\ Power[0 + 1] = 2 * Power[0]
      BY PowerOfTwo
    <3> QED
      BY <1>1, <1>3, <3>1
  <2>2. n - 2 \in Nat /\ (n - 2) + 1 = n - 1 /\ n - 1 \in Nat /\ (n - 1) + 1 = n
    BY <2>1
  <2>3. Power[n - 2] \in Nat /\ c = 2 * (2 * Power[n - 2])
    BY <1>1, <2>2, PowerOfTwo
  <2>4. c \div 4 = Power[n - 2]
    BY <2>3
  <2> QED
    BY <2>2, <2>3, <2>4, PowerOfTwoIs
<1> QED
  BY <1>2, <1>3

\* get_nice_size() gives a power of two, neither below what was asked for nor
\* below the least it may give.
LEMMA NiceSizeIsNice ==
  ASSUME NEW m \in Nat, NEW min \in Nat, IsPower(min)
  PROVE  /\ NiceSize(m, min) \in Nat
         /\ IsPower(NiceSize(m, min))
         /\ NiceSize(m, min) >= m /\ NiceSize(m, min) >= min
<1>1. CASE m < min
  BY <1>1 DEF NiceSize
<1>2. CASE ~(m < min)
  <2> DEFINE S == {p \in {Power[n] : n \in 0..m} : p >= m}
  <2>1. S \subseteq Nat /\ Power[m] \in S
    BY PowerOfTwo
  <2>2. NiceSize(m, min) = First(S)
    BY <1>2 DEF NiceSize
  <2>3. First(S) \in S
    BY <2>1, FirstIsLeast
  <2>4. PICK n \in 0..m : First(S) = Power[n] /\ Power[n] >= m
    BY <2>3
  <2> HIDE DEF S
  <2>5. IsPower(First(S))
    BY <2>4, PowerOfTwoIs
  <2>6. First(S) \in Nat /\ First(S) >= m
    BY <2>4, PowerOfTwo
  <2> QED
    BY <1>2, <2>2, <2>5, <2>6
<1> QED
  BY <1>1, <1>2

-----------------------------------------------------------------------------
(* Counting, and parts of sequences *)

\* The members of a set of numbers from i to k.
Between(K, i, k) == {j \in K : i <= j /\ j <= k}

\* Counting from i, the first member is p.
LEMMA OneMore ==
  ASSUME NEW K, IsFiniteSet(K), K \subseteq Int, NEW i \in Int, NEW k \in Int,
         NEW p \in K, i <= p, p <= k, \A j \in K : i <= j => p <= j
  PROVE  /\ Cardinality(Between(K, p + 1, k)) \in Nat
         /\ Cardinality(Between(K, i, k)) = Cardinality(Between(K, p + 1, k)) + 1
<1> DEFINE B == Between(K, p + 1, k)
<1>1. B \in SUBSET K /\ IsFiniteSet(B) /\ Cardinality(B) \in Nat
  <2>1. B \in SUBSET K
    BY DEF Between
  <2> HIDE DEF B
  <2>2. IsFiniteSet(B)
    BY <2>1, FS_Subset
  <2> QED
    BY <2>1, <2>2, FS_CardinalityType
<1>2. p \notin B /\ Between(K, i, k) = B \cup {p}
  <2>1. p \in Int /\ \A j \in K : j \in Int
    OBVIOUS
  <2>2. \A j \in K : i <= j /\ j <= k <=> j = p \/ (p + 1 <= j /\ j <= k)
    BY <2>1
  <2>3. \A j : j \in Between(K, i, k) <=> j \in K /\ i <= j /\ j <= k
    BY DEF Between
  <2>4. \A j : j \in B <=> j \in K /\ p + 1 <= j /\ j <= k
    BY DEF Between
  <2>5. ~(p + 1 <= p)
    BY <2>1
  <2> HIDE DEF B
  <2>6. p \notin B
    BY <2>4, <2>5
  <2>7. \A j : j \in Between(K, i, k) <=> j \in B \cup {p}
    BY <2>2, <2>3, <2>4
  <2>8. Between(K, i, k) = B \cup {p}
    BY <2>7
  <2> QED
    BY <2>6, <2>8
<1> HIDE DEF B
<1>3. Cardinality(B \cup {p}) = Cardinality(B) + 1
  BY <1>1, <1>2, FS_AddElement
<1> QED
  BY <1>1, <1>2, <1>3 DEF B

\* A part of a sequence is one of its elements.
LEMMA PartOf ==
  ASSUME NEW S, NEW s \in Seq(S), NEW a \in Int, NEW b \in Int, 1 <= a, a <= b + 1, b <= Len(s)
  PROVE  /\ SubSeq(s, a, b) \in Seq(S) /\ Len(SubSeq(s, a, b)) = b + 1 - a
         /\ \A j \in Nat : 1 <= j /\ j <= b + 1 - a => SubSeq(s, a, b)[j] = s[a + j - 1]
<1>1. Len(s) \in Nat /\ \A j \in 1..Len(s) : s[j] \in S
  BY LenProperties
<1>2. \A j \in a..b : s[j] \in S
  BY <1>1
<1>3. /\ SubSeq(s, a, b) \in Seq(S)
      /\ Len(SubSeq(s, a, b)) = IF a <= b THEN b - a + 1 ELSE 0
      /\ \A j \in 1..b - a + 1 : SubSeq(s, a, b)[j] = s[a + j - 1]
  BY <1>2, SubSeqProperties
<1> DEFINE t == SubSeq(s, a, b)
<1> HIDE DEF t
<1> QED
  BY <1>3 DEF t
=============================================================================
