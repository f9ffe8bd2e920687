---------------------------- MODULE ScoringProofs ----------------------------
(***************************************************************************)
(* Proofs about module Scoring for every number of rows, services, ticks   *)
(* and flags and every weight. The provers cannot use the library's        *)
(* induction principles, so what the sum of a row's points is, a fold over *)
(* its services, is shown by minimal counterexamples: WFMin gives every    *)
(* nonempty set of subsets of a finite set a minimal member.               *)
(***************************************************************************)
EXTENDS Scoring, FiniteSetTheorems, WellFoundedInduction, TLAPS

-----------------------------------------------------------------------------
(* The fold *)

Fraction == [num : Int, den : Nat \ {0}]

\* A set of subsets of a finite set has a minimal member.
LEMMA MinimalSubset ==
    ASSUME NEW S, IsFiniteSet(S), NEW C \in SUBSET SUBSET S, C # {}
    PROVE  \E s \in C : \A r \in C : r \subseteq s => r = s
<1>1. IsWellFoundedOn(StrictSubsetOrdering(S), SUBSET S)
  BY FS_FiniteSubsetsOfFinite, FS_StrictSubsetOrderingWellFounded
<1>2. PICK s \in C : \A r \in C : ~ (<<r, s>> \in StrictSubsetOrdering(S))
  BY <1>1, WFMin
<1>3. \A r \in C : r \subseteq s => r = s
  BY <1>2 DEF StrictSubsetOrdering
<1> QED
  BY <1>3

\* The member of s a fold takes first.
First(s) == CHOOSE x \in s : TRUE

\* What a fold of the fractions f makes of s, when g is what it makes of smaller sets.
Step(f, g, s) == IF s = {} THEN Frac(0) ELSE Plus(f[First(s)], g[s \ {First(s)}])

\* g is the fold of the fractions f over every subset of T.
IsFold(f, g, T) == g = [s \in SUBSET T |-> Step(f, g, s)]

\* Taking the first member of a set leaves a smaller one.
LEMMA Smaller ==
    ASSUME NEW s, s # {}
    PROVE  /\ First(s) \in s /\ s \ {First(s)} \subseteq s /\ s \ {First(s)} # s
BY DEF First

\* What a fold is, set by set.
LEMMA FoldOf ==
    ASSUME NEW f, NEW g, NEW T, IsFold(f, g, T), NEW s \in SUBSET T
    PROVE  g[s] = Step(f, g, s)
<1>1. g = [t \in SUBSET T |-> Step(f, g, t)]
  BY DEF IsFold
<1> HIDE DEF Step
<1>2. [t \in SUBSET T |-> Step(f, g, t)][s] = Step(f, g, s)
  OBVIOUS
<1> QED
  BY <1>1, <1>2, Zenon

\* Two folds of the same fractions agree wherever both are defined.
LEMMA FoldsAgree ==
    ASSUME NEW f, NEW g, NEW h, NEW T, NEW U, IsFiniteSet(T),
           IsFold(f, g, T), IsFold(f, h, U), NEW s \in (SUBSET T) \cap SUBSET U
    PROVE  g[s] = h[s]
<1> DEFINE Differ == {t \in SUBSET T : t \subseteq U /\ g[t] # h[t]}
<1> SUFFICES ASSUME Differ # {}  PROVE  FALSE
  OBVIOUS
<1>0. Differ \in SUBSET SUBSET T
  OBVIOUS
<1>1. PICK t \in Differ : \A r \in Differ : r \subseteq t => r = t
  <2> HIDE DEF Differ
  <2> QED
    BY <1>0, MinimalSubset
<1>2. /\ g[t] = Step(f, g, t) /\ h[t] = Step(f, h, t)
  BY <1>1, FoldOf
<1>3. t # {}
  BY <1>1, <1>2 DEF Step
<1>4. t \ {First(t)} \notin Differ
  BY <1>1, <1>3, Smaller
<1>5. g[t \ {First(t)}] = h[t \ {First(t)}]
  BY <1>1, <1>4
<1> QED
  BY <1>1, <1>2, <1>3, <1>5 DEF Step

\* Over every finite set there is a fold.
LEMMA FoldExists ==
    ASSUME NEW f, NEW S, IsFiniteSet(S)
    PROVE  \E g : IsFold(f, g, S)
<1> DEFINE Without == {T \in SUBSET S : ~ \E g : IsFold(f, g, T)}
<1> SUFFICES ASSUME Without # {}  PROVE  FALSE
  OBVIOUS
<1>0. Without \in SUBSET SUBSET S
  OBVIOUS
<1>1. PICK T \in Without : \A r \in Without : r \subseteq T => r = T
  <2> HIDE DEF Without
  <2> QED
    BY <1>0, MinimalSubset
<1> DEFINE F(s) == CHOOSE g : IsFold(f, g, s)
           g == [s \in SUBSET T |-> IF s = T THEN Step(f, [r \in SUBSET T |-> F(r)[r]], T)
                                            ELSE F(s)[s]]
<1>2. ASSUME NEW s \in SUBSET T, s # T  PROVE  IsFold(f, F(s), s) /\ IsFiniteSet(s)
  <2>1. \E h : IsFold(f, h, s)
    BY <1>1, <1>2
  <2> QED
    BY <1>1, <2>1, FS_Subset
<1>3. ASSUME NEW s \in SUBSET T  PROVE  g[s] = Step(f, g, s)
  <2>1. CASE s = {} /\ s # T
    <3>1. F(s)[s] = Step(f, F(s), s)
      BY <1>2, <2>1, FoldOf
    <3> QED
      BY <2>1, <3>1 DEF Step
  <2>2. CASE s # {} /\ s # T
    <3> DEFINE r == s \ {First(s)}
    <3>1. r \in SUBSET T /\ r # T /\ r \in SUBSET s
      BY <2>2, Smaller
    <3>2. F(s)[s] = Step(f, F(s), s)
      BY <1>2, <2>2, FoldOf
    <3>3. F(s)[r] = F(r)[r]
      BY <1>2, <2>2, <3>1, FoldsAgree
    <3>4. g[s] = F(s)[s] /\ g[r] = F(r)[r]
      BY <2>2, <3>1
    <3> QED
      BY <2>2, <3>2, <3>3, <3>4 DEF Step
  <2>3. CASE s = T
    <3> DEFINE r == T \ {First(T)}
    <3>1. g[T] = Step(f, [q \in SUBSET T |-> F(q)[q]], T)
      OBVIOUS
    <3>2. CASE T = {}
      BY <2>3, <3>1, <3>2 DEF Step
    <3>3. CASE T # {}
      <4>1. r \in SUBSET T /\ r # T
        BY <3>3, Smaller
      <4>2. g[r] = F(r)[r] /\ [q \in SUBSET T |-> F(q)[q]][r] = F(r)[r]
        BY <4>1
      <4> QED
        BY <2>3, <3>1, <3>3, <4>2 DEF Step
    <3> QED
      BY <3>2, <3>3
  <2> QED
    BY <2>1, <2>2, <2>3
<1>4. IsFold(f, g, T)
  <2>1. g = [s \in SUBSET T |-> Step(f, g, s)]
    <3>1. \A s \in SUBSET T : g[s] = [t \in SUBSET T |-> Step(f, g, t)][s]
      BY <1>3
    <3> QED
      BY <3>1
  <2> QED
    BY <2>1 DEF IsFold
<1> QED
  BY <1>1, <1>4

\* The sum of two fractions is one.
LEMMA PlusType ==
    ASSUME NEW x \in Fraction, NEW y \in Fraction
    PROVE  Plus(x, y) \in Fraction
<1>1. /\ x.num \in Int /\ x.den \in Nat \ {0} /\ y.num \in Int /\ y.den \in Nat \ {0}
  BY DEF Fraction
<1>2. x.den * y.den \in Nat \ {0}
  BY <1>1
<1>3. x.num * y.den + y.num * x.den \in Int
  BY <1>1
<1> QED
  BY <1>2, <1>3 DEF Plus, Fraction

\* A fold of fractions is a fraction.
LEMMA FoldType ==
    ASSUME NEW S, IsFiniteSet(S), NEW f, \A x \in S : f[x] \in Fraction,
           NEW g, IsFold(f, g, S)
    PROVE  g[S] \in Fraction
<1> DEFINE Wrong == {s \in SUBSET S : g[s] \notin Fraction}
<1> SUFFICES ASSUME Wrong # {}  PROVE  FALSE
  OBVIOUS
<1>1. Wrong \in SUBSET SUBSET S
  OBVIOUS
<1>2. PICK s \in Wrong : \A r \in Wrong : r \subseteq s => r = s
  <2> HIDE DEF Wrong
  <2> QED
    BY <1>1, MinimalSubset
<1>3. g[s] = Step(f, g, s)
  BY <1>2, FoldOf
<1>4. s # {}
  <2>1. Frac(0) \in Fraction
    BY DEF Frac, Fraction
  <2> QED
    BY <1>2, <1>3, <2>1 DEF Step
<1>5. f[First(s)] \in Fraction /\ g[s \ {First(s)}] \in Fraction
  BY <1>2, <1>4, Smaller
<1> QED
  BY <1>2, <1>3, <1>4, <1>5, PlusType DEF Step

\* The points of a row are a fraction when those of its public services are.
LEMMA RowPointsType ==
    ASSUME NEW counters,
           \A s \in Services \ Private : servicePoints(counters[s]) \in Fraction
    PROVE  rowPoints(counters) \in Fraction
<1> DEFINE S == Services \ Private
           f == [s \in S |-> servicePoints(counters[s])]
           Sum(g) == g = [s \in SUBSET S |->
                            IF s = {} THEN Frac(0)
                            ELSE Plus(servicePoints(counters[CHOOSE x \in s : TRUE]),
                                      g[s \ {CHOOSE x \in s : TRUE}])]
<1>1. IsFiniteSet(S)
  BY ScoringAssumption, FS_Difference
<1>2. rowPoints(counters) = (CHOOSE g : Sum(g))[S]
  BY Zenon DEF rowPoints, MapThenFoldSet
<1>3. ASSUME NEW g  PROVE  Sum(g) <=> IsFold(f, g, S)
  <2>1. \A s \in SUBSET S : s # {} =>
           f[First(s)] = servicePoints(counters[First(s)])
    BY Smaller
  <2>2. [s \in SUBSET S |-> Step(f, g, s)] =
        [s \in SUBSET S |-> IF s = {} THEN Frac(0)
                            ELSE Plus(servicePoints(counters[CHOOSE x \in s : TRUE]),
                                      g[s \ {CHOOSE x \in s : TRUE}])]
    BY <2>1 DEF Step, First
  <2> QED
    BY <2>2 DEF IsFold
<1>4. \E g : Sum(g)
  <2>1. PICK g : IsFold(f, g, S)
    BY <1>1, FoldExists
  <2> QED
    BY <1>3, <2>1
<1>5. IsFold(f, CHOOSE g : Sum(g), S)
  <2> HIDE DEF Sum
  <2> QED
    BY <1>3, <1>4
<1>6. \A x \in S : f[x] \in Fraction
  OBVIOUS
<1> QED
  <2> HIDE DEF Sum, f
  <2> QED
    BY <1>1, <1>2, <1>5, <1>6, FoldType

-----------------------------------------------------------------------------
(* The counters of a board, and the points of a service *)

Counters == [stolen : Nat, lost : Nat, ok : Nat, fail : Nat]

\* What a board of one or more ticks holds for a service a check covers.
CheckedCounters == \A r \in Rows, s \in Checked : raw[r][s] \in Counters /\ Checks(raw[r][s]) >= 1

\* The boards that ticks can leave hold such counters.
LEMMA BoardsType ==
    ASSUME NEW n \in 1 .. MaxTicks, NEW b \in BoardsAfter(n), NEW r \in Rows, NEW s \in Checked
    PROVE  b[r][s] \in Counters /\ Checks(b[r][s]) >= 1
<1>1. n \in Nat /\ n >= 1 /\ s \in Services
  BY ScoringAssumption
<1>2. b[r][s] \in CountersAfter(n, s)
  BY <1>1 DEF BoardsAfter
<1>3. b[r][s] \in [stolen : 0 .. MaxFlags, lost : 0 .. MaxFlags, ok : 0 .. n, fail : 0 .. n]
      /\ Checks(b[r][s]) = n
  BY <1>2 DEF CountersAfter
<1> QED
  BY <1>1, <1>3, ScoringAssumption DEF Counters

\* The flags of a service are worth an integer, and its checks are a number of them.
LEMMA CountersMean ==
    ASSUME NEW c \in Counters
    PROVE  /\ c.stolen \in Nat /\ c.lost \in Nat /\ c.ok \in Nat /\ c.fail \in Nat
           /\ Checks(c) \in Nat /\ FlagPoints(c) \in Int
<1>1. /\ c.stolen \in Nat /\ c.lost \in Nat /\ c.ok \in Nat /\ c.fail \in Nat
  BY DEF Counters
<1>2. c.stolen * PointsPerStolenFlag \in Int /\ c.lost * PointsPerLostFlag \in Int
  BY <1>1, ScoringAssumption
<1> QED
  BY <1>1, <1>2 DEF Checks, FlagPoints

\* The points of a service with a result are a fraction, over the number of its results.
LEMMA ServicePointsType ==
    ASSUME NEW c \in Counters, Checks(c) >= 1
    PROVE  /\ servicePoints(c) \in Fraction
           /\ servicePoints(c).num = (Checks(c) * PointsPerTick + FlagPoints(c)) * c.ok
           /\ servicePoints(c).den = Checks(c)
<1>1. /\ servicePoints(c).num = (Checks(c) * PointsPerTick + FlagPoints(c)) * c.ok
      /\ servicePoints(c).den = Checks(c)
      /\ servicePoints(c) = [num |-> servicePoints(c).num, den |-> servicePoints(c).den]
  BY DEF servicePoints, UptimePoints
<1>2. Checks(c) * PointsPerTick \in Int
  BY CountersMean, ScoringAssumption
<1>3. Checks(c) * PointsPerTick + FlagPoints(c) \in Int
  BY <1>2, CountersMean
<1>4. (Checks(c) * PointsPerTick + FlagPoints(c)) * c.ok \in Int
  BY <1>3, CountersMean
<1>5. Checks(c) \in Nat \ {0}
  BY CountersMean
<1> QED
  BY <1>1, <1>4, <1>5 DEF Fraction

\* A greater number times a number is greater or equal.
LEMMA TimesMonotone ==
    ASSUME NEW a \in Int, NEW b \in Int, a <= b, NEW n \in Nat
    PROVE  a * n \in Int /\ b * n \in Int /\ a * n <= b * n
OBVIOUS

\* Factors may be swapped.
LEMMA TimesSwap ==
    ASSUME NEW a \in Int, NEW b \in Int, NEW c \in Int
    PROVE  (a * b) * c = (a * c) * b /\ (a * b) * c \in Int
OBVIOUS

\* The signs of the example configuration: a stolen flag is worth something, a lost one
\* costs something.
Signs == PointsPerStolenFlag >= 0 /\ PointsPerLostFlag <= 0

\* For weights with those signs, one flag more moves the points of a service its way.
LEMMA FlagMoves ==
    ASSUME Signs, NEW c \in Counters, Checks(c) >= 1
    PROVE  /\ ~ Less(servicePoints([c EXCEPT !.stolen = @ + 1]), servicePoints(c))
           /\ ~ Less(servicePoints(c), servicePoints([c EXCEPT !.lost = @ + 1]))
<1> DEFINE d == [c EXCEPT !.stolen = @ + 1]
           e == [c EXCEPT !.lost = @ + 1]
           n == Checks(c)
           A(x) == n * PointsPerTick + FlagPoints(x)
<1>1. /\ d \in Counters /\ d.stolen = c.stolen + 1 /\ d.lost = c.lost /\ d.ok = c.ok
      /\ d.fail = c.fail
      /\ e \in Counters /\ e.stolen = c.stolen /\ e.lost = c.lost + 1 /\ e.ok = c.ok
      /\ e.fail = c.fail
  BY DEF Counters
<1> HIDE DEF d, e
<1>2. Checks(d) = n /\ Checks(e) = n /\ n \in Nat /\ c.ok \in Nat
  BY <1>1, CountersMean DEF Checks
<1>3. /\ FlagPoints(c) \in Int /\ FlagPoints(d) \in Int /\ FlagPoints(e) \in Int
      /\ FlagPoints(d) >= FlagPoints(c) /\ FlagPoints(e) <= FlagPoints(c)
  <2>1. /\ (c.stolen + 1) * PointsPerStolenFlag = c.stolen * PointsPerStolenFlag + PointsPerStolenFlag
        /\ (c.lost + 1) * PointsPerLostFlag = c.lost * PointsPerLostFlag + PointsPerLostFlag
        /\ c.stolen * PointsPerStolenFlag \in Int /\ c.lost * PointsPerLostFlag \in Int
    BY CountersMean, ScoringAssumption
  <2>2. FlagPoints(d) = FlagPoints(c) + PointsPerStolenFlag
    BY <1>1, <2>1, ScoringAssumption DEF FlagPoints
  <2>3. FlagPoints(e) = FlagPoints(c) + PointsPerLostFlag
    BY <1>1, <2>1, ScoringAssumption DEF FlagPoints
  <2>4. FlagPoints(c) \in Int
    BY CountersMean
  <2> QED
    BY <2>2, <2>3, <2>4, ScoringAssumption DEF Signs
<1>4. n * PointsPerTick \in Int
  BY <1>2, ScoringAssumption
<1>5. /\ A(c) \in Int /\ A(d) \in Int /\ A(e) \in Int /\ A(c) <= A(d) /\ A(e) <= A(c)
  BY <1>3, <1>4
<1>6. /\ servicePoints(c).num = A(c) * c.ok /\ servicePoints(c).den = n
      /\ servicePoints(d).num = A(d) * c.ok /\ servicePoints(d).den = n
      /\ servicePoints(e).num = A(e) * c.ok /\ servicePoints(e).den = n
  BY <1>1, <1>2, ServicePointsType
<1> HIDE DEF A
<1>7. A(c) * c.ok \in Int /\ A(d) * c.ok \in Int /\ A(e) * c.ok \in Int
      /\ A(c) * c.ok <= A(d) * c.ok /\ A(e) * c.ok <= A(c) * c.ok
  BY <1>2, <1>5, TimesMonotone
<1> HIDE DEF n
<1>8. A(c) * c.ok * n <= A(d) * c.ok * n /\ A(e) * c.ok * n <= A(c) * c.ok * n
      /\ A(c) * c.ok * n \in Int /\ A(d) * c.ok * n \in Int /\ A(e) * c.ok * n \in Int
  BY <1>2, <1>7, TimesMonotone
<1>9. ~ (A(d) * c.ok * n < A(c) * c.ok * n) /\ ~ (A(c) * c.ok * n < A(e) * c.ok * n)
  BY <1>8
<1> QED
  BY <1>6, <1>9 DEF Less, d, e

\* One failed check more never raises the points of a service whose flags are no loss.
LEMMA FailedCheckCosts ==
    ASSUME NEW c \in Counters, Checks(c) >= 1, FlagPoints(c) >= 0
    PROVE  ~ Less(servicePoints(c), servicePoints([c EXCEPT !.fail = @ + 1]))
<1> DEFINE d == [c EXCEPT !.fail = @ + 1]
           n == Checks(c)
           F == FlagPoints(c)
           P == PointsPerTick
<1>1. /\ d \in Counters /\ d.stolen = c.stolen /\ d.lost = c.lost /\ d.ok = c.ok
      /\ d.fail = c.fail + 1
  BY DEF Counters
<1> HIDE DEF d
<1>2. Checks(d) = n + 1 /\ FlagPoints(d) = F /\ n \in Nat /\ F \in Int /\ F >= 0 /\ P \in Int
      /\ c.ok \in Nat
  BY <1>1, CountersMean, ScoringAssumption DEF Checks, FlagPoints
<1>3. /\ servicePoints(c).num = (n * P + F) * c.ok /\ servicePoints(c).den = n
      /\ servicePoints(d).num = ((n + 1) * P + F) * c.ok /\ servicePoints(d).den = n + 1
  BY <1>1, <1>2, ServicePointsType
<1> HIDE DEF n, F, P
<1>4. (n * P + F) * (n + 1) = ((n + 1) * P + F) * n + F
  BY <1>2
<1> DEFINE X == n * P + F
           Y == (n + 1) * P + F
<1>5. X \in Int /\ Y \in Int
  BY <1>2
<1>6. X * (n + 1) = Y * n + F
  BY <1>4
<1> HIDE DEF X, Y
<1>7. Y * n \in Int /\ X * (n + 1) \in Int /\ Y * n <= X * (n + 1)
  BY <1>2, <1>5, <1>6
<1>8. (Y * n) * c.ok <= (X * (n + 1)) * c.ok
  BY <1>2, <1>7, TimesMonotone
<1>9. (Y * n) * c.ok = (Y * c.ok) * n /\ (X * (n + 1)) * c.ok = (X * c.ok) * (n + 1)
      /\ (Y * c.ok) * n \in Int /\ (X * c.ok) * (n + 1) \in Int
  <2>1. n \in Int /\ n + 1 \in Int /\ c.ok \in Int
    BY <1>2
  <2>2. (Y * n) * c.ok = (Y * c.ok) * n /\ (Y * c.ok) * n \in Int
    BY <1>5, <2>1, TimesSwap
  <2>3. (X * (n + 1)) * c.ok = (X * c.ok) * (n + 1) /\ (X * c.ok) * (n + 1) \in Int
    BY <1>5, <2>1, TimesSwap
  <2> QED
    BY <2>2, <2>3
<1>10. ~ ((X * c.ok) * (n + 1) < (Y * c.ok) * n)
  BY <1>8, <1>9
<1> QED
  BY <1>3, <1>10 DEF Less, d, X, Y

-----------------------------------------------------------------------------
(* The comparison of two rows *)

\* The quotient of two numbers.
LEMMA Quotient ==
    ASSUME NEW a \in Nat, NEW b \in Nat \ {0}
    PROVE  /\ a \div b \in Nat /\ b * (a \div b) \in Nat
           /\ b * (a \div b) <= a /\ a < b * (a \div b) + b
OBVIOUS

\* Truncation moves a fraction by less than one, either way.
LEMMA Truncation ==
    ASSUME NEW x \in Fraction
    PROVE  /\ IntOf(x) \in Int
           /\ x.num < x.den * IntOf(x) + x.den
           /\ x.den * IntOf(x) - x.den < x.num
<1>1. x.num \in Int /\ x.den \in Nat \ {0}
  BY DEF Fraction
<1>2. CASE x.num >= 0
  <2>1. IntOf(x) = x.num \div x.den
    BY <1>1, <1>2 DEF IntOf, IsNaN
  <2> QED
    BY <1>1, <1>2, <2>1, Quotient
<1>3. CASE x.num < 0
  <2> DEFINE p == (-x.num) \div x.den
  <2>1. IntOf(x) = -p
    BY <1>1, <1>3 DEF IntOf, IsNaN
  <2>2. /\ p \in Nat /\ x.den * p \in Nat
        /\ x.den * p <= -x.num /\ -x.num < x.den * p + x.den
    <3>1. -x.num \in Nat
      BY <1>1, <1>3
    <3> QED
      BY <1>1, <3>1, Quotient
  <2> HIDE DEF p
  <2>3. x.den * (-p) = -(x.den * p)
    BY <1>1, <2>2
  <2> QED
    BY <1>1, <2>1, <2>2, <2>3
<1> QED
  BY <1>1, <1>2, <1>3

\* A row the comparison does not place after another has less than two points more.
LEMMA CloseUp ==
    ASSUME NEW x \in Fraction, NEW y \in Fraction, ~ (cmp(y, x) < 0)
    PROVE  Less(Minus(y, x), Frac(2))
<1> DEFINE p == IntOf(x)
           q == IntOf(y)
<1>1. /\ x.num \in Int /\ x.den \in Nat \ {0} /\ y.num \in Int /\ y.den \in Nat \ {0}
  BY DEF Fraction
<1>2. /\ p \in Int /\ q \in Int /\ q <= p
      /\ y.num < y.den * q + y.den /\ x.den * p - x.den < x.num
  <2>1. p \in Int /\ q \in Int
    BY Truncation
  <2>2. q <= p
    BY <2>1 DEF cmp
  <2> QED
    BY <2>1, <2>2, Truncation
<1> HIDE DEF p, q
<1> DEFINE D == y.den * x.den
<1>3. D \in Nat \ {0} /\ D * p \in Int /\ D * q \in Int /\ D * q <= D * p
  <2>1. D \in Nat \ {0}
    BY <1>1
  <2> HIDE DEF D
  <2> QED
    BY <1>2, <2>1
<1>4. y.num * x.den < D * q + D
  <2>1. y.num + 1 <= y.den * q + y.den /\ y.den * q + y.den \in Int
    BY <1>1, <1>2
  <2>2. (y.num + 1) * x.den <= (y.den * q + y.den) * x.den
    BY <1>1, <2>1, TimesMonotone
  <2>3. (y.den * q + y.den) * x.den = D * q + D
    BY <1>1, <1>2
  <2>4. (y.num + 1) * x.den = y.num * x.den + x.den
    BY <1>1
  <2> QED
    BY <1>1, <1>3, <2>2, <2>3, <2>4
<1>5. D * p - D < x.num * y.den
  <2>1. x.den * p - x.den + 1 <= x.num /\ x.den * p - x.den + 1 \in Int
    BY <1>1, <1>2
  <2>2. (x.den * p - x.den + 1) * y.den <= x.num * y.den
    BY <1>1, <2>1, TimesMonotone
  <2>3. (x.den * p - x.den + 1) * y.den = D * p - D + y.den
    BY <1>1, <1>2
  <2> QED
    BY <1>1, <1>3, <2>2, <2>3
<1>6. y.num * x.den - x.num * y.den < 2 * D
  <2>1. y.num * x.den \in Int /\ x.num * y.den \in Int
    BY <1>1
  <2> HIDE DEF D
  <2> QED
    BY <1>3, <1>4, <1>5, <2>1
<1>7. /\ Minus(y, x).num = y.num * x.den - x.num * y.den /\ Minus(y, x).den = D
      /\ Frac(2).num = 2 /\ Frac(2).den = 1
  BY DEF Minus, Frac
<1>8. y.num * x.den - x.num * y.den \in Int
  BY <1>1
<1> HIDE DEF D
<1>9. (y.num * x.den - x.num * y.den) * 1 = y.num * x.den - x.num * y.den
  BY <1>8
<1> QED
  BY <1>6, <1>7, <1>9 DEF Less

-----------------------------------------------------------------------------
(***************************************************************************)
(* The invariant: the counters stay what they are, and once the rows have  *)
(* positions, these are in the order of the comparison.                    *)
(***************************************************************************)

InOrder ==
    \/ position = [r \in Rows |-> 0]
    \/ \A a, b \in Rows : a # b =>
           /\ position[a] \in Int /\ position[b] \in Int
           /\ cmp(rowPoints(raw[a]), rowPoints(raw[b])) < 0 => position[a] < position[b]

IInv == CheckedCounters /\ InOrder

\* Every board ticks can leave has the invariant, before and after the sort.
LEMMA Invariance == Spec => []IInv
<1>1. Init => IInv
  <2> SUFFICES ASSUME Init  PROVE  CheckedCounters
    BY DEF Init, IInv, InOrder
  <2>1. PICK n \in 1 .. MaxTicks : raw \in BoardsAfter(n)
    BY DEF Init
  <2> QED
    BY <2>1, BoardsType DEF CheckedCounters
<1>2. IInv /\ [Next]_<<raw, position>> => IInv'
  <2> SUFFICES ASSUME IInv, [Next]_<<raw, position>>  PROVE  IInv'
    OBVIOUS
  <2>1. CASE Rank
    <3>1. raw' = raw
      BY <2>1 DEF Rank
    <3>2. \A a, b \in Rows : a # b =>
             /\ position'[a] \in Int /\ position'[b] \in Int
             /\ cmp(rowPoints(raw[a]), rowPoints(raw[b])) < 0 => position'[a] < position'[b]
      BY <2>1 DEF Rank
    <3>3. CheckedCounters'
      BY <3>1 DEF IInv, CheckedCounters
    <3>4. InOrder'
      BY <3>1, <3>2 DEF InOrder
    <3> QED
      BY <3>3, <3>4 DEF IInv
  <2>2. CASE UNCHANGED <<raw, position>>
    BY <2>2 DEF IInv, CheckedCounters, InOrder
  <2> QED
    BY <2>1, <2>2 DEF Next
<1> QED
  BY <1>1, <1>2, PTL DEF Spec

\* Every public service has a check, as in the example configuration; the uptime of one
\* that has none, and with it the row's points, would be NaN.
PublicAreChecked == Services \ Private \subseteq Checked

\* The sort of summarizeState places no row before one with two points more, however
\* many rows and services there are.
THEOREM RankFollowsPoints == ASSUME PublicAreChecked PROVE Spec => []RankWithinTwoPoints
<1>1. IInv => RankWithinTwoPoints
  <2> SUFFICES ASSUME IInv, Ranked, NEW a \in Rows, NEW b \in Rows, position[a] < position[b]
               PROVE  Less(Minus(rowPoints(raw[b]), rowPoints(raw[a])), Frac(2))
    BY DEF RankWithinTwoPoints
  <2>1. ASSUME NEW r \in Rows  PROVE  rowPoints(raw[r]) \in Fraction
    <3>1. \A s \in Services \ Private : servicePoints(raw[r][s]) \in Fraction
      BY ServicePointsType DEF IInv, CheckedCounters, PublicAreChecked
    <3> QED
      BY <3>1, RowPointsType
  <2>2. position # [r \in Rows |-> 0]
    BY DEF Ranked
  <2>3. a = b => cmp(rowPoints(raw[b]), rowPoints(raw[a])) = 0
    <3>1. IntOf(rowPoints(raw[a])) \in Int
      BY <2>1, Truncation
    <3> QED
      BY <3>1 DEF cmp
  <2>4. a # b => /\ position[a] \in Int /\ position[b] \in Int
                 /\ cmp(rowPoints(raw[b]), rowPoints(raw[a])) < 0 => position[b] < position[a]
    BY <2>2 DEF IInv, InOrder
  <2>5. ~ (cmp(rowPoints(raw[b]), rowPoints(raw[a])) < 0)
    BY <2>3, <2>4
  <2> QED
    BY <2>1, <2>5, CloseUp
<1> QED
  BY <1>1, Invariance, PTL

\* With the signs of the example configuration, setServiceOverallScore never takes points
\* for a stolen flag and never gives any for a lost one, in any board of any game.
THEOREM FlagsMoveTheRightWay == ASSUME Signs PROVE Spec => []FlagsMovePointsTheRightWay
<1>1. IInv => FlagsMovePointsTheRightWay
  BY FlagMoves DEF IInv, CheckedCounters, FlagsMovePointsTheRightWay
<1> QED
  BY <1>1, Invariance, PTL

\* Whatever the weights, one failed check more never raises the points of a service whose
\* flags are worth no less than nothing.
THEOREM DowntimeIsNoGain == Spec => []DowntimeNeverPays
<1>1. IInv => DowntimeNeverPays
  BY FailedCheckCosts DEF IInv, CheckedCounters, DowntimeNeverPays
<1> QED
  BY <1>1, Invariance, PTL
=============================================================================
