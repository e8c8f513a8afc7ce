--------------------------- MODULE ReconnectProofs ---------------------------
(***************************************************************************)
(* The schedule of reconnect.rs, for every policy: the delays grow with    *)
(* the attempts, and never beyond the cap, wherever f64 and i32 end.       *)
(***************************************************************************)
EXTENDS Reconnect, PathProofs

-----------------------------------------------------------------------------
(* The powers of a number exist, one after the other. *)

IsPowers(m, n, g) ==
    /\ g \in [0 .. n -> Int]
    /\ g[0] = 1
    /\ \A k \in 1 .. n : g[k] = m * g[k - 1]

LEMMA SomePowers ==
    ASSUME NEW m \in Int, NEW n \in Nat
    PROVE  \E g : IsPowers(m, n, g)
<1> DEFINE T == {k \in Nat : ~ \E g : IsPowers(m, k, g)}
<1>1. SUFFICES ASSUME T # {} PROVE FALSE
  OBVIOUS
<1>2. PICK k \in T : \A j \in T : k <= j
  <2>1. T \subseteq Nat
    OBVIOUS
  <2> HIDE DEF T
  <2>2. QED
    BY <1>1, <2>1, LeastOf
<1>3. k \in Nat /\ ~ \E g : IsPowers(m, k, g)
  OBVIOUS
<1>4. CASE k = 0
  <2>1. PICK g : g = [i \in 0 .. 0 |-> 1]
    OBVIOUS
  <2>2. IsPowers(m, 0, g)
    BY <2>1 DEF IsPowers
  <2>3. QED
    BY <1>3, <1>4, <2>2
<1>5. CASE k # 0
  <2>1. k - 1 \in Nat /\ k - 1 \notin T
    BY <1>2, <1>3, <1>5
  <2>2. PICK g : IsPowers(m, k - 1, g)
    BY <2>1
  <2>3. PICK h : h = [i \in 0 .. k |-> IF i = k THEN m * g[k - 1] ELSE g[i]]
    OBVIOUS
  <2>4. g[k - 1] \in Int
    BY <1>3, <1>5, <2>2 DEF IsPowers
  <2>5. m * g[k - 1] \in Int
    BY <2>4
  <2>6. h \in [0 .. k -> Int] /\ h[0] = 1
    BY <1>3, <1>5, <2>2, <2>3, <2>5 DEF IsPowers
  <2>7. ASSUME NEW i \in 1 .. k PROVE h[i] = m * h[i - 1]
    <3>1. i - 1 \in 0 .. k - 1 /\ h[i - 1] = g[i - 1]
      BY <1>3, <2>3
    <3>2. CASE i = k
      BY <1>3, <2>3, <3>1, <3>2
    <3>3. CASE i # k
      <4>1. i \in 1 .. k - 1 /\ h[i] = g[i]
        BY <1>3, <2>3, <3>3
      <4>2. g[i] = m * g[i - 1]
        BY <2>2, <4>1 DEF IsPowers
      <4>3. QED
        BY <3>1, <4>1, <4>2
    <3>4. QED
      BY <3>2, <3>3
  <2>8. IsPowers(m, k, h)
    BY <2>6, <2>7 DEF IsPowers
  <2>9. QED
    BY <1>3, <2>8
<1>6. QED
  BY <1>4, <1>5

LEMMA SamePowers ==
    ASSUME NEW m \in Int, NEW n \in Nat, NEW g, IsPowers(m, n, g),
           NEW h, IsPowers(m, n + 1, h)
    PROVE  h[n] = g[n]
<1> DEFINE T == {k \in 0 .. n : h[k] # g[k]}
<1>1. SUFFICES ASSUME h[n] # g[n] PROVE FALSE
  OBVIOUS
<1>2. PICK k \in T : \A j \in T : k <= j
  <2>1. T \subseteq Nat /\ n \in T
    BY <1>1
  <2> HIDE DEF T
  <2>2. QED
    BY <2>1, LeastOf
<1>3. k \in 0 .. n /\ h[k] # g[k] /\ k # 0
  BY DEF IsPowers
<1>4. k - 1 \in 0 .. n /\ k - 1 \notin T
  BY <1>2, <1>3
<1>5. h[k - 1] = g[k - 1]
  BY <1>4
<1>6. h[k] = m * h[k - 1] /\ g[k] = m * g[k - 1]
  BY <1>3 DEF IsPowers
<1>7. QED
  BY <1>3, <1>5, <1>6

LEMMA PowersAre ==
    ASSUME NEW m \in Int
    PROVE  /\ Powers(m)[0] = 1
           /\ \A n \in Nat : Powers(m)[n] \in Int /\ Powers(m)[n + 1] = m * Powers(m)[n]
<1> DEFINE Recursive(p) == p = [k \in Nat |-> IF k = 0 THEN 1 ELSE m * p[k - 1]]
           powers == [k \in Nat |-> (CHOOSE g : IsPowers(m, k, g))[k]]
<1>1. ASSUME NEW k \in Nat PROVE IsPowers(m, k, CHOOSE g : IsPowers(m, k, g))
  BY SomePowers
<1>2. powers[0] = 1
  BY <1>1 DEF IsPowers
<1>3. ASSUME NEW k \in Nat PROVE powers[k] \in Int /\ powers[k + 1] = m * powers[k]
  <2>1. PICK g : g = (CHOOSE f : IsPowers(m, k, f)) /\ IsPowers(m, k, g)
    BY <1>1
  <2>2. PICK h : h = (CHOOSE f : IsPowers(m, k + 1, f)) /\ IsPowers(m, k + 1, h)
    BY <1>1
  <2>3. powers[k] = g[k] /\ powers[k + 1] = h[k + 1]
    BY <2>1, <2>2
  <2>4. h[k] = g[k]
    BY <2>1, <2>2, SamePowers
  <2>5. h[k + 1] = m * h[k]
    <3>1. k + 1 \in 1 .. k + 1 /\ (k + 1) - 1 = k
      OBVIOUS
    <3>2. QED
      BY <2>2, <3>1 DEF IsPowers
  <2>6. g[k] \in Int
    <3>1. k \in 0 .. k
      OBVIOUS
    <3>2. QED
      BY <2>1, <3>1 DEF IsPowers
  <2>7. QED
    BY <2>3, <2>4, <2>5, <2>6
<1>4. Recursive(powers)
  <2>1. PICK p : p = powers
    OBVIOUS
  <2>2. p = [k \in Nat |-> p[k]]
    BY <2>1
  <2>3. ASSUME NEW k \in Nat PROVE p[k] = IF k = 0 THEN 1 ELSE m * p[k - 1]
    <3>1. CASE k = 0
      BY <1>2, <2>1, <3>1
    <3>2. CASE k # 0
      <4>1. k - 1 \in Nat /\ (k - 1) + 1 = k
        BY <3>2
      <4>2. p[k] = m * p[k - 1]
        BY <1>3, <2>1, <4>1
      <4>3. QED
        BY <3>2, <4>2
    <3>3. QED
      BY <3>1, <3>2
  <2>4. QED
    BY <2>1, <2>2, <2>3
<1>5. Powers(m) = CHOOSE p : Recursive(p)
  BY DEF Powers
<1> HIDE DEF powers
<1>6. Recursive(Powers(m))
  BY <1>4, <1>5, Zenon
<1>7. PICK p : p = Powers(m)
  OBVIOUS
<1>8. p = [k \in Nat |-> IF k = 0 THEN 1 ELSE m * p[k - 1]]
  BY <1>6, <1>7
<1>9. p[0] = 1
  BY <1>8
<1>10. \A n \in Nat : p[n + 1] = m * p[n]
  BY <1>8
<1>11. ASSUME NEW n \in Nat PROVE p[n] \in Int
  <2> DEFINE T == {k \in Nat : p[k] \notin Int}
  <2>1. SUFFICES ASSUME n \in T PROVE FALSE
    OBVIOUS
  <2>2. PICK k \in T : \A j \in T : k <= j
    <3>1. T \subseteq Nat
      OBVIOUS
    <3> HIDE DEF T
    <3>2. QED
      BY <2>1, <3>1, LeastOf
  <2>3. k \in Nat /\ k # 0 /\ p[k] \notin Int
    BY <1>9
  <2>4. k - 1 \in Nat /\ k - 1 \notin T
    BY <2>2, <2>3
  <2>5. p[k - 1] \in Int /\ (k - 1) + 1 = k
    BY <2>3, <2>4
  <2>6. p[k] = m * p[k - 1]
    BY <1>10, <2>4, <2>5
  <2>7. QED
    BY <2>3, <2>5, <2>6
<1>12. QED
  BY <1>7, <1>9, <1>10, <1>11

\* Powers of naturals are naturals, positive ones of a positive base, and the
\* greater base has the greater powers.
LEMMA PowersOrdered ==
    ASSUME NEW a \in Nat, NEW b \in Nat, a <= b, NEW n \in Nat
    PROVE  /\ Powers(a)[n] \in Nat /\ Powers(b)[n] \in Nat
           /\ Powers(a)[n] <= Powers(b)[n]
           /\ b # 0 => Powers(b)[n] # 0
<1> DEFINE Ordered(k) ==
             /\ Powers(a)[k] \in Nat /\ Powers(b)[k] \in Nat
             /\ Powers(a)[k] <= Powers(b)[k]
             /\ b # 0 => Powers(b)[k] # 0
           T == {k \in Nat : ~ Ordered(k)}
<1>1. SUFFICES ASSUME n \in T PROVE FALSE
  OBVIOUS
<1>2. PICK k \in T : \A j \in T : k <= j
  <2>1. T \subseteq Nat
    OBVIOUS
  <2> HIDE DEF T
  <2>2. QED
    BY <1>1, <2>1, LeastOf
<1>3. Ordered(0)
  BY PowersAre
<1>4. k \in Nat /\ k # 0 /\ ~ Ordered(k)
  BY <1>3
<1>5. PICK j \in Nat : k = j + 1 /\ Ordered(j)
  <2>1. k - 1 \in Nat /\ k = (k - 1) + 1 /\ k - 1 \notin T
    BY <1>2, <1>4
  <2>2. QED
    BY <2>1
<1>6. PICK c \in Nat, d \in Nat :
        /\ c = Powers(a)[j] /\ d = Powers(b)[j]
        /\ c <= d /\ (b # 0 => d # 0)
  BY <1>5
<1>7. Powers(a)[k] = a * c /\ Powers(b)[k] = b * d
  BY <1>5, <1>6, PowersAre
<1>8. a * c \in Nat /\ b * d \in Nat /\ a * c <= b * d
  BY <1>6
<1>9. b # 0 => b * d # 0
  BY <1>6
<1>10. QED
  BY <1>4, <1>7, <1>8, <1>9

LEMMA PowersAreNat ==
    ASSUME NEW a \in Nat, NEW n \in Nat
    PROVE  Powers(a)[n] \in Nat /\ (a # 0 => Powers(a)[n] # 0)
  BY PowersOrdered

-----------------------------------------------------------------------------
(* Fractions. *)

\* The greater fraction has the greater quotient.
LEMMA QuotientGrows ==
    ASSUME NEW x \in Nat, NEW a \in Nat \ {0}, NEW y \in Nat, NEW b \in Nat \ {0},
           x * b <= y * a
    PROVE  x \div a \in Nat /\ y \div b \in Nat /\ x \div a <= y \div b
<1>1. PICK q \in Nat : q = x \div a /\ a * q <= x
  OBVIOUS
<1>2. PICK r \in Nat : r = y \div b /\ y < b * r + b
  OBVIOUS
<1>3. SUFFICES ASSUME r < q PROVE FALSE
  BY <1>1, <1>2
<1>4. r + 1 <= q
  BY <1>3
<1>5. b * (r + 1) <= b * q
  BY <1>4
<1>6. y < b * q
  BY <1>2, <1>5
<1>7. PICK z \in Nat : z = b * q
  OBVIOUS
<1>8. y * a < z * a
  BY <1>6, <1>7
<1>9. (a * q) * b <= x * b
  BY <1>1
<1>10. (a * q) * b = z * a
  BY <1>7
<1>11. QED
  BY <1>8, <1>9, <1>10

-----------------------------------------------------------------------------
(* The schedule. *)

\* A policy of the type of its struct, its factor a fraction.
IsPolicy(policy) ==
    /\ policy.initial_interval \in Nat /\ policy.max_interval \in Nat
    /\ policy.multiplier.num \in Int /\ policy.multiplier.den \in Nat \ {0}

\* What Interval makes of the growth num / den: the delay, or the cap.
Cut(first, max, num, den) ==
    LET delay == IF num <= den THEN first ELSE (first * num) \div den
    IN  IF num <= FloatMax * den /\ delay <= max THEN delay ELSE max

LEMMA IntervalIs ==
    ASSUME NEW policy, IsPolicy(policy), NEW n \in Nat
    PROVE  \E e \in Nat :
             /\ e = Exponent(n)
             /\ Powers(policy.multiplier.num)[e] \in Int
             /\ Powers(policy.multiplier.den)[e] \in Nat \ {0}
             /\ Interval(policy, n) =
                  Cut(policy.initial_interval, policy.max_interval,
                      Powers(policy.multiplier.num)[e], Powers(policy.multiplier.den)[e])
<1>1. PICK e \in Nat : e = Exponent(n)
  BY ReconnectAssumption DEF Exponent, Lesser, Greater
<1>2. Powers(policy.multiplier.num)[e] \in Int
  BY PowersAre DEF IsPolicy
<1>3. Powers(policy.multiplier.den)[e] \in Nat \ {0}
  BY PowersOrdered DEF IsPolicy
<1>4. QED
  BY <1>1, <1>2, <1>3 DEF Interval, Cut

LEMMA CutBounded ==
    ASSUME NEW first \in Nat, NEW max \in Nat, NEW num \in Int, NEW den \in Nat \ {0}
    PROVE  Cut(first, max, num, den) \in 0 .. max
<1>1. num > den => (first * num) \div den \in Nat
  <2>1. ASSUME num > den PROVE (first * num) \div den \in Nat
    <3>1. PICK x \in Nat : x = first * num
      BY <2>1
    <3>2. x \div den \in Nat
      OBVIOUS
    <3>3. QED
      BY <3>1, <3>2
  <2>2. QED
    BY <2>1
<1>2. PICK delay : delay = IF num <= den THEN first ELSE (first * num) \div den
  OBVIOUS
<1>3. delay \in Nat
  BY <1>1, <1>2
<1>4. QED
  BY <1>2, <1>3 DEF Cut

\* interval() is a delay between nothing and the cap, whatever the factor.
LEMMA IntervalBounded ==
    ASSUME NEW policy, IsPolicy(policy), NEW n \in Nat
    PROVE  Interval(policy, n) \in 0 .. policy.max_interval
<1>1. PICK e \in Nat :
        /\ Powers(policy.multiplier.num)[e] \in Int
        /\ Powers(policy.multiplier.den)[e] \in Nat \ {0}
        /\ Interval(policy, n) =
             Cut(policy.initial_interval, policy.max_interval,
                 Powers(policy.multiplier.num)[e], Powers(policy.multiplier.den)[e])
  BY IntervalIs
<1>2. PICK num \in Int, den \in Nat \ {0}, first \in Nat, max \in Nat :
        /\ first = policy.initial_interval /\ max = policy.max_interval
        /\ num = Powers(policy.multiplier.num)[e]
        /\ den = Powers(policy.multiplier.den)[e]
  BY <1>1 DEF IsPolicy
<1>3. Cut(first, max, num, den) \in 0 .. max
  BY CutBounded
<1>4. QED
  BY <1>1, <1>2, <1>3

\* A growth of at most 1 leaves the first delay as it is.
LEMMA CutOfLittle ==
    ASSUME NEW first \in Nat, NEW max \in Nat, NEW num \in Int, NEW den \in Nat \ {0},
           num <= den
    PROVE  Cut(first, max, num, den) = Lesser(first, max)
<1>1. den <= FloatMax * den
  BY ReconnectAssumption
<1>2. num <= FloatMax * den
  BY <1>1, ReconnectAssumption
<1>3. QED
  BY <1>2 DEF Cut, Lesser

\* The greater growth, of two that are at least 1, has no lesser delay.
LEMMA CutGrows ==
    ASSUME NEW first \in Nat, NEW max \in Nat,
           NEW a \in Nat, NEW b \in Nat \ {0}, NEW c \in Nat, NEW d \in Nat \ {0},
           b <= a, d <= c, a * d <= c * b
    PROVE  Cut(first, max, a, b) <= Cut(first, max, c, d)
<1>1. PICK x \in Nat, y \in Nat : x = first * a /\ y = first * c
  OBVIOUS
<1>2. x * d <= y * b
  <2>1. PICK p \in Nat, q \in Nat : p = a * d /\ q = c * b /\ p <= q
    OBVIOUS
  <2>2. first * p <= first * q
    BY <2>1
  <2>3. x * d = first * p /\ y * b = first * q
    BY <1>1, <2>1
  <2>4. QED
    BY <2>2, <2>3
<1>3. PICK s \in Nat, t \in Nat : s = x \div b /\ t = y \div d /\ s <= t
  BY <1>2, QuotientGrows
<1>4. a = b => s = first
  BY <1>1, <1>3
<1>5. c = d => t = first
  BY <1>1, <1>3
<1>6. c <= FloatMax * d => a <= FloatMax * b
  <2>1. SUFFICES ASSUME c <= FloatMax * d, FloatMax * b < a PROVE FALSE
    BY ReconnectAssumption
  <2>2. FloatMax \in Nat
    BY ReconnectAssumption
  <2>3. PICK u \in Nat, v \in Nat : u = FloatMax * b /\ v = FloatMax * d
    BY <2>2
  <2>4. u * d < a * d
    BY <2>1, <2>3
  <2>5. c * b <= v * b
    BY <2>1, <2>3
  <2>6. u * d = v * b
    BY <2>2, <2>3
  <2>7. QED
    BY <2>4, <2>5, <2>6
<1>7. Cut(first, max, a, b) = IF a <= FloatMax * b /\ s <= max THEN s ELSE max
  BY <1>1, <1>3, <1>4 DEF Cut
<1>8. Cut(first, max, c, d) = IF c <= FloatMax * d /\ t <= max THEN t ELSE max
  BY <1>1, <1>3, <1>5 DEF Cut
<1>9. QED
  BY <1>3, <1>6, <1>7, <1>8

\* interval(attempt + 1) is never less than interval(attempt) unless the factor
\* is negative: past the largest f64, past i32::MAX and at the cap included.
LEMMA IntervalGrows ==
    ASSUME NEW policy, IsPolicy(policy), policy.multiplier.num >= 0, NEW n \in Nat
    PROVE  Interval(policy, n) <= Interval(policy, n + 1)
<1>1. PICK a \in Nat, b \in Nat \ {0}, first \in Nat, max \in Nat :
        /\ a = policy.multiplier.num /\ b = policy.multiplier.den
        /\ first = policy.initial_interval /\ max = policy.max_interval
  BY DEF IsPolicy
<1>2. PICK e \in Nat :
        /\ e = Exponent(n)
        /\ Interval(policy, n) = Cut(first, max, Powers(a)[e], Powers(b)[e])
  BY <1>1, IntervalIs
<1>3. PICK f \in Nat :
        /\ f = Exponent(n + 1)
        /\ Interval(policy, n + 1) = Cut(first, max, Powers(a)[f], Powers(b)[f])
  BY <1>1, IntervalIs
<1>4. f = e \/ f = e + 1
  BY <1>2, <1>3, ReconnectAssumption DEF Exponent, Lesser, Greater
<1>5. PICK x \in Nat, y \in Nat \ {0} : x = Powers(a)[e] /\ y = Powers(b)[e]
  BY PowersAreNat
<1>6. PICK z \in Nat, w \in Nat \ {0} : z = Powers(a)[f] /\ w = Powers(b)[f]
  BY PowersAreNat
<1>7. CASE a <= b
  <2>1. x <= y /\ z <= w
    BY <1>5, <1>6, <1>7, PowersOrdered
  <2>2. /\ Cut(first, max, x, y) = Lesser(first, max)
        /\ Cut(first, max, z, w) = Lesser(first, max)
    BY <2>1, CutOfLittle
  <2>3. QED
    BY <1>2, <1>3, <1>5, <1>6, <2>2 DEF Lesser
<1>8. CASE b <= a
  <2>1. y <= x /\ w <= z
    BY <1>5, <1>6, <1>8, PowersOrdered
  <2>2. x * w <= z * y
    <3>1. CASE f = e
      BY <1>5, <1>6, <3>1
    <3>2. CASE f = e + 1
      <4>1. z = a * x /\ w = b * y
        BY <1>5, <1>6, <3>2, PowersAre
      <4>2. PICK p \in Nat : p = x * y
        OBVIOUS
      <4>3. x * w = b * p /\ z * y = a * p
        BY <4>1, <4>2
      <4>4. b * p <= a * p
        BY <1>8
      <4>5. QED
        BY <4>3, <4>4
    <3>3. QED
      BY <1>4, <3>1, <3>2
  <2>3. Cut(first, max, x, y) <= Cut(first, max, z, w)
    BY <2>1, <2>2, CutGrows
  <2>4. QED
    BY <1>2, <1>3, <1>5, <1>6, <2>3
<1>9. QED
  BY <1>7, <1>8

\* interval(1), the delay before the first retry, whatever the factor.
LEMMA FirstInterval ==
    ASSUME NEW policy, IsPolicy(policy)
    PROVE  Interval(policy, 1) = Lesser(policy.initial_interval, policy.max_interval)
<1>1. PICK e \in Nat :
        /\ e = Exponent(1)
        /\ Interval(policy, 1) =
             Cut(policy.initial_interval, policy.max_interval,
                 Powers(policy.multiplier.num)[e], Powers(policy.multiplier.den)[e])
  BY IntervalIs
<1>2. e = 0
  BY <1>1, ReconnectAssumption DEF Exponent, Lesser, Greater
<1>3. Powers(policy.multiplier.num)[0] = 1 /\ Powers(policy.multiplier.den)[0] = 1
  BY PowersAre DEF IsPolicy
<1>4. Cut(policy.initial_interval, policy.max_interval, 1, 1) =
        Lesser(policy.initial_interval, policy.max_interval)
  BY CutOfLittle DEF IsPolicy
<1>5. QED
  BY <1>1, <1>2, <1>3, <1>4
=============================================================================
