------------------------------ MODULE NatSets ------------------------------
(***************************************************************************)
(* Induction and recursion over the naturals, about sets and functions:    *)
(* what is proved by induction is that a set holds every natural, and what *)
(* is defined by recursion is a function of a step that is a function too. *)
(***************************************************************************)
EXTENDS Lists, WellFoundedInduction, FiniteSetTheorems, TLAPS

(* A set of naturals that is not empty has a least element: the intervals  *)
(* below its elements are finite, and proper inclusion of finite sets is   *)
(* well-founded.                                                           *)
LEMMA LeastNat ==
  ASSUME NEW T, T \subseteq Nat, T # {}
  PROVE  \E x \in T : \A y \in T : x <= y
<1> DEFINE U == {1 .. y : y \in T}
<1>1. U \subseteq FiniteSubsetsOf(Nat) /\ U # {}
  <2>1. \A y \in T : 1 .. y \in SUBSET Nat /\ IsFiniteSet(1 .. y)
    BY FS_Interval
  <2> QED
    BY <2>1 DEF FiniteSubsetsOf
<1>2. \E X \in U : \A Y \in U : ~(<<Y, X>> \in StrictSubsetOrdering(Nat))
  <2> HIDE DEF U
  <2> QED
    BY <1>1, FS_StrictSubsetOrderingWellFounded, WFMin, Zenon
<1>3. PICK x \in T : \A y \in T : ~(<<1 .. y, 1 .. x>> \in StrictSubsetOrdering(Nat))
  BY <1>2, Zenon
<1>4. ASSUME NEW y \in T, ~(x <= y) PROVE FALSE
  <2>1. 1 .. y \subseteq 1 .. x /\ 1 .. y # 1 .. x
    <3>1. x \in 1 .. x /\ x \notin 1 .. y
      BY <1>4
    <3> QED
      BY <1>4, <3>1
  <2>2. <<1 .. y, 1 .. x>> \in (SUBSET Nat) \X (SUBSET Nat)
    OBVIOUS
  <2> QED
    BY <1>3, <2>1, <2>2 DEF StrictSubsetOrdering
<1> QED
  BY <1>4

(* A finite one has a greatest: fewer elements are above a greater one.    *)
LEMMA GreatestNat ==
  ASSUME NEW T, T \subseteq Nat, IsFiniteSet(T), T # {}
  PROVE  \E x \in T : \A y \in T : y <= x
<1> DEFINE Above(x) == {w \in T : x < w}
           U == {Above(x) : x \in T}
<1>1. U \subseteq FiniteSubsetsOf(T) /\ U # {}
  <2>1. \A x \in T : Above(x) \in SUBSET T /\ IsFiniteSet(Above(x))
    BY FS_Subset
  <2> QED
    BY <2>1 DEF FiniteSubsetsOf
<1>2. \E X \in U : \A Y \in U : ~(<<Y, X>> \in StrictSubsetOrdering(T))
  <2> HIDE DEF U
  <2> QED
    BY <1>1, FS_StrictSubsetOrderingWellFounded, WFMin, Zenon
<1>3. PICK x \in T : \A y \in T : ~(<<Above(y), Above(x)>> \in StrictSubsetOrdering(T))
  BY <1>2, Zenon
<1>4. ASSUME NEW y \in T, ~(y <= x) PROVE FALSE
  <2>1. Above(y) \subseteq Above(x) /\ Above(y) # Above(x)
    <3>1. y \in Above(x) /\ y \notin Above(y)
      BY <1>4
    <3>2. \A w \in T : y < w => x < w
      BY <1>4
    <3> QED
      BY <3>1, <3>2
  <2>2. <<Above(y), Above(x)>> \in (SUBSET T) \X (SUBSET T)
    OBVIOUS
  <2> QED
    BY <1>3, <2>1, <2>2 DEF StrictSubsetOrdering
<1> QED
  BY <1>4

(* A finite set has an element no other is above, whatever strict order    *)
(* its elements are in.                                                    *)
LEMMA GreatestOf ==
  ASSUME NEW T, IsFiniteSet(T), T # {}, NEW R,
         \A x \in T : <<x, x>> \notin R,
         \A x, y, z \in T : <<x, y>> \in R /\ <<y, z>> \in R => <<x, z>> \in R
  PROVE  \E x \in T : \A y \in T : <<x, y>> \notin R
<1> DEFINE Above(x) == {w \in T : <<x, w>> \in R}
           U == {Above(x) : x \in T}
<1>0. \A x \in T : Above(x) \in FiniteSubsetsOf(T)
  <2> SUFFICES ASSUME NEW x \in T PROVE Above(x) \in FiniteSubsetsOf(T)
    OBVIOUS
  <2>1. Above(x) \subseteq T
    OBVIOUS
  <2> HIDE DEF Above
  <2>2. IsFiniteSet(Above(x))
    BY <2>1, FS_Subset
  <2> QED
    BY <2>1, <2>2 DEF FiniteSubsetsOf
<1>1. ASSUME NEW x \in T, NEW y \in T, <<x, y>> \in R
      PROVE  <<Above(y), Above(x)>> \in StrictSubsetOrdering(T)
  <2>1. Above(y) \subseteq Above(x)
    BY <1>1
  <2>2. y \in Above(x) /\ y \notin Above(y)
    BY <1>1
  <2>3. <<Above(y), Above(x)>> \in (SUBSET T) \X (SUBSET T)
    OBVIOUS
  <2> QED
    BY <2>1, <2>2, <2>3 DEF StrictSubsetOrdering
<1> HIDE DEF Above
<1>2. U \subseteq FiniteSubsetsOf(T) /\ U # {}
  BY <1>0
<1>3. PICK X \in U : \A Y \in U : ~(<<Y, X>> \in StrictSubsetOrdering(T))
  <2> HIDE DEF U
  <2> QED
    BY <1>2, FS_StrictSubsetOrderingWellFounded, WFMin, Zenon
<1>4. PICK x \in T : X = Above(x)
  OBVIOUS
<1>5. \A y \in T : Above(y) \in U
  OBVIOUS
<1> HIDE DEF U
<1>6. \A y \in T : <<x, y>> \notin R
  BY <1>1, <1>3, <1>4, <1>5
<1> QED
  BY <1>6

(* A set that has zero, and the successor of each natural it has, has all. *)
LEMMA SetInduction ==
  ASSUME NEW S, 0 \in S, \A n \in Nat : n \in S => n + 1 \in S
  PROVE  Nat \subseteq S
<1> SUFFICES ASSUME ~(Nat \subseteq S) PROVE FALSE
  OBVIOUS
<1> DEFINE T == {n \in Nat : n \notin S}
<1>1. T \subseteq Nat /\ T # {}
  OBVIOUS
<1> HIDE DEF T
<1>2. PICK x \in T : \A y \in T : x <= y
  BY <1>1, LeastNat
<1>3. x \in Nat /\ x \notin S
  BY DEF T
<1>4. x - 1 \in Nat /\ x - 1 \notin T
  BY <1>2, <1>3
<1>5. x - 1 \in S
  BY <1>4 DEF T
<1> QED
  BY <1>3, <1>4, <1>5

(* The first n results of following a step function from x0.               *)
Unrolls(g, X, x0, step, n) ==
    /\ g \in [0 .. n -> X] /\ g[0] = x0
    /\ \A i \in 1 .. n : g[i] = step[<<i, g[i - 1]>>]

(* A step function can be followed for any number of steps.                *)
LEMMA Unrolled ==
  ASSUME NEW X, NEW x0 \in X, NEW step \in [Nat \X X -> X], NEW n \in Nat
  PROVE  \E g : Unrolls(g, X, x0, step, n)
<1> USE DEF Unrolls
<1> DEFINE Good(k, g) == Unrolls(g, X, x0, step, k)
           S == {k \in Nat : \E g : Good(k, g)}
<1>1. 0 \in S
  <2>1. Good(0, [i \in 0 .. 0 |-> x0])
    OBVIOUS
  <2> QED
    BY <2>1
<1>2. ASSUME NEW k \in Nat, k \in S PROVE k + 1 \in S
  <2>1. PICK g : Good(k, g)
    BY <1>2
  <2> DEFINE h == [i \in 0 .. k + 1 |-> IF i = k + 1 THEN step[<<k + 1, g[k]>>] ELSE g[i]]
  <2>2. k + 1 \in Nat /\ g[k] \in X
    BY <2>1
  <2>3. step[<<k + 1, g[k]>>] \in X
    BY <2>2
  <2>4. h \in [0 .. k + 1 -> X] /\ h[0] = x0
    BY <2>1, <2>3
  <2>5. h[k + 1] = step[<<k + 1, h[k]>>] /\ \A i \in 0 .. k : h[i] = g[i]
    <3>1. k + 1 \in 0 .. k + 1 /\ k \in 0 .. k + 1 /\ k # k + 1
      OBVIOUS
    <3>2. ASSUME NEW i \in 0 .. k PROVE i \in 0 .. k + 1 /\ i # k + 1
      OBVIOUS
    <3> QED
      BY <3>1, <3>2, Zenon
  <2> HIDE DEF h
  <2>6. ASSUME NEW i \in 1 .. k + 1 PROVE h[i] = step[<<i, h[i - 1]>>]
    <3>1. CASE i = k + 1
      <4>1. i - 1 = k
        BY <3>1
      <4> QED
        BY <2>5, <3>1, <4>1
    <3>2. CASE i # k + 1
      <4>1. i \in 1 .. k /\ i \in 0 .. k /\ i - 1 \in 0 .. k
        BY <3>2
      <4> QED
        BY <2>1, <2>5, <4>1
    <3> QED
      BY <3>1, <3>2
  <2>7. Good(k + 1, h)
    BY <2>4, <2>6
  <2> QED
    BY <2>7
<1> HIDE DEF S
<1>3. n \in S
  BY <1>1, <1>2, SetInduction
<1> QED
  BY <1>3 DEF S

(* What is picked from a list is on it, at one of the places named, and    *)
(* whatever is at one of them is picked.                                   *)
LEMMA PickedIsListed ==
  ASSUME NEW S, NEW s \in Seq(S), NEW T, T \subseteq DOMAIN s
  PROVE  /\ Picked(s, T) \in Seq(S) /\ Len(Picked(s, T)) <= Len(s)
         /\ \A k \in DOMAIN Picked(s, T) : \E i \in T : Picked(s, T)[k] = s[i]
         /\ \A i \in T : \E k \in DOMAIN Picked(s, T) : Picked(s, T)[k] = s[i]
<1> DEFINE n == Len(s)
           X == {t \in Seq(S) : \A k \in DOMAIN t : \E i \in T : t[k] = s[i]}
           Step(f, i) == IF i = 0 THEN <<>>
                         ELSE IF i \in T THEN Append(f[i - 1], s[i]) ELSE f[i - 1]
           Is(f) == f = [i \in 0 .. n |-> Step(f, i)]
           step == [z \in Nat \X X |-> IF z[1] \in T THEN Append(z[2], s[z[1]]) ELSE z[2]]
<1>0. n \in Nat /\ DOMAIN s = 1 .. n
  OBVIOUS
<1>a. ASSUME NEW i \in T, NEW t \in X
      PROVE  /\ Append(t, s[i]) \in X /\ Len(Append(t, s[i])) = Len(t) + 1
             /\ \A k \in DOMAIN t : k \in DOMAIN Append(t, s[i]) /\ Append(t, s[i])[k] = t[k]
             /\ Len(t) + 1 \in DOMAIN Append(t, s[i]) /\ Append(t, s[i])[Len(t) + 1] = s[i]
  <2>1. s[i] \in S /\ t \in Seq(S)
    OBVIOUS
  <2> DEFINE u == Append(t, s[i])
  <2>2. /\ u \in Seq(S) /\ DOMAIN u = 1 .. Len(t) + 1 /\ Len(u) = Len(t) + 1 /\ Len(t) \in Nat
        /\ DOMAIN t = 1 .. Len(t) /\ u[Len(t) + 1] = s[i] /\ \A k \in 1 .. Len(t) : u[k] = t[k]
    BY <2>1
  <2>3. ASSUME NEW k \in DOMAIN u PROVE \E j \in T : u[k] = s[j]
    <3> HIDE DEF u
    <3>1. k \in 1 .. Len(t) \/ k = Len(t) + 1
      BY <2>2
    <3> QED
      BY <2>2, <3>1
  <2>4. u \in X
    <3>1. u \in Seq(S)
      BY <2>2
    <3> HIDE DEF u
    <3> QED
      BY <2>3, <3>1
  <2>5. Len(t) + 1 \in DOMAIN u /\ \A k \in DOMAIN t : k \in DOMAIN u
    <3> HIDE DEF u, X
    <3> QED
      BY <2>2
  <2>6. /\ Len(u) = Len(t) + 1 /\ u[Len(t) + 1] = s[i]
        /\ \A k \in DOMAIN t : k \in DOMAIN u /\ u[k] = t[k]
    <3> HIDE DEF u, X
    <3> QED
      BY <2>2, <2>5
  <2> HIDE DEF X
  <2> QED
    BY <2>4, <2>5, <2>6
<1>1. step \in [Nat \X X -> X] /\ <<>> \in X
  <2>1. ASSUME NEW z \in Nat \X X PROVE step[z] \in X
    <3>1. z[1] \in Nat /\ z[2] \in X
      OBVIOUS
    <3> HIDE DEF X
    <3> QED
      BY <1>a, <3>1
  <2>2. <<>> \in X
    OBVIOUS
  <2> HIDE DEF X
  <2> QED
    BY <2>1, <2>2
<1>2. \A i \in Nat, t \in X : step[<<i, t>>] = IF i \in T THEN Append(t, s[i]) ELSE t
  <2> HIDE DEF X
  <2> QED
    OBVIOUS
<1> HIDE DEF step
<1>3. PICK g : Unrolls(g, X, <<>>, step, n)
  <2> HIDE DEF X, n
  <2> QED
    BY <1>0, <1>1, Unrolled
<1>4. Is(g)
  <2>1. g \in [0 .. n -> X] /\ g[0] = <<>> /\ \A i \in 1 .. n : g[i] = step[<<i, g[i - 1]>>]
    BY <1>3 DEF Unrolls
  <2>2. ASSUME NEW i \in 0 .. n PROVE g[i] = Step(g, i)
    <3> HIDE DEF X
    <3>1. CASE i = 0
      BY <2>1, <3>1
    <3>2. CASE i # 0
      <4>1. i \in 1 .. n /\ i - 1 \in 0 .. n /\ i \in Nat
        BY <1>0, <3>2
      <4>2. g[i - 1] \in X
        BY <2>1, <4>1
      <4>3. g[i] = step[<<i, g[i - 1]>>]
        BY <2>1, <4>1
      <4> QED
        BY <1>2, <3>2, <4>1, <4>2, <4>3
    <3> QED
      BY <3>1, <3>2
  <2> HIDE DEF Step, X
  <2> QED
    BY <2>1, <2>2
<1> DEFINE f == CHOOSE f : Is(f)
<1>5. Is(f)
  BY <1>4
<1>6. Picked(s, T) = f[n]
  BY DEF Picked
<1> HIDE DEF f
<1>7. \A i \in 0 .. n : f[i] = Step(f, i)
  <2> HIDE DEF Step
  <2> QED
    BY <1>5
<1>8. f[0] = <<>> /\ \A i \in 1 .. n : f[i] = IF i \in T THEN Append(f[i - 1], s[i]) ELSE f[i - 1]
  BY <1>0, <1>7
<1> DEFINE Has(t, k) == \A i \in T : i <= k => \E j \in DOMAIN t : t[j] = s[i]
           Good == {k \in Nat : k <= n => f[k] \in X /\ Len(f[k]) <= k /\ Has(f[k], k)}
<1>9. 0 \in Good
  <2>1. Len(<<>>) = 0 /\ Has(<<>>, 0)
    BY <1>0
  <2> HIDE DEF X, Has
  <2> QED
    BY <1>1, <1>8, <2>1
<1>10. ASSUME NEW k \in Nat, k \in Good PROVE k + 1 \in Good
  <2> SUFFICES ASSUME k + 1 <= n
               PROVE  f[k + 1] \in X /\ Len(f[k + 1]) <= k + 1 /\ Has(f[k + 1], k + 1)
    OBVIOUS
  <2>0. k <= n /\ k + 1 \in 1 .. n /\ (k + 1) - 1 = k
    BY <1>0
  <2>1. f[k] \in X /\ Len(f[k]) <= k /\ Len(f[k]) \in Nat /\ Has(f[k], k)
    BY <1>10, <2>0
  <2>2. f[k + 1] = IF k + 1 \in T THEN Append(f[k], s[k + 1]) ELSE f[k]
    BY <1>8, <2>0
  <2>3. CASE k + 1 \in T
    <3> DEFINE u == Append(f[k], s[k + 1])
    <3>1. /\ u \in X /\ Len(u) = Len(f[k]) + 1
          /\ \A j \in DOMAIN f[k] : j \in DOMAIN u /\ u[j] = f[k][j]
          /\ \E j \in DOMAIN u : u[j] = s[k + 1]
      <4> HIDE DEF X
      <4> QED
        BY <1>a, <2>1, <2>3
    <3> HIDE DEF u
    <3>2. ASSUME NEW i \in T, i <= k + 1 PROVE \E j \in DOMAIN u : u[j] = s[i]
      <4>1. i \in Nat /\ (i <= k \/ i = k + 1)
        BY <1>0, <3>2
      <4>2. CASE i <= k
        BY <2>1, <3>1, <4>2
      <4> QED
        BY <3>1, <4>1, <4>2
    <3>3. Has(u, k + 1)
      BY <3>2
    <3>4. f[k + 1] = u
      BY <2>2, <2>3 DEF u
    <3> HIDE DEF X, Has
    <3> QED
      BY <2>1, <3>1, <3>3, <3>4
  <2>4. CASE k + 1 \notin T
    <3>1. Has(f[k], k + 1)
      <4>1. \A i \in T : i <= k + 1 => i <= k
        BY <1>0, <2>4
      <4> QED
        BY <2>1, <4>1
    <3> HIDE DEF X, Has
    <3> QED
      BY <2>1, <2>2, <2>4, <3>1
  <2> QED
    BY <2>3, <2>4
<1>11. n \in Good
  <2> HIDE DEF Good
  <2> QED
    BY <1>0, <1>9, <1>10, SetInduction
<1>12. f[n] \in X /\ Len(f[n]) <= n /\ Has(f[n], n)
  <2> HIDE DEF X, Has
  <2> QED
    BY <1>0, <1>11
<1>13. \A i \in T : i <= n
  BY <1>0
<1> QED
  BY <1>6, <1>12, <1>13
=============================================================================
