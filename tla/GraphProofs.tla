----------------------------- MODULE GraphProofs -----------------------------
(***************************************************************************)
(* Theorems of Graph, for all lockfiles, options and bounds.               *)
(*                                                                         *)
(* The walk's invariant, WalkInv, says what the stack, the packages        *)
(* remembered as expanded and the rows drawn so far have in common: every  *)
(* row is a path through the graph, every placement is the true one, and   *)
(* whatever the stack has passed has its row or is left out by the search. *)
(* The properties are what it says of a walk that is done.  Parts:         *)
(*   1. the graph that is built: InOrder, Resolve, FromResolved, Inverted  *)
(*   2. the stack, the rows, and the walk's invariant                      *)
(*   3. bounds and markers                                                 *)
(*   4. the search and the filter                                          *)
(*   5. what is drawn is what can be reached                               *)
(***************************************************************************)
EXTENDS Graph, NatSets, SequenceTheorems, TLAPS

-----------------------------------------------------------------------------
(***************************************************************************)
(* 1. The graph that is built.                                             *)
(***************************************************************************)
(* The recursion of InOrder, unfolded.                                     *)
PicksUp(f, n, S) ==
  /\ f \in [0 .. n -> Seq(Nat)]
  /\ f[0] = <<>>
  /\ \A i \in 1 .. n : f[i] = IF i \in S THEN Append(f[i - 1], i) ELSE f[i - 1]

(* InOrder is the last of the steps of PicksUp.                            *)
LEMMA InOrderUnfolds ==
  ASSUME NEW n \in Nat, NEW S
  PROVE  \E f : PicksUp(f, n, S) /\ InOrder(n, S) = f[n]
<1> DEFINE Step(f, i) == IF i = 0 THEN <<>>
                         ELSE IF i \in S THEN Append(f[i - 1], i) ELSE f[i - 1]
           Is(f) == f = [i \in 0 .. n |-> Step(f, i)]
           step == [z \in Nat \X Seq(Nat) |-> IF z[1] \in S THEN Append(z[2], z[1]) ELSE z[2]]
<1>1. step \in [Nat \X Seq(Nat) -> Seq(Nat)] /\ <<>> \in Seq(Nat)
  OBVIOUS
<1>2. \A i \in Nat, s \in Seq(Nat) : step[<<i, s>>] = IF i \in S THEN Append(s, i) ELSE s
  OBVIOUS
<1> HIDE DEF step
<1>3. PICK g : Unrolls(g, Seq(Nat), <<>>, step, n)
  BY <1>1, Unrolled
<1>4. Is(g)
  <2>1. g \in [0 .. n -> Seq(Nat)] /\ g[0] = <<>> /\ \A i \in 1 .. n : g[i] = step[<<i, g[i - 1]>>]
    BY <1>3 DEF Unrolls
  <2>2. ASSUME NEW i \in 0 .. n PROVE g[i] = Step(g, i)
    <3>1. CASE i = 0
      BY <2>1, <3>1
    <3>2. CASE i # 0
      <4>1. i \in 1 .. n /\ i - 1 \in 0 .. n /\ i \in Nat
        BY <3>2
      <4>2. g[i - 1] \in Seq(Nat)
        BY <2>1, <4>1
      <4>3. g[i] = step[<<i, g[i - 1]>>]
        BY <2>1, <4>1
      <4> QED
        BY <1>2, <3>2, <4>1, <4>2, <4>3
    <3> QED
      BY <3>1, <3>2
  <2> HIDE DEF Step
  <2> QED
    BY <2>1, <2>2
<1> DEFINE f == CHOOSE f : Is(f)
<1>5. Is(f)
  BY <1>4
<1>6. InOrder(n, S) = f[n]
  BY DEF InOrder
<1> HIDE DEF f
<1>7. DOMAIN f = 0 .. n /\ f = [i \in 0 .. n |-> f[i]] /\ \A i \in 0 .. n : f[i] = Step(f, i)
  <2> HIDE DEF Step
  <2> QED
    BY <1>5
<1>8. f[0] = <<>> /\ \A i \in 1 .. n : f[i] = IF i \in S THEN Append(f[i - 1], i) ELSE f[i - 1]
  BY <1>7
<1>9. ASSUME NEW i \in 0 .. n PROVE f[i] \in Seq(Nat)
  <2> DEFINE T == {k \in Nat : k <= n => f[k] \in Seq(Nat)}
  <2>1. 0 \in T
    BY <1>1, <1>8
  <2>2. ASSUME NEW k \in Nat, k \in T PROVE k + 1 \in T
    <3> SUFFICES ASSUME k + 1 <= n PROVE f[k + 1] \in Seq(Nat)
      OBVIOUS
    <3>1. k + 1 \in 1 .. n /\ (k + 1) - 1 = k /\ f[k] \in Seq(Nat)
      BY <2>2
    <3>2. f[k + 1] = IF k + 1 \in S THEN Append(f[k], k + 1) ELSE f[k]
      BY <1>8, <3>1
    <3> QED
      BY <3>1, <3>2
  <2> HIDE DEF T
  <2>3. i \in T
    BY <2>1, <2>2, SetInduction
  <2> QED
    BY <2>3 DEF T
<1>10. f \in [0 .. n -> Seq(Nat)]
  BY <1>7, <1>9
<1>11. PicksUp(f, n, S)
  BY <1>8, <1>10 DEF PicksUp
<1> QED
  BY <1>6, <1>11

(* A sequence that lists the set T in ascending order.                     *)
Lists(s, T) ==
  /\ s \in Seq(T)
  /\ Elements(s) = T
  /\ \A k, l \in DOMAIN s : k < l => s[k] < s[l]

(* InOrder lists the numbers of S among 1 .. n, ascending.                 *)
LEMMA InOrderLists ==
  ASSUME NEW n \in Nat, NEW S
  PROVE  Lists(InOrder(n, S), S \cap 1 .. n)
<1>0. PICK f : PicksUp(f, n, S) /\ InOrder(n, S) = f[n]
  BY InOrderUnfolds, Zenon
<1>1. /\ f \in [0 .. n -> Seq(Nat)] /\ f[0] = <<>> /\ InOrder(n, S) = f[n]
      /\ \A i \in 1 .. n : f[i] = IF i \in S THEN Append(f[i - 1], i) ELSE f[i - 1]
  BY <1>0 DEF PicksUp
<1> DEFINE T == {k \in Nat : k <= n => Lists(f[k], S \cap 1 .. k)}
<1>2. 0 \in T
  <2>1. S \cap 1 .. 0 = {} /\ f[0] = <<>>
    BY <1>1
  <2>2. Lists(<<>>, {})
    <3>1. DOMAIN << >> = {} /\ <<>> \in Seq({})
      OBVIOUS
    <3> QED
      BY <3>1 DEF Lists, Elements
  <2> QED
    BY <2>1, <2>2
<1>3. ASSUME NEW k \in Nat, k \in T PROVE k + 1 \in T
  <2> SUFFICES ASSUME k + 1 <= n PROVE Lists(f[k + 1], S \cap 1 .. k + 1)
    OBVIOUS
  <2>1. k + 1 \in 1 .. n /\ (k + 1) - 1 = k /\ Lists(f[k], S \cap 1 .. k) /\ k \in 0 .. n
    BY <1>3
  <2>2. f[k + 1] = IF k + 1 \in S THEN Append(f[k], k + 1) ELSE f[k]
    BY <1>1, <2>1
  <2> DEFINE s == f[k]
  <2>3. s \in Seq(Nat) /\ Lists(s, S \cap 1 .. k)
    BY <1>1, <2>1
  <2> HIDE DEF s
  <2>4. CASE k + 1 \notin S
    <3>1. S \cap 1 .. k + 1 = S \cap 1 .. k
      BY <2>4
    <3> QED
      BY <2>2, <2>3, <2>4, <3>1 DEF s
  <2>5. CASE k + 1 \in S
    <3> DEFINE t == Append(s, k + 1)
    <3>1. /\ Len(t) = Len(s) + 1 /\ t[Len(s) + 1] = k + 1
          /\ \A i \in 1 .. Len(s) : t[i] = s[i]
          /\ t \in Seq(Nat) /\ DOMAIN t = 1 .. Len(s) + 1 /\ DOMAIN s = 1 .. Len(s) /\ Len(s) \in Nat
      BY <2>3
    <3> HIDE DEF t
    <3>2. S \cap 1 .. k + 1 = (S \cap 1 .. k) \cup {k + 1}
      BY <2>5
    <3>3. \A i \in DOMAIN s : s[i] \in S \cap 1 .. k
      BY <2>3 DEF Lists
    <3>4. Elements(t) = S \cap 1 .. k + 1
      <4>1. \A x \in Elements(t) : x \in S \cap 1 .. k + 1
        BY <3>1, <3>2, <3>3 DEF Elements
      <4>2. ASSUME NEW x \in S \cap 1 .. k + 1 PROVE x \in Elements(t)
        <5>1. CASE x = k + 1
          BY <3>1, <5>1 DEF Elements
        <5>2. CASE x \in S \cap 1 .. k
          <6>1. PICK i \in DOMAIN s : x = s[i]
            BY <2>3, <5>2 DEF Lists, Elements
          <6> QED
            BY <3>1, <6>1 DEF Elements
        <5> QED
          BY <3>2, <5>1, <5>2
      <4> QED
        BY <4>1, <4>2
    <3>5. ASSUME NEW i \in DOMAIN t, NEW j \in DOMAIN t, i < j PROVE t[i] < t[j]
      <4>1. i \in DOMAIN s /\ t[i] = s[i] /\ s[i] <= k /\ s[i] \in Nat
        BY <3>1, <3>3, <3>5
      <4>2. CASE j = Len(s) + 1
        BY <3>1, <4>1, <4>2
      <4>3. CASE j # Len(s) + 1
        <5>1. j \in DOMAIN s /\ t[j] = s[j]
          BY <3>1, <4>3
        <5> QED
          BY <2>3, <3>5, <4>1, <5>1 DEF Lists
      <4> QED
        BY <4>2, <4>3
    <3>6. t \in Seq(S \cap 1 .. k + 1)
      <4>1. \A i \in 1 .. Len(t) : t[i] \in S \cap 1 .. k + 1
        BY <3>1, <3>4 DEF Elements
      <4> QED
        BY <3>1, <4>1
    <3> QED
      BY <2>2, <2>5, <3>4, <3>5, <3>6 DEF Lists, s, t
  <2> QED
    BY <2>4, <2>5
<1> HIDE DEF T
<1>4. n \in T
  BY <1>2, <1>3, SetInduction
<1> QED
  BY <1>1, <1>4 DEF T

(* The order makes every element appear once.                              *)
Once(s) == \A k, l \in DOMAIN s : s[k] = s[l] => k = l

(* An ascending list names nothing twice.                                  *)
LEMMA ListsOnce ==
  ASSUME NEW s, NEW T, T \subseteq Nat, Lists(s, T) PROVE Once(s)
<1>1. \A k \in DOMAIN s : k \in Nat /\ s[k] \in Nat
  <2>1. s \in Seq(T)
    BY DEF Lists
  <2>2. DOMAIN s = 1 .. Len(s) /\ Len(s) \in Nat /\ \A k \in 1 .. Len(s) : s[k] \in T
    BY <2>1
  <2>3. ASSUME NEW k \in DOMAIN s PROVE k \in Nat /\ s[k] \in Nat
    <3>1. k \in 1 .. Len(s) /\ s[k] \in T
      BY <2>2
    <3>2. k \in Nat
      BY <2>2, <3>1
    <3>3. s[k] \in Nat
      BY <3>1
    <3> QED
      BY <3>2, <3>3
  <2> QED
    BY <2>3
<1> SUFFICES ASSUME NEW k \in DOMAIN s, NEW l \in DOMAIN s, s[k] = s[l] PROVE k = l
  BY DEF Once
<1>2. ~(k < l) /\ ~(l < k)
  BY <1>1 DEF Lists
<1>3. k \in Nat /\ l \in Nat
  BY <1>1
<1> QED
  BY <1>2, <1>3

(* FirstOnly keeps the elements and drops the copies.                      *)
LEMMA FirstOnlyListsOnce ==
  ASSUME NEW T, NEW s \in Seq(T)
  PROVE  /\ FirstOnly(s) \in Seq(T)
         /\ Elements(FirstOnly(s)) = Elements(s)
         /\ Once(FirstOnly(s))
<1> DEFINE F == {i \in DOMAIN s : \A j \in 1 .. i - 1 : s[j] # s[i]}
           firsts == InOrder(Len(s), F)
           t == FirstOnly(s)
<1>1. Len(s) \in Nat /\ DOMAIN s = 1 .. Len(s) /\ \A i \in 1 .. Len(s) : s[i] \in T
  OBVIOUS
<1>2. F \subseteq 1 .. Len(s) /\ F \cap 1 .. Len(s) = F /\ F \subseteq Nat
  BY <1>1
<1>3. t = [k \in DOMAIN firsts |-> s[firsts[k]]]
  BY DEF FirstOnly
<1>4. \A i \in F : i \in DOMAIN s /\ \A j \in 1 .. i - 1 : s[j] # s[i]
  OBVIOUS
<1>5. \A i \in DOMAIN s : (\A j \in 1 .. i - 1 : s[j] # s[i]) => i \in F
  OBVIOUS
<1> HIDE DEF F, t
<1>6. Lists(firsts, F)
  BY <1>1, <1>2, InOrderLists
<1>7. Once(firsts)
  BY <1>2, <1>6, ListsOnce
<1> HIDE DEF firsts
<1>8. firsts \in Seq(F) /\ Elements(firsts) = F
  BY <1>6 DEF Lists
<1>9. Len(firsts) \in Nat /\ DOMAIN firsts = 1 .. Len(firsts) /\ \A k \in 1 .. Len(firsts) : firsts[k] \in F
  BY <1>8
<1>10. t \in Seq(T) /\ DOMAIN t = DOMAIN firsts /\ \A k \in DOMAIN t : t[k] = s[firsts[k]]
  <2>1. \A k \in 1 .. Len(firsts) : s[firsts[k]] \in T
    BY <1>1, <1>4, <1>9
  <2>2. t \in [1 .. Len(firsts) -> T]
    BY <1>3, <1>9, <2>1
  <2> QED
    BY <1>3, <1>9, <2>2, IsASeq
<1>11. ASSUME NEW x \in Elements(s) PROVE x \in Elements(t)
  <2> DEFINE P == {i \in DOMAIN s : s[i] = x}
  <2>1. P \subseteq Nat /\ P # {}
    BY <1>1 DEF Elements
  <2>2. \A i \in P : i \in DOMAIN s /\ s[i] = x
    OBVIOUS
  <2>3. \A i \in DOMAIN s : s[i] = x => i \in P
    OBVIOUS
  <2> HIDE DEF P
  <2>4. PICK i \in P : \A j \in P : i <= j
    BY <2>1, LeastNat
  <2>5. i \in Nat /\ i \in 1 .. Len(s)
    BY <1>1, <2>2
  <2>6. ASSUME NEW j \in 1 .. i - 1 PROVE s[j] # s[i]
    <3>1. j \in DOMAIN s /\ ~(i <= j)
      BY <1>1, <2>5
    <3> QED
      BY <2>2, <2>3, <2>4, <3>1
  <2>7. i \in F
    BY <1>5, <2>2, <2>6
  <2>8. PICK k \in DOMAIN firsts : firsts[k] = i
    BY <1>8, <2>7 DEF Elements
  <2> QED
    BY <1>10, <2>2, <2>8 DEF Elements
<1>12. ASSUME NEW x \in Elements(t) PROVE x \in Elements(s)
  BY <1>4, <1>9, <1>10 DEF Elements
<1>13. ASSUME NEW k \in DOMAIN t, NEW l \in DOMAIN t, t[k] = t[l] PROVE k = l
  <2>1. firsts[k] \in F /\ firsts[l] \in F /\ s[firsts[k]] = s[firsts[l]]
    BY <1>9, <1>10, <1>13
  <2>2. firsts[k] \in Nat /\ firsts[l] \in Nat /\ firsts[k] \in 1 .. Len(s) /\ firsts[l] \in 1 .. Len(s)
    BY <1>2, <2>1
  <2>3. ~(firsts[k] < firsts[l])
    <3>1. SUFFICES ASSUME firsts[k] < firsts[l] PROVE FALSE
      OBVIOUS
    <3>2. firsts[k] \in 1 .. firsts[l] - 1
      BY <2>2, <3>1
    <3> QED
      BY <1>4, <2>1, <3>2
  <2>4. ~(firsts[l] < firsts[k])
    <3>1. SUFFICES ASSUME firsts[l] < firsts[k] PROVE FALSE
      OBVIOUS
    <3>2. firsts[l] \in 1 .. firsts[k] - 1
      BY <2>2, <3>1
    <3> QED
      BY <1>4, <2>1, <3>2
  <2>5. firsts[k] = firsts[l]
    BY <2>2, <2>3, <2>4
  <2> QED
    BY <1>7, <1>10, <2>5 DEF Once
<1>14. Elements(t) = Elements(s)
  BY <1>11, <1>12
<1>15. Once(t)
  BY <1>13 DEF Once
<1> QED
  BY <1>10, <1>14, <1>15 DEF t

(* The graph as it is built: each node lists its dependencies once.        *)
WellFormed(g, N) ==
  /\ g.edges \in [N -> Seq(N)]
  /\ \A n \in N : Once(g.edges[n])
  /\ g.roots \in Seq(N)

(* Joined is the last of its steps.                                        *)
LEMMA JoinedUnfolds ==
  ASSUME NEW T, NEW ss \in Seq(Seq(T))
  PROVE  \E f \in [0 .. Len(ss) -> Seq(T)] :
            /\ f[0] = <<>> /\ Joined(ss) = f[Len(ss)]
            /\ \A i \in 1 .. Len(ss) : f[i] = f[i - 1] \o ss[i]
<1> DEFINE n == Len(ss)
           Step(f, i) == IF i = 0 THEN <<>> ELSE f[i - 1] \o ss[i]
           Is(f) == f = [i \in 0 .. n |-> Step(f, i)]
           step == [z \in Nat \X Seq(T) |-> IF z[1] \in 1 .. n THEN z[2] \o ss[z[1]] ELSE z[2]]
<1>0. n \in Nat /\ \A i \in 1 .. n : ss[i] \in Seq(T)
  OBVIOUS
<1>1. step \in [Nat \X Seq(T) -> Seq(T)] /\ <<>> \in Seq(T)
  BY <1>0
<1>2. \A i \in 1 .. n, s \in Seq(T) : step[<<i, s>>] = s \o ss[i]
  <2> TAKE i \in 1 .. n, s \in Seq(T)
  <2>1. <<i, s>> \in Nat \X Seq(T)
    BY <1>0
  <2> QED
    BY <2>1
<1> HIDE DEF step, n
<1>3. PICK g : Unrolls(g, Seq(T), <<>>, step, n)
  BY <1>0, <1>1, Unrolled
<1>4. Is(g)
  <2>1. g \in [0 .. n -> Seq(T)] /\ g[0] = <<>> /\ \A i \in 1 .. n : g[i] = step[<<i, g[i - 1]>>]
    BY <1>3 DEF Unrolls
  <2>2. ASSUME NEW i \in 0 .. n PROVE g[i] = Step(g, i)
    <3>1. CASE i = 0
      BY <2>1, <3>1
    <3>2. CASE i # 0
      <4>1. i \in 1 .. n /\ i - 1 \in 0 .. n
        BY <1>0, <3>2
      <4>2. g[i - 1] \in Seq(T)
        BY <2>1, <4>1
      <4>3. g[i] = step[<<i, g[i - 1]>>]
        BY <2>1, <4>1
      <4> QED
        BY <1>2, <3>2, <4>1, <4>2, <4>3
    <3> QED
      BY <3>1, <3>2
  <2> HIDE DEF Step
  <2> QED
    BY <2>1, <2>2
<1> DEFINE f == CHOOSE f : Is(f)
<1>5. Is(f)
  BY <1>4
<1>6. Joined(ss) = f[n]
  BY DEF Joined, n
<1> HIDE DEF f
<1>7. DOMAIN f = 0 .. n /\ f = [i \in 0 .. n |-> f[i]] /\ \A i \in 0 .. n : f[i] = Step(f, i)
  <2> HIDE DEF Step
  <2> QED
    BY <1>5
<1>8. f[0] = <<>> /\ \A i \in 1 .. n : f[i] = f[i - 1] \o ss[i]
  <2>1. 0 \in 0 .. n /\ \A i \in 1 .. n : i \in 0 .. n /\ i # 0
    BY <1>0
  <2> QED
    BY <1>7, <2>1
<1>9. ASSUME NEW i \in 0 .. n PROVE f[i] \in Seq(T)
  <2> DEFINE S == {k \in Nat : k <= n => f[k] \in Seq(T)}
  <2>1. 0 \in S
    BY <1>1, <1>8
  <2>2. ASSUME NEW k \in Nat, k \in S PROVE k + 1 \in S
    <3> SUFFICES ASSUME k + 1 <= n PROVE f[k + 1] \in Seq(T)
      OBVIOUS
    <3>1. k + 1 \in 1 .. n /\ (k + 1) - 1 = k /\ f[k] \in Seq(T)
      BY <1>0, <2>2
    <3>2. f[k + 1] = f[k] \o ss[k + 1]
      BY <1>8, <3>1
    <3> QED
      BY <1>0, <3>1, <3>2
  <2> HIDE DEF S
  <2>3. Nat \subseteq S
    BY <2>1, <2>2, SetInduction
  <2> QED
    BY <1>0, <2>3 DEF S
<1>10. f \in [0 .. n -> Seq(T)]
  BY <1>7, <1>9
<1> QED
  BY <1>6, <1>8, <1>10 DEF n

(* The elements of two sequences joined.                                   *)
LEMMA ElementsOfJoin ==
  ASSUME NEW T, NEW s \in Seq(T), NEW t \in Seq(T)
  PROVE  Elements(s \o t) = Elements(s) \cup Elements(t)
<1>1. /\ Len(s) \in Nat /\ Len(t) \in Nat /\ DOMAIN s = 1 .. Len(s) /\ DOMAIN t = 1 .. Len(t)
      /\ DOMAIN (s \o t) = 1 .. Len(s) + Len(t)
      /\ \A i \in 1 .. Len(s) + Len(t) : (s \o t)[i] = IF i <= Len(s) THEN s[i] ELSE t[i - Len(s)]
  OBVIOUS
<1> DEFINE a == Len(s)
           b == Len(t)
           u == s \o t
<1> HIDE DEF a, b, u
<1>2. /\ a \in Nat /\ b \in Nat /\ DOMAIN s = 1 .. a /\ DOMAIN t = 1 .. b /\ DOMAIN u = 1 .. a + b
      /\ \A i \in 1 .. a + b : u[i] = IF i <= a THEN s[i] ELSE t[i - a]
  BY <1>1 DEF a, b, u
<1>3. ASSUME NEW i \in 1 .. a + b PROVE u[i] \in Elements(s) \cup Elements(t)
  <2>1. CASE i <= a
    <3>1. i \in 1 .. a /\ u[i] = s[i]
      BY <1>2, <2>1
    <3> QED
      BY <1>2, <3>1 DEF Elements
  <2>2. CASE ~(i <= a)
    <3>1. i - a \in 1 .. b /\ u[i] = t[i - a]
      BY <1>2, <2>2
    <3> QED
      BY <1>2, <3>1 DEF Elements
  <2> QED
    BY <2>1, <2>2
<1>4. ASSUME NEW i \in 1 .. a PROVE s[i] \in Elements(u)
  <2>1. i \in 1 .. a + b /\ u[i] = s[i]
    BY <1>2
  <2> QED
    BY <1>2, <2>1 DEF Elements
<1>5. ASSUME NEW i \in 1 .. b PROVE t[i] \in Elements(u)
  <2>1. a + i \in 1 .. a + b /\ ~(a + i <= a) /\ (a + i) - a = i
    BY <1>2
  <2>2. u[a + i] = t[i]
    BY <1>2, <2>1
  <2> QED
    BY <1>2, <2>1, <2>2 DEF Elements
<1> QED
  BY <1>2, <1>3, <1>4, <1>5 DEF Elements, u

(* The elements of a sequence of sequences joined.                         *)
LEMMA JoinedElements ==
  ASSUME NEW T, NEW ss \in Seq(Seq(T))
  PROVE  Joined(ss) \in Seq(T) /\ Elements(Joined(ss)) = UNION {Elements(ss[i]) : i \in DOMAIN ss}
<1> DEFINE n == Len(ss)
<1>0. n \in Nat /\ DOMAIN ss = 1 .. n /\ \A i \in 1 .. n : ss[i] \in Seq(T)
  OBVIOUS
<1>1. PICK f \in [0 .. n -> Seq(T)] :
            /\ f[0] = <<>> /\ Joined(ss) = f[n]
            /\ \A i \in 1 .. n : f[i] = f[i - 1] \o ss[i]
  BY JoinedUnfolds
<1> HIDE DEF n
<1> DEFINE S == {k \in Nat : k <= n => Elements(f[k]) = UNION {Elements(ss[i]) : i \in 1 .. k}}
<1>2. 0 \in S
  <2>1. 1 .. 0 = {}
    OBVIOUS
  <2>2. Elements(f[0]) = {} /\ {Elements(ss[i]) : i \in 1 .. 0} = {}
    BY <1>1, <2>1 DEF Elements
  <2> QED
    BY <2>2
<1>3. ASSUME NEW k \in Nat, k \in S PROVE k + 1 \in S
  <2> SUFFICES ASSUME k + 1 <= n PROVE Elements(f[k + 1]) = UNION {Elements(ss[i]) : i \in 1 .. k + 1}
    OBVIOUS
  <2>1. k + 1 \in 1 .. n /\ (k + 1) - 1 = k /\ k <= n /\ k \in 0 .. n
    BY <1>0
  <2>2. Elements(f[k]) = UNION {Elements(ss[i]) : i \in 1 .. k}
    BY <1>3, <2>1
  <2>3. f[k + 1] = f[k] \o ss[k + 1] /\ f[k] \in Seq(T) /\ ss[k + 1] \in Seq(T)
    BY <1>0, <1>1, <2>1
  <2>4. Elements(f[k + 1]) = Elements(f[k]) \cup Elements(ss[k + 1])
    BY <2>3, ElementsOfJoin
  <2>5. 1 .. k + 1 = (1 .. k) \cup {k + 1}
    OBVIOUS
  <2> QED
    BY <2>2, <2>4, <2>5
<1> HIDE DEF S
<1>4. n \in S
  BY <1>0, <1>2, <1>3, SetInduction
<1> QED
  BY <1>0, <1>1, <1>4 DEF S

(* InOrder lists a set of indices.                                         *)
LEMMA Listing ==
  ASSUME NEW X, NEW s \in Seq(X), NEW T, T \subseteq DOMAIN s
  PROVE  Lists(InOrder(Len(s), T), T)
<1>1. Len(s) \in Nat /\ DOMAIN s = 1 .. Len(s)
  OBVIOUS
<1>2. T \cap 1 .. Len(s) = T
  BY <1>1
<1> QED
  BY <1>1, <1>2, InOrderLists

(* The candidates of a name are all packages of it, in order.              *)
LEMMA CandidatesListed ==
  ASSUME NEW X, NEW p \in Seq(X), NEW name
  PROVE  Lists(Candidates(p, name), {i \in DOMAIN p : p[i].name = name})
BY Listing DEF Candidates, Where

(* What an ascending list says of the set it lists.                        *)
LEMMA OnlyOne ==
  ASSUME NEW s, NEW T, T \subseteq Nat, Lists(s, T)
  PROVE  /\ Len(s) \in Nat /\ DOMAIN s = 1 .. Len(s) /\ s \in Seq(T) /\ Elements(s) = T
         /\ \A j : T = {j} => Len(s) = 1 /\ s[1] = j
         /\ Len(s) = 1 => T = {s[1]}
         /\ s = <<>> <=> T = {}
<1>1. s \in Seq(T) /\ Elements(s) = T /\ Once(s)
  BY ListsOnce DEF Lists
<1>2. Len(s) \in Nat /\ DOMAIN s = 1 .. Len(s) /\ \A i \in 1 .. Len(s) : s[i] \in T
  BY <1>1
<1>3. ASSUME NEW j, T = {j} PROVE Len(s) = 1 /\ s[1] = j
  <2>1. PICK i \in 1 .. Len(s) : s[i] = j
    BY <1>1, <1>2, <1>3 DEF Elements
  <2>2. \A k \in 1 .. Len(s) : k = i
    BY <1>1, <1>2, <1>3, <2>1 DEF Once
  <2>3. 1 \in 1 .. Len(s) /\ Len(s) \in 1 .. Len(s)
    BY <1>2, <2>1
  <2> QED
    BY <2>1, <2>2, <2>3
<1>4. ASSUME Len(s) = 1 PROVE T = {s[1]}
  <2>1. DOMAIN s = {1}
    BY <1>2, <1>4
  <2> QED
    BY <1>1, <2>1 DEF Elements
<1>5. s = <<>> <=> T = {}
  <2>1. ASSUME s = <<>> PROVE T = {}
    BY <1>1, <2>1 DEF Elements
  <2>2. ASSUME T = {} PROVE s = <<>>
    BY <1>1, <2>2
  <2> QED
    BY <2>1, <2>2
<1> QED
  BY <1>1, <1>2, <1>3, <1>4, <1>5

(* A reference resolves to packages of the lockfile.                       *)
LEMMA ResolveIn ==
  ASSUME NEW X, NEW p \in Seq(X), NEW ref
  PROVE  Resolve(p, ref) \in Seq(DOMAIN p)
<1> DEFINE T == {i \in DOMAIN p : p[i].name = ref.name /\ ref.version \in {None, p[i].version}}
           found == InOrder(Len(p), T)
<1>1. T \subseteq DOMAIN p /\ T \subseteq Nat
  OBVIOUS
<1>2. Resolve(p, ref) = IF found = <<>> THEN <<>> ELSE <<found[1]>>
  BY DEF Resolve, Where
<1>3. Lists(found, T)
  BY <1>1, Listing
<1> HIDE DEF T, found
<1>4. found \in Seq(T)
  BY <1>1, <1>3, OnlyOne
<1>5. CASE found = <<>>
  BY <1>2, <1>5
<1>6. CASE found # <<>>
  <2>1. found[1] \in DOMAIN p
    BY <1>1, <1>4, <1>6
  <2> QED
    BY <1>2, <1>6, <2>1
<1> QED
  BY <1>5, <1>6

(* What a lockfile's reference to a package is read as: that package.      *)
LEMMA ReferenceResolves ==
  ASSUME NEW in, NEW X, in.packages \in Seq(X), LockedOnce(in), NEW j \in DOMAIN in.packages
  PROVE  Resolve(in.packages, Reference(in.packages, j)) = <<j>>
<1> DEFINE p == in.packages
           same == {i \in DOMAIN p : p[i].name = p[j].name}
           all == Candidates(p, p[j].name)
           ref == Reference(p, j)
           T == {i \in DOMAIN p : p[i].name = ref.name /\ ref.version \in {None, p[i].version}}
           found == InOrder(Len(p), T)
<1>1. Lists(all, same) /\ same \subseteq Nat /\ j \in same
  BY CandidatesListed
<1>2. ref.name = p[j].name /\ ref.version = IF Len(all) = 1 THEN None ELSE p[j].version
  BY DEF Reference
<1>3. Resolve(p, ref) = IF found = <<>> THEN <<>> ELSE <<found[1]>>
  BY DEF Resolve, Where
<1>4. T \subseteq DOMAIN p /\ T \subseteq Nat /\ Lists(found, T)
  BY Listing
<1> HIDE DEF all, ref, found
<1>5. T = {j}
  <2>1. CASE Len(all) = 1
    <3>1. same = {j}
      BY <1>1, <2>1, OnlyOne
    <3> QED
      BY <1>2, <2>1, <3>1
  <2>2. CASE Len(all) # 1
    <3>1. same # {j}
      BY <1>1, <2>2, OnlyOne
    <3>2. PICK k \in DOMAIN p : p[k].name = p[j].name /\ k # j
      BY <1>1, <3>1
    <3>3. p[j].version # None /\ ref.version = p[j].version
      BY <1>2, <2>2, <3>2 DEF LockedOnce
    <3>4. \A i \in T : i = j
      BY <1>2, <3>3 DEF LockedOnce
    <3>5. j \in T
      BY <1>2, <3>3
    <3> QED
      BY <3>4, <3>5
  <2> QED
    BY <2>1, <2>2
<1> HIDE DEF T
<1>6. Len(found) = 1 /\ found[1] = j /\ found # <<>>
  <2>1. Len(found) = 1 /\ found[1] = j
    BY <1>4, <1>5, OnlyOne
  <2>2. found # <<>>
    BY <1>4, <1>5, OnlyOne
  <2> QED
    BY <2>1, <2>2
<1> QED
  BY <1>3, <1>6 DEF ref

DependsOf(in, i) ==
  IF in.invert THEN {j \in DOMAIN in.packages : i \in Elements(in.depends[j])}
               ELSE Elements(in.depends[i])

(* The graph built has its nodes' dependencies once each, and they are     *)
(* those the lockfile states, when it locks nothing twice.                 *)
LEMMA FromResolvedShape ==
  ASSUME NEW in, InputOK(in), NEW N, N = DOMAIN in.packages
  PROVE  /\ WellFormed(FromResolved(in), N)
         /\ LockedOnce(in) => \A i \in N : Elements(FromResolved(in).edges[i]) = Elements(in.depends[i])
<1> DEFINE p == in.packages
           refs(i) == [d \in DOMAIN in.depends[i] |-> Resolve(p, Reference(p, in.depends[i][d]))]
           deps(i) == FirstOnly(Joined(refs(i)))
           of(r) == RootsOf(p, in.members, in.roots[r])
           roots == [r \in DOMAIN in.roots |-> of(r)]
           named == Joined(roots)
           every == Where(p, LAMBDA q : IsMember(q, in.members))
<1>1. /\ p \in Seq(Elements(p)) /\ in.depends \in Seq(Seq(N)) /\ Len(in.depends) = Len(p)
      /\ in.roots \in Seq(Elements(in.roots))
  BY DEF InputOK
<1>2. Len(p) \in Nat /\ N = 1 .. Len(p) /\ DOMAIN in.depends = N
  BY <1>1
<1>3. ASSUME NEW i \in N
      PROVE  /\ deps(i) \in Seq(N) /\ Once(deps(i))
             /\ LockedOnce(in) => Elements(deps(i)) = Elements(in.depends[i])
  <2> DEFINE D == in.depends[i]
  <2>0. D \in Seq(N)
    BY <1>1, <1>2
  <2>1. D \in Seq(N) /\ Len(D) \in Nat /\ DOMAIN D = 1 .. Len(D) /\ \A d \in DOMAIN D : D[d] \in N
    BY <2>0
  <2>2. \A d \in DOMAIN D : Resolve(p, Reference(p, D[d])) \in Seq(N)
    BY <1>1, ResolveIn
  <2>3. refs(i) \in Seq(Seq(N)) /\ DOMAIN refs(i) = DOMAIN D
    BY <2>1, <2>2, IsASeq
  <2>4. Joined(refs(i)) \in Seq(N) /\ Elements(Joined(refs(i))) = UNION {Elements(refs(i)[d]) : d \in DOMAIN D}
    BY <2>3, JoinedElements
  <2>5. deps(i) \in Seq(N) /\ Once(deps(i)) /\ Elements(deps(i)) = UNION {Elements(refs(i)[d]) : d \in DOMAIN D}
    BY <2>4, FirstOnlyListsOnce
  <2>6. ASSUME LockedOnce(in) PROVE UNION {Elements(refs(i)[d]) : d \in DOMAIN D} = Elements(D)
    <3>1. \A d \in DOMAIN D : refs(i)[d] = <<D[d]>>
      BY <1>1, <2>1, <2>6, ReferenceResolves
    <3>2. \A x : Elements(<<x>>) = {x}
      BY DEF Elements
    <3>3. \A d \in DOMAIN D : Elements(refs(i)[d]) = {D[d]}
      BY <3>1, <3>2
    <3>4. {Elements(refs(i)[d]) : d \in DOMAIN D} = {{D[d]} : d \in DOMAIN D}
      BY <3>3
    <3>5. UNION {{D[d]} : d \in DOMAIN D} = {D[d] : d \in DOMAIN D}
      OBVIOUS
    <3> QED
      BY <3>4, <3>5 DEF Elements
  <2> QED
    BY <2>5, <2>6
<1>4. ASSUME NEW T, T \subseteq N PROVE InOrder(Len(p), T) \in Seq(N)
  BY <1>1, <1>2, <1>4, Listing, OnlyOne
<1>5. every \in Seq(N)
  BY <1>4 DEF Where
<1>6. ASSUME NEW r \in DOMAIN in.roots PROVE of(r) \in Seq(N)
  BY <1>4 DEF RootsOf, Where, Candidates
<1>7. named \in Seq(N)
  <2>1. DOMAIN in.roots = 1 .. Len(in.roots) /\ Len(in.roots) \in Nat
    BY <1>1
  <2>2. roots \in Seq(Seq(N))
    BY <1>6, <2>1, IsASeq
  <2> QED
    BY <2>2, JoinedElements
<1>8. FromResolved(in) = [edges |-> [i \in N |-> deps(i)], roots |-> IF named # <<>> THEN named ELSE every]
  BY DEF FromResolved
<1> HIDE DEF deps, named, every
<1>9. /\ FromResolved(in).edges = [i \in N |-> deps(i)]
      /\ FromResolved(in).roots \in Seq(N)
  BY <1>5, <1>7, <1>8
<1> QED
  BY <1>3, <1>9 DEF WellFormed

(* The same of the graph that is drawn, inverted or not.                   *)
LEMMA GraphShape ==
  ASSUME NEW in, InputOK(in), NEW N, N = DOMAIN in.packages
  PROVE  /\ WellFormed(GraphOf(in), N)
         /\ LockedOnce(in) => \A i \in N : Elements(GraphOf(in).edges[i]) = DependsOf(in, i)
<1> DEFINE g == FromResolved(in)
<1>1. /\ WellFormed(g, N)
      /\ LockedOnce(in) => \A i \in N : Elements(g.edges[i]) = Elements(in.depends[i])
  BY FromResolvedShape
<1>2. CASE ~in.invert
  BY <1>1, <1>2 DEF GraphOf, DependsOf
<1>3. CASE in.invert
  <2> DEFINE T(to) == {i \in N : to \in Elements(g.edges[i])}
             back == [to \in N |-> InOrder(Len(g.edges), T(to))]
  <2>1. N = 1 .. Len(in.packages) /\ Len(in.packages) \in Nat /\ N \subseteq Nat
    BY DEF InputOK
  <2>2. g.edges \in [N -> Seq(N)] /\ DOMAIN g.edges = N
    BY <1>1 DEF WellFormed
  <2>3. g.edges \in Seq(Seq(N))
    BY <2>1, <2>2
  <2>4. g = [edges |-> g.edges, roots |-> g.roots]
    BY DEF FromResolved
  <2>5. Inverted(g) = [edges |-> back, roots |-> g.roots]
    <3>1. [[edges |-> g.edges, roots |-> g.roots] EXCEPT !.edges = back]
            = [edges |-> back, roots |-> g.roots]
      <4> HIDE DEF g, back
      <4> QED
        OBVIOUS
    <3>2. Inverted(g) = [g EXCEPT !.edges = back]
      BY <2>2 DEF Inverted, Where
    <3> QED
      BY <2>4, <3>1, <3>2
  <2>6. ASSUME NEW to \in N PROVE /\ back[to] \in Seq(N) /\ Once(back[to]) /\ Elements(back[to]) = T(to)
    <3>1. T(to) \subseteq DOMAIN g.edges /\ T(to) \subseteq Nat /\ T(to) \subseteq N
      BY <2>1, <2>2
    <3> HIDE DEF T
    <3>2. Lists(back[to], T(to))
      BY <2>3, <3>1, Listing
    <3> HIDE DEF back
    <3>3. Once(back[to]) /\ back[to] \in Seq(T(to)) /\ Elements(back[to]) = T(to)
      BY <3>1, <3>2, ListsOnce, OnlyOne
    <3> QED
      BY <3>1, <3>3
  <2>7. GraphOf(in) = [edges |-> back, roots |-> g.roots]
    BY <1>3, <2>5 DEF GraphOf
  <2> HIDE DEF g
  <2>8. GraphOf(in).edges = back /\ GraphOf(in).roots = g.roots
    BY <2>7
  <2>9. WellFormed(GraphOf(in), N)
    <3> HIDE DEF T
    <3>1. back \in [N -> Seq(N)] /\ \A n \in N : Once(back[n])
      <4> HIDE DEF back
      <4>1. DOMAIN back = N
        BY DEF back
      <4>2. back = [n \in N |-> back[n]]
        BY DEF back
      <4> QED
        BY <2>6, <4>1, <4>2
    <3> QED
      BY <1>1, <2>8, <3>1 DEF WellFormed
  <2>10. ASSUME LockedOnce(in), NEW i \in N PROVE Elements(GraphOf(in).edges[i]) = DependsOf(in, i)
    <3>1. Elements(back[i]) = T(i)
      BY <2>6
    <3>2. T(i) = {j \in N : i \in Elements(in.depends[j])}
      BY <1>1, <2>10
    <3> HIDE DEF T, back
    <3> QED
      BY <1>3, <2>8, <3>1, <3>2 DEF DependsOf
  <2> QED
    BY <2>9, <2>10
<1> QED
  BY <1>2, <1>3

-----------------------------------------------------------------------------
(***************************************************************************)
(* 2. The stack, the rows, and the walk's invariant.                       *)
(***************************************************************************)
Placements == {"Cycle", "Root", "Repeat", "Depth", "Collapsed", "Full"}
Frames(N)  == [node : N \cup {0}, children : Seq(N), taken : Nat]
Row(N)     == [path : Seq(Nat), node : N, placement : Placements]

(* The slots taken in the first n frames: the path to what the n-th has    *)
(* visited last.                                                           *)
Taken(st, n) == [m \in 1 .. n |-> st[m].taken]

(* Each frame but the bottom one is a dependency of the one below, the one *)
(* taken last, and no node is entered within itself.                       *)
Stacked(g, N, st) ==
  /\ st \in Seq(Frames(N)) /\ Len(st) >= 1
  /\ st[1].children = g.roots
  /\ \A i \in 1 .. Len(st) : st[i].taken <= Len(st[i].children)
  /\ \A i \in 2 .. Len(st) :
        /\ st[i].node \in N
        /\ st[i].children = g.edges[st[i].node]
        /\ st[i - 1].taken >= 1
        /\ st[i].node = st[i - 1].children[st[i - 1].taken]
  /\ \A i, j \in 2 .. Len(st) : st[i].node = st[j].node => i = j

AdvancedOf(st) == [st EXCEPT ![Len(st)].taken = @ + 1]

(* The stack with the next child of its top taken.                         *)
IsAdvance(st, t) ==
  /\ Len(t) = Len(st)
  /\ \A i \in 1 .. Len(st) - 1 : t[i] = st[i]
  /\ t[Len(st)].node = st[Len(st)].node
  /\ t[Len(st)].children = st[Len(st)].children
  /\ t[Len(st)].taken = st[Len(st)].taken + 1

(* The fields of a frame.                                                  *)
LEMMA FrameFields ==
  ASSUME NEW N, NEW f \in Frames(N)
  PROVE  /\ f.node \in N \cup {0} /\ f.children \in Seq(N) /\ f.taken \in Nat
         /\ f = [node |-> f.node, children |-> f.children, taken |-> f.taken]
BY DEF Frames

(* Advancing moves the top frame's slot on by one and nothing else.        *)
LEMMA AdvanceShape ==
  ASSUME NEW N, NEW st \in Seq(Frames(N)), Len(st) >= 1
  PROVE  AdvancedOf(st) \in Seq(Frames(N)) /\ IsAdvance(st, AdvancedOf(st))
<1> DEFINE L == Len(st)
           top == [st[L] EXCEPT !.taken = @ + 1]
           t == AdvancedOf(st)
<1>1. L \in Nat /\ L \in 1 .. L /\ L \in DOMAIN st /\ DOMAIN st = 1 .. L /\ \A i \in 1 .. L : st[i] \in Frames(N)
  OBVIOUS
<1>2. t = [st EXCEPT ![L] = top]
  BY DEF AdvancedOf
<1>3. PICK n, c, k : st[L] = [node |-> n, children |-> c, taken |-> k] /\ k \in Nat /\ n \in N \cup {0} /\ c \in Seq(N)
  BY <1>1, FrameFields
<1>4. top = [node |-> n, children |-> c, taken |-> k + 1]
  BY <1>3
<1>5. top \in Frames(N)
  BY <1>3, <1>4 DEF Frames
<1>6. top.node = st[L].node /\ top.children = st[L].children /\ top.taken = st[L].taken + 1
  BY <1>3, <1>4
<1> HIDE DEF top, t
<1>7. t \in Seq(Frames(N)) /\ Len(t) = L /\ t[L] = top /\ \A i \in 1 .. L - 1 : t[i] = st[i]
  <2>1. \A i \in 1 .. L : t[i] = IF i = L THEN top ELSE st[i]
    BY <1>1, <1>2
  <2>2. t \in [1 .. L -> Frames(N)]
    BY <1>1, <1>2, <1>5
  <2>3. t \in Seq(Frames(N)) /\ Len(t) = L
    <3> HIDE DEF L
    <3>1. t \in Seq(Frames(N))
      BY <1>1, <2>2, IsASeq
    <3>2. DOMAIN t = 1 .. L
      BY <2>2
    <3> QED
      BY <1>1, <3>1, <3>2
  <2>4. \A i \in 1 .. L - 1 : i \in 1 .. L /\ i # L
    <3> HIDE DEF L
    <3>1. L \in Nat
      BY <1>1
    <3> QED
      BY <3>1
  <2>5. \A i \in 1 .. L - 1 : t[i] = st[i]
    BY <2>1, <2>4
  <2>6. t[L] = top
    BY <1>1, <2>1
  <2> QED
    BY <2>3, <2>5, <2>6
<1> QED
  BY <1>6, <1>7 DEF IsAdvance, t

StackShape(N, st) ==
  /\ st \in Seq(Frames(N)) /\ Len(st) >= 1
  /\ Len(st) \in Nat /\ DOMAIN st = 1 .. Len(st) /\ Len(st) \in 1 .. Len(st)
  /\ \A i \in 1 .. Len(st) :
        /\ st[i] \in Frames(N) /\ st[i].taken \in Nat
        /\ st[i].children \in Seq(N) /\ Len(st[i].children) \in Nat
  /\ \A n \in 1 .. Len(st) :
        /\ Taken(st, n) \in Seq(Nat) /\ Len(Taken(st, n)) = n
        /\ \A m \in 1 .. n : Taken(st, n)[m] = st[m].taken

(* What the shape of a stack says to arithmetic.                           *)
LEMMA StackFacts ==
  ASSUME NEW g, NEW N, NEW st, Stacked(g, N, st)
  PROVE  StackShape(N, st)
<1>1. st \in Seq(Frames(N)) /\ Len(st) >= 1
  BY DEF Stacked
<1>2. /\ Len(st) \in Nat /\ DOMAIN st = 1 .. Len(st) /\ Len(st) \in 1 .. Len(st)
      /\ \A i \in 1 .. Len(st) : st[i] \in Frames(N)
  BY <1>1
<1>3. ASSUME NEW i \in 1 .. Len(st)
      PROVE  st[i].taken \in Nat /\ st[i].children \in Seq(N) /\ Len(st[i].children) \in Nat
  <2>1. st[i].taken \in Nat /\ st[i].children \in Seq(N)
    BY <1>2, FrameFields
  <2> QED
    BY <2>1
<1>4. ASSUME NEW n \in 1 .. Len(st)
      PROVE  /\ Taken(st, n) \in Seq(Nat) /\ Len(Taken(st, n)) = n
             /\ \A m \in 1 .. n : Taken(st, n)[m] = st[m].taken
  <2>1. n \in Nat /\ \A m \in 1 .. n : m \in 1 .. Len(st)
    BY <1>2
  <2>2. Taken(st, n) \in [1 .. n -> Nat]
    BY <1>3, <2>1 DEF Taken
  <2>3. Taken(st, n) \in Seq(Nat) /\ Len(Taken(st, n)) = n
    BY <2>1, <2>2, IsASeq
  <2> QED
    BY <2>3 DEF Taken
<1> QED
  BY <1>1, <1>2, <1>3, <1>4 DEF StackShape

(* Advancing keeps the stack and takes the next dependency.                *)
LEMMA AdvanceStacks ==
  ASSUME NEW g, NEW N, WellFormed(g, N), NEW st, Stacked(g, N, st), NEW t \in Seq(Frames(N)),
         IsAdvance(st, t), st[Len(st)].taken < Len(st[Len(st)].children)
  PROVE  /\ Stacked(g, N, t)
         /\ t[Len(t)].taken >= 1
         /\ t[Len(t)].children[t[Len(t)].taken] = st[Len(st)].children[st[Len(st)].taken + 1]
<1> DEFINE L == Len(st)
<1>0. StackShape(N, st)
  BY StackFacts
<1>1. /\ L \in Nat /\ L >= 1 /\ Len(t) = L
      /\ \A i \in 1 .. L - 1 : t[i] = st[i]
      /\ t[L].node = st[L].node /\ t[L].children = st[L].children /\ t[L].taken = st[L].taken + 1
      /\ \A i \in 1 .. L : st[i].taken \in Nat /\ Len(st[i].children) \in Nat
  BY <1>0 DEF IsAdvance, StackShape
<1>2. \A i \in 1 .. L : /\ t[i].node = st[i].node /\ t[i].children = st[i].children
                        /\ t[i].taken = IF i = L THEN st[i].taken + 1 ELSE st[i].taken
  <2> TAKE i \in 1 .. L
  <2>1. i = L \/ i \in 1 .. L - 1
    BY <1>1
  <2> QED
    BY <1>1, <2>1
<1>3. \A i \in 1 .. L : t[i].taken <= Len(t[i].children)
  <2> TAKE i \in 1 .. L
  <2>1. st[i].taken <= Len(st[i].children) /\ st[i].taken \in Nat /\ Len(st[i].children) \in Nat
    BY <1>1 DEF Stacked
  <2> QED
    BY <1>2, <2>1
<1>4. ASSUME NEW i \in 2 .. L
      PROVE  /\ t[i].node \in N
             /\ t[i].children = g.edges[t[i].node]
             /\ t[i - 1].taken >= 1
             /\ t[i].node = t[i - 1].children[t[i - 1].taken]
  <2>1. i \in 1 .. L /\ i - 1 \in 1 .. L - 1 /\ i - 1 \in 1 .. L
    BY <1>1
  <2>2. t[i - 1] = st[i - 1]
    BY <1>1, <2>1
  <2> QED
    BY <1>2, <2>1, <2>2 DEF Stacked
<1>5. \A i, j \in 2 .. L : t[i].node = t[j].node => i = j
  <2>1. \A i \in 2 .. L : i \in 1 .. L
    BY <1>1
  <2> QED
    BY <1>2, <2>1 DEF Stacked
<1>6. t[1].children = g.roots
  <2>1. 1 \in 1 .. L
    BY <1>1
  <2> QED
    BY <1>2, <2>1 DEF Stacked
<1>7. Stacked(g, N, t)
  BY <1>1, <1>3, <1>4, <1>5, <1>6 DEF Stacked
<1> QED
  BY <1>1, <1>7, <1>2

(* Entering a dependency that is not above itself.                         *)
LEMMA PushStacks ==
  ASSUME NEW g, NEW N, WellFormed(g, N), NEW st, Stacked(g, N, st),
         st[Len(st)].taken >= 1, NEW n, n = st[Len(st)].children[st[Len(st)].taken],
         \A i \in 2 .. Len(st) : st[i].node # n
  PROVE  LET t == Append(st, Frame(n, g.edges[n])) IN
         /\ Stacked(g, N, t) /\ n \in N /\ Len(t) = Len(st) + 1
         /\ t[Len(st) + 1] = Frame(n, g.edges[n])
         /\ \A i \in 1 .. Len(st) : t[i] = st[i]
<1> DEFINE L == Len(st)
           f == Frame(n, g.edges[n])
           t == Append(st, f)
<1>0. StackShape(N, st)
  BY StackFacts
<1>1. /\ L \in Nat /\ L \in 1 .. L /\ st \in Seq(Frames(N))
      /\ \A i \in 1 .. L : st[i].taken \in Nat /\ st[i].children \in Seq(N) /\ Len(st[i].children) \in Nat
  BY <1>0 DEF StackShape
<1>2. n \in N
  <2>1. st[L].taken \in 1 .. Len(st[L].children)
    BY <1>1 DEF Stacked
  <2> QED
    BY <1>1, <2>1
<1>3. g.edges[n] \in Seq(N) /\ Len(g.edges[n]) \in Nat
  BY <1>2 DEF WellFormed
<1>4. f.node = n /\ f.children = g.edges[n] /\ f.taken = 0 /\ f \in Frames(N)
  BY <1>2, <1>3 DEF Frame, Frames
<1> HIDE DEF f
<1>5. t \in Seq(Frames(N)) /\ Len(t) = L + 1 /\ t[L + 1] = f /\ \A i \in 1 .. L : t[i] = st[i]
  BY <1>1, <1>4
<1> HIDE DEF t
<1>6. ASSUME NEW i \in 1 .. L + 1 PROVE t[i].taken <= Len(t[i].children)
  <2>1. CASE i = L + 1
    BY <1>3, <1>4, <1>5, <2>1
  <2>2. CASE i # L + 1
    <3>1. i \in 1 .. L
      BY <1>1, <2>2
    <3> QED
      BY <1>5, <3>1 DEF Stacked
  <2> QED
    BY <2>1, <2>2
<1>7. ASSUME NEW i \in 2 .. L + 1
      PROVE  /\ t[i].node \in N
             /\ t[i].children = g.edges[t[i].node]
             /\ t[i - 1].taken >= 1
             /\ t[i].node = t[i - 1].children[t[i - 1].taken]
  <2>1. i - 1 \in 1 .. L /\ t[i - 1] = st[i - 1]
    BY <1>1, <1>5
  <2>2. CASE i = L + 1
    <3>1. i - 1 = L
      BY <1>1, <2>2
    <3> QED
      BY <1>2, <1>4, <1>5, <2>1, <2>2, <3>1
  <2>3. CASE i # L + 1
    <3>1. i \in 2 .. L /\ i \in 1 .. L
      BY <1>1, <2>3
    <3> QED
      BY <1>5, <2>1, <3>1 DEF Stacked
  <2> QED
    BY <2>2, <2>3
<1>8. ASSUME NEW i \in 2 .. L + 1, NEW j \in 2 .. L + 1, t[i].node = t[j].node PROVE i = j
  <2>1. \A k \in 2 .. L : t[k] = st[k] /\ st[k].node # n
    <3> TAKE k \in 2 .. L
    <3>1. k \in 1 .. L
      BY <1>1
    <3> QED
      BY <1>5, <3>1
  <2>2. \A k \in 2 .. L + 1 : k \in 2 .. L \/ (k = L + 1 /\ t[k].node = n)
    BY <1>1, <1>4, <1>5
  <2> QED
    BY <1>8, <2>1, <2>2, SMTT(30) DEF Stacked
<1>9. t[1].children = g.roots
  <2>1. 1 \in 1 .. L
    BY <1>1
  <2> QED
    BY <1>5, <2>1 DEF Stacked
<1>10. Stacked(g, N, t)
  BY <1>1, <1>5, <1>6, <1>7, <1>8, <1>9 DEF Stacked
<1> QED
  BY <1>2, <1>5, <1>10 DEF t, f

(* Leaving a frame keeps the stack.                                        *)
LEMMA PopStacks ==
  ASSUME NEW g, NEW N, WellFormed(g, N), NEW st, Stacked(g, N, st), Len(st) > 1
  PROVE  LET t == SubSeq(st, 1, Len(st) - 1) IN
         /\ Stacked(g, N, t) /\ Len(t) = Len(st) - 1
         /\ \A i \in 1 .. Len(t) : t[i] = st[i]
<1> DEFINE L == Len(st)
           t == SubSeq(st, 1, L - 1)
<1>0. StackShape(N, st)
  BY StackFacts
<1>1. L \in Nat /\ st \in Seq(Frames(N))
  BY <1>0 DEF StackShape
<1>2. t \in Seq(Frames(N)) /\ Len(t) = L - 1 /\ \A i \in 1 .. L - 1 : t[i] = st[i]
  BY <1>1
<1> HIDE DEF t
<1>3. \A i \in 1 .. L - 1 : i \in 1 .. L
  BY <1>1
<1>4. \A i \in 2 .. L - 1 : i \in 2 .. L /\ i \in 1 .. L - 1 /\ i - 1 \in 1 .. L - 1
  BY <1>1
<1>5. \A i \in 1 .. L - 1 : t[i].taken <= Len(t[i].children)
  BY <1>2, <1>3 DEF Stacked
<1>6. ASSUME NEW i \in 2 .. L - 1
      PROVE  /\ t[i].node \in N
             /\ t[i].children = g.edges[t[i].node]
             /\ t[i - 1].taken >= 1
             /\ t[i].node = t[i - 1].children[t[i - 1].taken]
  <2>1. t[i] = st[i] /\ t[i - 1] = st[i - 1] /\ i \in 2 .. L
    BY <1>2, <1>4
  <2> QED
    BY <2>1 DEF Stacked
<1>7. \A i, j \in 2 .. L - 1 : t[i].node = t[j].node => i = j
  BY <1>2, <1>4 DEF Stacked
<1>8. 1 \in 1 .. L - 1 /\ L - 1 >= 1
  BY <1>1
<1>9. t[1].children = g.roots
  BY <1>2, <1>8 DEF Stacked
<1>10. Stacked(g, N, t)
  BY <1>2, <1>5, <1>6, <1>7, <1>8, <1>9 DEF Stacked
<1> QED
  BY <1>2, <1>10 DEF t

(* A path the walk does not have before it: where it leaves the stack, it  *)
(* takes an earlier slot, or one whose frame is left.                      *)
Passed(st, p) ==
  \A j \in 1 .. Len(p) :
     j <= Len(st) /\ (\A m \in 1 .. j - 1 : p[m] = st[m].taken) => p[j] <= st[j].taken

(* The path p leads through what frame L has visited last.                 *)
Through(st, L, p) == Len(p) >= L /\ \A m \in 1 .. L : p[m] = st[m].taken

(* A path the walk has passed stays passed as the top frame advances, and  *)
(* does not run through the slot it now takes.                             *)
LEMMA PassedOn ==
  ASSUME NEW N, NEW st, StackShape(N, st), NEW t, IsAdvance(st, t),
         NEW p \in Seq(Nat), Passed(st, p)
  PROVE  Passed(t, p) /\ ~Through(t, Len(st), p)
<1> DEFINE L == Len(st)
<1>1. L \in Nat /\ L \in 1 .. L /\ \A i \in 1 .. L : st[i].taken \in Nat
  BY DEF StackShape
<1>2. Len(t) = L /\ (\A i \in 1 .. L - 1 : t[i].taken = st[i].taken) /\ t[L].taken = st[L].taken + 1
  BY DEF IsAdvance
<1>3. Len(p) \in Nat /\ \A j \in 1 .. Len(p) : p[j] \in Nat
  OBVIOUS
<1> HIDE DEF L
<1>4. ASSUME NEW j \in 1 .. Len(p), j <= L, \A m \in 1 .. j - 1 : p[m] = t[m].taken
      PROVE  p[j] <= st[j].taken
  <2>1. \A m \in 1 .. j - 1 : m \in 1 .. L - 1
    BY <1>1, <1>3, <1>4
  <2>2. \A m \in 1 .. j - 1 : p[m] = st[m].taken
    BY <1>2, <1>4, <2>1
  <2> QED
    BY <1>4, <2>2 DEF Passed, L
<1>5. Passed(t, p)
  <2> SUFFICES ASSUME NEW j \in 1 .. Len(p), j <= L, \A m \in 1 .. j - 1 : p[m] = t[m].taken
               PROVE  p[j] <= t[j].taken
    BY <1>2 DEF Passed
  <2>1. p[j] <= st[j].taken
    BY <1>4
  <2>2. j \in 1 .. L /\ st[j].taken \in Nat /\ p[j] \in Nat
    BY <1>1, <1>3
  <2>3. CASE j = L
    BY <1>2, <2>1, <2>2, <2>3
  <2>4. CASE j # L
    <3>1. j \in 1 .. L - 1
      BY <1>1, <2>2, <2>4
    <3> QED
      BY <1>2, <2>1, <3>1
  <2> QED
    BY <2>3, <2>4
<1>6. ASSUME Len(p) >= L, \A m \in 1 .. L : p[m] = t[m].taken PROVE FALSE
  <2>1. L \in 1 .. Len(p) /\ \A m \in 1 .. L - 1 : m \in 1 .. L
    BY <1>1, <1>3, <1>6
  <2>2. p[L] <= st[L].taken
    BY <1>1, <1>4, <1>6, <2>1
  <2>3. p[L] = st[L].taken + 1
    BY <1>1, <1>2, <1>6
  <2> QED
    BY <1>1, <2>2, <2>3
<1> QED
  BY <1>5, <1>6 DEF Through, L

(* The path to the slot just taken is passed.                              *)
LEMMA PassedHere ==
  ASSUME NEW N, NEW st, StackShape(N, st)
  PROVE  Passed(st, Taken(st, Len(st)))
<1> DEFINE L == Len(st)
           p == Taken(st, L)
<1>1. L \in Nat /\ Len(p) = L /\ \A m \in 1 .. L : p[m] = st[m].taken /\ st[m].taken \in Nat
  BY DEF StackShape
<1> HIDE DEF p
<1>2. \A j \in 1 .. Len(p) : p[j] <= st[j].taken
  BY <1>1
<1> QED
  BY <1>2 DEF Passed, p

(* Below a frame that was just opened there is nothing yet.                *)
LEMMA PassedUp ==
  ASSUME NEW st, NEW t, Len(st) \in Nat, Len(t) = Len(st) + 1, \A i \in 1 .. Len(st) : t[i] = st[i],
         NEW p \in Seq(Nat), Passed(st, p), ~Through(st, Len(st), p) \/ Len(p) = Len(st)
  PROVE  Passed(t, p)
<1> DEFINE L == Len(st)
<1>0. L \in Nat /\ Len(p) \in Nat
  OBVIOUS
<1> SUFFICES ASSUME NEW j \in 1 .. Len(p), j <= L + 1, \A m \in 1 .. j - 1 : p[m] = t[m].taken
             PROVE  p[j] <= t[j].taken
  BY DEF Passed
<1>1. \A m \in 1 .. j - 1 : m \in 1 .. L
  BY <1>0
<1>2. \A m \in 1 .. j - 1 : p[m] = st[m].taken
  BY <1>1
<1>3. CASE j <= L
  <2>1. j \in 1 .. L
    BY <1>0, <1>3
  <2>2. p[j] <= st[j].taken
    BY <1>2, <1>3 DEF Passed
  <2> QED
    BY <2>1, <2>2
<1>4. CASE ~(j <= L)
  <2>1. j = L + 1 /\ Len(p) > L /\ Len(p) >= L /\ j - 1 = L
    BY <1>0, <1>4
  <2>2. Through(st, L, p)
    BY <1>2, <2>1 DEF Through
  <2> QED
    BY <1>0, <2>1, <2>2
<1> QED
  BY <1>3, <1>4

(* A path that is passed stays passed when a frame is left.                *)
LEMMA PassedDown ==
  ASSUME NEW st, NEW t, Len(st) \in Nat, Len(t) \in Nat, Len(t) <= Len(st), \A i \in 1 .. Len(t) : t[i] = st[i],
         NEW p \in Seq(Nat), Passed(st, p)
  PROVE  Passed(t, p)
<1> SUFFICES ASSUME NEW j \in 1 .. Len(p), j <= Len(t), \A m \in 1 .. j - 1 : p[m] = t[m].taken
             PROVE  p[j] <= t[j].taken
  BY DEF Passed
<1>0. Len(p) \in Nat
  OBVIOUS
<1>1. \A m \in 1 .. j - 1 : m \in 1 .. Len(t)
  BY <1>0
<1>2. j \in 1 .. Len(t) /\ j <= Len(st)
  BY <1>0
<1>3. \A m \in 1 .. j - 1 : p[m] = st[m].taken
  BY <1>1
<1> QED
  BY <1>2, <1>3 DEF Passed

-----------------------------------------------------------------------------
(* Row a shows in full the node that row k is a dependency of.             *)
Hangs(g, dr, a, k) ==
  LET p == dr[k].path
      E == g.edges[dr[a].node]
  IN  /\ dr[a].path = Parent(p)
      /\ dr[a].placement = "Full"
      /\ p[Len(p)] \in 1 .. Len(E)
      /\ dr[k].node = E[p[Len(p)]]

(* The rows: each is a root or hangs on one above it, and no path has two. *)
Listed(g, N, dr) ==
  /\ dr \in Seq(Row(N))
  /\ \A k \in 1 .. Len(dr) :
        /\ Len(dr[k].path) >= 1
        /\ Len(dr[k].path) = 1 => /\ dr[k].path[1] \in 1 .. Len(g.roots)
                                  /\ dr[k].node = g.roots[dr[k].path[1]]
        /\ Len(dr[k].path) > 1 => \E a \in 1 .. k - 1 : Hangs(g, dr, a, k)
  /\ \A k, l \in 1 .. Len(dr) : dr[k].path = dr[l].path => k = l

(* The frames are rows shown in full.                                      *)
FramesShown(st, dr) ==
  \A i \in 2 .. Len(st) : \E a \in 1 .. Len(dr) :
     /\ dr[a].path = Taken(st, i - 1)
     /\ dr[a].node = st[i].node
     /\ dr[a].placement = "Full"

AllPassed(st, dr) == \A k \in 1 .. Len(dr) : Passed(st, dr[k].path)

(* The fields of a row.                                                    *)
LEMMA RowFields ==
  ASSUME NEW N, NEW r \in Row(N)
  PROVE  r.path \in Seq(Nat) /\ r.node \in N /\ r.placement \in Placements /\ Len(r.path) \in Nat
BY DEF Row

(* A row more.                                                             *)
LEMMA AppendRow ==
  ASSUME NEW N, NEW dr \in Seq(Row(N)), NEW r \in Row(N)
  PROVE  LET t == Append(dr, r) IN
         /\ t \in Seq(Row(N)) /\ Len(dr) \in Nat /\ Len(t) = Len(dr) + 1
         /\ t[Len(dr) + 1] = r /\ \A k \in 1 .. Len(dr) : t[k] = dr[k]
OBVIOUS

(* Frames that are rows stay so, whatever is appended to the rows and      *)
(* taken of the top frame.                                                 *)
LEMMA FramesStay ==
  ASSUME NEW st, NEW t, Len(st) \in Nat, Len(t) = Len(st),
         \A i \in 1 .. Len(st) - 1 : t[i] = st[i], t[Len(st)].node = st[Len(st)].node,
         NEW dr, NEW d, Len(dr) \in Nat, Len(d) \in Nat, Len(dr) <= Len(d),
         \A k \in 1 .. Len(dr) : d[k] = dr[k], FramesShown(st, dr)
  PROVE  FramesShown(t, d)
<1> SUFFICES ASSUME NEW i \in 2 .. Len(st)
             PROVE  \E a \in 1 .. Len(d) : /\ d[a].path = Taken(t, i - 1)
                                           /\ d[a].node = t[i].node
                                           /\ d[a].placement = "Full"
  BY DEF FramesShown
<1>1. PICK a \in 1 .. Len(dr) : /\ dr[a].path = Taken(st, i - 1)
                                /\ dr[a].node = st[i].node
                                /\ dr[a].placement = "Full"
  BY DEF FramesShown
<1>2. a \in 1 .. Len(d) /\ d[a] = dr[a]
  BY <1>1
<1>3. \A m \in 1 .. i - 1 : m \in 1 .. Len(st) - 1
  OBVIOUS
<1>4. Taken(t, i - 1) = Taken(st, i - 1)
  BY <1>3 DEF Taken
<1>5. t[i].node = st[i].node
  <2>1. i \in 1 .. Len(st) - 1 \/ i = Len(st)
    OBVIOUS
  <2> QED
    BY <2>1
<1> QED
  BY <1>1, <1>2, <1>4, <1>5

(* A new row at what the top frame has just taken.                         *)
LEMMA RowIsListed ==
  ASSUME NEW g, NEW N, WellFormed(g, N), NEW st, Stacked(g, N, st), st[Len(st)].taken >= 1,
         NEW dr, Listed(g, N, dr), FramesShown(st, dr),
         \A k \in 1 .. Len(dr) : ~Through(st, Len(st), dr[k].path),
         NEW r \in Row(N), r.path = Taken(st, Len(st)),
         r.node = st[Len(st)].children[st[Len(st)].taken]
  PROVE  /\ Listed(g, N, Append(dr, r))
         /\ Len(st) > 1 => \E a \in 1 .. Len(dr) : Hangs(g, Append(dr, r), a, Len(dr) + 1)
<1> DEFINE L == Len(st)
           n == Len(dr)
           d == Append(dr, r)
           p == r.path
<1>1. StackShape(N, st)
  BY StackFacts
<1>2. /\ L \in Nat /\ L \in 1 .. L /\ L >= 1 /\ Len(p) = L /\ \A m \in 1 .. L : p[m] = st[m].taken
      /\ st[L].taken \in Nat /\ Len(st[L].children) \in Nat
  BY <1>1 DEF StackShape
<1>3. /\ d \in Seq(Row(N)) /\ n \in Nat /\ Len(d) = n + 1 /\ d[n + 1] = r
      /\ \A k \in 1 .. n : d[k] = dr[k]
  <2>1. dr \in Seq(Row(N))
    BY DEF Listed
  <2> QED
    BY <2>1, AppendRow
<1> HIDE DEF d
<1>4. L = 1 => p[1] \in 1 .. Len(g.roots) /\ r.node = g.roots[p[1]]
  BY <1>2 DEF Stacked
<1>5. ASSUME L > 1 PROVE \E a \in 1 .. n : Hangs(g, d, a, n + 1)
  <2>1. L \in 2 .. L /\ L - 1 \in 1 .. L
    BY <1>2, <1>5
  <2>2. PICK a \in 1 .. n : dr[a].path = Taken(st, L - 1) /\ dr[a].node = st[L].node /\ dr[a].placement = "Full"
    BY <2>1 DEF FramesShown
  <2>3. d[a] = dr[a]
    BY <1>3
  <2>4. Parent(p) = Taken(st, L - 1)
    <3>1. p \in Seq(Nat)
      BY RowFields
    <3>2. SubSeq(p, 1, L - 1) = [m \in 1 .. L - 1 |-> p[m]]
      BY <1>2, <3>1
    <3>3. \A m \in 1 .. L - 1 : m \in 1 .. L
      BY <1>2
    <3> QED
      BY <1>2, <3>2, <3>3 DEF Parent, Taken
  <2>5. st[L].children = g.edges[st[L].node]
    BY <2>1 DEF Stacked
  <2>6. p[L] = st[L].taken /\ p[L] \in 1 .. Len(st[L].children)
    BY <1>2 DEF Stacked
  <2>7. Hangs(g, d, a, n + 1)
    BY <1>2, <1>3, <2>2, <2>3, <2>4, <2>5, <2>6 DEF Hangs
  <2> QED
    BY <2>7
<1>6. ASSUME NEW k \in 1 .. n + 1
      PROVE  /\ Len(d[k].path) >= 1
             /\ Len(d[k].path) = 1 => /\ d[k].path[1] \in 1 .. Len(g.roots)
                                      /\ d[k].node = g.roots[d[k].path[1]]
             /\ Len(d[k].path) > 1 => \E a \in 1 .. k - 1 : Hangs(g, d, a, k)
  <2>1. CASE k = n + 1
    <3>1. d[k] = r /\ k - 1 = n
      BY <1>3, <2>1
    <3> QED
      BY <1>2, <1>4, <1>5, <2>1, <3>1
  <2>2. CASE k # n + 1
    <3>1. k \in 1 .. n /\ d[k] = dr[k]
      BY <1>3, <2>2
    <3>2. ASSUME Len(d[k].path) > 1 PROVE \E a \in 1 .. k - 1 : Hangs(g, d, a, k)
      <4>1. PICK a \in 1 .. k - 1 : Hangs(g, dr, a, k)
        BY <3>1, <3>2 DEF Listed
      <4>2. a \in 1 .. n
        BY <3>1, <1>3
      <4>3. d[a] = dr[a]
        BY <1>3, <4>2
      <4>4. Hangs(g, d, a, k)
        BY <3>1, <4>1, <4>3 DEF Hangs
      <4> QED
        BY <4>4
    <3> QED
      BY <3>1, <3>2 DEF Listed
  <2> QED
    BY <2>1, <2>2
<1>7. ASSUME NEW k \in 1 .. n PROVE dr[k].path # p
  <2>1. ~Through(st, L, dr[k].path)
    OBVIOUS
  <2>2. Through(st, L, p)
    BY <1>2 DEF Through
  <2> QED
    BY <2>1, <2>2
<1>8. ASSUME NEW k \in 1 .. n + 1, NEW l \in 1 .. n + 1, d[k].path = d[l].path PROVE k = l
  <2>1. \A i \in 1 .. n + 1 : (i = n + 1 /\ d[i] = r) \/ (i \in 1 .. n /\ d[i] = dr[i])
    BY <1>3
  <2> QED
    BY <1>7, <1>8, <2>1 DEF Listed
<1>9. Listed(g, N, d)
  BY <1>3, <1>6, <1>8 DEF Listed
<1> QED
  BY <1>5, <1>9 DEF d

OnPathOf(st) == {st[i].node : i \in 2 .. Len(st)}

KeptOf(in, g, path) ==
  in.query # None => \E m \in g.found : IsPrefixOf(path, m)

OpenedOf(in, g, path) ==
  \/ in.opened = None
  \/ path \in in.opened
  \/ \E m \in g.found : path # m /\ IsPrefixOf(path, m)

(* An appearance that would point to the tree of a root.                   *)
Pointed(in, g, depth, n) ==
  in.collapse /\ depth > 0 /\ g.edges[n] # <<>> /\ RootSlots(g, n) # {}

(* What the placement of a new row r says.                                 *)
Fits(in, g, st, ex, r) ==
  /\ r.placement = "Cycle" <=> r.node \in OnPathOf(st)
  /\ r.placement = "Root" => Pointed(in, g, Len(st) - 1, r.node)
  /\ r.placement = "Repeat" => in.dedupe /\ r.node \in ex
  /\ r.placement = "Depth" => in.depth # None
  /\ r.placement = "Collapsed" => ~OpenedOf(in, g, r.path)
  /\ r.placement = "Full" => /\ ~(in.dedupe /\ r.node \in ex)
                             /\ ~Pointed(in, g, Len(st) - 1, r.node)

MarkedOf(in, g, depth, ex, n) ==
  IF in.dedupe /\ ~(in.collapse /\ depth > 0 /\ RootSlots(g, n) # {}) THEN ex \cup {n} ELSE ex

(* The nodes remembered are shown in full, a root's as its own row; and a  *)
(* node whose dependencies are shown is remembered, and shown only once.   *)
Remembered(in, g, ex, dr) ==
  /\ \A n \in ex : \E a \in 1 .. Len(dr) :
        /\ dr[a].node = n /\ dr[a].placement = "Full"
        /\ in.collapse /\ RootSlots(g, n) # {} => Len(dr[a].path) = 1
  /\ in.dedupe => \A a \in 1 .. Len(dr) :
        dr[a].placement = "Full" /\ g.edges[dr[a].node] # <<>> => dr[a].node \in ex
  /\ in.dedupe => \A a, b \in 1 .. Len(dr) :
        /\ dr[a].placement = "Full" /\ dr[b].placement = "Full"
        /\ g.edges[dr[a].node] # <<>> /\ dr[a].node = dr[b].node
        => a = b

HonestRow(in, g, dr, k) ==
  LET r == dr[k] IN
  /\ KeptOf(in, g, r.path)
  /\ r.placement = "Repeat" =>
        /\ in.dedupe
        /\ \E a \in 1 .. k - 1 : dr[a].node = r.node /\ dr[a].placement = "Full"
  /\ r.placement = "Cycle" =>
        \E a \in 1 .. k - 1, n \in 1 .. Len(r.path) - 1 :
           dr[a].path = SubSeq(r.path, 1, n) /\ dr[a].node = r.node
  /\ r.placement = "Root" => Pointed(in, g, Len(r.path) - 1, r.node)
  /\ r.placement = "Depth" => in.depth # None
  /\ r.placement = "Collapsed" => ~OpenedOf(in, g, r.path)
  /\ Len(r.path) = 1 /\ (\A q \in RootSlots(g, r.node) : r.path[1] <= q) =>
        r.placement \in {"Full", "Depth", "Collapsed"}

Honest(in, g, dr) == \A k \in 1 .. Len(dr) : HonestRow(in, g, dr, k)

(* What is remembered as expanded has a full row, with the row just drawn. *)
LEMMA RememberedOn ==
  ASSUME NEW in, NEW g, NEW N, NEW st, StackShape(N, st), NEW ex,
         in.dedupe \in BOOLEAN,
         NEW dr \in Seq(Row(N)), Remembered(in, g, ex, dr),
         NEW r \in Row(N), Len(r.path) = Len(st), Fits(in, g, st, ex, r),
         NEW ex2, ex2 = IF r.placement = "Full"
                        THEN MarkedOf(in, g, Len(st) - 1, ex, r.node) ELSE ex
  PROVE  Remembered(in, g, ex2, Append(dr, r))
<1> DEFINE n == Len(dr)
           d == Append(dr, r)
<1>1. /\ d \in Seq(Row(N)) /\ n \in Nat /\ Len(d) = n + 1 /\ d[n + 1] = r
      /\ \A k \in 1 .. n : d[k] = dr[k]
  BY AppendRow
<1> HIDE DEF d
<1>2. \A k \in 1 .. n + 1 : (k = n + 1 /\ d[k] = r) \/ (k \in 1 .. n /\ d[k] = dr[k])
  BY <1>1
<1>3. \A k \in 1 .. n : k \in 1 .. n + 1
  BY <1>1
<1>4. n + 1 \in 1 .. n + 1
  BY <1>1
<1>5. Len(st) - 1 > 0 \/ Len(r.path) = 1
  <2> SUFFICES ASSUME NEW l, l = Len(st), l \in Nat, l >= 1, l = Len(r.path) PROVE l - 1 > 0 \/ l = 1
    BY DEF StackShape
  <2> QED
    OBVIOUS
<1>6. ASSUME NEW m \in ex2
      PROVE  \E a \in 1 .. n + 1 :
                /\ d[a].node = m /\ d[a].placement = "Full"
                /\ in.collapse /\ RootSlots(g, m) # {} => Len(d[a].path) = 1
  <2>1. CASE m \in ex
    <3>1. PICK a \in 1 .. n : /\ dr[a].node = m /\ dr[a].placement = "Full"
                              /\ in.collapse /\ RootSlots(g, m) # {} => Len(dr[a].path) = 1
      BY <2>1 DEF Remembered
    <3> QED
      BY <1>1, <1>3, <3>1
  <2>2. CASE m \notin ex
    <3>1. /\ r.placement = "Full" /\ m = r.node
          /\ ~(in.collapse /\ Len(st) - 1 > 0 /\ RootSlots(g, r.node) # {})
      BY <1>6, <2>2 DEF MarkedOf
    <3>2. in.collapse /\ RootSlots(g, m) # {} => Len(r.path) = 1
      BY <1>5, <3>1, Zenon
    <3>3. d[n + 1] = r
      BY <1>1
    <3> QED
      BY <1>4, <3>1, <3>2, <3>3, Zenon
  <2> QED
    BY <2>1, <2>2
<1>7. ex \subseteq ex2
  BY DEF MarkedOf
<1>8. ASSUME in.dedupe, r.placement = "Full", g.edges[r.node] # <<>>
      PROVE  r.node \in ex2 /\ r.node \notin ex
  <2>1. r.node \notin ex /\ ~Pointed(in, g, Len(st) - 1, r.node)
    BY <1>8 DEF Fits
  <2>2. ~(in.collapse /\ Len(st) - 1 > 0 /\ RootSlots(g, r.node) # {})
    BY <1>8, <2>1 DEF Pointed
  <2> QED
    BY <1>8, <2>1, <2>2 DEF MarkedOf
<1>9. ASSUME in.dedupe, NEW a \in 1 .. n + 1, d[a].placement = "Full", g.edges[d[a].node] # <<>>
      PROVE  d[a].node \in ex2
  BY <1>2, <1>7, <1>8, <1>9 DEF Remembered
<1>10. ASSUME in.dedupe, NEW a \in 1 .. n + 1, NEW b \in 1 .. n + 1,
              d[a].placement = "Full", d[b].placement = "Full",
              g.edges[d[a].node] # <<>>, d[a].node = d[b].node
       PROVE  a = b
  <2>1. \A k \in 1 .. n : dr[k].placement = "Full" /\ g.edges[dr[k].node] # <<>> => dr[k].node \in ex
    BY <1>10 DEF Remembered
  <2>2. CASE a \in 1 .. n /\ b \in 1 .. n
    BY <1>1, <1>10, <2>2 DEF Remembered
  <2>3. CASE a = n + 1 /\ b \in 1 .. n
    BY <1>1, <1>8, <1>10, <2>1, <2>3
  <2>4. CASE b = n + 1 /\ a \in 1 .. n
    BY <1>1, <1>8, <1>10, <2>1, <2>4
  <2> QED
    BY <1>2, <2>2, <2>3, <2>4
<1>11. /\ \A m \in ex2 : \E a \in 1 .. Len(d) :
             /\ d[a].node = m /\ d[a].placement = "Full"
             /\ in.collapse /\ RootSlots(g, m) # {} => Len(d[a].path) = 1
       /\ in.dedupe => \A a \in 1 .. Len(d) :
             d[a].placement = "Full" /\ g.edges[d[a].node] # <<>> => d[a].node \in ex2
       /\ in.dedupe => \A a, b \in 1 .. Len(d) :
             /\ d[a].placement = "Full" /\ d[b].placement = "Full"
             /\ g.edges[d[a].node] # <<>> /\ d[a].node = d[b].node
             => a = b
  BY <1>1, <1>6, <1>9, <1>10
<1> QED
  BY <1>11, Zenon DEF Remembered, d

(* The row just drawn is honest, and those before it stay so: its reason   *)
(* is true of the rows it points at.                                       *)
LEMMA HonestOn ==
  ASSUME NEW in, NEW g, NEW N, NEW st, Stacked(g, N, st), NEW ex, in.dedupe => in.collapse,
         g.roots \in Seq(N),
         NEW dr \in Seq(Row(N)), Remembered(in, g, ex, dr), Honest(in, g, dr),
         Listed(g, N, dr), FramesShown(st, dr), AllPassed(st, dr),
         NEW t, IsAdvance(st, t),
         NEW r \in Row(N), r.path = Taken(t, Len(st)), Fits(in, g, st, ex, r), KeptOf(in, g, r.path),
         Len(r.path) = 1 => r.path[1] \in RootSlots(g, r.node)
  PROVE  Honest(in, g, Append(dr, r))
<1> DEFINE n == Len(dr)
           d == Append(dr, r)
           L == Len(st)
           p == r.path
<1>1. /\ d \in Seq(Row(N)) /\ n \in Nat /\ Len(d) = n + 1 /\ d[n + 1] = r
      /\ \A k \in 1 .. n : d[k] = dr[k]
  BY AppendRow
<1> HIDE DEF d
<1>2. StackShape(N, st)
  BY StackFacts
<1>3. /\ L \in Nat /\ L >= 1 /\ L \in 1 .. L
      /\ \A i \in 1 .. L : st[i].taken \in Nat
  BY <1>2 DEF StackShape
<1>4. p \in Seq(Nat) /\ Len(p) = L /\ (\A i \in 1 .. L : p[i] = t[i].taken)
  BY <1>3, RowFields DEF Taken
<1>5. (\A i \in 1 .. L - 1 : p[i] = st[i].taken) /\ p[L] = st[L].taken + 1
  <2>1. \A i \in 1 .. L - 1 : i \in 1 .. L
    BY <1>3
  <2> QED
    BY <1>3, <1>4, <2>1 DEF IsAdvance
<1> HIDE DEF L, p
<1>6. ASSUME NEW k \in 1 .. n PROVE HonestRow(in, g, d, k)
  <2>1. HonestRow(in, g, dr, k)
    BY DEF Honest
  <2>2. \A a \in 1 .. k - 1 : a \in 1 .. n
    BY <1>1
  <2>3. d[k] = dr[k] /\ \A a \in 1 .. k - 1 : d[a] = dr[a]
    BY <1>1, <2>2
  <2> QED
    BY <2>1, <2>3 DEF HonestRow
<1>7. ASSUME r.placement = "Repeat"
      PROVE  in.dedupe /\ \E a \in 1 .. n : dr[a].node = r.node /\ dr[a].placement = "Full"
  BY <1>7 DEF Fits, Remembered
<1>8. ASSUME r.placement = "Cycle"
      PROVE  \E a \in 1 .. n, m \in 1 .. L - 1 : dr[a].path = SubSeq(p, 1, m) /\ dr[a].node = r.node
  <2>1. PICK i \in 2 .. L : st[i].node = r.node
    BY <1>8 DEF Fits, OnPathOf, L
  <2>2. PICK a \in 1 .. n : dr[a].path = Taken(st, i - 1) /\ dr[a].node = st[i].node
    BY DEF FramesShown, L
  <2>3. i - 1 \in 1 .. L - 1 /\ i - 1 \in 0 .. L
    BY <1>3
  <2>4. SubSeq(p, 1, i - 1) = [m \in 1 .. i - 1 |-> p[m]]
    BY <1>4, <2>3
  <2>5. \A m \in 1 .. i - 1 : m \in 1 .. L - 1
    BY <1>3
  <2>6. SubSeq(p, 1, i - 1) = Taken(st, i - 1)
    BY <1>5, <2>4, <2>5 DEF Taken
  <2> QED
    BY <2>1, <2>2, <2>3, <2>6
<1>9. ASSUME L = 1, \A q \in RootSlots(g, r.node) : p[1] <= q
      PROVE  r.placement \in {"Full", "Depth", "Collapsed"}
  <2>1. r.placement \in Placements
    BY RowFields
  <2>2. r.placement # "Cycle"
    <3>1. 2 .. L = {}
      BY <1>9
    <3> QED
      BY <3>1 DEF Fits, OnPathOf, L
  <2>3. r.placement # "Root"
    BY <1>9 DEF Fits, Pointed, L
  <2>4. ASSUME r.placement = "Repeat" PROVE FALSE
    <3>1. in.dedupe /\ in.collapse /\ r.node \in ex
      BY <2>4 DEF Fits
    <3>2. p[1] \in RootSlots(g, r.node)
      BY <1>4, <1>9 DEF p
    <3>3. PICK a \in 1 .. n : dr[a].node = r.node /\ Len(dr[a].path) = 1
      BY <3>1, <3>2 DEF Remembered
    <3>4. /\ dr[a].path[1] \in 1 .. Len(g.roots) /\ g.roots[dr[a].path[1]] = r.node
          /\ dr[a].path \in Seq(Nat) /\ Passed(st, dr[a].path)
      <4>1. dr[a] \in Row(N)
        BY <1>1
      <4> QED
        BY <3>3, <4>1, RowFields DEF Listed, AllPassed
    <3>5. dr[a].path[1] \in RootSlots(g, r.node)
      BY <3>4 DEF RootSlots
    <3>6. dr[a].path[1] <= st[1].taken
      <4>1. 1 \in 1 .. Len(dr[a].path) /\ 1 <= Len(st) /\ \A m \in 1 .. 0 : dr[a].path[m] = st[m].taken
        BY <1>3, <3>3 DEF L
      <4> QED
        BY <3>4, <4>1 DEF Passed
    <3>7. p[1] = st[1].taken + 1 /\ st[1].taken \in Nat
      BY <1>3, <1>5, <1>9
    <3>8. p[1] <= dr[a].path[1]
      BY <1>9, <3>5, Zenon
    <3>9. dr[a].path[1] \in Nat
      BY <3>3, <3>4
    <3> QED
      BY <3>6, <3>7, <3>8, <3>9
  <2> QED
    BY <2>1, <2>2, <2>3, <2>4 DEF Placements
<1>10. HonestRow(in, g, d, n + 1)
  <2>1. n + 1 - 1 = n /\ Len(p) - 1 = L - 1
    BY <1>1, <1>4
  <2>2. d[n + 1].path = p
    BY <1>1 DEF p
  <2>3. \A a \in 1 .. n + 1 - 1 : d[a] = dr[a]
    BY <1>1, <2>1
  <2>4. KeptOf(in, g, p)
    BY DEF p
  <2>5. r.placement = "Repeat" =>
          /\ in.dedupe
          /\ \E a \in 1 .. n + 1 - 1 : d[a].node = r.node /\ d[a].placement = "Full"
    BY <1>7, <2>1, <2>3
  <2>6. r.placement = "Cycle" =>
          \E a \in 1 .. n + 1 - 1, m \in 1 .. Len(p) - 1 :
             d[a].path = SubSeq(p, 1, m) /\ d[a].node = r.node
    BY <1>8, <2>1, <2>3
  <2>7. /\ r.placement = "Root" => Pointed(in, g, Len(p) - 1, r.node)
        /\ r.placement = "Depth" => in.depth # None
        /\ r.placement = "Collapsed" => ~OpenedOf(in, g, p)
    BY <2>1 DEF Fits, L, p
  <2>8. Len(p) = 1 /\ (\A q \in RootSlots(g, r.node) : p[1] <= q) => r.placement \in {"Full", "Depth", "Collapsed"}
    BY <1>4, <1>9
  <2> QED
    BY <1>1, <2>2, <2>4, <2>5, <2>6, <2>7, <2>8, SMTT(30) DEF HonestRow
<1>11. \A k \in 1 .. n + 1 : k \in 1 .. n \/ k = n + 1
  BY <1>1
<1> QED
  BY <1>1, <1>6, <1>10, <1>11 DEF Honest, d

(* What the walk has always true of the stack, the nodes remembered and    *)
(* the rows.                                                               *)
Walked(in, g, N, st, ex, dr) ==
  /\ Stacked(g, N, st)
  /\ Listed(g, N, dr)
  /\ FramesShown(st, dr)
  /\ AllPassed(st, dr)
  /\ ex \subseteq N
  /\ Remembered(in, g, ex, dr)
  /\ Honest(in, g, dr)

OptionsFit(in) == in.dedupe \in BOOLEAN /\ (in.dedupe => in.collapse)

(* Without a row, and without a frame.                                     *)
LEMMA SkipWalks ==
  ASSUME NEW in, NEW g, NEW N, WellFormed(g, N), NEW st, NEW ex, NEW dr, Walked(in, g, N, st, ex, dr),
         NEW t \in Seq(Frames(N)), IsAdvance(st, t), st[Len(st)].taken < Len(st[Len(st)].children)
  PROVE  /\ Walked(in, g, N, t, ex, dr)
         /\ \A k \in 1 .. Len(dr) : ~Through(t, Len(t), dr[k].path)
<1> USE DEF Walked
<1>1. Stacked(g, N, t) /\ StackShape(N, st) /\ Len(t) = Len(st)
  BY AdvanceStacks, StackFacts DEF IsAdvance
<1>2. \A k \in 1 .. Len(dr) : dr[k] \in Row(N) /\ dr[k].path \in Seq(Nat)
  BY RowFields DEF Listed
<1>3. \A k \in 1 .. Len(dr) : Passed(t, dr[k].path) /\ ~Through(t, Len(st), dr[k].path)
  BY <1>1, <1>2, PassedOn DEF AllPassed
<1>4. FramesShown(t, dr)
  <2>1. Len(dr) \in Nat /\ Len(st) \in Nat
    BY <1>1 DEF Listed, StackShape
  <2> QED
    BY <2>1, FramesStay DEF IsAdvance
<1> QED
  BY <1>1, <1>3, <1>4 DEF AllPassed

(* What Enter does with the new row r, and the stack t that has taken it.  *)
Entered(in, g, N, st, ex, dr, t, r) ==
  /\ r \in Row(N) /\ r.path = Taken(t, Len(st))
  /\ r.node = t[Len(st)].children[t[Len(st)].taken]
  /\ Fits(in, g, st, ex, r) /\ KeptOf(in, g, r.path)

(* Drawing a row that has nothing below it keeps the walk.                 *)
LEMMA RowWalks ==
  ASSUME NEW in, OptionsFit(in), NEW g, NEW N, WellFormed(g, N), NEW st, NEW ex, NEW dr,
         Walked(in, g, N, st, ex, dr),
         NEW t \in Seq(Frames(N)), IsAdvance(st, t), st[Len(st)].taken < Len(st[Len(st)].children),
         NEW r, Entered(in, g, N, st, ex, dr, t, r),
         NEW ex2, ex2 = IF r.placement = "Full"
                        THEN MarkedOf(in, g, Len(st) - 1, ex, r.node) ELSE ex
  PROVE  Walked(in, g, N, t, ex2, Append(dr, r))
<1> DEFINE d == Append(dr, r)
<1>1. /\ Walked(in, g, N, t, ex, dr) /\ Stacked(g, N, t) /\ StackShape(N, t) /\ StackShape(N, st)
      /\ Len(t) = Len(st) /\ t[Len(t)].taken >= 1
      /\ \A k \in 1 .. Len(dr) : ~Through(t, Len(t), dr[k].path)
  <2>1. Stacked(g, N, st)
    BY DEF Walked
  <2>2. Stacked(g, N, t) /\ t[Len(t)].taken >= 1
    BY <2>1, AdvanceStacks
  <2>3. StackShape(N, t) /\ StackShape(N, st) /\ Len(t) = Len(st)
    BY <2>1, <2>2, StackFacts DEF IsAdvance
  <2> QED
    BY <2>2, <2>3, SkipWalks
<1>2. r \in Row(N) /\ dr \in Seq(Row(N)) /\ r.node \in N
  BY RowFields DEF Walked, Entered, Listed
<1>3. /\ Listed(g, N, d)
  BY <1>1, <1>2, RowIsListed DEF Walked, Entered
<1>4. /\ Len(dr) \in Nat /\ Len(d) = Len(dr) + 1 /\ d[Len(dr) + 1] = r
      /\ \A k \in 1 .. Len(dr) : d[k] = dr[k]
  BY <1>2, AppendRow
<1>5. FramesShown(t, d)
  <2>1. Len(t) \in Nat /\ Len(d) \in Nat /\ Len(dr) <= Len(d)
    BY <1>1, <1>4 DEF StackShape
  <2>2. FramesShown(t, dr)
    BY <1>1 DEF Walked
  <2> HIDE DEF d
  <2>3. \A i \in 1 .. Len(t) - 1 : t[i] = t[i]
    OBVIOUS
  <2> QED
    BY <1>4, <2>1, <2>2, <2>3, FramesStay
<1>6. AllPassed(t, d)
  <2> HIDE DEF d
  <2>1. Passed(t, r.path)
    BY <1>1, PassedHere DEF Entered
  <2>2. \A k \in 1 .. Len(dr) : Passed(t, dr[k].path)
    BY <1>1 DEF Walked, AllPassed
  <2>3. \A k \in 1 .. Len(d) : (k = Len(dr) + 1 /\ d[k] = r) \/ (k \in 1 .. Len(dr) /\ d[k] = dr[k])
    BY <1>4
  <2> QED
    BY <2>1, <2>2, <2>3 DEF AllPassed
<1>7. Len(r.path) = Len(st)
  BY <1>1 DEF Entered, StackShape
<1>8. Remembered(in, g, ex2, d)
  BY <1>1, <1>2, <1>7, RememberedOn DEF Walked, Entered, OptionsFit
<1>9. Len(r.path) = 1 => r.path[1] \in RootSlots(g, r.node)
  <2>1. Len(dr) + 1 \in 1 .. Len(d)
    BY <1>4
  <2>2. Len(r.path) = 1 => r.path[1] \in 1 .. Len(g.roots) /\ r.node = g.roots[r.path[1]]
    BY <1>3, <1>4, <2>1 DEF Listed
  <2>3. DOMAIN g.roots = 1 .. Len(g.roots)
    BY DEF WellFormed
  <2> QED
    BY <2>2, <2>3 DEF RootSlots
<1>10. Honest(in, g, d)
  <2>1. /\ Stacked(g, N, st) /\ Remembered(in, g, ex, dr) /\ Honest(in, g, dr)
        /\ Listed(g, N, dr) /\ FramesShown(st, dr) /\ AllPassed(st, dr)
    BY DEF Walked
  <2>2. /\ r.path = Taken(t, Len(st)) /\ Fits(in, g, st, ex, r) /\ KeptOf(in, g, r.path)
    BY DEF Entered
  <2>3. g.roots \in Seq(N) /\ (in.dedupe => in.collapse)
    BY DEF WellFormed, OptionsFit
  <2> QED
    BY <1>2, <1>9, <2>1, <2>2, <2>3, HonestOn
<1>11. ex2 \subseteq N
  BY <1>2 DEF MarkedOf, Walked
<1> QED
  BY <1>1, <1>3, <1>5, <1>6, <1>8, <1>10, <1>11 DEF Walked

(* A frame for the dependencies of a row just drawn in full.               *)
LEMMA PushWalks ==
  ASSUME NEW in, NEW g, NEW N, WellFormed(g, N), NEW st, NEW ex, NEW dr,
         Walked(in, g, N, st, ex, dr), st[Len(st)].taken >= 1,
         NEW r, r.node = st[Len(st)].children[st[Len(st)].taken], r.path = Taken(st, Len(st)),
         r.placement = "Full", r.node \notin OnPathOf(st),
         dr[Len(dr)] = r, Len(dr) >= 1,
         \A k \in 1 .. Len(dr) - 1 : ~Through(st, Len(st), dr[k].path)
  PROVE  Walked(in, g, N, Append(st, Frame(r.node, g.edges[r.node])), ex, dr)
<1> DEFINE n == r.node
           t == Append(st, Frame(n, g.edges[n]))
           L == Len(st)
<1>1. StackShape(N, st) /\ Stacked(g, N, st)
  BY StackFacts DEF Walked
<1>2. /\ Stacked(g, N, t) /\ Len(t) = L + 1 /\ t[L + 1] = Frame(n, g.edges[n])
      /\ \A i \in 1 .. L : t[i] = st[i]
  <2>1. \A i \in 2 .. Len(st) : st[i].node # n
    BY DEF OnPathOf
  <2> QED
    BY <1>1, <2>1, PushStacks
<1>3. L \in Nat /\ Len(dr) \in Nat /\ Len(r.path) = L /\ L >= 1 /\ Len(dr) \in 1 .. Len(dr)
  BY <1>1 DEF StackShape, Walked, Listed
<1> HIDE DEF t
<1>4. \A i \in 1 .. L : Taken(t, i) = Taken(st, i)
  <2>1. \A i \in 1 .. L : \A m \in 1 .. i : m \in 1 .. L
    BY <1>3
  <2> QED
    BY <1>2, <2>1 DEF Taken
<1>5. FramesShown(t, dr)
  <2> SUFFICES ASSUME NEW i \in 2 .. L + 1
               PROVE  \E a \in 1 .. Len(dr) : /\ dr[a].path = Taken(t, i - 1)
                                              /\ dr[a].node = t[i].node
                                              /\ dr[a].placement = "Full"
    BY <1>2 DEF FramesShown
  <2>0. i - 1 \in 1 .. L /\ Taken(t, i - 1) = Taken(st, i - 1)
    BY <1>3, <1>4
  <2>1. CASE i = L + 1
    <3>1. t[i].node = n /\ i - 1 = L
      BY <1>2, <1>3, <2>1 DEF Frame
    <3> QED
      BY <1>3, <2>0, <3>1
  <2>2. CASE i # L + 1
    <3>1. i \in 2 .. L /\ i \in 1 .. L
      BY <1>3, <2>2
    <3>2. t[i] = st[i]
      BY <1>2, <3>1
    <3> QED
      BY <2>0, <3>1, <3>2 DEF Walked, FramesShown
  <2> QED
    BY <2>1, <2>2
<1>6. AllPassed(t, dr)
  <2> SUFFICES ASSUME NEW k \in 1 .. Len(dr) PROVE Passed(t, dr[k].path)
    BY DEF AllPassed
  <2>1. dr[k].path \in Seq(Nat) /\ Passed(st, dr[k].path)
    BY RowFields DEF Walked, Listed, AllPassed
  <2>2. ~Through(st, L, dr[k].path) \/ Len(dr[k].path) = L
    <3>1. k \in 1 .. Len(dr) - 1 \/ k = Len(dr)
      BY <1>3
    <3> QED
      BY <1>3, <3>1
  <2> QED
    BY <1>2, <1>3, <2>1, <2>2, PassedUp
<1> QED
  BY <1>2, <1>5, <1>6 DEF Walked, t

(* Leaving a package keeps the walk.                                       *)
LEMMA LeaveWalks ==
  ASSUME NEW in, NEW g, NEW N, WellFormed(g, N), NEW st, NEW ex, NEW dr,
         Walked(in, g, N, st, ex, dr), Len(st) > 1
  PROVE  Walked(in, g, N, SubSeq(st, 1, Len(st) - 1), ex, dr)
<1> DEFINE t == SubSeq(st, 1, Len(st) - 1)
<1>1. StackShape(N, st) /\ Stacked(g, N, st)
  BY StackFacts DEF Walked
<1>2. Stacked(g, N, t) /\ Len(t) = Len(st) - 1 /\ \A i \in 1 .. Len(t) : t[i] = st[i]
  BY <1>1, PopStacks
<1> HIDE DEF t
<1>3. Len(st) \in Nat /\ Len(t) \in Nat /\ Len(t) <= Len(st)
  BY <1>1, <1>2 DEF StackShape
<1>4. FramesShown(t, dr)
  <2> SUFFICES ASSUME NEW i \in 2 .. Len(t)
               PROVE  \E a \in 1 .. Len(dr) : /\ dr[a].path = Taken(t, i - 1)
                                              /\ dr[a].node = t[i].node
                                              /\ dr[a].placement = "Full"
    BY DEF FramesShown
  <2>1. i \in 1 .. Len(t) /\ i \in 2 .. Len(st) /\ \A m \in 1 .. i - 1 : m \in 1 .. Len(t)
    BY <1>3
  <2>2. Taken(t, i - 1) = Taken(st, i - 1) /\ t[i] = st[i]
    BY <1>2, <2>1 DEF Taken
  <2> QED
    BY <2>1, <2>2 DEF Walked, FramesShown
<1>5. AllPassed(t, dr)
  <2> SUFFICES ASSUME NEW k \in 1 .. Len(dr) PROVE Passed(t, dr[k].path)
    BY DEF AllPassed
  <2>1. dr[k].path \in Seq(Nat) /\ Passed(st, dr[k].path)
    BY RowFields DEF Walked, Listed, AllPassed
  <2> QED
    BY <1>2, <1>3, <2>1, PassedDown
<1> QED
  BY <1>2, <1>4, <1>5 DEF Walked, t

(* A path the walk is done with: it has a row, or is left out.             *)
Seen(in, g, dr, p) == (\E k \in 1 .. Len(dr) : dr[k].path = p) \/ ~KeptOf(in, g, p)

(* The slot s below path p is still to be taken.                           *)
Pending(st, p, s) == \E i \in 2 .. Len(st) : p = Taken(st, i - 1) /\ s > st[i].taken

Below1(in, g, st, dr, a) ==
  dr[a].placement = "Full" =>
    \A s \in 1 .. Len(g.edges[dr[a].node]) :
       Seen(in, g, dr, Append(dr[a].path, s)) \/ Pending(st, dr[a].path, s)

(* Nothing is lost: what is kept below a row shown in full has a row or    *)
(* will have one.                                                          *)
Covered(in, g, st, dr) ==
  /\ \A s \in 1 .. st[1].taken : Seen(in, g, dr, <<s>>)
  /\ \A a \in 1 .. Len(dr) : Below1(in, g, st, dr, a)

(* What is seen stays seen as rows are added.                              *)
LEMMA SeenOn ==
  ASSUME NEW in, NEW g, NEW dr, NEW d, Len(dr) \in Nat, Len(d) \in Nat, Len(dr) <= Len(d),
         \A k \in 1 .. Len(dr) : d[k] = dr[k], NEW p, Seen(in, g, dr, p)
  PROVE  Seen(in, g, d, p)
<1>1. \A k \in 1 .. Len(dr) : k \in 1 .. Len(d)
  OBVIOUS
<1> QED
  BY <1>1 DEF Seen

(* The top frame takes a child that is seen.                               *)
LEMMA AdvanceCovers ==
  ASSUME NEW in, NEW g, NEW N, NEW st, StackShape(N, st), NEW t, IsAdvance(st, t),
         NEW dr, NEW d, Len(dr) \in Nat, Len(d) \in Nat, Len(dr) <= Len(d),
         \A k \in 1 .. Len(dr) : d[k] = dr[k],
         Covered(in, g, st, dr), Seen(in, g, d, Taken(t, Len(st)))
  PROVE  /\ \A s \in 1 .. t[1].taken : Seen(in, g, d, <<s>>)
         /\ \A a \in 1 .. Len(dr) : Below1(in, g, t, d, a)
<1> DEFINE L == Len(st)
           p == Taken(t, L)
<1>1. /\ L \in Nat /\ L >= 1 /\ Len(t) = L /\ t[L].taken = st[L].taken + 1
      /\ \A i \in 1 .. L - 1 : t[i] = st[i]
      /\ \A i \in 1 .. L : st[i].taken \in Nat
  BY DEF StackShape, IsAdvance
<1> HIDE DEF L
<1>2. \A i \in 1 .. L : t[i].taken = IF i = L THEN st[i].taken + 1 ELSE st[i].taken
  <2> TAKE i \in 1 .. L
  <2>1. i = L \/ i \in 1 .. L - 1
    BY <1>1
  <2> QED
    BY <1>1, <2>1
<1>3. \A q : Seen(in, g, dr, q) => Seen(in, g, d, q)
  BY SeenOn
<1>4. ASSUME NEW s \in 1 .. t[1].taken PROVE Seen(in, g, d, <<s>>)
  <2>1. CASE s \in 1 .. st[1].taken
    BY <1>3, <2>1 DEF Covered
  <2>2. CASE s \notin 1 .. st[1].taken
    <3>1. 1 \in 1 .. L
      BY <1>1
    <3>2. L = 1 /\ s = t[1].taken
      BY <1>1, <1>2, <2>2, <3>1
    <3>3. p = [m \in 1 .. 1 |-> t[1].taken]
      BY <3>2 DEF Taken
    <3>4. p = <<s>>
      BY <3>2, <3>3
    <3> QED
      BY <3>4 DEF L
  <2> QED
    BY <2>1, <2>2
<1>5. ASSUME NEW a \in 1 .. Len(dr), d[a].placement = "Full", NEW s \in 1 .. Len(g.edges[d[a].node])
      PROVE  Seen(in, g, d, Append(d[a].path, s)) \/ Pending(t, d[a].path, s)
  <2> DEFINE q == d[a].path
  <2>1. Seen(in, g, dr, Append(q, s)) \/ Pending(st, q, s)
    BY <1>5 DEF Covered, Below1
  <2>2. CASE Pending(st, q, s)
    <3> HIDE DEF q
    <3>1. PICK i \in 2 .. L : q = Taken(st, i - 1) /\ s > st[i].taken
      BY <2>2 DEF Pending, L
    <3>2. i \in 1 .. L /\ \A m \in 1 .. i - 1 : m \in 1 .. L /\ m # L
      BY <1>1
    <3>3. Taken(t, i - 1) = Taken(st, i - 1)
      BY <1>2, <3>2 DEF Taken
    <3>4. CASE s > t[i].taken
      BY <1>1, <3>1, <3>3, <3>4 DEF Pending, q
    <3>5. CASE ~(s > t[i].taken)
      <4>1. i = L /\ s = t[L].taken /\ s \in Nat
        <5>1. s \in Int /\ st[i].taken \in Nat
          BY <1>1, <3>2, <1>5
        <5>2. t[i].taken = st[i].taken + 1 /\ i = L
          BY <1>2, <3>1, <3>2, <3>5
        <5>3. s = t[L].taken
          <6> DEFINE x == st[L].taken
          <6>1. x \in Nat /\ s > x /\ ~(s > x + 1) /\ t[L].taken = x + 1
            BY <3>1, <3>5, <5>1, <5>2
          <6> HIDE DEF x
          <6> QED
            BY <5>1, <6>1
        <5> QED
          BY <1>1, <1>2, <3>2, <5>2, <5>3
      <4>2. q = [m \in 1 .. L - 1 |-> t[m].taken]
        BY <3>1, <3>3, <4>1 DEF Taken
      <4>3. Append(q, s) = p
        <5>1. \A m \in 1 .. L : t[m].taken \in Nat
          BY <1>1, <1>2
        <5>2. q \in Seq(Nat) /\ Len(q) = L - 1 /\ p \in Seq(Nat) /\ Len(p) = L
          <6>1. L - 1 \in Nat /\ \A m \in 1 .. L - 1 : m \in 1 .. L
            BY <1>1
          <6>2. q \in Seq(Nat) /\ Len(q) = L - 1
            BY <4>2, <5>1, <6>1, IsASeq
          <6>3. p \in Seq(Nat) /\ Len(p) = L
            <7>1. p = [m \in 1 .. L |-> t[m].taken]
              BY DEF Taken
            <7> QED
              BY <1>1, <5>1, <7>1, IsASeq
          <6> QED
            BY <6>2, <6>3
        <5>3. \A m \in 1 .. L - 1 : q[m] = t[m].taken
          BY <4>2
        <5>4. \A m \in 1 .. L : p[m] = t[m].taken
          BY DEF Taken
        <5> HIDE DEF p
        <5>5. \A m \in 1 .. L : Append(q, s)[m] = p[m]
          <6> TAKE m \in 1 .. L
          <6>1. m \in 1 .. L - 1 \/ m = L
            BY <1>1, SMTT(30)
          <6>2. Append(q, s)[m] = IF m = L THEN s ELSE q[m]
            BY <1>1, <5>2, <6>1
          <6> QED
            BY <4>1, <5>3, <5>4, <6>1, <6>2
        <5>6. Append(q, s) \in Seq(Nat) /\ Len(Append(q, s)) = L
          BY <1>1, <4>1, <5>2
        <5> QED
          BY <5>2, <5>5, <5>6, SeqEqual
      <4> QED
        BY <4>3 DEF L, q
    <3> QED
      BY <3>4, <3>5 DEF q
  <2> QED
    BY <1>3, <2>1, <2>2
<1> QED
  BY <1>4, <1>5 DEF Below1

(* Leaving a package none of whose slots is left keeps the cover.          *)
LEMMA LeaveCovers ==
  ASSUME NEW in, NEW g, NEW N, WellFormed(g, N), NEW st, NEW ex, NEW dr, Walked(in, g, N, st, ex, dr),
         Len(st) > 1, st[Len(st)].taken = Len(st[Len(st)].children), Covered(in, g, st, dr)
  PROVE  Covered(in, g, SubSeq(st, 1, Len(st) - 1), dr)
<1> DEFINE L == Len(st)
           t == SubSeq(st, 1, L - 1)
<1>1. StackShape(N, st) /\ Stacked(g, N, st) /\ L > 1
  BY StackFacts DEF Walked
<1>2. Len(t) = L - 1 /\ \A i \in 1 .. Len(t) : t[i] = st[i]
  BY <1>1, PopStacks
<1>3. L \in Nat /\ Len(dr) \in Nat /\ \A i \in 1 .. L : st[i].taken \in Nat /\ Len(st[i].children) \in Nat
  BY <1>1 DEF StackShape, Walked, Listed
<1> HIDE DEF t
<1>4. \A s \in 1 .. t[1].taken : Seen(in, g, dr, <<s>>)
  <2>1. 1 \in 1 .. Len(t)
    BY <1>1, <1>2, <1>3
  <2> QED
    BY <1>2, <2>1 DEF Covered
<1>5. ASSUME NEW a \in 1 .. Len(dr), dr[a].placement = "Full", NEW s \in 1 .. Len(g.edges[dr[a].node]),
             Pending(st, dr[a].path, s)
      PROVE  Pending(t, dr[a].path, s)
  <2>1. PICK i \in 2 .. L : dr[a].path = Taken(st, i - 1) /\ s > st[i].taken
    BY <1>5 DEF Pending
  <2>2. i # L
    <3> SUFFICES ASSUME i = L PROVE FALSE
      OBVIOUS
    <3>1. PICK b \in 1 .. Len(dr) : dr[b].path = Taken(st, i - 1) /\ dr[b].node = st[i].node
      BY DEF Walked, FramesShown
    <3>2. a = b
      BY <2>1, <3>1 DEF Walked, Listed
    <3>3. st[L].children = g.edges[dr[a].node] /\ L \in 1 .. L
      BY <1>1, <1>3, <3>1, <3>2 DEF Stacked
    <3>4. s <= st[L].taken /\ s \in Int /\ st[L].taken \in Nat
      BY <1>3, <3>3
    <3>5. s > st[L].taken
      BY <2>1
    <3> QED
      BY <3>4, <3>5
  <2>3. i \in 2 .. Len(t) /\ i \in 1 .. Len(t) /\ \A m \in 1 .. i - 1 : m \in 1 .. Len(t)
    BY <1>2, <1>3, <2>2
  <2>4. Taken(t, i - 1) = Taken(st, i - 1) /\ t[i] = st[i]
    BY <1>2, <2>3 DEF Taken
  <2> QED
    BY <2>1, <2>3, <2>4 DEF Pending
<1>6. \A a \in 1 .. Len(dr) : Below1(in, g, t, dr, a)
  BY <1>5 DEF Covered, Below1
<1> QED
  BY <1>4, <1>6 DEF Covered, t

(* Drawing a row, and entering it if it is full, keeps the walk and the    *)
(* cover.                                                                  *)
LEMMA EnterWalks ==
  ASSUME NEW in, OptionsFit(in), NEW g, NEW N, WellFormed(g, N), NEW st, NEW ex, NEW dr,
         Walked(in, g, N, st, ex, dr),
         NEW t \in Seq(Frames(N)), IsAdvance(st, t), st[Len(st)].taken < Len(st[Len(st)].children),
         NEW r, Entered(in, g, N, st, ex, dr, t, r),
         NEW ex2, ex2 = IF r.placement = "Full"
                        THEN MarkedOf(in, g, Len(st) - 1, ex, r.node) ELSE ex,
         NEW st2, st2 = IF r.placement = "Full" /\ g.edges[r.node] # <<>>
                        THEN Append(t, Frame(r.node, g.edges[r.node])) ELSE t
  PROVE  /\ Walked(in, g, N, st2, ex2, Append(dr, r))
         /\ Covered(in, g, st, dr) => Covered(in, g, st2, Append(dr, r))
<1> DEFINE d == Append(dr, r)
           n == Len(dr)
           L == Len(st)
<1>1. Walked(in, g, N, t, ex2, d)
  BY RowWalks
<1>2. /\ \A k \in 1 .. n : ~Through(t, Len(t), dr[k].path)
      /\ Len(t) = L /\ Stacked(g, N, st) /\ StackShape(N, st)
  <2>1. Stacked(g, N, st) /\ StackShape(N, st)
    BY StackFacts DEF Walked
  <2>2. Len(t) = L
    BY DEF IsAdvance
  <2> QED
    BY <2>1, <2>2, SkipWalks
<1>3. t[L].taken >= 1 /\ Stacked(g, N, t) /\ StackShape(N, t)
  BY <1>2, AdvanceStacks, StackFacts
<1>4. /\ r \in Row(N) /\ dr \in Seq(Row(N)) /\ r.node \in N /\ r.path = Taken(t, L)
      /\ r.node = t[L].children[t[L].taken]
  BY RowFields DEF Walked, Entered, Listed
<1>5. /\ n \in Nat /\ Len(d) = n + 1 /\ d[n + 1] = r /\ \A k \in 1 .. n : d[k] = dr[k]
  BY <1>4, AppendRow
<1> HIDE DEF d
<1>6. /\ L \in Nat /\ L >= 1 /\ \A i \in 1 .. L : t[i].taken \in Nat
      /\ \A m \in N : g.edges[m] \in Seq(N) /\ Len(g.edges[m]) \in Nat
  <2>1. L \in Nat /\ L >= 1 /\ \A i \in 1 .. L : t[i].taken \in Nat
    BY <1>2, <1>3 DEF StackShape
  <2>2. \A m \in N : g.edges[m] \in Seq(N) /\ Len(g.edges[m]) \in Nat
    BY DEF WellFormed
  <2> QED
    BY <2>1, <2>2
<1>7. Covered(in, g, st, dr) =>
        /\ \A s \in 1 .. t[1].taken : Seen(in, g, d, <<s>>)
        /\ \A a \in 1 .. n : Below1(in, g, t, d, a)
  <2>1. n + 1 \in 1 .. Len(d) /\ Len(d) \in Nat /\ n <= Len(d)
    BY <1>5
  <2>2. Seen(in, g, d, Taken(t, L))
    BY <1>4, <1>5, <2>1 DEF Seen
  <2> QED
    BY <1>2, <1>5, <2>1, <2>2, AdvanceCovers
<1>8. CASE r.placement = "Full" /\ g.edges[r.node] # <<>>
  <2>1. st2 = Append(t, Frame(r.node, g.edges[r.node]))
    BY <1>8
  <2>2. r.node \notin OnPathOf(t)
    <3>1. r.node \notin OnPathOf(st)
      BY <1>8 DEF Entered, Fits
    <3>2. \A i \in 2 .. L : t[i].node = st[i].node
      <4> TAKE i \in 2 .. L
      <4>1. i \in 1 .. L - 1 \/ i = L
        BY <1>6
      <4> QED
        BY <4>1 DEF IsAdvance
    <3> QED
      BY <1>2, <3>1, <3>2 DEF OnPathOf
  <2>3. Walked(in, g, N, st2, ex2, d)
    <3>1. d[Len(d)] = r /\ Len(d) >= 1
      BY <1>5
    <3>2. \A k \in 1 .. Len(d) - 1 : ~Through(t, Len(t), d[k].path)
      BY <1>2, <1>5
    <3> QED
      BY <1>1, <1>2, <1>3, <1>4, <1>8, <2>1, <2>2, <3>1, <3>2, PushWalks
  <2>4. ASSUME Covered(in, g, st, dr) PROVE Covered(in, g, st2, d)
    <3>1. /\ Len(st2) = L + 1 /\ st2[L + 1].taken = 0 /\ \A i \in 1 .. L : st2[i] = t[i]
      <4>1. /\ Len(st2) = L + 1 /\ st2[L + 1] = Frame(r.node, g.edges[r.node])
            /\ \A i \in 1 .. L : st2[i] = t[i]
        BY <1>2, <1>6, <2>1
      <4> QED
        BY <4>1 DEF Frame
    <3>2. \A i \in 1 .. L : Taken(st2, i) = Taken(t, i)
      <4>1. \A i \in 1 .. L : \A m \in 1 .. i : m \in 1 .. L
        BY <1>6
      <4> QED
        BY <3>1, <4>1 DEF Taken
    <3>3. \A s \in 1 .. st2[1].taken : Seen(in, g, d, <<s>>)
      <4>1. 1 \in 1 .. L
        BY <1>6
      <4> QED
        BY <1>7, <2>4, <3>1, <4>1
    <3>4. \A p, s : Pending(t, p, s) => Pending(st2, p, s)
      <4> SUFFICES ASSUME NEW p, NEW s, Pending(t, p, s) PROVE Pending(st2, p, s)
        OBVIOUS
      <4>1. PICK i \in 2 .. L : p = Taken(t, i - 1) /\ s > t[i].taken
        BY <1>2 DEF Pending
      <4>2. i \in 2 .. L + 1 /\ i \in 1 .. L /\ i - 1 \in 1 .. L
        BY <1>6
      <4> QED
        BY <3>1, <3>2, <4>1, <4>2 DEF Pending
    <3>5. ASSUME NEW a \in 1 .. n PROVE Below1(in, g, st2, d, a)
      BY <1>7, <2>4, <3>4 DEF Below1
    <3>6. Below1(in, g, st2, d, n + 1)
      <4>1. \A s \in 1 .. Len(g.edges[r.node]) : Pending(st2, r.path, s)
        <5> TAKE s \in 1 .. Len(g.edges[r.node])
        <5>1. L + 1 \in 2 .. L + 1 /\ L \in 1 .. L /\ (L + 1) - 1 = L
          BY <1>6
        <5>a. st2[L + 1].taken = 0
          BY <3>1
        <5>b. Len(g.edges[r.node]) \in Nat
          <6>1. r.node \in N
            BY <1>4
          <6> HIDE DEF L
          <6> QED
            BY <1>6, <6>1
        <5>c. s > 0
          BY <5>b
        <5>2. s > st2[L + 1].taken
          BY <5>a, <5>c, Zenon
        <5>3. r.path = Taken(st2, (L + 1) - 1)
          BY <1>4, <3>2, <5>1
        <5>4. L + 1 \in 2 .. Len(st2)
          BY <3>1, <5>1
        <5> HIDE DEF L
        <5> QED
          BY <5>2, <5>3, <5>4 DEF Pending
      <4> QED
        BY <1>5, <4>1 DEF Below1
    <3>7. \A a \in 1 .. Len(d) : a \in 1 .. n \/ a = n + 1
      BY <1>5
    <3> QED
      BY <3>3, <3>5, <3>6, <3>7 DEF Covered
  <2> QED
    BY <2>3, <2>4 DEF d
<1>9. CASE ~(r.placement = "Full" /\ g.edges[r.node] # <<>>)
  <2>1. st2 = t
    BY <1>9
  <2>2. ASSUME Covered(in, g, st, dr) PROVE Covered(in, g, t, d)
    <3>1. Below1(in, g, t, d, n + 1)
      <4>1. r.placement = "Full" => 1 .. Len(g.edges[r.node]) = {}
        <5>1. Len(<<>>) = 0 /\ 1 .. 0 = {}
          OBVIOUS
        <5> QED
          BY <1>9, <5>1
      <4> QED
        BY <1>5, <4>1, Zenon DEF Below1
    <3>2. \A a \in 1 .. Len(d) : a \in 1 .. n \/ a = n + 1
      BY <1>5
    <3> QED
      BY <1>7, <2>2, <3>1, <3>2 DEF Covered
  <2> QED
    BY <1>1, <2>1, <2>2 DEF d
<1> QED
  BY <1>8, <1>9

(* Passing a path the search left out keeps the cover.                     *)
LEMMA SkipCovers ==
  ASSUME NEW in, NEW g, NEW N, NEW st, NEW ex, NEW dr, Walked(in, g, N, st, ex, dr),
         NEW t, IsAdvance(st, t), Covered(in, g, st, dr), ~KeptOf(in, g, Taken(t, Len(st)))
  PROVE  Covered(in, g, t, dr)
<1>1. StackShape(N, st) /\ Len(dr) \in Nat
  BY StackFacts DEF Walked, Listed
<1>2. Seen(in, g, dr, Taken(t, Len(st)))
  BY DEF Seen
<1>3. /\ \A s \in 1 .. t[1].taken : Seen(in, g, dr, <<s>>)
      /\ \A a \in 1 .. Len(dr) : Below1(in, g, t, dr, a)
  <2>1. Len(dr) <= Len(dr)
    BY <1>1
  <2> QED
    BY <1>1, <1>2, <2>1, AdvanceCovers
<1> QED
  BY <1>3 DEF Covered

-----------------------------------------------------------------------------
(***************************************************************************)
(* 3. Bounds and markers.                                                  *)
(***************************************************************************)

(* A prefix of a sequence, slot by slot.                                   *)
LEMMA PrefixFacts ==
  ASSUME NEW S, NEW s \in Seq(S), NEW n \in 0 .. Len(s)
  PROVE  /\ SubSeq(s, 1, n) \in Seq(S) /\ Len(SubSeq(s, 1, n)) = n
         /\ \A m \in 1 .. n : SubSeq(s, 1, n)[m] = s[m]
<1>1. Len(s) \in Nat /\ n \in Nat /\ n \in Int /\ 1 \in Int /\ \A i \in 1 .. n : s[i] \in S
  OBVIOUS
<1>2. /\ SubSeq(s, 1, n) \in Seq(S)
      /\ Len(SubSeq(s, 1, n)) = IF 1 <= n THEN n - 1 + 1 ELSE 0
      /\ \A i \in 1 .. n - 1 + 1 : SubSeq(s, 1, n)[i] = s[1 + i - 1]
  BY <1>1, SubSeqProperties
<1>3. /\ (IF 1 <= n THEN n - 1 + 1 ELSE 0) = n
      /\ \A i \in 1 .. n : i \in 1 .. n - 1 + 1 /\ 1 + i - 1 = i
  BY <1>1
<1> QED
  BY <1>2, <1>3

(* A path is its parent and its last slot.                                 *)
LEMMA PathByParent ==
  ASSUME NEW p \in Seq(Nat), NEW q \in Seq(Nat), Len(p) >= 1, Len(q) >= 1,
         Parent(p) = Parent(q), p[Len(p)] = q[Len(q)]
  PROVE  p = q
<1>1. Len(p) \in Nat /\ Len(q) \in Nat
  OBVIOUS
<1>2. /\ Len(Parent(p)) = Len(p) - 1 /\ \A m \in 1 .. Len(p) - 1 : Parent(p)[m] = p[m]
      /\ Len(Parent(q)) = Len(q) - 1 /\ \A m \in 1 .. Len(q) - 1 : Parent(q)[m] = q[m]
  <2>1. ASSUME NEW s \in Seq(Nat), Len(s) >= 1
        PROVE  Len(Parent(s)) = Len(s) - 1 /\ \A m \in 1 .. Len(s) - 1 : Parent(s)[m] = s[m]
    <3>1. s \in Seq(Nat) /\ Len(s) - 1 \in 0 .. Len(s)
      BY <2>1
    <3> QED
      BY <3>1, PrefixFacts DEF Parent
  <2> QED
    BY <2>1
<1>3. Len(p) = Len(q)
  BY <1>1, <1>2
<1>4. \A m \in 1 .. Len(p) : p[m] = q[m]
  <2> TAKE m \in 1 .. Len(p)
  <2>1. m \in 1 .. Len(p) - 1 \/ m = Len(p)
    BY <1>1
  <2> QED
    BY <1>2, <1>3, <2>1
<1> QED
  BY <1>3, <1>4, SeqEqual

(* The packages are finitely many.                                         *)
LEMMA IntervalSize ==
  ASSUME NEW n \in Nat
  PROVE  IsFiniteSet(1 .. n) /\ Cardinality(1 .. n) = n
<1>1. 1 \in Int /\ n \in Int
  OBVIOUS
<1>2. IsFiniteSet(1 .. n) /\ Cardinality(1 .. n) = IF 1 > n THEN 0 ELSE n - 1 + 1
  BY <1>1, FS_Interval, Zenon
<1>3. (IF 1 > n THEN 0 ELSE n - 1 + 1) = n
  OBVIOUS
<1> QED
  BY <1>2, <1>3

Linked(g, N) == {e \in N \X N : e[2] \in Elements(g.edges[e[1]])}

(* While repeats are collapsed: a row per root and per edge at most.       *)
LEMMA RowsAreFew ==
  ASSUME NEW in, in.dedupe, NEW g, NEW N, IsFiniteSet(N), WellFormed(g, N), NEW ex, NEW dr,
         Listed(g, N, dr), Remembered(in, g, ex, dr)
  PROVE  Len(dr) <= Len(g.roots) + Cardinality(Linked(g, N))
<1> DEFINE E == Linked(g, N)
           K == 1 .. Len(dr)
           T == {k \in K : Len(dr[k].path) = 1}
           U == {k \in K : Len(dr[k].path) > 1}
           F == 1 .. Len(g.roots)
           top == [k \in T |-> dr[k].path[1]]
           up(k) == CHOOSE a \in 1 .. k - 1 : Hangs(g, dr, a, k)
           edge == [k \in U |-> <<dr[up(k)].node, dr[k].node>>]
<1>1. /\ Len(dr) \in Nat /\ Len(g.roots) \in Nat
      /\ \A k \in K : dr[k].path \in Seq(Nat) /\ dr[k].node \in N /\ Len(dr[k].path) \in Nat
      /\ \A n \in N : g.edges[n] \in Seq(N) /\ Len(g.edges[n]) \in Nat /\ Once(g.edges[n])
  <2>1. \A k \in K : dr[k] \in Row(N)
    BY DEF Listed
  <2> QED
    BY <2>1, RowFields DEF Listed, WellFormed
<1>2. IsFiniteSet(E) /\ IsFiniteSet(F) /\ IsFiniteSet(K) /\ Cardinality(F) = Len(g.roots) /\ Cardinality(K) = Len(dr)
  <2>1. E \in SUBSET (N \X N)
    BY DEF Linked
  <2>2. IsFiniteSet(E)
    BY <2>1, FS_Product, FS_Subset
  <2>3. IsFiniteSet(F) /\ IsFiniteSet(K)
    BY <1>1, FS_Interval
  <2>4. Cardinality(F) = Len(g.roots) /\ Cardinality(K) = Len(dr)
    BY <1>1, IntervalSize
  <2> QED
    BY <2>2, <2>3, <2>4
<1>3. K = T \cup U /\ T \cap U = {}
  <2>1. \A k \in K : Len(dr[k].path) >= 1
    BY DEF Listed
  <2>2. \A k \in K : Len(dr[k].path) = 1 <=> ~(Len(dr[k].path) > 1)
    <3>1. \A x \in Nat : x >= 1 => (x = 1 <=> ~(x > 1))
      OBVIOUS
    <3> QED
      BY <1>1, <2>1, <3>1, Zenon
  <2> QED
    BY <2>2, Zenon
<1>4. top \in Injection(T, F)
  <2>1. top \in [T -> F]
    BY DEF Listed
  <2>2. ASSUME NEW k \in T, NEW l \in T, top[k] = top[l] PROVE k = l
    <3>1. dr[k].path = dr[l].path
      BY <1>1, <2>2, SeqEqual
    <3> QED
      BY <3>1 DEF Listed
  <2> QED
    BY <2>1, <2>2 DEF Injection, IsInjective
<1>5. \A k \in U : up(k) \in 1 .. k - 1 /\ up(k) \in K /\ Hangs(g, dr, up(k), k)
  <2> TAKE k \in U
  <2>1. \E a \in 1 .. k - 1 : Hangs(g, dr, a, k)
    BY DEF Listed
  <2>2. up(k) \in 1 .. k - 1 /\ Hangs(g, dr, up(k), k)
    BY <2>1
  <2> QED
    BY <1>1, <2>2
<1>6. ASSUME NEW k \in U
      PROVE  /\ dr[up(k)].path = Parent(dr[k].path) /\ dr[up(k)].placement = "Full"
             /\ dr[k].path[Len(dr[k].path)] \in DOMAIN g.edges[dr[up(k)].node]
             /\ dr[k].node = g.edges[dr[up(k)].node][dr[k].path[Len(dr[k].path)]]
             /\ g.edges[dr[up(k)].node] # <<>>
             /\ dr[up(k)].node \in N /\ Once(g.edges[dr[up(k)].node])
  <2> DEFINE p == dr[k].path
             a == up(k)
             e == g.edges[dr[a].node]
  <2>1. /\ dr[a].path = Parent(p) /\ dr[a].placement = "Full"
        /\ p[Len(p)] \in 1 .. Len(e) /\ dr[k].node = e[p[Len(p)]]
    BY <1>5 DEF Hangs
  <2>2. dr[a].node \in N /\ e \in Seq(N) /\ Once(e) /\ Len(e) \in Nat
    BY <1>1, <1>5
  <2> HIDE DEF e, p, a
  <2>3. DOMAIN e = 1 .. Len(e)
    BY <2>2
  <2>4. p[Len(p)] \in DOMAIN e
    BY <2>1, <2>3
  <2>5. e # <<>>
    BY <2>3, <2>4
  <2> QED
    BY <2>1, <2>2, <2>4, <2>5 DEF e, p, a
<1> HIDE DEF up
<1>7. edge \in Injection(U, E)
  <2>1. edge \in [U -> E]
    <3> SUFFICES ASSUME NEW k \in U PROVE <<dr[up(k)].node, dr[k].node>> \in E
      OBVIOUS
    <3>1. dr[k].node \in Elements(g.edges[dr[up(k)].node])
      BY <1>6 DEF Elements
    <3>2. dr[up(k)].node \in N /\ dr[k].node \in N
      BY <1>1, <1>6
    <3> QED
      BY <3>1, <3>2 DEF Linked
  <2>2. ASSUME NEW k \in U, NEW l \in U, edge[k] = edge[l] PROVE k = l
    <3>1. dr[up(k)].node = dr[up(l)].node /\ dr[k].node = dr[l].node
      BY <2>2
    <3>2. up(k) = up(l)
      BY <1>5, <1>6, <3>1, Zenon DEF Remembered
    <3>3. dr[k].path[Len(dr[k].path)] = dr[l].path[Len(dr[l].path)]
      <4> DEFINE e == g.edges[dr[up(k)].node]
                 i == dr[k].path[Len(dr[k].path)]
                 j == dr[l].path[Len(dr[l].path)]
      <4>1. i \in DOMAIN e /\ dr[k].node = e[i] /\ Once(e)
        BY <1>6
      <4>2. j \in DOMAIN e /\ dr[l].node = e[j]
        BY <1>6, <3>1
      <4> HIDE DEF e, i, j
      <4>3. i = j
        BY <3>1, <4>1, <4>2 DEF Once
      <4> QED
        BY <4>3 DEF i, j
    <3>4. dr[k].path = dr[l].path
      <4>1. /\ dr[k].path \in Seq(Nat) /\ dr[l].path \in Seq(Nat)
            /\ Len(dr[k].path) >= 1 /\ Len(dr[l].path) >= 1
        BY <1>1 DEF Listed
      <4>2. Parent(dr[k].path) = Parent(dr[l].path)
        <5>1. Parent(dr[k].path) = dr[up(k)].path /\ Parent(dr[l].path) = dr[up(l)].path
          BY <1>6
        <5> QED
          BY <3>2, <5>1
      <4> QED
        BY <3>3, <4>1, <4>2, PathByParent
    <3> QED
      BY <3>4 DEF Listed
  <2> QED
    BY <2>1, <2>2 DEF Injection, IsInjective
<1> HIDE DEF T, U, F, E, top, edge, K
<1>8. IsFiniteSet(T) /\ Cardinality(T) <= Cardinality(F)
  BY <1>2, <1>4, FS_Injection
<1>9. IsFiniteSet(U) /\ Cardinality(U) <= Cardinality(E)
  BY <1>2, <1>7, FS_Injection
<1>10. Cardinality(K) = Cardinality(T) + Cardinality(U) - Cardinality({})
  BY <1>3, <1>8, <1>9, FS_Union
<1>11. Cardinality({}) = 0 /\ Cardinality(T) \in Nat /\ Cardinality(U) \in Nat /\ Cardinality(E) \in Nat
  BY <1>2, <1>8, <1>9, FS_EmptySet, FS_CardinalityType
<1>12. Len(dr) = Cardinality(T) + Cardinality(U) /\ Cardinality(T) <= Len(g.roots)
  BY <1>2, <1>8, <1>10, <1>11
<1> QED
  BY <1>1, <1>9, <1>11, <1>12 DEF E

Built ==
  /\ graph.edges = GraphOf(input).edges
  /\ graph.roots = GraphOf(input).roots
  /\ graph.found = Found(input, GraphOf(input))

Walking ==
  /\ Built
  /\ Walked(input, graph, Nodes, stack, expanded, drawn)
  /\ Len(drawn) <= input.visits
  /\ truncated \/ Covered(input, graph, stack, drawn)
  /\ NoChain(graph.edges, MaxWalkDepth) => (truncated => Len(drawn) = input.visits)

WalkInv ==
  /\ input \in Inputs
  /\ pc = "build" => drawn = <<>> /\ expanded = {} /\ truncated = FALSE
  /\ pc # "build" => Walking
  /\ pc = "done" => Len(stack) = 1 /\ stack[1].taken = Len(stack[1].children)

(* What InputOK says of the input at hand.                                 *)
LEMMA InputFacts ==
  ASSUME input \in Inputs
  PROVE  /\ InputOK(input) /\ OptionsFit(input) /\ input.visits \in Nat
         /\ Nodes = 1 .. Len(input.packages) /\ Len(input.packages) \in Nat
         /\ WellFormed(GraphOf(input), Nodes)
<1>1. InputOK(input)
  BY GraphAssumption
<1>2. input.packages \in Seq(Elements(input.packages))
  BY <1>1 DEF InputOK
<1>3. Nodes = 1 .. Len(input.packages) /\ Len(input.packages) \in Nat
  BY <1>2 DEF Nodes
<1>4. WellFormed(GraphOf(input), Nodes)
  BY <1>1, GraphShape DEF Nodes
<1> QED
  BY <1>1, <1>3, <1>4 DEF InputOK, OptionsFit

(* The graph is built of the packages.                                     *)
LEMMA BuiltWell ==
  ASSUME input \in Inputs, Built PROVE WellFormed(graph, Nodes)
BY InputFacts DEF Built, WellFormed

(* The child being visited, in the terms of the lemmas above.              *)
LEMMA ChildFacts ==
  ASSUME input \in Inputs, Walking, AtChild
  PROVE  /\ WellFormed(graph, Nodes) /\ StackShape(Nodes, stack)
         /\ Advanced \in Seq(Frames(Nodes)) /\ IsAdvance(stack, Advanced)
         /\ stack[Len(stack)].taken < Len(stack[Len(stack)].children)
         /\ Path = Taken(Advanced, Len(stack)) /\ Path \in Seq(Nat)
         /\ Child = Advanced[Len(stack)].children[Advanced[Len(stack)].taken] /\ Child \in Nodes
<1> DEFINE L == Len(stack)
           t == Advanced
<1>1. WellFormed(graph, Nodes) /\ Stacked(graph, Nodes, stack) /\ StackShape(Nodes, stack)
  BY BuiltWell, StackFacts DEF Walking, Walked
<1>2. t = AdvancedOf(stack)
  BY DEF Advanced, AdvancedOf
<1>3. t \in Seq(Frames(Nodes)) /\ IsAdvance(stack, t)
  BY <1>1, <1>2, AdvanceShape DEF StackShape
<1>4. stack[L].taken < Len(stack[L].children)
  BY DEF AtChild, Top
<1>5. /\ L \in Nat /\ DOMAIN stack = 1 .. L /\ L \in 1 .. L /\ stack[L].taken \in Nat
      /\ stack[L].children \in Seq(Nodes) /\ Len(stack[L].children) \in Nat
  BY <1>1 DEF StackShape
<1> HIDE DEF t
<1>6. \A i \in 1 .. L : t[i].taken = IF i = L THEN stack[i].taken + 1 ELSE stack[i].taken
  <2> TAKE i \in 1 .. L
  <2>1. i = L \/ i \in 1 .. L - 1
    <3> HIDE DEF L
    <3> QED
      BY <1>5
  <2> QED
    BY <1>3, <2>1 DEF IsAdvance
<1>7. Path = Taken(t, L)
  BY <1>5, <1>6 DEF Path, Taken
<1>8. Taken(t, L) \in Seq(Nat)
  <2>1. Stacked(graph, Nodes, t) /\ Len(t) = L
    BY <1>1, <1>3, <1>4, AdvanceStacks DEF IsAdvance
  <2> QED
    BY <1>5, <2>1, StackFacts DEF StackShape
<1>9. Child = t[L].children[t[L].taken]
  BY <1>3 DEF Child, Top, IsAdvance
<1>10. Child \in Nodes
  <2>1. stack[L].taken + 1 \in 1 .. Len(stack[L].children)
    BY <1>4, <1>5
  <2> QED
    BY <1>5, <2>1 DEF Child, Top
<1> QED
  BY <1>1, <1>3, <1>4, <1>7, <1>8, <1>9, <1>10 DEF t

FirstSays(v, a, b, c, d, e) ==
  /\ v \in Placements
  /\ v = "Cycle" <=> a
  /\ v = "Root" => b
  /\ v = "Repeat" => c
  /\ v = "Depth" => d
  /\ v = "Collapsed" => e
  /\ v = "Full" => ~b /\ ~c

(* Placement takes the first reason that holds.                            *)
LEMMA FirstReason ==
  ASSUME NEW a, NEW b, NEW c, NEW d, NEW e, NEW v,
         v = IF a THEN "Cycle" ELSE IF b THEN "Root" ELSE IF c THEN "Repeat"
             ELSE IF d THEN "Depth" ELSE IF e THEN "Collapsed" ELSE "Full"
  PROVE  FirstSays(v, a, b, c, d, e)
<1>1. CASE a
  <2>1. v = "Cycle"
    BY <1>1
  <2> QED
    BY <1>1, <2>1 DEF Placements, FirstSays
<1>2. CASE ~a /\ b
  <2>1. v = "Root"
    BY <1>2
  <2> QED
    BY <1>2, <2>1 DEF Placements, FirstSays
<1>3. CASE ~a /\ ~b /\ c
  <2>1. v = "Repeat"
    BY <1>3
  <2> QED
    BY <1>3, <2>1 DEF Placements, FirstSays
<1>4. CASE ~a /\ ~b /\ ~c /\ d
  <2>1. v = "Depth"
    BY <1>4
  <2> QED
    BY <1>4, <2>1 DEF Placements, FirstSays
<1>5. CASE ~a /\ ~b /\ ~c /\ ~d /\ e
  <2>1. v = "Collapsed"
    BY <1>5
  <2> QED
    BY <1>5, <2>1 DEF Placements, FirstSays
<1>6. CASE ~a /\ ~b /\ ~c /\ ~d /\ ~e
  <2>1. v = "Full"
    BY <1>6
  <2> QED
    BY <1>6, <2>1 DEF Placements, FirstSays
<1> QED
  BY <1>1, <1>2, <1>3, <1>4, <1>5, <1>6, Zenon

NewRow == [path |-> Path, node |-> Child, placement |-> Placement(Child, Path)]

(* The row Enter draws is the one the lemmas above draw.                   *)
LEMMA NewRowFits ==
  ASSUME input \in Inputs, Walking, AtChild, Kept(Path)
  PROVE  Entered(input, graph, Nodes, stack, expanded, drawn, Advanced, NewRow)
<1> DEFINE r == NewRow
           a == Child \in OnPath
           b == input.collapse /\ Depth > 0 /\ graph.edges[Child] # <<>> /\ RootSlots(graph, Child) # {}
           c == input.dedupe /\ Child \in expanded
           d == input.depth # None /\ Depth >= input.depth
           e == graph.edges[Child] # <<>> /\ ~Opened(Path)
           v == Placement(Child, Path)
<1>1. r.path = Path /\ r.node = Child /\ r.placement = v
  BY DEF NewRow
<1>2. v = IF a THEN "Cycle" ELSE IF b THEN "Root" ELSE IF c THEN "Repeat"
          ELSE IF d THEN "Depth" ELSE IF e THEN "Collapsed" ELSE "Full"
  BY DEF Placement
<1>3. a <=> Child \in OnPathOf(stack)
  BY DEF OnPath, OnPathOf
<1>4. b <=> Pointed(input, graph, Len(stack) - 1, Child)
  BY DEF Pointed, Depth
<1>5. Opened(Path) <=> OpenedOf(input, graph, Path)
  BY DEF Opened, OpenedOf
<1>6. KeptOf(input, graph, Path)
  BY DEF Kept, KeptOf
<1> HIDE DEF a, b, c, d, e, v
<1>7. /\ v \in Placements
      /\ v = "Cycle" <=> a
      /\ v = "Root" => b
      /\ v = "Repeat" => c
      /\ v = "Depth" => d
      /\ v = "Collapsed" => e
      /\ v = "Full" => ~b /\ ~c
  <2>1. FirstSays(v, a, b, c, d, e)
    BY <1>2, FirstReason, Zenon
  <2> QED
    BY <2>1, Zenon DEF FirstSays
<1>8. r \in Row(Nodes)
  BY <1>1, <1>7, ChildFacts DEF Row, NewRow, v
<1>9. Fits(input, graph, stack, expanded, r)
  <2>1. r.placement = "Cycle" <=> r.node \in OnPathOf(stack)
    BY <1>1, <1>3, <1>7
  <2>2. r.placement = "Root" => Pointed(input, graph, Len(stack) - 1, r.node)
    BY <1>1, <1>4, <1>7
  <2>3. r.placement = "Repeat" => input.dedupe /\ r.node \in expanded
    BY <1>1, <1>7 DEF c
  <2>4. r.placement = "Depth" => input.depth # None
    BY <1>1, <1>7 DEF d
  <2>5. r.placement = "Collapsed" => ~OpenedOf(input, graph, r.path)
    BY <1>1, <1>5, <1>7 DEF e
  <2>6. r.placement = "Full" => /\ ~(input.dedupe /\ r.node \in expanded)
                                /\ ~Pointed(input, graph, Len(stack) - 1, r.node)
    BY <1>1, <1>4, <1>7 DEF c
  <2> QED
    BY <2>1, <2>2, <2>3, <2>4, <2>5, <2>6 DEF Fits
<1>10. r.path = Taken(Advanced, Len(stack)) /\ r.node = Advanced[Len(stack)].children[Advanced[Len(stack)].taken]
  BY <1>1, ChildFacts
<1> QED
  BY <1>1, <1>6, <1>8, <1>9, <1>10 DEF Entered

-----------------------------------------------------------------------------

(* Initially nothing is drawn.                                             *)
LEMMA Starts == Init => WalkInv
BY DEF Init, WalkInv

(* Build starts a walk that has passed nothing.                            *)
LEMMA BuildWalks ==
  ASSUME WalkInv, Build PROVE WalkInv'
<1> DEFINE g == GraphOf(input)
           st == <<Frame(0, g.roots)>>
<1>1. /\ pc = "build" /\ pc' = "walk" /\ input' = input /\ input \in Inputs
      /\ graph' = [edges |-> g.edges, roots |-> g.roots, found |-> Found(input, g)]
      /\ stack' = st /\ expanded' = {} /\ drawn' = <<>> /\ truncated' = FALSE
  BY DEF Build, WalkInv
<1>2. WellFormed(g, Nodes) /\ input.visits \in Nat /\ Nodes' = Nodes
  BY <1>1, InputFacts DEF Nodes
<1>3. Built'
  BY <1>1 DEF Built
<1> DEFINE G == graph'
<1>4. G.roots = g.roots /\ G.edges = g.edges /\ g.roots \in Seq(Nodes) /\ Len(g.roots) \in Nat
  BY <1>1, <1>2 DEF WellFormed
<1> HIDE DEF g, G
<1>5. Stacked(G, Nodes, st)
  <2>1. Frame(0, g.roots) \in Frames(Nodes)
    BY <1>4 DEF Frame, Frames
  <2>2. /\ st \in Seq(Frames(Nodes)) /\ Len(st) = 1 /\ st[1] = Frame(0, g.roots)
    BY <2>1
  <2>3. st[1].taken = 0 /\ st[1].children = g.roots
    BY <2>2 DEF Frame
  <2>4. \A i \in 1 .. 1 : i = 1
    OBVIOUS
  <2>5. 2 .. 1 = {}
    OBVIOUS
  <2> HIDE DEF st
  <2> QED
    BY <1>4, <2>2, <2>3, <2>4, <2>5 DEF Stacked
<1>6. st[1].taken = 0 /\ Len(st) = 1
  BY DEF Frame
<1> HIDE DEF st
<1>7. 1 .. Len(<<>>) = {} /\ 1 .. 0 = {} /\ 2 .. 1 = {} /\ <<>> \in Seq(Row(Nodes)) /\ Len(<<>>) = 0
  OBVIOUS
<1>8. Walked(input, G, Nodes, st, {}, <<>>)
  <2>1. Listed(G, Nodes, <<>>)
    BY <1>7 DEF Listed
  <2>2. FramesShown(st, <<>>) /\ AllPassed(st, <<>>)
    BY <1>6, <1>7 DEF FramesShown, AllPassed
  <2>3. Remembered(input, G, {}, <<>>)
    BY <1>7 DEF Remembered
  <2>4. Honest(input, G, <<>>)
    BY <1>7 DEF Honest
  <2> QED
    BY <1>5, <2>1, <2>2, <2>3, <2>4 DEF Walked
<1>9. Covered(input, G, st, <<>>)
  BY <1>6, <1>7 DEF Covered
<1>10. Len(<<>>) <= input.visits
  BY <1>2, <1>7
<1>11. Walking'
  BY <1>1, <1>2, <1>3, <1>8, <1>9, <1>10 DEF Walking, G
<1> QED
  BY <1>1, <1>11 DEF WalkInv

(* A walk as deep as the ceiling is on a chain that long.                  *)
LEMMA DeepIsChain ==
  ASSUME NEW g, NEW N, WellFormed(g, N), NEW st, Stacked(g, N, st), MaxWalkDepth \in Nat,
         Len(st) - 1 >= MaxWalkDepth
  PROVE  ~NoChain(g.edges, MaxWalkDepth)
<1> DEFINE n == MaxWalkDepth
           c == [i \in 1 .. n |-> st[i + 1].node]
<1>1. StackShape(N, st) /\ DOMAIN g.edges = N
  BY StackFacts DEF WellFormed
<1>2. Len(st) \in Nat /\ n \in Nat /\ \A i \in 1 .. n : i + 1 \in 2 .. Len(st)
  BY <1>1 DEF StackShape
<1>3. c \in [1 .. n -> N] /\ \A i \in 1 .. n : c[i] = st[i + 1].node
  BY <1>2 DEF Stacked
<1> HIDE DEF c
<1>4. \A i, j \in 1 .. n : c[i] = c[j] => i = j
  <2> SUFFICES ASSUME NEW i \in 1 .. n, NEW j \in 1 .. n, c[i] = c[j] PROVE i = j
    OBVIOUS
  <2>1. st[i + 1].node = st[j + 1].node /\ i + 1 \in 2 .. Len(st) /\ j + 1 \in 2 .. Len(st)
    BY <1>2, <1>3
  <2>2. i + 1 = j + 1
    BY <2>1 DEF Stacked
  <2> HIDE DEF n
  <2> QED
    BY <1>2, <2>2
<1>5. ASSUME NEW i \in 1 .. n - 1 PROVE c[i + 1] \in Elements(g.edges[c[i]])
  <2>1. i \in 1 .. n /\ i + 1 \in 1 .. n /\ i + 1 \in 1 .. Len(st) /\ i + 1 \in 2 .. Len(st)
        /\ (i + 1) + 1 \in 2 .. Len(st) /\ ((i + 1) + 1) - 1 = i + 1
    BY <1>2
  <2> DEFINE k == i + 1
  <2>2. /\ st[k + 1].node = st[k].children[st[k].taken] /\ st[k].taken >= 1
        /\ st[k].children = g.edges[st[k].node] /\ st[k].taken <= Len(st[k].children)
    BY <2>1 DEF Stacked
  <2>3. st[k].taken \in Nat /\ st[k].children \in Seq(N) /\ Len(st[k].children) \in Nat
    BY <1>1, <2>1 DEF StackShape
  <2>4. st[k].taken \in DOMAIN st[k].children
    BY <2>2, <2>3
  <2>5. c[k] = st[k + 1].node /\ c[i] = st[k].node
    BY <1>3, <2>1
  <2> HIDE DEF k
  <2>6. c[k] \in Elements(g.edges[c[i]])
    BY <2>2, <2>4, <2>5 DEF Elements
  <2> QED
    BY <2>6 DEF k
<1> QED
  BY <1>1, <1>3, <1>4, <1>5 DEF NoChain

(* Stop cuts a walk short at its budget only, but for a chain as long as   *)
(* the recursion ceiling.                                                  *)
LEMMA StopWalks ==
  ASSUME input \in Inputs, Walking, Stop PROVE Walking'
<1>1. /\ AtChild /\ truncated' = TRUE /\ stack' = Advanced /\ Exhausted
      /\ UNCHANGED <<pc, input, graph, expanded, drawn>>
  BY DEF Stop
<1>2. Walked(input, graph, Nodes, Advanced, expanded, drawn)
  BY <1>1, ChildFacts, SkipWalks DEF Walking
<1>3. NoChain(graph.edges, MaxWalkDepth) => Len(drawn) = input.visits
  BY <1>1, ChildFacts, DeepIsChain, GraphAssumption DEF Exhausted, Depth, Walking, Walked
<1> QED
  BY <1>1, <1>2, <1>3 DEF Walking, Built, Nodes

(* Skip keeps the walk.                                                    *)
LEMMA SkipStays ==
  ASSUME input \in Inputs, Walking, Skip PROVE Walking'
<1>1. /\ AtChild /\ ~Kept(Path) /\ stack' = Advanced
      /\ UNCHANGED <<pc, input, graph, expanded, drawn, truncated>>
  BY DEF Skip
<1>2. Walked(input, graph, Nodes, Advanced, expanded, drawn)
  BY <1>1, ChildFacts, SkipWalks DEF Walking
<1>3. ~KeptOf(input, graph, Taken(Advanced, Len(stack)))
  BY <1>1, ChildFacts DEF Kept, KeptOf
<1>4. Covered(input, graph, stack, drawn) => Covered(input, graph, Advanced, drawn)
  BY <1>1, <1>3, ChildFacts, SkipCovers DEF Walking
<1> QED
  BY <1>1, <1>2, <1>4 DEF Walking, Built, Nodes

(* Enter keeps the walk.                                                   *)
LEMMA EnterStays ==
  ASSUME input \in Inputs, Walking, Enter PROVE Walking'
<1> DEFINE r == NewRow
           full == r.placement = "Full"
           ex == IF full THEN MarkedOf(input, graph, Len(stack) - 1, expanded, r.node) ELSE expanded
           st == IF full /\ graph.edges[r.node] # <<>>
                 THEN Append(Advanced, Frame(r.node, graph.edges[r.node])) ELSE Advanced
           d == Append(drawn, r)
<1>1. r.node = Child /\ r.path = Path /\ r.placement = Placement(Child, Path)
  BY DEF NewRow
<1>2. AtChild /\ ~Exhausted /\ Kept(Path) /\ UNCHANGED <<pc, input, graph, truncated>>
  BY DEF Enter
<1>3. drawn' = d
  BY DEF Enter, NewRow
<1>4. expanded' = ex
  <2>1. Marked(Child) = MarkedOf(input, graph, Len(stack) - 1, expanded, Child)
    BY DEF Marked, MarkedOf, Depth
  <2> QED
    BY <1>1, <2>1 DEF Enter
<1>5. stack' = st
  BY <1>1 DEF Enter
<1>6. Entered(input, graph, Nodes, stack, expanded, drawn, Advanced, r)
  BY <1>2, NewRowFits
<1>7. /\ Walked(input, graph, Nodes, st, ex, d)
      /\ Covered(input, graph, stack, drawn) => Covered(input, graph, st, d)
  <2>1. OptionsFit(input) /\ Walked(input, graph, Nodes, stack, expanded, drawn)
    BY InputFacts DEF Walking
  <2>2. /\ WellFormed(graph, Nodes) /\ Advanced \in Seq(Frames(Nodes)) /\ IsAdvance(stack, Advanced)
        /\ stack[Len(stack)].taken < Len(stack[Len(stack)].children)
    BY <1>2, ChildFacts
  <2> HIDE DEF r
  <2> QED
    BY <1>6, <2>1, <2>2, EnterWalks
<1>8. Len(d) <= input.visits /\ (truncated => Len(drawn) # input.visits)
  <2>1. drawn \in Seq(Row(Nodes)) /\ r \in Row(Nodes)
    BY <1>6 DEF Walking, Walked, Listed, Entered
  <2>2. Len(d) = Len(drawn) + 1 /\ Len(drawn) \in Nat
    BY <2>1, AppendRow
  <2>3. Len(drawn) # input.visits /\ Len(drawn) <= input.visits /\ input.visits \in Nat
    BY <1>2, InputFacts DEF Exhausted, Walking
  <2> HIDE DEF d
  <2> QED
    BY <2>2, <2>3
<1>9. Nodes' = Nodes /\ Built'
  BY <1>2 DEF Nodes, Walking, Built
<1> HIDE DEF d, st, ex
<1> QED
  BY <1>2, <1>3, <1>4, <1>5, <1>7, <1>8, <1>9 DEF Walking

(* Leave keeps the walk.                                                   *)
LEMMA LeaveStays ==
  ASSUME input \in Inputs, Walking, Leave PROVE Walking'
<1> DEFINE t == SubSeq(stack, 1, Len(stack) - 1)
<1>1. /\ stack[Len(stack)].taken = Len(stack[Len(stack)].children) /\ Len(stack) > 1 /\ stack' = t
      /\ UNCHANGED <<pc, input, graph, expanded, drawn, truncated>>
  BY DEF Leave, Top
<1>2. WellFormed(graph, Nodes) /\ Walked(input, graph, Nodes, stack, expanded, drawn)
  BY BuiltWell DEF Walking
<1>3. /\ Walked(input, graph, Nodes, t, expanded, drawn)
      /\ Covered(input, graph, stack, drawn) => Covered(input, graph, t, drawn)
  BY <1>1, <1>2, LeaveWalks, LeaveCovers
<1> HIDE DEF t
<1> QED
  BY <1>1, <1>3 DEF Walking, Built, Nodes

(* WalkInv is inductive: one step per action.                              *)
LEMMA Stays ==
  ASSUME WalkInv, [Next]_graphVars PROVE WalkInv'
<1> USE DEF WalkInv
<1>1. CASE Build
  BY <1>1, BuildWalks
<1>2. CASE Stop
  <2>1. pc # "build" /\ pc' = pc /\ pc # "done" /\ input' = input
    BY <1>2 DEF Stop, AtChild
  <2> QED
    BY <1>2, <2>1, StopWalks
<1>3. CASE Skip
  <2>1. pc # "build" /\ pc' = pc /\ pc # "done" /\ input' = input
    BY <1>3 DEF Skip, AtChild
  <2> QED
    BY <1>3, <2>1, SkipStays
<1>4. CASE Enter
  <2>1. pc # "build" /\ pc' = pc /\ pc # "done" /\ input' = input
    BY <1>4 DEF Enter, AtChild
  <2> QED
    BY <1>4, <2>1, EnterStays
<1>5. CASE Leave
  <2>1. pc # "build" /\ pc' = pc /\ pc # "done" /\ input' = input
    BY <1>5 DEF Leave
  <2> QED
    BY <1>5, <2>1, LeaveStays
<1>6. CASE Finish
  <2>1. pc # "build" /\ pc' = "done" /\ UNCHANGED <<input, graph, stack, expanded, drawn, truncated>>
    BY <1>6 DEF Finish
  <2>2. Len(stack) = 1 /\ stack[1].taken = Len(stack[1].children)
    BY <1>6 DEF Finish, Top
  <2>3. Walking'
    BY <2>1 DEF Walking, Built, Nodes
  <2> QED
    BY <2>1, <2>2, <2>3
<1>7. CASE Done \/ UNCHANGED graphVars
  <2>1. UNCHANGED graphVars
    BY <1>7 DEF Done
  <2>2. Walking => Walking'
    BY <2>1 DEF graphVars, Walking, Built, Nodes
  <2> QED
    BY <2>1, <2>2 DEF graphVars
<1> QED
  BY <1>1, <1>2, <1>3, <1>4, <1>5, <1>6, <1>7 DEF Next, Walk

(* WalkInvariant -- for any lockfiles and options, every row the walk      *)
(* (Walker::visit) has drawn is a path through the graph with its true     *)
(* placement, and every path it has passed has its row or is left out by   *)
(* the filter.                                                             *)
THEOREM WalkInvariant == Spec => []WalkInv
BY Starts, Stays, PTL DEF Spec

(* WalkIsBounded -- when no chain of dependencies is as long as the        *)
(* recursion ceiling (MAX_WALK_DEPTH), collapsing repeats keeps the walk   *)
(* to a row per root and per edge, and only its budget ever cuts it.       *)
THEOREM WalkIsBounded ==
  ASSUME \A in \in Inputs : NoChain(GraphOf(in).edges, MaxWalkDepth)
  PROVE  Spec => []BoundedByEdges
<1>1. ASSUME WalkInv PROVE BoundedByEdges
  <2>1. ASSUME pc \in {"walk", "done"}, input.dedupe
        PROVE  Len(drawn) <= Len(graph.roots) + Cardinality(Linked(graph, Nodes))
    <3>1. pc # "build" /\ Walking /\ input \in Inputs
      BY <1>1, <2>1 DEF WalkInv
    <3>2. WellFormed(graph, Nodes) /\ IsFiniteSet(Nodes)
      BY <3>1, BuiltWell, InputFacts, IntervalSize DEF Walking
    <3> QED
      BY <2>1, <3>1, <3>2, RowsAreFew DEF Walking, Walked
  <2>2. ASSUME truncated PROVE Len(drawn) = input.visits
    <3>1. Walking /\ input \in Inputs
      BY <1>1, <2>2 DEF WalkInv
    <3>2. NoChain(graph.edges, MaxWalkDepth)
      BY <3>1 DEF Walking, Built
    <3> QED
      BY <2>2, <3>1, <3>2 DEF Walking
  <2> QED
    BY <2>1, <2>2 DEF BoundedByEdges, Linked
<1> QED
  BY <1>1, WalkInvariant, PTL

-----------------------------------------------------------------------------
(***************************************************************************)
(* 4. The search, the markers and the filter.                              *)
(***************************************************************************)
(* ns are the nodes along the path p.                                      *)
Trail(g, p, ns) ==
  /\ Len(ns) = Len(p)
  /\ ns[1] = g.roots[p[1]]
  /\ \A i \in 1 .. Len(p) - 1 : ns[i + 1] = g.edges[ns[i]][p[i + 1]]

(* The prefixes of a sequence, from the empty one to itself.               *)
LEMMA PrefixGrows ==
  ASSUME NEW S, NEW s \in Seq(S)
  PROVE  /\ SubSeq(s, 1, 0) = <<>>
         /\ Len(s) >= 1 => SubSeq(s, 1, 1) = <<s[1]>>
         /\ \A i \in 1 .. Len(s) : SubSeq(s, 1, i) = Append(SubSeq(s, 1, i - 1), s[i])
         /\ SubSeq(s, 1, Len(s)) = s
<1>1. Len(s) \in Nat
  OBVIOUS
<1>2. SubSeq(s, 1, 0) = <<>>
  BY SubSeqEmpty
<1>3. SubSeq(s, 1, Len(s)) = s
  BY SubSeqFull
<1>4. ASSUME NEW i \in 1 .. Len(s) PROVE SubSeq(s, 1, i) = Append(SubSeq(s, 1, i - 1), s[i])
  <2> DEFINE a == SubSeq(s, 1, i - 1)
             b == SubSeq(s, 1, i)
             c == Append(a, s[i])
  <2>1. i \in 0 .. Len(s) /\ i - 1 \in 0 .. Len(s) /\ s[i] \in S
    BY <1>1
  <2>2. /\ a \in Seq(S) /\ Len(a) = i - 1 /\ \A m \in 1 .. i - 1 : a[m] = s[m]
        /\ b \in Seq(S) /\ Len(b) = i /\ \A m \in 1 .. i : b[m] = s[m]
    BY <2>1, PrefixFacts
  <2> HIDE DEF a, b
  <2>3. c \in Seq(S) /\ Len(c) = i /\ \A m \in 1 .. i : c[m] = IF m = i THEN s[i] ELSE a[m]
    BY <2>1, <2>2
  <2> HIDE DEF c
  <2>4. \A m \in 1 .. i : b[m] = c[m]
    <3> TAKE m \in 1 .. i
    <3>1. m = i \/ m \in 1 .. i - 1
      BY <1>1
    <3> QED
      BY <2>2, <2>3, <3>1
  <2>5. b = c
    BY <2>2, <2>3, <2>4, SeqEqual
  <2> QED
    BY <2>5 DEF a, b, c
<1>5. ASSUME Len(s) >= 1 PROVE SubSeq(s, 1, 1) = <<s[1]>>
  <2>1. 1 \in 1 .. Len(s) /\ 1 - 1 = 0
    BY <1>1, <1>5
  <2>2. SubSeq(s, 1, 1) = Append(<<>>, s[1])
    BY <1>2, <1>4, <2>1
  <2> QED
    BY <2>2
<1> QED
  BY <1>2, <1>3, <1>4, <1>5

(* What NodesOn computes.                                                  *)
LEMMA NodesOnTrail ==
  ASSUME NEW g, NEW N, NEW p, Len(p) \in Nat, Len(p) >= 1, NEW ns \in Seq(N), Trail(g, p, ns)
  PROVE  NodesOn(g, p) = ns
<1> DEFINE n == Len(p)
           Step(f, i) == IF i = 0 THEN <<>>
                         ELSE IF i = 1 THEN <<g.roots[p[1]]>>
                         ELSE Append(f[i - 1], g.edges[f[i - 1][i - 1]][p[i]])
           Is(f) == f = [i \in 0 .. n |-> Step(f, i)]
           h == [i \in 0 .. n |-> SubSeq(ns, 1, i)]
<1>1. n \in Nat /\ n >= 1 /\ Len(ns) = n
  BY DEF Trail
<1> HIDE DEF n
<1>2. /\ SubSeq(ns, 1, 0) = <<>> /\ SubSeq(ns, 1, 1) = <<ns[1]>> /\ SubSeq(ns, 1, n) = ns
      /\ \A i \in 1 .. n : SubSeq(ns, 1, i) = Append(SubSeq(ns, 1, i - 1), ns[i])
  BY <1>1, PrefixGrows
<1>3. ASSUME NEW f, NEW i \in 1 .. n, f[i - 1] = SubSeq(ns, 1, i - 1) PROVE Step(f, i) = SubSeq(ns, 1, i)
  <2>1. CASE i = 1
    BY <1>2, <2>1 DEF Trail
  <2>2. CASE i # 1
    <3>1. i - 1 \in 1 .. n - 1 /\ (i - 1) + 1 = i /\ i - 1 \in 0 .. n /\ i # 0 /\ i - 1 \in 1 .. i - 1
      BY <1>1, <2>2
    <3>2. ns[i] = g.edges[ns[i - 1]][p[i]]
      BY <3>1 DEF Trail, n
    <3>3. f[i - 1][i - 1] = ns[i - 1]
      BY <1>1, <1>3, <3>1, PrefixFacts
    <3>4. Step(f, i) = Append(f[i - 1], g.edges[f[i - 1][i - 1]][p[i]])
      BY <2>2, <3>1
    <3> QED
      BY <1>2, <1>3, <3>2, <3>3, <3>4
  <2> QED
    BY <2>1, <2>2
<1>4. Is(h)
  <2>1. ASSUME NEW i \in 0 .. n PROVE h[i] = Step(h, i)
    <3>1. CASE i = 0
      BY <1>2, <3>1
    <3>2. CASE i # 0
      <4>1. i \in 1 .. n /\ i - 1 \in 0 .. n
        BY <1>1, <3>2
      <4>2. h[i - 1] = SubSeq(ns, 1, i - 1) /\ h[i] = SubSeq(ns, 1, i)
        BY <4>1
      <4> HIDE DEF h, Step
      <4> QED
        BY <1>3, <4>1, <4>2
    <3> QED
      BY <3>1, <3>2
  <2> HIDE DEF Step
  <2> QED
    BY <2>1
<1> DEFINE f == CHOOSE f : Is(f)
<1>5. Is(f)
  BY <1>4
<1>6. NodesOn(g, p) = f[n]
  BY DEF NodesOn, n
<1> HIDE DEF f
<1>7. \A i \in 0 .. n : f[i] = Step(f, i)
  <2> HIDE DEF Step
  <2> QED
    BY <1>5
<1> DEFINE T == {k \in Nat : k <= n => f[k] = SubSeq(ns, 1, k)}
<1>8. 0 \in T
  <2>1. f[0] = <<>>
    BY <1>1, <1>7
  <2> QED
    BY <1>2, <2>1
<1>9. ASSUME NEW k \in Nat, k \in T PROVE k + 1 \in T
  <2> SUFFICES ASSUME k + 1 <= n PROVE f[k + 1] = SubSeq(ns, 1, k + 1)
    OBVIOUS
  <2>1. k + 1 \in 1 .. n /\ (k + 1) - 1 = k /\ k <= n /\ k + 1 \in 0 .. n
    BY <1>1
  <2>2. f[k] = SubSeq(ns, 1, k)
    BY <1>9, <2>1
  <2> HIDE DEF Step
  <2> QED
    BY <1>3, <1>7, <2>1, <2>2
<1> HIDE DEF T
<1>10. Nat \subseteq T
  BY <1>8, <1>9, SetInduction
<1>11. f[n] = SubSeq(ns, 1, n)
  BY <1>1, <1>10 DEF T
<1> QED
  BY <1>2, <1>6, <1>11

(* A trail up to any of its nodes.                                         *)
CutsAt(g, N, p, ns, n, q, ms) ==
  /\ p \in Seq(Nat) /\ ns \in Seq(N) /\ Trail(g, p, ns) /\ n \in 1 .. Len(p)
  /\ q = SubSeq(p, 1, n) /\ ms = SubSeq(ns, 1, n)

(* The trail of a prefix is the prefix of the trail.                       *)
LEMMA TrailUpTo ==
  ASSUME NEW g, NEW N, NEW p, NEW ns, NEW n, NEW q, NEW ms, CutsAt(g, N, p, ns, n, q, ms)
  PROVE  /\ Trail(g, q, ms) /\ q \in Seq(Nat) /\ ms \in Seq(N) /\ Len(q) = n /\ Len(ms) = n
         /\ \A i \in 1 .. n : q[i] = p[i] /\ ms[i] = ns[i]
<1>0. p \in Seq(Nat) /\ ns \in Seq(N) /\ Trail(g, p, ns) /\ n \in 1 .. Len(p)
      /\ q = SubSeq(p, 1, n) /\ ms = SubSeq(ns, 1, n)
  BY DEF CutsAt
<1>1. Len(p) \in Nat /\ Len(ns) = Len(p) /\ n \in 0 .. Len(p) /\ n \in Nat
  BY <1>0 DEF Trail
<1>2. /\ q \in Seq(Nat) /\ Len(q) = n /\ \A i \in 1 .. n : q[i] = p[i]
      /\ ms \in Seq(N) /\ Len(ms) = n /\ \A i \in 1 .. n : ms[i] = ns[i]
  <2>1. p \in Seq(Nat) /\ ns \in Seq(N) /\ n \in 0 .. Len(p) /\ n \in 0 .. Len(ns)
    BY <1>0, <1>1
  <2>2. /\ SubSeq(p, 1, n) \in Seq(Nat) /\ Len(SubSeq(p, 1, n)) = n
        /\ \A i \in 1 .. n : SubSeq(p, 1, n)[i] = p[i]
    BY <2>1, PrefixFacts
  <2>3. /\ SubSeq(ns, 1, n) \in Seq(N) /\ Len(SubSeq(ns, 1, n)) = n
        /\ \A i \in 1 .. n : SubSeq(ns, 1, n)[i] = ns[i]
    BY <2>1, PrefixFacts
  <2>4. q = SubSeq(p, 1, n) /\ ms = SubSeq(ns, 1, n)
    BY <1>0
  <2> QED
    BY <2>2, <2>3, <2>4, Zenon
<1>3. Trail(g, q, ms)
  <2>1. 1 \in 1 .. n /\ \A i \in 1 .. n - 1 : i \in 1 .. n /\ i + 1 \in 1 .. n /\ i \in 1 .. Len(p) - 1
    BY <1>0, <1>1
  <2> QED
    BY <1>0, <1>1, <1>2, <2>1 DEF Trail
<1> QED
  BY <1>2, <1>3

(* A trail and one node more.                                              *)
GoesOn(g, N, p, ns, s, e, q, ms) ==
  /\ p \in Seq(Nat) /\ Len(p) >= 1 /\ ns \in Seq(N) /\ Trail(g, p, ns)
  /\ s \in Nat /\ e \in N /\ e = g.edges[ns[Len(p)]][s]
  /\ q = Append(p, s) /\ ms = Append(ns, e)

(* The trail of a path one slot longer.                                    *)
LEMMA TrailOn ==
  ASSUME NEW g, NEW N, NEW p, NEW ns, NEW s, NEW e, NEW q, NEW ms, GoesOn(g, N, p, ns, s, e, q, ms)
  PROVE  /\ Trail(g, q, ms) /\ q \in Seq(Nat) /\ ms \in Seq(N)
         /\ Len(q) = Len(p) + 1 /\ Len(ms) = Len(p) + 1
         /\ \A i \in 1 .. Len(p) : q[i] = p[i] /\ ms[i] = ns[i]
         /\ q[Len(p) + 1] = s /\ ms[Len(p) + 1] = e
<1> DEFINE L == Len(p)
<1>0. /\ p \in Seq(Nat) /\ L >= 1 /\ ns \in Seq(N) /\ Trail(g, p, ns)
      /\ s \in Nat /\ e \in N /\ e = g.edges[ns[L]][s]
      /\ q = Append(p, s) /\ ms = Append(ns, e)
  BY DEF GoesOn
<1>1. L \in Nat /\ Len(ns) = L
  BY <1>0 DEF Trail
<1>2. /\ q \in Seq(Nat) /\ Len(q) = L + 1 /\ q[L + 1] = s /\ \A i \in 1 .. L : q[i] = p[i]
      /\ ms \in Seq(N) /\ Len(ms) = L + 1 /\ ms[L + 1] = e /\ \A i \in 1 .. L : ms[i] = ns[i]
  BY <1>0, <1>1
<1>3. Trail(g, q, ms)
  <2>1. ms[1] = g.roots[q[1]]
    <3>1. 1 \in 1 .. L
      BY <1>0, <1>1
    <3> QED
      BY <1>0, <1>2, <3>1 DEF Trail
  <2>2. ASSUME NEW i \in 1 .. (L + 1) - 1 PROVE ms[i + 1] = g.edges[ms[i]][q[i + 1]]
    <3>1. CASE i = L
      <4>1. ms[i] = ns[L]
        BY <1>0, <1>1, <1>2, <3>1
      <4> QED
        BY <1>0, <1>1, <1>2, <3>1, <4>1
    <3>2. CASE i # L
      <4>1. i \in 1 .. L - 1 /\ i + 1 \in 1 .. L /\ i \in 1 .. L
        BY <1>1, <3>2
      <4>2. ms[i] = ns[i] /\ ms[i + 1] = ns[i + 1] /\ q[i + 1] = p[i + 1]
        BY <1>2, <4>1
      <4> QED
        BY <1>0, <4>1, <4>2 DEF Trail
    <3> QED
      BY <3>1, <3>2
  <2> QED
    BY <1>0, <1>2, <2>1, <2>2 DEF Trail
<1> QED
  BY <1>2, <1>3

(* The nodes of the path of a row.                                         *)
LEMMA RowTrail ==
  ASSUME NEW g, NEW N, WellFormed(g, N), NEW dr, Listed(g, N, dr), NEW k \in 1 .. Len(dr)
  PROVE  \E ns \in Seq(N) : Trail(g, dr[k].path, ns) /\ ns[Len(dr[k].path)] = dr[k].node
<1> DEFINE Has(l) == \E ns \in Seq(N) : Trail(g, dr[l].path, ns) /\ ns[Len(dr[l].path)] = dr[l].node
           T == {n \in Nat : \A l \in 1 .. Len(dr) : l <= n => Has(l)}
<1>0. Len(dr) \in Nat /\ \A l \in 1 .. Len(dr) : dr[l].path \in Seq(Nat) /\ dr[l].node \in N
  <2>1. \A l \in 1 .. Len(dr) : dr[l] \in Row(N)
    BY DEF Listed
  <2> QED
    BY <2>1, RowFields DEF Listed
<1>1. 0 \in T
  OBVIOUS
<1>2. ASSUME NEW n \in Nat, n \in T PROVE n + 1 \in T
  <2> SUFFICES ASSUME n + 1 \in 1 .. Len(dr) PROVE Has(n + 1)
    <3> HIDE DEF Has
    <3>1. \A l \in 1 .. Len(dr) : l <= n + 1 => l <= n \/ l = n + 1
      BY <1>0
    <3> QED
      BY <1>2, <3>1
  <2> DEFINE r == dr[n + 1]
             p == r.path
             L == Len(p)
  <2>1. p \in Seq(Nat) /\ r.node \in N /\ L \in Nat /\ L >= 1
    BY <1>0 DEF Listed
  <2>2. CASE L = 1
    <3>1. p[1] \in 1 .. Len(g.roots) /\ r.node = g.roots[p[1]]
      BY <2>2 DEF Listed
    <3> DEFINE ns == <<r.node>>
    <3>2. ns \in Seq(N) /\ Len(ns) = 1 /\ ns[1] = r.node
      BY <2>1
    <3>3. 1 .. L - 1 = {}
      BY <2>2
    <3>4. Trail(g, p, ns)
      BY <2>2, <3>1, <3>2, <3>3 DEF Trail
    <3> QED
      BY <2>2, <3>2, <3>4
  <2>3. CASE L > 1
    <3>1. PICK a \in 1 .. n : Hangs(g, dr, a, n + 1)
      <4>1. (n + 1) - 1 = n
        OBVIOUS
      <4> QED
        BY <2>3, <4>1 DEF Listed
    <3>2. a \in 1 .. Len(dr) /\ a <= n
      BY <1>0
    <3> DEFINE q == dr[a].path
    <3>3. PICK ns \in Seq(N) : Trail(g, q, ns) /\ ns[Len(q)] = dr[a].node
      BY <1>2, <3>2
    <3>4. /\ q = Parent(p) /\ p[L] \in 1 .. Len(g.edges[dr[a].node])
          /\ r.node = g.edges[dr[a].node][p[L]]
      BY <3>1 DEF Hangs
    <3>5. q \in Seq(Nat) /\ Len(q) = L - 1 /\ Append(q, p[L]) = p /\ p[L] \in Nat
      <4>1. L \in 1 .. L /\ L - 1 \in 0 .. L
        BY <2>1
      <4>2. SubSeq(p, 1, L) = Append(SubSeq(p, 1, L - 1), p[L]) /\ SubSeq(p, 1, L) = p
        BY <2>1, <4>1, PrefixGrows
      <4>3. SubSeq(p, 1, L - 1) \in Seq(Nat) /\ Len(SubSeq(p, 1, L - 1)) = L - 1
        BY <2>1, <4>1, PrefixFacts
      <4>4. q = SubSeq(p, 1, L - 1)
        BY <3>4 DEF Parent
      <4>5. p[L] \in Nat
        BY <2>1, <4>1
      <4> QED
        BY <4>2, <4>3, <4>4, <4>5
    <3>6. Len(q) >= 1 /\ g.edges[ns[Len(q)]][p[L]] = r.node
      BY <2>1, <2>3, <3>3, <3>4, <3>5
    <3> DEFINE ms == Append(ns, g.edges[ns[Len(q)]][p[L]])
    <3> HIDE DEF r, q, p, L
    <3> HIDE DEF ms
    <3>7. Trail(g, p, ms) /\ ms \in Seq(N) /\ ms[Len(q) + 1] = r.node
      <4>1. /\ q \in Seq(Nat) /\ Len(q) >= 1 /\ Trail(g, q, ns) /\ p[L] \in Nat
            /\ r.node \in N /\ r.node = g.edges[ns[Len(q)]][p[L]]
            /\ p = Append(q, p[L]) /\ ms = Append(ns, r.node)
        BY <2>1, <3>3, <3>5, <3>6 DEF ms
      <4> QED
        <5>1. GoesOn(g, N, q, ns, p[L], r.node, p, ms)
          BY <3>3, <4>1 DEF GoesOn
        <5> QED
          BY <5>1, TrailOn
    <3>8. Len(q) + 1 = L
      BY <2>1, <3>5
    <3>9. Trail(g, p, ms) /\ ms[L] = r.node
      BY <3>7, <3>8
    <3> QED
      BY <3>7, <3>9 DEF r, p, L
  <2>4. L = 1 \/ L > 1
    <3> HIDE DEF L
    <3> QED
      BY <2>1
  <2> QED
    BY <2>2, <2>3, <2>4
<1> HIDE DEF Has
<1>3. Nat \subseteq T
  <2> HIDE DEF T
  <2> QED
    BY <1>1, <1>2, SetInduction
<1>4. k \in Nat /\ k <= k
  BY <1>0
<1>5. Has(k)
  BY <1>3, <1>4
<1> QED
  BY <1>5 DEF Has

(* The search goes on below the i-th node of a trail.                      *)
Goes(g, ns, i) ==
  /\ \A j \in 1 .. i - 1 : ns[j] # ns[i]
  /\ i > 1 => RootSlots(g, ns[i]) = {}

Follows(g, p, ns) ==
  /\ Trail(g, p, ns)
  /\ \A i \in 1 .. Len(p) - 1 : Goes(g, ns, i) /\ p[i + 1] \in DOMAIN g.edges[ns[i]]

SearchPath(g, N, p) ==
  /\ p \in Seq(Nat) /\ Len(p) >= 1 /\ p[1] \in DOMAIN g.roots
  /\ \E ns \in Seq(N) : Follows(g, p, ns)

(* What Below opens, by the trail of its path.                             *)
LEMMA BelowIs ==
  ASSUME NEW g, NEW N, NEW p \in Seq(Nat), Len(p) >= 1, NEW ns \in Seq(N), Trail(g, p, ns)
  PROVE  Below(g, p) = IF Goes(g, ns, Len(p)) THEN g.edges[ns[Len(p)]] ELSE <<>>
<1>1. NodesOn(g, p) = ns /\ Len(p) \in Nat
  BY NodesOnTrail
<1> QED
  BY <1>1 DEF Below, Goes

(* What is searched goes on by a slot where the search goes on.            *)
LEMMA FollowsOn ==
  ASSUME NEW g, NEW N, NEW p, NEW ns, NEW s, NEW e, NEW q, NEW ms, GoesOn(g, N, p, ns, s, e, q, ms),
         Follows(g, p, ns), Goes(g, ns, Len(p)), s \in DOMAIN g.edges[ns[Len(p)]]
  PROVE  Follows(g, q, ms)
<1> DEFINE n == Len(p)
<1>1. /\ Trail(g, q, ms) /\ Len(q) = n + 1 /\ q[n + 1] = s
      /\ \A i \in 1 .. n : q[i] = p[i] /\ ms[i] = ns[i]
  BY TrailOn
<1>2. n \in Nat /\ n >= 1
  <2>1. p \in Seq(Nat) /\ n >= 1
    BY DEF GoesOn
  <2> QED
    BY <2>1
<1> HIDE DEF n
<1>3. ASSUME NEW i \in 1 .. (n + 1) - 1 PROVE Goes(g, ms, i) /\ q[i + 1] \in DOMAIN g.edges[ms[i]]
  <2>1. i \in 1 .. n /\ (\A j \in 1 .. i - 1 : j \in 1 .. n) /\ (i = n \/ (i \in 1 .. n - 1 /\ i + 1 \in 1 .. n))
    BY <1>2
  <2>2. ms[i] = ns[i] /\ \A j \in 1 .. i - 1 : ms[j] = ns[j]
    BY <1>1, <2>1
  <2>3. Goes(g, ns, i) /\ q[i + 1] \in DOMAIN g.edges[ns[i]]
    BY <1>1, <2>1 DEF Follows, n
  <2> QED
    BY <2>2, <2>3 DEF Goes
<1> QED
  BY <1>1, <1>3 DEF Follows

(* And what is cut off before its end went on there.                       *)
LEMMA FollowsUpTo ==
  ASSUME NEW g, NEW N, NEW p, NEW ns, NEW n, NEW q, NEW ms, CutsAt(g, N, p, ns, n, q, ms), Follows(g, p, ns)
  PROVE  Follows(g, q, ms) /\ (n # Len(p) => Goes(g, ms, n) /\ p[n + 1] \in DOMAIN g.edges[ms[n]])
<1>1. /\ Trail(g, q, ms) /\ Len(q) = n /\ \A i \in 1 .. n : q[i] = p[i] /\ ms[i] = ns[i]
  BY TrailUpTo
<1>2. p \in Seq(Nat) /\ n \in 1 .. Len(p) /\ Len(p) \in Nat
  <2>1. p \in Seq(Nat) /\ n \in 1 .. Len(p)
    BY DEF CutsAt
  <2> QED
    BY <2>1
<1>3. ASSUME NEW i \in 1 .. n, i # Len(p) PROVE Goes(g, ms, i) /\ p[i + 1] \in DOMAIN g.edges[ms[i]]
  <2>1. i \in 1 .. Len(p) - 1 /\ \A j \in 1 .. i - 1 : j \in 1 .. n
    BY <1>2, <1>3
  <2>2. ms[i] = ns[i] /\ \A j \in 1 .. i - 1 : ms[j] = ns[j]
    BY <1>1, <2>1
  <2>3. Goes(g, ns, i) /\ p[i + 1] \in DOMAIN g.edges[ns[i]]
    BY <2>1 DEF Follows
  <2> QED
    BY <2>2, <2>3 DEF Goes
<1>4. ASSUME NEW i \in 1 .. n - 1 PROVE Goes(g, ms, i) /\ q[i + 1] \in DOMAIN g.edges[ms[i]]
  <2>1. i \in 1 .. n /\ i # Len(p) /\ i + 1 \in 1 .. n
    BY <1>2
  <2> QED
    BY <1>1, <1>3, <2>1
<1>5. n \in 1 .. n
  BY <1>2
<1> QED
  BY <1>1, <1>3, <1>4, <1>5 DEF Follows

(* One level of the search on: below the paths of n slots, those of n + 1. *)
Levels(g, N, n, S, T) ==
  /\ WellFormed(g, N) /\ n \in Nat /\ n >= 1
  /\ \A p : p \in S <=> p \in Seq(Nat) /\ Len(p) = n /\ SearchPath(g, N, p)
  /\ \A p : p \in T <=> p \in Seq(Nat) /\ Len(p) = n + 1 /\ SearchPath(g, N, p)

(* One level of the search: from the paths of length n to those one        *)
(* longer.                                                                 *)
LEMMA SearchStep ==
  ASSUME NEW g, NEW N, NEW n, NEW S, NEW T, Levels(g, N, n, S, T)
  PROVE  UNION {{Append(p, s) : s \in DOMAIN Below(g, p)} : p \in S} = T
<1> USE DEF Levels
<1>0. \A m \in N : g.edges[m] \in Seq(N) /\ DOMAIN g.edges[m] \subseteq Nat
  <2> TAKE m \in N
  <2>1. g.edges[m] \in Seq(N)
    BY DEF WellFormed
  <2> QED
    BY <2>1
<1>1. ASSUME NEW p \in S, NEW s \in DOMAIN Below(g, p) PROVE Append(p, s) \in T
  <2>1. p \in Seq(Nat) /\ Len(p) = n /\ p[1] \in DOMAIN g.roots
    BY DEF SearchPath
  <2>2. PICK ns \in Seq(N) : Follows(g, p, ns)
    BY DEF SearchPath
  <2>3. Trail(g, p, ns) /\ Len(ns) = n
    BY <2>1, <2>2 DEF Follows, Trail
  <2>4. Below(g, p) = IF Goes(g, ns, n) THEN g.edges[ns[n]] ELSE <<>>
    BY <2>1, <2>3, BelowIs
  <2>5. Goes(g, ns, n) /\ s \in DOMAIN g.edges[ns[n]]
    <3>1. DOMAIN <<>> = {}
      OBVIOUS
    <3> QED
      BY <2>4, <3>1
  <2>6. ns[n] \in N /\ s \in Nat /\ g.edges[ns[n]][s] \in N
    <3>1. ns[n] \in N
      BY <2>3
    <3>2. g.edges[ns[n]] \in Seq(N) /\ s \in Nat
      BY <1>0, <2>5, <3>1
    <3> QED
      BY <2>5, <3>1, <3>2
  <2> DEFINE q == Append(p, s)
             ms == Append(ns, g.edges[ns[n]][s])
  <2>7. /\ Trail(g, q, ms) /\ q \in Seq(Nat) /\ ms \in Seq(N)
        /\ Len(q) = n + 1 /\ \A i \in 1 .. n : q[i] = p[i] /\ ms[i] = ns[i]
        /\ q[n + 1] = s
    <3>1. /\ Len(p) >= 1 /\ s \in Nat /\ Trail(g, p, ns) /\ g.edges[ns[n]][s] \in N
          /\ g.edges[ns[n]][s] = g.edges[ns[Len(p)]][s]
      BY <2>1, <2>3, <2>6
    <3> HIDE DEF q, ms
    <3>2. q = Append(p, s) /\ ms = Append(ns, g.edges[ns[n]][s])
      BY DEF q, ms
    <3>3. /\ Trail(g, q, ms) /\ q \in Seq(Nat) /\ ms \in Seq(N)
          /\ Len(q) = Len(p) + 1 /\ (\A i \in 1 .. Len(p) : q[i] = p[i] /\ ms[i] = ns[i])
          /\ q[Len(p) + 1] = s
      <4>1. GoesOn(g, N, p, ns, s, g.edges[ns[n]][s], q, ms)
        BY <2>1, <2>2, <3>1, <3>2 DEF GoesOn
      <4> QED
        BY <4>1, TrailOn
    <3> QED
      BY <2>1, <3>3
  <2> HIDE DEF q, ms
  <2>9. Follows(g, q, ms)
    <3>1. GoesOn(g, N, p, ns, s, g.edges[ns[n]][s], q, ms)
      <4>1. n >= 1 /\ q = Append(p, s) /\ ms = Append(ns, g.edges[ns[n]][s])
        BY DEF q, ms
      <4> QED
        BY <2>1, <2>2, <2>3, <2>6, <4>1 DEF GoesOn
    <3> QED
      BY <2>1, <2>2, <2>5, <3>1, FollowsOn
  <2>10. q[1] \in DOMAIN g.roots
    BY <2>1, <2>7
  <2>11. SearchPath(g, N, q)
    BY <2>7, <2>9, <2>10 DEF SearchPath
  <2> QED
    BY <2>7, <2>11 DEF q
<1>2. ASSUME NEW q \in T PROVE \E p \in S : \E s \in DOMAIN Below(g, p) : q = Append(p, s)
  <2>1. q \in Seq(Nat) /\ Len(q) = n + 1 /\ q[1] \in DOMAIN g.roots
    BY DEF SearchPath
  <2>2. PICK ms \in Seq(N) : Follows(g, q, ms)
    BY DEF SearchPath
  <2>3. Trail(g, q, ms) /\ n \in 1 .. Len(q) /\ n + 1 \in 1 .. Len(q) /\ (n + 1) - 1 = n
    BY <2>1, <2>2 DEF Follows
  <2> DEFINE p == SubSeq(q, 1, n)
             ns == SubSeq(ms, 1, n)
  <2>4. /\ Trail(g, p, ns) /\ p \in Seq(Nat) /\ ns \in Seq(N) /\ Len(p) = n
        /\ \A i \in 1 .. n : p[i] = q[i] /\ ns[i] = ms[i]
    <3> HIDE DEF p, ns
    <3>1. p = SubSeq(q, 1, n) /\ ns = SubSeq(ms, 1, n)
      BY DEF p, ns
    <3> QED
      <4>1. CutsAt(g, N, q, ms, n, p, ns)
        BY <2>1, <2>2, <2>3, <3>1 DEF CutsAt
      <4>2. /\ Trail(g, p, ns) /\ p \in Seq(Nat) /\ ns \in Seq(N) /\ Len(p) = n
            /\ \A i \in 1 .. n : p[i] = q[i] /\ ns[i] = ms[i]
        BY <4>1, TrailUpTo
      <4> QED
        BY <4>2
  <2>5. q = Append(p, q[n + 1])
    BY <2>1, <2>3, PrefixGrows
  <2> HIDE DEF p, ns
  <2>7. Follows(g, p, ns) /\ Goes(g, ns, n) /\ q[n + 1] \in DOMAIN g.edges[ns[n]]
    <3>1. p = SubSeq(q, 1, n) /\ ns = SubSeq(ms, 1, n)
      BY DEF p, ns
    <3>2. CutsAt(g, N, q, ms, n, p, ns)
      BY <2>1, <2>2, <2>3, <3>1 DEF CutsAt
    <3>3. n # Len(q)
      BY <2>1
    <3> QED
      BY <2>2, <3>2, <3>3, FollowsUpTo
  <2>8. p \in S
    <3>1. p[1] \in DOMAIN g.roots
      <4>1. 1 \in 1 .. n
        OBVIOUS
      <4> QED
        BY <2>1, <2>4, <4>1
    <3> QED
      BY <2>4, <2>7, <3>1 DEF SearchPath
  <2>9. Below(g, p) = g.edges[ns[n]]
    <3>1. n \in 1 .. n
      OBVIOUS
    <3> QED
      BY <2>4, <2>7, <3>1, BelowIs
  <2>10. q[n + 1] \in DOMAIN Below(g, p)
    BY <2>7, <2>9
  <2> QED
    BY <2>5, <2>8, <2>10
<1> DEFINE U == UNION {{Append(p, s) : s \in DOMAIN Below(g, p)} : p \in S}
<1>3. \A q \in U : q \in T
  <2> TAKE q \in U
  <2>1. PICK p \in S : q \in {Append(p, s) : s \in DOMAIN Below(g, p)}
    OBVIOUS
  <2>2. PICK s \in DOMAIN Below(g, p) : q = Append(p, s)
    BY <2>1
  <2> QED
    BY <1>1, <2>1, <2>2
<1>4. \A q \in T : q \in U
  <2> TAKE q \in T
  <2>1. PICK p \in S : \E s \in DOMAIN Below(g, p) : q = Append(p, s)
    BY <1>2
  <2> QED
    BY <2>1
<1> QED
  BY <1>3, <1>4

(* Searched is the set of paths up to MaxSearch whose every node but the   *)
(* last is one the search goes on below.                                   *)
LEMMA SearchedIs ==
  ASSUME NEW g, NEW N, WellFormed(g, N), MaxSearch \in Nat
  PROVE  Searched(g) = {p \in Seq(Nat) : Len(p) <= MaxSearch /\ SearchPath(g, N, p)}
<1> DEFINE X == MaxSearch
           At(n) == {p \in Seq(Nat) : Len(p) = n /\ SearchPath(g, N, p)}
           Step(f, n) == IF n = 1 THEN {<<r>> : r \in DOMAIN g.roots}
                         ELSE UNION {{Append(p, s) : s \in DOMAIN Below(g, p)} : p \in f[n - 1]}
           Is(f) == f = [n \in 1 .. X |-> Step(f, n)]
           h == [n \in 1 .. X |-> At(n)]
<1> HIDE DEF X
<1>0. X \in Nat
  BY DEF X
<1>1. At(1) = {<<r>> : r \in DOMAIN g.roots}
  <2>1. g.roots \in Seq(N) /\ DOMAIN g.roots \subseteq Nat /\ \A r \in DOMAIN g.roots : g.roots[r] \in N
    <3>1. g.roots \in Seq(N)
      BY DEF WellFormed
    <3> QED
      BY <3>1
  <2>2. ASSUME NEW r \in DOMAIN g.roots PROVE <<r>> \in At(1)
    <3> DEFINE p == <<r>>
               ns == <<g.roots[r]>>
    <3>1. p \in Seq(Nat) /\ Len(p) = 1 /\ p[1] = r
      BY <2>1
    <3>2. ns \in Seq(N) /\ Len(ns) = 1 /\ ns[1] = g.roots[r]
      BY <2>1
    <3> HIDE DEF p, ns
    <3>3. 1 .. 1 - 1 = {}
      OBVIOUS
    <3>4. Follows(g, p, ns)
      BY <3>1, <3>2, <3>3 DEF Follows, Trail
    <3>5. SearchPath(g, N, p)
      BY <3>1, <3>2, <3>4 DEF SearchPath
    <3> QED
      BY <3>1, <3>5 DEF p
  <2>3. ASSUME NEW p \in At(1) PROVE p \in {<<r>> : r \in DOMAIN g.roots}
    <3>1. p \in Seq(Nat) /\ Len(p) = 1 /\ p[1] \in DOMAIN g.roots
      BY DEF SearchPath
    <3>2. p = <<p[1]>>
      BY <3>1
    <3> QED
      BY <3>1, <3>2
  <2> QED
    BY <2>2, <2>3
<1>2. ASSUME NEW n \in 2 .. X, NEW f, f[n - 1] = At(n - 1) PROVE Step(f, n) = At(n)
  <2>1. n - 1 \in Nat /\ n - 1 >= 1 /\ (n - 1) + 1 = n /\ n # 1
    BY <1>0
  <2>2. UNION {{Append(p, s) : s \in DOMAIN Below(g, p)} : p \in At(n - 1)} = At((n - 1) + 1)
    <3> DEFINE m == n - 1
               A == At(m)
               B == At(m + 1)
    <3>1. m \in Nat /\ m >= 1
      BY <2>1
    <3> HIDE DEF m
    <3>2. /\ \A p : p \in A <=> p \in Seq(Nat) /\ Len(p) = m /\ SearchPath(g, N, p)
          /\ \A p : p \in B <=> p \in Seq(Nat) /\ Len(p) = m + 1 /\ SearchPath(g, N, p)
      OBVIOUS
    <3> HIDE DEF A, B, At
    <3>3. UNION {{Append(p, s) : s \in DOMAIN Below(g, p)} : p \in A} = B
      <4>1. Levels(g, N, m, A, B)
        BY <3>1, <3>2 DEF Levels
      <4> QED
        BY <4>1, SearchStep
    <3> QED
      BY <3>3 DEF A, B, m
  <2> HIDE DEF At
  <2> QED
    BY <1>2, <2>1, <2>2
<1>3. ASSUME NEW f PROVE Step(f, 1) = At(1)
  BY <1>1
<1> HIDE DEF At, Step
<1>4. Is(h)
  <2>1. ASSUME NEW n \in 1 .. X PROVE h[n] = Step(h, n)
    <3>1. n = 1 \/ (n \in 2 .. X /\ n - 1 \in 1 .. X)
      BY <1>0
    <3>2. n \in 2 .. X /\ n - 1 \in 1 .. X => h[n - 1] = At(n - 1)
      OBVIOUS
    <3>3. h[n] = At(n)
      OBVIOUS
    <3> HIDE DEF h
    <3> QED
      BY <1>2, <1>3, <3>1, <3>2, <3>3
  <2> QED
    BY <2>1
<1> DEFINE f == CHOOSE f : Is(f)
<1>5. Is(f)
  BY <1>4
<1>6. Searched(g) = UNION {f[n] : n \in 1 .. X}
  BY DEF Searched, X, Step
<1> HIDE DEF f
<1>7. \A n \in 1 .. X : f[n] = Step(f, n)
  BY <1>5
<1> DEFINE T == {k \in Nat : k \in 1 .. X => f[k] = At(k)}
<1>8. 0 \in T
  OBVIOUS
<1>9. ASSUME NEW k \in Nat, k \in T PROVE k + 1 \in T
  <2> SUFFICES ASSUME k + 1 \in 1 .. X PROVE f[k + 1] = At(k + 1)
    OBVIOUS
  <2>1. CASE k = 0
    <3>1. k + 1 = 1
      BY <2>1
    <3> QED
      BY <1>3, <1>7, <3>1
  <2>2. CASE k # 0
    <3>1. k \in 1 .. X /\ k + 1 \in 2 .. X /\ (k + 1) - 1 = k
      BY <1>0, <2>2
    <3>2. f[(k + 1) - 1] = At((k + 1) - 1)
      BY <1>9, <3>1
    <3> QED
      BY <1>2, <1>7, <3>1, <3>2
  <2> QED
    BY <2>1, <2>2
<1> HIDE DEF T
<1>10. Nat \subseteq T
  BY <1>8, <1>9, SetInduction
<1>11. \A n \in 1 .. X : f[n] = At(n)
  <2> TAKE n \in 1 .. X
  <2>1. n \in Nat
    BY <1>0
  <2> QED
    BY <1>10, <2>1 DEF T
<1>12. Searched(g) = UNION {At(n) : n \in 1 .. X}
  BY <1>6, <1>11
<1>13. UNION {At(n) : n \in 1 .. X} = {p \in Seq(Nat) : Len(p) <= X /\ SearchPath(g, N, p)}
  <2>1. ASSUME NEW p \in Seq(Nat), Len(p) <= X, SearchPath(g, N, p) PROVE Len(p) \in 1 .. X /\ p \in At(Len(p))
    BY <1>0, <2>1 DEF At, SearchPath
  <2>2. ASSUME NEW n \in 1 .. X, NEW p \in At(n) PROVE p \in Seq(Nat) /\ Len(p) <= X /\ SearchPath(g, N, p)
    BY <1>0 DEF At
  <2> QED
    BY <2>1, <2>2
<1> QED
  BY <1>12, <1>13 DEF X

(* Every slot is seen, of the roots and of each row shown in full.         *)
AllSeen(in, g, dr) ==
  /\ \A s \in 1 .. Len(g.roots) : Seen(in, g, dr, <<s>>)
  /\ \A a \in 1 .. Len(dr) : dr[a].placement = "Full" =>
        \A s \in 1 .. Len(g.edges[dr[a].node]) : Seen(in, g, dr, Append(dr[a].path, s))

(* A trail is what its path says.                                          *)
Along(g, N, p, ns, q, ms) ==
  /\ p \in Seq(Nat) /\ Len(p) >= 1 /\ ns \in Seq(N) /\ Trail(g, p, ns)
  /\ q \in Seq(Nat) /\ ms \in Seq(N) /\ Trail(g, q, ms) /\ IsPrefixOf(p, q)

(* A path along another has its trail along the other's.                   *)
LEMMA TrailsAgree ==
  ASSUME NEW g, NEW N, NEW p, NEW ns, NEW q, NEW ms, Along(g, N, p, ns, q, ms)
  PROVE  \A i \in 1 .. Len(p) : ms[i] = ns[i]
<1> USE DEF Along
<1>1. Len(p) \in Nat /\ Len(q) \in Nat /\ Len(p) <= Len(q) /\ SubSeq(q, 1, Len(p)) = p /\ Len(p) \in 1 .. Len(q)
  BY DEF IsPrefixOf
<1> DEFINE ls == SubSeq(ms, 1, Len(p))
<1>2. CutsAt(g, N, q, ms, Len(p), p, ls)
  BY <1>1 DEF CutsAt
<1> HIDE DEF ls
<1>3. Trail(g, p, ls) /\ ls \in Seq(N) /\ \A i \in 1 .. Len(p) : ls[i] = ms[i]
  BY <1>2, TrailUpTo
<1>4. NodesOn(g, p) = ls
  BY <1>1, <1>3, NodesOnTrail
<1>5. NodesOn(g, p) = ns
  BY <1>1, NodesOnTrail
<1> QED
  BY <1>3, <1>4, <1>5

(* What the search found: the paths it visits whose last node matches.     *)
LEMMA FoundIs ==
  ASSUME input \in Inputs, Built, NEW p
  PROVE  /\ input.query = None => p \notin graph.found
         /\ input.query # None =>
              (p \in graph.found <=> /\ p \in Seq(Nat) /\ Len(p) <= MaxSearch
                                     /\ SearchPath(graph, Nodes, p)
                                     /\ input.packages[NodesOn(graph, p)[Len(p)]].name \in input.query)
<1> DEFINE g == GraphOf(input)
<1>1. WellFormed(g, Nodes) /\ MaxSearch \in Nat
  BY InputFacts, GraphAssumption
<1>2. graph.found = Found(input, g) /\ graph.edges = g.edges /\ graph.roots = g.roots
  BY DEF Built
<1> HIDE DEF g
<1>3. Searched(g) = {q \in Seq(Nat) : Len(q) <= MaxSearch /\ SearchPath(g, Nodes, q)}
  BY <1>1, SearchedIs
<1>4. SearchPath(g, Nodes, p) <=> SearchPath(graph, Nodes, p)
  <2>1. \A ns : Follows(g, p, ns) <=> Follows(graph, p, ns)
    BY <1>2 DEF Follows, Trail, Goes, RootSlots
  <2> QED
    BY <1>2, <2>1 DEF SearchPath
<1>5. NodesOn(g, p) = NodesOn(graph, p)
  BY <1>2 DEF NodesOn
<1>6. CASE input.query = None
  BY <1>2, <1>6 DEF Found
<1>7. CASE input.query # None
  BY <1>2, <1>3, <1>4, <1>5, <1>7 DEF Found
<1> QED
  BY <1>6, <1>7

(* A path the search found, its trail, and where it ends.                  *)
LEMMA FoundTrail ==
  ASSUME input \in Inputs, Built, input.query # None, NEW m \in graph.found
  PROVE  /\ m \in Seq(Nat) /\ Len(m) \in Nat /\ Len(m) >= 1 /\ Len(m) <= MaxSearch /\ m[1] \in DOMAIN graph.roots
         /\ \E ms \in Seq(Nodes) : /\ Follows(graph, m, ms) /\ Trail(graph, m, ms)
                                   /\ input.packages[ms[Len(m)]].name \in input.query
<1>1. /\ m \in Seq(Nat) /\ Len(m) <= MaxSearch /\ SearchPath(graph, Nodes, m)
      /\ input.packages[NodesOn(graph, m)[Len(m)]].name \in input.query
  BY FoundIs
<1>2. Len(m) \in Nat /\ Len(m) >= 1 /\ m[1] \in DOMAIN graph.roots
  BY <1>1 DEF SearchPath
<1>3. PICK ms \in Seq(Nodes) : Follows(graph, m, ms)
  BY <1>1 DEF SearchPath
<1>4. Trail(graph, m, ms)
  BY <1>3 DEF Follows
<1>5. NodesOn(graph, m) = ms
  BY <1>2, <1>3, <1>4, NodesOnTrail
<1> QED
  BY <1>1, <1>2, <1>3, <1>4, <1>5

(* A root whose package matches is found.                                  *)
LEMMA RootFound ==
  ASSUME input \in Inputs, Built, input.query # None, NEW r \in DOMAIN graph.roots, MaxSearch >= 1,
         input.packages[graph.roots[r]].name \in input.query
  PROVE  <<r>> \in graph.found
<1>1. graph.roots \in Seq(Nodes)
  BY BuiltWell DEF WellFormed
<1>2. r \in Nat /\ graph.roots[r] \in Nodes
  BY <1>1
<1> DEFINE p == <<r>>
           ns == <<graph.roots[r]>>
<1>3. p \in Seq(Nat) /\ Len(p) = 1 /\ p[1] = r /\ ns \in Seq(Nodes) /\ Len(ns) = 1 /\ ns[1] = graph.roots[r]
  BY <1>2
<1> HIDE DEF p, ns
<1>4. 1 .. 1 - 1 = {}
  OBVIOUS
<1>5. Trail(graph, p, ns) /\ Follows(graph, p, ns)
  BY <1>3, <1>4 DEF Trail, Follows
<1>6. SearchPath(graph, Nodes, p)
  BY <1>3, <1>5 DEF SearchPath
<1>7. NodesOn(graph, p) = ns
  <2>1. Len(p) \in Nat /\ Len(p) >= 1 /\ ns \in Seq(Nodes) /\ Trail(graph, p, ns)
    BY <1>3, <1>5
  <2> QED
    BY <2>1, NodesOnTrail
<1>8. p \in graph.found
  BY <1>3, <1>6, <1>7, FoundIs
<1> QED
  BY <1>8 DEF p

(* What the walk leaves when it was not cut.                               *)
LEMMA WalkedAll ==
  ASSUME WalkInv, pc = "done", ~truncated
  PROVE  /\ input \in Inputs /\ Built /\ WellFormed(graph, Nodes)
         /\ Listed(graph, Nodes, drawn) /\ Honest(input, graph, drawn) /\ AllSeen(input, graph, drawn)
         /\ Remembered(input, graph, expanded, drawn)
<1>1. /\ input \in Inputs /\ Walking /\ Len(stack) = 1 /\ stack[1].taken = Len(stack[1].children)
  BY DEF WalkInv
<1>2. /\ Built /\ Walked(input, graph, Nodes, stack, expanded, drawn) /\ Covered(input, graph, stack, drawn)
  BY <1>1 DEF Walking
<1>3. WellFormed(graph, Nodes)
  BY <1>1, <1>2, BuiltWell
<1>4. stack[1].children = graph.roots
  BY <1>2 DEF Walked, Stacked
<1>5. 2 .. Len(stack) = {}
  BY <1>1
<1>6. \A p, s : ~Pending(stack, p, s)
  BY <1>5 DEF Pending
<1>7. AllSeen(input, graph, drawn)
  BY <1>1, <1>2, <1>4, <1>6 DEF AllSeen, Covered, Below1
<1> QED
  BY <1>1, <1>2, <1>3, <1>7 DEF Walked

(* A row that points to a root's tree: that root's own row is there.       *)
LEMMA PointerLeads ==
  ASSUME input \in Inputs, Built, Listed(graph, Nodes, drawn), Honest(input, graph, drawn),
         AllSeen(input, graph, drawn), NEW k \in 1 .. Len(drawn), drawn[k].placement = "Root",
         NEW r \in RootSlots(graph, drawn[k].node)
  PROVE  Shown(<<r>>)
<1> DEFINE row == drawn[k]
           L == Len(row.path)
<1>1. WellFormed(graph, Nodes)
  BY BuiltWell
<1>2. row \in Row(Nodes) /\ drawn \in Seq(Row(Nodes))
  BY DEF Listed
<1>3. row.path \in Seq(Nat) /\ row.node \in Nodes /\ L \in Nat /\ L >= 1
  BY <1>2, RowFields DEF Listed
<1>4. L - 1 > 0 /\ RootSlots(graph, row.node) # {} /\ KeptOf(input, graph, row.path)
  BY DEF Honest, HonestRow, Pointed
<1>5. r \in DOMAIN graph.roots /\ graph.roots[r] = row.node
  BY DEF RootSlots
<1>6. graph.roots \in Seq(Nodes)
  BY <1>1 DEF WellFormed
<1>7. r \in 1 .. Len(graph.roots) /\ r \in Nat
  BY <1>5, <1>6
<1>8. KeptOf(input, graph, <<r>>)
  <2> SUFFICES ASSUME input.query # None PROVE \E m \in graph.found : IsPrefixOf(<<r>>, m)
    BY DEF KeptOf
  <2>1. PICK m \in graph.found : IsPrefixOf(row.path, m)
    BY <1>4 DEF KeptOf
  <2>2. /\ m \in Seq(Nat) /\ Len(m) \in Nat /\ Len(m) >= 1 /\ Len(m) <= MaxSearch
    BY FoundTrail
  <2>3. PICK ms \in Seq(Nodes) : /\ Follows(graph, m, ms) /\ Trail(graph, m, ms)
                                 /\ input.packages[ms[Len(m)]].name \in input.query
    BY FoundTrail
  <2>4. PICK ns \in Seq(Nodes) : Trail(graph, row.path, ns) /\ ns[L] = row.node
    BY <1>1, RowTrail
  <2> HIDE DEF row
  <2>5. \A i \in 1 .. L : ms[i] = ns[i]
    <3>1. Along(graph, Nodes, row.path, ns, m, ms)
      BY <1>3, <2>1, <2>2, <2>3, <2>4 DEF Along
    <3> QED
      BY <3>1, TrailsAgree
  <2>6. ms[L] = row.node
    BY <1>3, <2>4, <2>5, SMTT(30)
  <2>7. L <= Len(m)
    BY <2>1 DEF IsPrefixOf
  <2>8. Len(m) = L
    <3> SUFFICES ASSUME Len(m) # L PROVE FALSE
      OBVIOUS
    <3>1. L \in 1 .. Len(m) - 1 /\ L > 1
      BY <1>3, <1>4, <2>2, <2>7, SMTT(30)
    <3>2. Goes(graph, ms, L)
      BY <2>3, <3>1 DEF Follows
    <3>3. RootSlots(graph, ms[L]) = {}
      BY <3>1, <3>2 DEF Goes
    <3> QED
      BY <1>4, <2>6, <3>3
  <2>9. input.packages[graph.roots[r]].name \in input.query
    BY <1>5, <2>3, <2>6, <2>8
  <2>10. MaxSearch >= 1
    BY <2>2, GraphAssumption
  <2>11. <<r>> \in graph.found
    BY <1>5, <2>9, <2>10, RootFound
  <2>12. IsPrefixOf(<<r>>, <<r>>)
    <3>1. <<r>> \in Seq(Nat) /\ Len(<<r>>) = 1
      BY <1>7
    <3>2. SubSeq(<<r>>, 1, Len(<<r>>)) = <<r>>
      BY <3>1, SubSeqFull
    <3> QED
      BY <3>1, <3>2 DEF IsPrefixOf
  <2> QED
    BY <2>11, <2>12
<1>9. Seen(input, graph, drawn, <<r>>)
  BY <1>7 DEF AllSeen
<1>10. DOMAIN drawn = 1 .. Len(drawn)
  BY <1>2
<1> QED
  BY <1>8, <1>9, <1>10 DEF Seen, Shown

(* A walk that is done has markers that lead where they say.               *)
LEMMA MarkersHold == WalkInv => MarkersPointSomewhere
<1> SUFFICES ASSUME WalkInv, pc = "done", ~truncated, NEW i \in DOMAIN drawn
             PROVE  LET row == drawn[i]
                        first == {r \in RootSlots(graph, row.node) :
                                     \A q \in RootSlots(graph, row.node) : r <= q}
                    IN  /\ row.placement = "Repeat" =>
                              \E k \in 1 .. i - 1 : /\ drawn[k].node = row.node
                                                    /\ drawn[k].placement = "Full"
                        /\ row.placement = "Cycle" =>
                              \E n \in 1 .. Len(row.path) - 1 :
                                 drawn[RowAt(SubSeq(row.path, 1, n))].node = row.node
                        /\ row.placement = "Root" => \A r \in first : Shown(<<r>>)
                        /\ row.path \in {<<r>> : r \in first} =>
                              row.placement \in {"Full", "Depth", "Collapsed"}
  BY DEF MarkersPointSomewhere
<1> DEFINE row == drawn[i]
           first == {r \in RootSlots(graph, row.node) : \A q \in RootSlots(graph, row.node) : r <= q}
<1>1. /\ input \in Inputs /\ Built /\ WellFormed(graph, Nodes)
      /\ Listed(graph, Nodes, drawn) /\ Honest(input, graph, drawn) /\ AllSeen(input, graph, drawn)
  BY WalkedAll
<1>2. drawn \in Seq(Row(Nodes)) /\ DOMAIN drawn = 1 .. Len(drawn) /\ i \in 1 .. Len(drawn) /\ Len(drawn) \in Nat
  <2>1. drawn \in Seq(Row(Nodes))
    BY <1>1 DEF Listed
  <2> QED
    BY <2>1
<1>3. HonestRow(input, graph, drawn, i)
  BY <1>1, <1>2 DEF Honest
<1>4. row.placement = "Repeat" =>
         \E k \in 1 .. i - 1 : drawn[k].node = row.node /\ drawn[k].placement = "Full"
  BY <1>3 DEF HonestRow
<1>5. ASSUME row.placement = "Cycle"
      PROVE  \E n \in 1 .. Len(row.path) - 1 : drawn[RowAt(SubSeq(row.path, 1, n))].node = row.node
  <2>1. PICK a \in 1 .. i - 1, n \in 1 .. Len(row.path) - 1 :
           drawn[a].path = SubSeq(row.path, 1, n) /\ drawn[a].node = row.node
    BY <1>3, <1>5 DEF HonestRow
  <2>2. a \in DOMAIN drawn
    BY <1>2
  <2> DEFINE q == SubSeq(row.path, 1, n)
             At(x) == x \in DOMAIN drawn /\ drawn[x].path = q
  <2>3. RowAt(q) \in DOMAIN drawn /\ drawn[RowAt(q)].path = q
    BY <2>1, <2>2 DEF RowAt
  <2>4. RowAt(q) = a
    BY <1>1, <1>2, <2>1, <2>2, <2>3 DEF Listed
  <2> QED
    BY <2>1, <2>4
<1>6. ASSUME row.placement = "Root", NEW r \in first PROVE Shown(<<r>>)
  BY <1>1, <1>2, <1>6, PointerLeads
<1>7. ASSUME NEW r \in first, row.path = <<r>> PROVE row.placement \in {"Full", "Depth", "Collapsed"}
  <2>1. Len(row.path) = 1 /\ row.path[1] = r
    BY <1>7
  <2>2. \A q \in RootSlots(graph, row.node) : row.path[1] <= q
    BY <2>1
  <2> QED
    BY <1>3, <2>1, <2>2 DEF HonestRow
<1> QED
  BY <1>4, <1>5, <1>6, <1>7

(* MarkersLead -- for any lockfiles and options, a repeat was shown in     *)
(* full before, a cycle is on its own path, and a pointer to a root's tree *)
(* leads to the row of that tree, whatever is filtered or closed.          *)
THEOREM MarkersLead == Spec => []MarkersPointSomewhere
BY WalkInvariant, MarkersHold, PTL

-----------------------------------------------------------------------------
(***************************************************************************)
(* 5. What is drawn is what can be reached.                                *)
(***************************************************************************)
(* The sets near[0], near[1], ... of Reachable, over dependencies D.        *)
Nearer(D, S) == S \cup UNION {D[i] : i \in S}

Nears(f, X, N, R, D) ==
  /\ X \in Nat /\ IsFiniteSet(N) /\ Cardinality(N) = X
  /\ R \subseteq N /\ D \in [N -> SUBSET N]
  /\ f[0] = R
  /\ \A n \in 1 .. X : f[n] = Nearer(D, f[n - 1])

Closed(D, S) == \A i \in S : D[i] \subseteq S

(* After as many steps as there are nodes nothing is near that was not.    *)
LEMMA NearEnough ==
  ASSUME NEW f, NEW X, NEW N, NEW R, NEW D, Nears(f, X, N, R, D)
  PROVE  /\ R \subseteq f[X] /\ f[X] \subseteq N /\ Closed(D, f[X])
         /\ \A S : R \subseteq S /\ Closed(D, S) => f[X] \subseteq S
<1>1. /\ X \in Nat /\ IsFiniteSet(N) /\ Cardinality(N) = X
      /\ R \subseteq N /\ D \in [N -> SUBSET N] /\ f[0] = R
  BY DEF Nears
<1>2. ASSUME NEW S \in SUBSET N PROVE Nearer(D, S) \subseteq N /\ S \subseteq Nearer(D, S)
  BY <1>1 DEF Nearer
<1>3. ASSUME NEW S \in SUBSET N, Closed(D, S) PROVE Nearer(D, S) = S
  BY <1>3 DEF Nearer, Closed
<1>4. ASSUME NEW S \in SUBSET N, ~Closed(D, S) PROVE \E x \in Nearer(D, S) : x \notin S
  BY <1>4 DEF Nearer, Closed
<1>5. ASSUME NEW S \in SUBSET N PROVE IsFiniteSet(S) /\ Cardinality(S) \in Nat
  <2>1. IsFiniteSet(S)
    BY <1>1, FS_Subset
  <2> QED
    BY <2>1, FS_CardinalityType
<1> DEFINE T == {k \in Nat : k <= X =>
                   /\ R \subseteq f[k] /\ f[k] \subseteq N
                   /\ Closed(D, f[k]) \/ Cardinality(f[k]) >= k
                   /\ \A S : R \subseteq S /\ Closed(D, S) => f[k] \subseteq S}
<1>6. 0 \in T
  <2>1. Cardinality(R) >= 0
    BY <1>1, <1>5
  <2> QED
    BY <1>1, <2>1
<1>7. ASSUME NEW k \in Nat, k \in T PROVE k + 1 \in T
  <2> SUFFICES ASSUME k + 1 <= X
               PROVE  /\ R \subseteq f[k + 1] /\ f[k + 1] \subseteq N
                      /\ Closed(D, f[k + 1]) \/ Cardinality(f[k + 1]) >= k + 1
                      /\ \A S : R \subseteq S /\ Closed(D, S) => f[k + 1] \subseteq S
    OBVIOUS
  <2>1. k <= X /\ k + 1 \in 1 .. X /\ (k + 1) - 1 = k
    BY <1>1
  <2>2. f[k + 1] = Nearer(D, f[k])
    BY <2>1 DEF Nears
  <2>3. /\ R \subseteq f[k] /\ f[k] \subseteq N
        /\ Closed(D, f[k]) \/ Cardinality(f[k]) >= k
        /\ \A S : R \subseteq S /\ Closed(D, S) => f[k] \subseteq S
    BY <1>7, <2>1
  <2> HIDE DEF T
  <2>4. f[k] \subseteq f[k + 1] /\ f[k + 1] \subseteq N
    BY <1>2, <2>2, <2>3
  <2>5. Closed(D, f[k + 1]) \/ Cardinality(f[k + 1]) >= k + 1
    <3>1. CASE Closed(D, f[k])
      BY <1>3, <2>2, <2>3, <3>1
    <3>2. CASE ~Closed(D, f[k])
      <4>1. PICK x \in f[k + 1] : x \notin f[k]
        BY <1>4, <2>2, <2>3, <3>2
      <4> DEFINE Q == f[k] \cup {x}
      <4>2. IsFiniteSet(f[k]) /\ Cardinality(f[k]) \in Nat /\ Cardinality(f[k]) >= k
        BY <1>5, <2>3, <3>2
      <4>3. Cardinality(Q) = Cardinality(f[k]) + 1
        BY <4>1, <4>2, FS_AddElement
      <4>4. Q \subseteq f[k + 1] /\ IsFiniteSet(f[k + 1])
        BY <1>5, <2>4, <4>1
      <4> HIDE DEF Q
      <4>5. Cardinality(Q) <= Cardinality(f[k + 1])
        BY <4>4, FS_Subset
      <4>6. Cardinality(f[k + 1]) \in Nat
        BY <1>5, <2>4
      <4> DEFINE c1 == Cardinality(f[k])
                 c2 == Cardinality(Q)
                 c3 == Cardinality(f[k + 1])
      <4>7. c1 \in Nat /\ c1 >= k /\ c2 = c1 + 1 /\ c2 <= c3 /\ c3 \in Nat
        BY <4>2, <4>3, <4>5, <4>6
      <4> HIDE DEF c1, c2, c3
      <4>8. c3 >= k + 1
        BY <4>7
      <4> QED
        BY <4>8 DEF c3
    <3> QED
      BY <3>1, <3>2
  <2>6. ASSUME NEW S, R \subseteq S, Closed(D, S) PROVE f[k + 1] \subseteq S
    <3>1. f[k] \subseteq S
      BY <2>3, <2>6
    <3> QED
      BY <2>2, <2>6, <3>1 DEF Nearer, Closed
  <2> QED
    BY <2>3, <2>4, <2>5, <2>6
<1> HIDE DEF T
<1>8. Nat \subseteq T
  BY <1>6, <1>7, SetInduction
<1>9. /\ R \subseteq f[X] /\ f[X] \subseteq N
      /\ Closed(D, f[X]) \/ Cardinality(f[X]) >= X
      /\ \A S : R \subseteq S /\ Closed(D, S) => f[X] \subseteq S
  <2>1. X \in T /\ X <= X
    BY <1>1, <1>8
  <2> QED
    BY <2>1 DEF T
<1>10. Closed(D, f[X])
  <2> SUFFICES ASSUME Cardinality(f[X]) >= X PROVE Closed(D, f[X])
    BY <1>9
  <2>1. Cardinality(f[X]) <= Cardinality(N) /\ (Cardinality(f[X]) = Cardinality(N) => f[X] = N)
    BY <1>1, <1>9, FS_Subset
  <2>2. Cardinality(f[X]) \in Nat
    BY <1>5, <1>9
  <2>3. f[X] = N
    BY <1>1, <2>1, <2>2
  <2> QED
    BY <1>1, <2>3 DEF Closed
<1> QED
  BY <1>9, <1>10

(* Reachable is the least set with the roots that is closed under          *)
(* dependencies.                                                           *)
LEMMA ReachableIs ==
  ASSUME input \in Inputs, Built
  PROVE  /\ Elements(graph.roots) \subseteq Reachable /\ Reachable \subseteq Nodes
         /\ \A i \in Reachable : DependsOn(i) \subseteq Reachable
         /\ \A S : Elements(graph.roots) \subseteq S /\ (\A i \in S \cap Nodes : DependsOn(i) \subseteq S)
              => Reachable \subseteq S
<1> DEFINE X == Len(input.packages)
           R == Elements(graph.roots)
           D == [i \in Nodes |-> DependsOn(i)]
           Step(f, n) == IF n = 0 THEN R ELSE f[n - 1] \cup UNION {DependsOn(i) : i \in f[n - 1]}
           Is(f) == f = [n \in 0 .. X |-> Step(f, n)]
<1>1. /\ InputOK(input) /\ Nodes = 1 .. X /\ X \in Nat /\ WellFormed(graph, Nodes)
      /\ IsFiniteSet(Nodes) /\ Cardinality(Nodes) = X
  BY InputFacts, BuiltWell, IntervalSize
<1>2. R \subseteq Nodes
  <2>1. graph.roots \in Seq(Nodes)
    BY <1>1 DEF WellFormed
  <2> QED
    BY <2>1 DEF Elements
<1>3. ASSUME NEW i \in Nodes PROVE DependsOn(i) \subseteq Nodes
  <2>1. input.depends \in Seq(Seq(Nodes)) /\ Len(input.depends) = X
    BY <1>1 DEF InputOK, Nodes
  <2>2. input.depends[i] \in Seq(Nodes)
    BY <1>1, <2>1
  <2>3. Elements(input.depends[i]) \subseteq Nodes
    BY <2>2 DEF Elements
  <2> QED
    BY <2>3 DEF DependsOn
<1>4. D \in [Nodes -> SUBSET Nodes]
  BY <1>3
<1>5. ASSUME NEW S \in SUBSET Nodes PROVE Nearer(D, S) = S \cup UNION {DependsOn(i) : i \in S} /\ Nearer(D, S) \in SUBSET Nodes
  <2>1. \A i \in S : D[i] = DependsOn(i)
    OBVIOUS
  <2> HIDE DEF D
  <2>2. \A x : x \in Nearer(D, S) <=> x \in S \/ \E i \in S : x \in DependsOn(i)
    BY <2>1 DEF Nearer
  <2>3. Nearer(D, S) \subseteq Nodes
    BY <1>3, <2>2
  <2> QED
    BY <2>2, <2>3
<1> HIDE DEF X, R, D
<1> DEFINE step == [q \in Nat \X SUBSET Nodes |-> Nearer(D, q[2])]
<1>6. step \in [Nat \X SUBSET Nodes -> SUBSET Nodes]
  BY <1>5
<1>7. PICK h : Unrolls(h, SUBSET Nodes, R, step, X)
  <2>1. R \in SUBSET Nodes
    BY <1>2
  <2> HIDE DEF step
  <2> QED
    BY <1>1, <1>6, <2>1, Unrolled
<1>8. /\ h \in [0 .. X -> SUBSET Nodes] /\ h[0] = R
      /\ \A n \in 1 .. X : h[n] = step[<<n, h[n - 1]>>]
  BY <1>7 DEF Unrolls
<1>9. Is(h)
  <2>1. ASSUME NEW n \in 0 .. X PROVE h[n] = Step(h, n)
    <3>1. CASE n = 0
      BY <1>8, <3>1
    <3>2. CASE n # 0
      <4>1. n \in 1 .. X /\ n - 1 \in 0 .. X /\ n \in Nat
        BY <1>1, <3>2
      <4>2. h[n - 1] \in SUBSET Nodes
        BY <1>8, <4>1
      <4>3. h[n] = step[<<n, h[n - 1]>>]
        BY <1>8, <4>1
      <4>4. step[<<n, h[n - 1]>>] = Nearer(D, h[n - 1])
        BY <4>1, <4>2
      <4> HIDE DEF step
      <4> QED
        BY <1>5, <3>2, <4>2, <4>3, <4>4
    <3> QED
      BY <3>1, <3>2
  <2> HIDE DEF Step
  <2> QED
    BY <1>8, <2>1
<1> DEFINE f == CHOOSE f : Is(f)
<1>10. Is(f)
  BY <1>9
<1>11. Reachable = f[X]
  BY DEF Reachable, X, R
<1> HIDE DEF f
<1>12. \A n \in 0 .. X : f[n] = Step(f, n)
  <2> HIDE DEF Step
  <2> QED
    BY <1>10
<1>first. f[0] = R
  <2>1. 0 \in 0 .. X
    BY <1>1
  <2>2. ASSUME NEW n, n = 0 PROVE Step(f, n) = R
    BY <2>2, Zenon
  <2> HIDE DEF Step
  <2> QED
    BY <1>12, <2>1, <2>2
<1> DEFINE T == {k \in Nat : k <= X => f[k] \in SUBSET Nodes}
<1>13. 0 \in T
  BY <1>2, <1>first
<1>14. ASSUME NEW k \in Nat, k \in T PROVE k + 1 \in T
  <2> SUFFICES ASSUME k + 1 <= X PROVE f[k + 1] \in SUBSET Nodes
    OBVIOUS
  <2>1. k + 1 \in 0 .. X /\ (k + 1) - 1 = k /\ k <= X /\ k + 1 # 0
    BY <1>1
  <2>2. f[k] \in SUBSET Nodes
    BY <1>14, <2>1
  <2>3. f[k + 1] = f[k] \cup UNION {DependsOn(i) : i \in f[k]}
    BY <1>12, <2>1
  <2> QED
    BY <1>5, <2>2, <2>3
<1> HIDE DEF T
<1>15. Nat \subseteq T
  BY <1>13, <1>14, SetInduction
<1>16. Nears(f, X, Nodes, R, D)
  <2>1. f[0] = R
    BY <1>first
  <2>2. ASSUME NEW n \in 1 .. X PROVE f[n] = Nearer(D, f[n - 1])
    <3>1. n \in 0 .. X /\ n # 0 /\ n - 1 \in Nat /\ n - 1 <= X
      BY <1>1
    <3>2. f[n - 1] \in SUBSET Nodes
      BY <1>15, <3>1 DEF T
    <3>3. f[n] = f[n - 1] \cup UNION {DependsOn(i) : i \in f[n - 1]}
      BY <1>12, <3>1
    <3> QED
      BY <1>5, <3>2, <3>3
  <2> QED
    BY <1>1, <1>2, <1>4, <2>1, <2>2 DEF Nears
<1>17. /\ R \subseteq f[X] /\ f[X] \subseteq Nodes /\ Closed(D, f[X])
       /\ \A S : R \subseteq S /\ Closed(D, S) => f[X] \subseteq S
  BY <1>16, NearEnough
<1>18. \A i \in Reachable : DependsOn(i) \subseteq Reachable
  <2>1. \A i \in Nodes : D[i] = DependsOn(i)
    BY DEF D
  <2> QED
    BY <1>11, <1>17, <2>1 DEF Closed
<1>19. ASSUME NEW S, R \subseteq S, \A i \in S \cap Nodes : DependsOn(i) \subseteq S PROVE Reachable \subseteq S
  <2> DEFINE Q == S \cap Nodes
  <2>1. R \subseteq Q
    BY <1>2, <1>19
  <2>2. Closed(D, Q)
    BY <1>3, <1>19 DEF Closed, D
  <2> HIDE DEF Q
  <2>3. Reachable \subseteq Q
    BY <1>11, <1>17, <2>1, <2>2
  <2> QED
    BY <2>3 DEF Q
<1> QED
  BY <1>11, <1>17, <1>18, <1>19 DEF R

(* Every row above another is shown in full.                               *)
LEMMA AboveIsFull ==
  ASSUME NEW g, NEW N, NEW dr, Listed(g, N, dr), NEW k \in 1 .. Len(dr),
         NEW n \in 1 .. Len(dr[k].path) - 1
  PROVE  \E a \in 1 .. k - 1 : dr[a].path = SubSeq(dr[k].path, 1, n) /\ dr[a].placement = "Full"
<1> DEFINE Fully(j, m) == \E a \in 1 .. j - 1 : dr[a].path = SubSeq(dr[j].path, 1, m) /\ dr[a].placement = "Full"
           T == {i \in Nat : \A j \in 1 .. Len(dr) : j <= i => \A m \in 1 .. Len(dr[j].path) - 1 : Fully(j, m)}
<1>1. Len(dr) \in Nat /\ \A l \in 1 .. Len(dr) : dr[l].path \in Seq(Nat) /\ Len(dr[l].path) \in Nat
  <2>1. \A l \in 1 .. Len(dr) : dr[l] \in Row(N)
    BY DEF Listed
  <2> QED
    BY <2>1, RowFields DEF Listed
<1>2. 0 \in T
  OBVIOUS
<1>3. ASSUME NEW i \in Nat, i \in T PROVE i + 1 \in T
  <2> SUFFICES ASSUME i + 1 \in 1 .. Len(dr), NEW m \in 1 .. Len(dr[i + 1].path) - 1 PROVE Fully(i + 1, m)
    <3> HIDE DEF Fully
    <3>1. \A j \in 1 .. Len(dr) : j <= i + 1 => j <= i \/ j = i + 1
      BY <1>1
    <3> QED
      BY <1>3, <3>1
  <2> DEFINE p == dr[i + 1].path
             L == Len(p)
  <2>1. p \in Seq(Nat) /\ L \in Nat /\ L > 1
    <3>1. p \in Seq(Nat) /\ L \in Nat
      BY <1>1
    <3> QED
      BY <3>1
  <2>2. PICK a \in 1 .. i : Hangs(g, dr, a, i + 1)
    <3>1. (i + 1) - 1 = i
      OBVIOUS
    <3> QED
      BY <2>1, <3>1 DEF Listed
  <2>3. a \in 1 .. Len(dr) /\ a <= i /\ a \in 1 .. (i + 1) - 1
    BY <1>1
  <2> DEFINE q == dr[a].path
  <2>4. q = SubSeq(p, 1, L - 1) /\ dr[a].placement = "Full"
    BY <2>2 DEF Hangs, Parent
  <2>5. CASE m = L - 1
    BY <2>3, <2>4, <2>5
  <2>6. CASE m # L - 1
    <3>1. L - 1 \in 0 .. L
      BY <2>1
    <3>2. SubSeq(p, 1, L - 1) \in Seq(Nat) /\ Len(SubSeq(p, 1, L - 1)) = L - 1
          /\ \A x \in 1 .. L - 1 : SubSeq(p, 1, L - 1)[x] = p[x]
      BY <2>1, <3>1, PrefixFacts
    <3>3. q \in Seq(Nat) /\ Len(q) = L - 1 /\ \A x \in 1 .. L - 1 : q[x] = p[x]
      BY <2>4, <3>2, Zenon
    <3>4. m \in 1 .. Len(q) - 1
      <4>1. m \in 1 .. L - 1 /\ m # L - 1 /\ L \in Nat /\ Len(q) = L - 1
        BY <2>1, <2>6, <3>3
      <4> HIDE DEF q, L
      <4> QED
        BY <4>1
    <3>5. PICK b \in 1 .. a - 1 : dr[b].path = SubSeq(q, 1, m) /\ dr[b].placement = "Full"
      <4>1. \A x \in 1 .. Len(dr[a].path) - 1 : Fully(a, x)
        <5> HIDE DEF Fully
        <5> QED
          BY <1>3, <2>3
      <4>2. Fully(a, m)
        <5> HIDE DEF Fully
        <5> QED
          BY <3>4, <4>1
      <4> HIDE DEF T
      <4> QED
        BY <4>2, Zenon
    <3>6. SubSeq(q, 1, m) = SubSeq(p, 1, m)
      <4>0. L \in Nat /\ Len(p) = L /\ Len(q) = L - 1 /\ m \in 1 .. Len(q) - 1
        BY <2>1, <3>3, <3>4
      <4> HIDE DEF q, p, L
      <4>1. m \in 0 .. Len(q) /\ m \in 0 .. Len(p) /\ \A x \in 1 .. m : x \in 1 .. L - 1
        BY <4>0
      <4> DEFINE u == SubSeq(q, 1, m)
                 v == SubSeq(p, 1, m)
      <4>2. u \in Seq(Nat) /\ Len(u) = m /\ \A x \in 1 .. m : u[x] = q[x]
        BY <3>3, <4>1, PrefixFacts
      <4>3. v \in Seq(Nat) /\ Len(v) = m /\ \A x \in 1 .. m : v[x] = p[x]
        BY <2>1, <4>1, PrefixFacts
      <4> HIDE DEF u, v
      <4>4. u = v
        BY <3>3, <4>1, <4>2, <4>3, SeqEqual
      <4> QED
        BY <4>4 DEF u, v
    <3>7. b \in 1 .. (i + 1) - 1
      BY <2>3
    <3> QED
      BY <3>5, <3>6, <3>7
  <2> QED
    BY <2>5, <2>6
<1> HIDE DEF Fully
<1>4. Nat \subseteq T
  <2> HIDE DEF T
  <2> QED
    BY <1>2, <1>3, SetInduction
<1>5. k \in Nat /\ k <= k
  BY <1>1
<1>6. Fully(k, n)
  BY <1>4, <1>5
<1> QED
  BY <1>6 DEF Fully

(* The row of a slot below a row that is shown in full.                    *)
LEMMA BelowARow ==
  ASSUME NEW g, NEW N, NEW dr, Listed(g, N, dr), NEW a \in 1 .. Len(dr), NEW k \in 1 .. Len(dr), NEW s,
         dr[k].path = Append(dr[a].path, s)
  PROVE  dr[k].node = g.edges[dr[a].node][s]
<1> DEFINE p == dr[k].path
           q == dr[a].path
<1>1. p \in Seq(Nat) /\ q \in Seq(Nat) /\ Len(q) \in Nat /\ Len(q) >= 1 /\ Len(dr) \in Nat
  <2>1. dr[k] \in Row(N) /\ dr[a] \in Row(N)
    BY DEF Listed
  <2> QED
    BY <2>1, RowFields, SMTT(30) DEF Listed
<1>2. p = Append(q, s)
  OBVIOUS
<1> HIDE DEF p, q
<1>3. Len(p) = Len(q) + 1 /\ p[Len(p)] = s /\ Parent(p) = q
  <2>1. Len(p) = Len(q) + 1 /\ p[Len(q) + 1] = s /\ \A i \in 1 .. Len(q) : p[i] = q[i]
    BY <1>1, <1>2
  <2>2. Len(p) - 1 \in 0 .. Len(p) /\ Len(p) - 1 = Len(q)
    BY <1>1, <2>1
  <2> DEFINE u == SubSeq(p, 1, Len(p) - 1)
  <2>3. u \in Seq(Nat) /\ Len(u) = Len(p) - 1 /\ \A i \in 1 .. Len(p) - 1 : u[i] = p[i]
    BY <1>1, <2>2, PrefixFacts
  <2> HIDE DEF u
  <2>4. u = q
    BY <1>1, <2>1, <2>2, <2>3, SeqEqual
  <2> QED
    BY <2>1, <2>4 DEF u, Parent
<1>4. PICK b \in 1 .. k - 1 : Hangs(g, dr, b, k)
  <2>1. Len(p) > 1
    BY <1>1, <1>3
  <2> QED
    BY <2>1 DEF Listed, p
<1>5. dr[b].path = q /\ dr[k].node = g.edges[dr[b].node][s]
  BY <1>3, <1>4 DEF Hangs, p
<1>6. b = a
  <2>1. b \in 1 .. Len(dr)
    BY <1>1
  <2> QED
    BY <1>5, <2>1 DEF Listed, q
<1> QED
  BY <1>5, <1>6

(* While the filter is on, only what it hides is hidden.                   *)
LEMMA OnlyPointers ==
  ASSUME NEW in, InputOK(in), NEW g, NEW N, NEW dr, Listed(g, N, dr), Honest(in, g, dr), NEW k \in 1 .. Len(dr),
         in.query # None, OpenedOf(in, g, dr[k].path), dr[k].placement # "Full"
  PROVE  \/ Pointed(in, g, Len(dr[k].path) - 1, dr[k].node)
         \/ \E a \in 1 .. k - 1, n \in 1 .. Len(dr[k].path) - 1 :
               dr[a].path = SubSeq(dr[k].path, 1, n) /\ dr[a].node = dr[k].node
<1>1. ~in.dedupe /\ in.depth = None
  BY DEF InputOK
<1>2. dr[k].placement \in Placements
  <2>1. dr[k] \in Row(N)
    BY DEF Listed
  <2> QED
    BY <2>1, RowFields
<1>3. HonestRow(in, g, dr, k)
  BY DEF Honest
<1>4. dr[k].placement \in {"Cycle", "Root"}
  BY <1>1, <1>2, <1>3 DEF HonestRow, Placements
<1> QED
  BY <1>3, <1>4 DEF HonestRow

(* A prefix of a path is a prefix of it.                                   *)
Cut(p, n, q) == p \in Seq(Nat) /\ n \in 1 .. Len(p) /\ q = SubSeq(p, 1, n)

(* A cut is a prefix, and a shorter one unless it is whole.                *)
LEMMA CutIsPrefix ==
  ASSUME NEW p, NEW n, NEW q, Cut(p, n, q)
  PROVE  IsPrefixOf(q, p) /\ q \in Seq(Nat) /\ Len(q) = n /\ (\A i \in 1 .. n : q[i] = p[i])
         /\ (n # Len(p) => q # p)
<1>0. p \in Seq(Nat) /\ n \in 1 .. Len(p)
  BY DEF Cut
<1>1. n \in 0 .. Len(p) /\ n <= Len(p)
  BY <1>0
<1>2. SubSeq(p, 1, n) \in Seq(Nat) /\ Len(SubSeq(p, 1, n)) = n /\ \A i \in 1 .. n : SubSeq(p, 1, n)[i] = p[i]
  BY <1>0, <1>1, PrefixFacts
<1> QED
  BY <1>0, <1>1, <1>2, Zenon DEF IsPrefixOf, Cut

(* Every step of a path the search found is a row.                         *)
LEMMA FoundIsShown ==
  ASSUME input \in Inputs, Built, Listed(graph, Nodes, drawn), Honest(input, graph, drawn),
         AllSeen(input, graph, drawn), input.query # None, NEW m \in graph.found
  PROVE  \E a \in 1 .. Len(drawn) : drawn[a].path = m
<1> DEFINE L == Len(m)
           Row1(n) == \E a \in 1 .. Len(drawn) : drawn[a].path = SubSeq(m, 1, n)
           T == {n \in Nat : n + 1 <= L => Row1(n + 1)}
<1>1. m \in Seq(Nat) /\ L \in Nat /\ L >= 1 /\ m[1] \in DOMAIN graph.roots
  BY FoundTrail
<1>2. PICK ms \in Seq(Nodes) : Follows(graph, m, ms) /\ Trail(graph, m, ms)
  BY FoundTrail
<1>3. WellFormed(graph, Nodes) /\ InputOK(input)
  BY BuiltWell, InputFacts
<1>4. /\ SubSeq(m, 1, 1) = <<m[1]>> /\ SubSeq(m, 1, L) = m
      /\ \A i \in 1 .. L : SubSeq(m, 1, i) = Append(SubSeq(m, 1, i - 1), m[i])
  BY <1>1, PrefixGrows
<1>5. \A n \in 1 .. L : KeptOf(input, graph, SubSeq(m, 1, n))
  <2> TAKE n \in 1 .. L
  <2>1. Cut(m, n, SubSeq(m, 1, n))
    BY <1>1 DEF Cut
  <2> QED
    BY <2>1, CutIsPrefix DEF KeptOf
<1>trails. \A b \in 1 .. Len(drawn) :
            \E ls \in Seq(Nodes) : Trail(graph, drawn[b].path, ls) /\ ls[Len(drawn[b].path)] = drawn[b].node
  BY <1>3, RowTrail
<1>6. 0 \in T
  <2>1. graph.roots \in Seq(Nodes)
    BY <1>3 DEF WellFormed
  <2>2. m[1] \in 1 .. Len(graph.roots)
    BY <1>1, <2>1
  <2>3. Seen(input, graph, drawn, <<m[1]>>)
    BY <2>2 DEF AllSeen
  <2>4. 1 \in 1 .. L
    BY <1>1
  <2> HIDE DEF L
  <2>5. Row1(1)
    BY <1>4, <1>5, <2>3, <2>4 DEF Seen
  <2> QED
    BY <2>5
<1>7. ASSUME NEW k \in Nat, k \in T PROVE k + 1 \in T
  <2> DEFINE n == k + 1
  <2>0. n \in Nat /\ n >= 1
    OBVIOUS
  <2>00. n <= L => Row1(n)
    BY <1>7
  <2> HIDE DEF n
  <2> SUFFICES ASSUME n + 1 <= L PROVE Row1(n + 1)
    BY DEF n
  <2>1. n \in 1 .. L - 1 /\ n \in 1 .. L /\ n + 1 \in 1 .. L /\ (n + 1) - 1 = n /\ n # L
    BY <1>1, <2>0
  <2>2. PICK a \in 1 .. Len(drawn) : drawn[a].path = SubSeq(m, 1, n)
    BY <2>00, <2>1
  <2> DEFINE p == drawn[a].path
             row == drawn[a]
  <2>3. IsPrefixOf(p, m) /\ p \in Seq(Nat) /\ Len(p) = n /\ (\A i \in 1 .. n : p[i] = m[i]) /\ p # m
    <3> HIDE DEF p
    <3>1. p = SubSeq(m, 1, n)
      BY <2>2 DEF p
    <3> QED
      <4>1. Cut(m, n, p)
        BY <1>1, <2>1, <3>1 DEF Cut
      <4> QED
        BY <2>1, <4>1, CutIsPrefix
  <2>4. PICK ns \in Seq(Nodes) : Trail(graph, p, ns) /\ ns[Len(p)] = row.node
    BY <1>3, RowTrail
  <2>5. row.node = ms[n]
    <3>1. Along(graph, Nodes, p, ns, m, ms)
      BY <1>1, <1>2, <2>0, <2>3, <2>4 DEF Along
    <3>2. \A i \in 1 .. Len(p) : ms[i] = ns[i]
      BY <3>1, TrailsAgree
    <3> HIDE DEF p, row
    <3> QED
      BY <2>0, <2>3, <2>4, <3>2
  <2>6. Goes(graph, ms, n) /\ m[n + 1] \in DOMAIN graph.edges[ms[n]]
    BY <1>2, <2>1 DEF Follows
  <2>7. row.placement = "Full"
    <3> SUFFICES ASSUME row.placement # "Full" PROVE FALSE
      OBVIOUS
    <3>1. OpenedOf(input, graph, p)
      BY <2>3 DEF OpenedOf
    <3>2. \/ Pointed(input, graph, Len(p) - 1, row.node)
          \/ \E b \in 1 .. a - 1, j \in 1 .. Len(p) - 1 :
                drawn[b].path = SubSeq(p, 1, j) /\ drawn[b].node = row.node
      BY <1>3, <3>1, OnlyPointers
    <3>3. CASE Pointed(input, graph, Len(p) - 1, row.node)
      <4>1. Len(p) - 1 > 0 /\ RootSlots(graph, row.node) # {}
        BY <3>3 DEF Pointed
      <4>2. n > 1
        <5> HIDE DEF p
        <5> QED
          BY <2>0, <2>3, <4>1
      <4> QED
        BY <2>5, <2>6, <4>1, <4>2 DEF Goes
    <3>4. CASE \E b \in 1 .. a - 1, j \in 1 .. Len(p) - 1 :
                  drawn[b].path = SubSeq(p, 1, j) /\ drawn[b].node = row.node
      <4>1. PICK b \in 1 .. a - 1, j \in 1 .. Len(p) - 1 :
                  drawn[b].path = SubSeq(p, 1, j) /\ drawn[b].node = row.node
        BY <3>4
      <4> DEFINE q == drawn[b].path
      <4>2. b \in 1 .. Len(drawn)
        <5>1. drawn \in Seq(Row(Nodes))
          BY DEF Listed
        <5>2. Len(drawn) \in Nat
          BY <5>1
        <5> QED
          BY <5>2
      <4>3. PICK ls \in Seq(Nodes) : Trail(graph, q, ls) /\ ls[Len(q)] = row.node
        <5>1. \E ls \in Seq(Nodes) : Trail(graph, drawn[b].path, ls) /\ ls[Len(drawn[b].path)] = drawn[b].node
          BY <1>trails, <4>2
        <5> QED
          BY <4>1, <5>1
      <4>4. j \in 1 .. n - 1 /\ j \in 1 .. Len(p) /\ j \in 1 .. n
        <5>1. j \in 1 .. Len(p) - 1
          OBVIOUS
        <5> HIDE DEF p
        <5> QED
          BY <2>0, <2>3, <5>1
      <4>5. IsPrefixOf(q, p) /\ q \in Seq(Nat) /\ Len(q) = j
        <5> HIDE DEF p, q
        <5>1. q = SubSeq(p, 1, j)
          BY <4>1 DEF p, q
        <5> QED
          <6>1. Cut(p, j, q)
            BY <2>3, <4>4, <5>1 DEF Cut
          <6> QED
            BY <6>1, CutIsPrefix
      <4>6. ns[j] = ls[j]
        <5> HIDE DEF p, q, row
        <5>1. Along(graph, Nodes, q, ls, p, ns)
          BY <2>3, <2>4, <4>3, <4>4, <4>5 DEF Along
        <5>2. \A i \in 1 .. Len(q) : ns[i] = ls[i]
          BY <5>1, TrailsAgree
        <5> QED
          BY <4>4, <4>5, <5>2
      <4>7. ms[j] = ns[j]
        <5> HIDE DEF p, q, row
        <5>1. Along(graph, Nodes, p, ns, m, ms)
          BY <1>1, <1>2, <2>0, <2>3, <2>4 DEF Along
        <5>2. \A i \in 1 .. Len(p) : ms[i] = ns[i]
          BY <5>1, TrailsAgree
        <5> QED
          BY <4>4, <5>2
      <4>8. ms[j] = ms[n]
        <5> HIDE DEF p, q, row
        <5> QED
          BY <2>5, <4>3, <4>5, <4>6, <4>7
      <4> QED
        BY <2>6, <4>4, <4>8 DEF Goes
    <3> QED
      BY <3>2, <3>3, <3>4
  <2>8. m[n + 1] \in 1 .. Len(graph.edges[row.node])
    <3>1. row.node \in Nodes
      <4>1. row \in Row(Nodes)
        BY DEF Listed
      <4> QED
        BY <4>1, RowFields
    <3>2. graph.edges[row.node] \in Seq(Nodes)
      BY <1>3, <3>1 DEF WellFormed
    <3> HIDE DEF row
    <3> QED
      BY <2>5, <2>6, <3>2
  <2>9. Seen(input, graph, drawn, Append(p, m[n + 1]))
    BY <2>7, <2>8 DEF AllSeen
  <2>10. Append(p, m[n + 1]) = SubSeq(m, 1, n + 1)
    BY <1>4, <2>1, <2>2
  <2> HIDE DEF p, row, L
  <2> QED
    BY <1>5, <2>1, <2>9, <2>10 DEF Seen
<1> HIDE DEF T
<1>8. Nat \subseteq T
  BY <1>6, <1>7, SetInduction
<1>9. Row1(L)
  <2>1. L - 1 \in Nat /\ (L - 1) + 1 = L /\ L <= L
    BY <1>1
  <2> HIDE DEF L, Row1
  <2>2. L - 1 \in T
    BY <1>8, <2>1
  <2> QED
    BY <2>1, <2>2 DEF T
<1> QED
  BY <1>4, <1>9

(* The path p with trail ns is one the search visits, and it ends at x.    *)
Leads(g, N, x, p, ns) ==
  /\ p \in Seq(Nat) /\ Len(p) >= 1 /\ p[1] \in DOMAIN g.roots
  /\ ns \in Seq(N) /\ Follows(g, p, ns) /\ ns[Len(p)] = x

Met(g, N) ==
  {x \in N : \E p \in Seq(Nat), ns \in Seq(N) : Leads(g, N, x, p, ns) /\ Len(p) <= MaxSearch}

(* The search visits every root.                                           *)
LEMMA RootLeads ==
  ASSUME NEW g, NEW N, g.roots \in Seq(N), NEW r \in DOMAIN g.roots
  PROVE  Leads(g, N, g.roots[r], <<r>>, <<g.roots[r]>>) /\ Goes(g, <<g.roots[r]>>, 1)
<1> DEFINE p == <<r>>
           ns == <<g.roots[r]>>
<1>1. r \in Nat /\ g.roots[r] \in N
  OBVIOUS
<1>2. p \in Seq(Nat) /\ Len(p) = 1 /\ p[1] = r /\ ns \in Seq(N) /\ Len(ns) = 1 /\ ns[1] = g.roots[r]
  BY <1>1
<1> HIDE DEF p, ns
<1>3. 1 .. 1 - 1 = {}
  OBVIOUS
<1>4. Leads(g, N, g.roots[r], p, ns)
  BY <1>2, <1>3 DEF Leads, Follows, Trail
<1>5. Goes(g, ns, 1)
  BY <1>3 DEF Goes
<1> QED
  BY <1>4, <1>5 DEF p, ns

(* What the search meets it meets on a path that it goes on from: where    *)
(* it stops, it has been there, or a root's tree is there.                 *)
LEMMA MetWhereItGoesOn ==
  ASSUME NEW g, NEW N, g.roots \in Seq(N), MaxSearch \in Nat, NEW x \in Met(g, N)
  PROVE  \E p \in Seq(Nat), ns \in Seq(N) :
            Leads(g, N, x, p, ns) /\ Len(p) <= MaxSearch /\ Goes(g, ns, Len(p))
<1>1. PICK p \in Seq(Nat), ns \in Seq(N) : Leads(g, N, x, p, ns) /\ Len(p) <= MaxSearch
  BY DEF Met
<1> DEFINE L == Len(p)
<1>2. /\ p[1] \in DOMAIN g.roots /\ Follows(g, p, ns) /\ Trail(g, p, ns) /\ ns[L] = x
      /\ L \in Nat /\ L >= 1 /\ L <= MaxSearch
  <2>1. p[1] \in DOMAIN g.roots /\ Follows(g, p, ns) /\ ns[L] = x /\ L >= 1 /\ L <= MaxSearch
    BY <1>1 DEF Leads
  <2> QED
    BY <1>1, <2>1 DEF Follows
<1>3. CASE Goes(g, ns, L)
  BY <1>1, <1>3
<1>4. CASE RootSlots(g, x) # {}
  <2>1. PICK r \in DOMAIN g.roots : g.roots[r] = x
    BY <1>4 DEF RootSlots
  <2> DEFINE q == <<r>>
             ms == <<g.roots[r]>>
  <2>2. r \in Nat /\ g.roots[r] \in N
    BY <2>1
  <2>3. q \in Seq(Nat) /\ Len(q) = 1 /\ ms \in Seq(N)
    BY <2>2
  <2>4. Leads(g, N, x, q, ms) /\ Goes(g, ms, 1)
    BY <2>1, RootLeads
  <2> HIDE DEF q, ms
  <2>5. Goes(g, ms, Len(q)) /\ Len(q) <= MaxSearch
    BY <1>2, <2>3, <2>4
  <2> QED
    BY <2>3, <2>4, <2>5
<1>5. CASE \E j \in 1 .. L - 1 : ns[j] = ns[L]
  <2>1. PICK j \in 1 .. L - 1 : ns[j] = x
    BY <1>2, <1>5
  <2> DEFINE q == SubSeq(p, 1, j)
             ms == SubSeq(ns, 1, j)
  <2>2. j \in 1 .. L /\ j # L /\ j <= MaxSearch /\ j >= 1 /\ j \in 1 .. j /\ 1 \in 1 .. j
    BY <1>2
  <2>3. CutsAt(g, N, p, ns, j, q, ms)
    BY <1>1, <1>2, <2>2 DEF CutsAt
  <2> HIDE DEF q, ms
  <2>4. Follows(g, q, ms) /\ Goes(g, ms, j)
    BY <1>2, <2>2, <2>3, FollowsUpTo
  <2>5. q \in Seq(Nat) /\ ms \in Seq(N) /\ Len(q) = j /\ \A i \in 1 .. j : q[i] = p[i] /\ ms[i] = ns[i]
    <3>1. /\ Trail(g, q, ms) /\ q \in Seq(Nat) /\ ms \in Seq(N) /\ Len(q) = j /\ Len(ms) = j
          /\ \A i \in 1 .. j : q[i] = p[i] /\ ms[i] = ns[i]
      BY <2>3, TrailUpTo
    <3> QED
      BY <3>1
  <2>6. Leads(g, N, x, q, ms)
    <3>1. Len(q) >= 1 /\ q[1] \in DOMAIN g.roots /\ ms[Len(q)] = x
      BY <1>2, <2>1, <2>2, <2>5
    <3> QED
      BY <2>4, <2>5, <3>1 DEF Leads
  <2> QED
    BY <2>2, <2>4, <2>5, <2>6
<1>6. Goes(g, ns, L) \/ RootSlots(g, x) # {} \/ \E j \in 1 .. L - 1 : ns[j] = ns[L]
  BY <1>2 DEF Goes
<1> QED
  BY <1>3, <1>4, <1>5, <1>6

(* A path the search goes on from is a chain.                              *)
LEMMA SearchIsChain ==
  ASSUME NEW g, NEW N, WellFormed(g, N), NEW p \in Seq(Nat), NEW ns \in Seq(N),
         Follows(g, p, ns), Goes(g, ns, Len(p))
  PROVE  ~NoChain(g.edges, Len(p))
<1> DEFINE L == Len(p)
           c == [i \in 1 .. L |-> ns[i]]
<1>1. L \in Nat /\ Len(ns) = L /\ Trail(g, p, ns)
  BY DEF Follows, Trail
<1>2. DOMAIN g.edges = N /\ \A n \in N : g.edges[n] \in Seq(N)
  BY DEF WellFormed
<1>3. \A i \in 1 .. L : ns[i] \in N
  BY <1>1
<1>4. c \in [1 .. L -> DOMAIN g.edges] /\ \A i \in 1 .. L : c[i] = ns[i]
  BY <1>2, <1>3
<1>5. \A i \in 1 .. L : Goes(g, ns, i)
  <2> TAKE i \in 1 .. L
  <2>1. i = L \/ i \in 1 .. L - 1
    BY <1>1
  <2> QED
    BY <2>1 DEF Follows
<1> HIDE DEF c, L
<1>6. ASSUME NEW i \in 1 .. L, NEW j \in 1 .. L, ns[i] = ns[j] PROVE i = j
  <2>1. ASSUME NEW x \in 1 .. L, NEW y \in 1 .. L, ns[x] = ns[y] PROVE ~(x < y)
    <3> SUFFICES ASSUME x < y PROVE FALSE
      OBVIOUS
    <3>1. x \in 1 .. y - 1
      BY <1>1
    <3> QED
      BY <1>5, <2>1, <3>1 DEF Goes
  <2>2. ~(i < j) /\ ~(j < i)
    BY <1>6, <2>1
  <2> QED
    BY <1>1, <2>2
<1>7. ASSUME NEW i \in 1 .. L - 1 PROVE ns[i + 1] \in Elements(g.edges[ns[i]])
  <2>1. p[i + 1] \in DOMAIN g.edges[ns[i]] /\ ns[i + 1] = g.edges[ns[i]][p[i + 1]]
    BY DEF Follows, Trail, L
  <2> QED
    BY <2>1 DEF Elements
<1>8. \A i \in 1 .. L - 1 : i \in 1 .. L /\ i + 1 \in 1 .. L
  BY <1>1
<1>9. /\ \A i, j \in 1 .. L : c[i] = c[j] => i = j
      /\ \A i \in 1 .. L - 1 : c[i + 1] \in Elements(g.edges[c[i]])
  BY <1>4, <1>6, <1>7, <1>8
<1> QED
  BY <1>4, <1>9 DEF NoChain, L

(* What depends on what the search meets, it meets.                        *)
LEMMA MetBelow ==
  ASSUME NEW g, NEW N, WellFormed(g, N), MaxSearch \in Nat, NoChain(g.edges, MaxSearch),
         NEW x \in Met(g, N), NEW y \in Elements(g.edges[x])
  PROVE  y \in Met(g, N)
<1>1. g.roots \in Seq(N) /\ x \in N /\ g.edges[x] \in Seq(N)
  BY DEF WellFormed, Met
<1>2. PICK p \in Seq(Nat), ns \in Seq(N) :
         Leads(g, N, x, p, ns) /\ Len(p) <= MaxSearch /\ Goes(g, ns, Len(p))
  BY <1>1, MetWhereItGoesOn
<1> DEFINE L == Len(p)
<1>3. /\ L >= 1 /\ p[1] \in DOMAIN g.roots /\ Follows(g, p, ns) /\ Trail(g, p, ns) /\ ns[L] = x
      /\ Goes(g, ns, L) /\ L <= MaxSearch
  BY <1>2 DEF Leads, Follows
<1>4. L \in Nat
  OBVIOUS
<1>5. L < MaxSearch
  <2>1. L # MaxSearch
    BY <1>3, SearchIsChain
  <2> HIDE DEF L
  <2> QED
    BY <1>3, <1>4, <2>1
<1>6. PICK s \in DOMAIN g.edges[x] : y = g.edges[x][s]
  BY DEF Elements
<1>7. s \in Nat /\ y \in N
  BY <1>1, <1>6
<1> DEFINE q == Append(p, s)
           ms == Append(ns, y)
<1>8. GoesOn(g, N, p, ns, s, y, q, ms)
  BY <1>2, <1>3, <1>6, <1>7 DEF GoesOn
<1> HIDE DEF q, ms
<1>9. /\ q \in Seq(Nat) /\ ms \in Seq(N) /\ Len(q) = L + 1 /\ ms[L + 1] = y
      /\ \A i \in 1 .. L : q[i] = p[i]
  BY <1>8, TrailOn
<1>10. Follows(g, q, ms)
  BY <1>3, <1>6, <1>8, FollowsOn
<1>11. Leads(g, N, y, q, ms) /\ Len(q) <= MaxSearch
  <2>1. Len(q) >= 1 /\ Len(q) <= MaxSearch /\ 1 \in 1 .. L
    <3> HIDE DEF L
    <3> QED
      BY <1>3, <1>4, <1>5, <1>9
  <2> QED
    BY <1>3, <1>9, <1>10, <2>1 DEF Leads
<1> QED
  BY <1>7, <1>9, <1>11 DEF Met

(* The search meets every package the roots reach.                         *)
LEMMA ReachableIsMet ==
  ASSUME input \in Inputs, Built, LockedOnce(input), NoChain(graph.edges, MaxSearch)
  PROVE  Reachable \subseteq Met(graph, Nodes)
<1>1. WellFormed(graph, Nodes) /\ MaxSearch \in Nat /\ graph.roots \in Seq(Nodes)
  BY BuiltWell, GraphAssumption DEF WellFormed
<1>2. \A i \in Nodes : Elements(graph.edges[i]) = DependsOn(i)
  <2>1. \A i \in Nodes : Elements(GraphOf(input).edges[i]) = DependsOf(input, i)
    BY InputFacts, GraphShape DEF Nodes
  <2> QED
    BY <2>1 DEF Built, DependsOf, DependsOn, Nodes
<1>3. MaxSearch >= 1
  <2> SUFFICES ASSUME MaxSearch = 0 PROVE FALSE
    BY <1>1
  <2> DEFINE c == [i \in 1 .. 0 |-> i]
  <2>1. 1 .. 0 = {} /\ 1 .. 0 - 1 = {}
    OBVIOUS
  <2>2. c \in [1 .. 0 -> DOMAIN graph.edges]
    BY <2>1
  <2> HIDE DEF c
  <2> QED
    BY <2>1, <2>2 DEF NoChain
<1>4. Elements(graph.roots) \subseteq Met(graph, Nodes)
  <2>1. ASSUME NEW r \in DOMAIN graph.roots PROVE graph.roots[r] \in Met(graph, Nodes)
    <3> DEFINE p == <<r>>
               ns == <<graph.roots[r]>>
    <3>1. r \in Nat /\ graph.roots[r] \in Nodes
      BY <1>1
    <3>2. p \in Seq(Nat) /\ Len(p) = 1 /\ ns \in Seq(Nodes)
      BY <3>1
    <3>3. Leads(graph, Nodes, graph.roots[r], p, ns)
      BY <1>1, RootLeads
    <3> HIDE DEF p, ns
    <3> QED
      BY <1>3, <3>1, <3>2, <3>3 DEF Met
  <2> QED
    BY <2>1 DEF Elements
<1>5. \A i \in Met(graph, Nodes) \cap Nodes : DependsOn(i) \subseteq Met(graph, Nodes)
  BY <1>1, <1>2, MetBelow
<1> QED
  BY <1>4, <1>5, ReachableIs

(* A walk that is done has a row for every match.                          *)
LEMMA MatchesHold ==
  ASSUME \A in \in Inputs : in.query # None => LockedOnce(in) /\ NoChain(GraphOf(in).edges, MaxSearch)
  PROVE  WalkInv => EveryMatchShown
<1> SUFFICES ASSUME WalkInv, pc = "done", input.query # None, ~truncated
             PROVE  /\ \A i \in Reachable : input.packages[i].name \in input.query =>
                          \E k \in DOMAIN drawn : drawn[k].node = i
                    /\ \A path \in graph.found : Shown(path)
                    /\ \A k \in DOMAIN drawn :
                          \E path \in graph.found : IsPrefixOf(drawn[k].path, path)
  BY DEF EveryMatchShown
<1>1. /\ input \in Inputs /\ Built /\ WellFormed(graph, Nodes)
      /\ Listed(graph, Nodes, drawn) /\ Honest(input, graph, drawn) /\ AllSeen(input, graph, drawn)
  BY WalkedAll
<1>2. DOMAIN drawn = 1 .. Len(drawn)
  <2>1. drawn \in Seq(Row(Nodes))
    BY <1>1 DEF Listed
  <2> QED
    BY <2>1
<1>3. LockedOnce(input) /\ NoChain(graph.edges, MaxSearch)
  BY <1>1 DEF Built
<1>4. ASSUME NEW m \in graph.found PROVE \E a \in 1 .. Len(drawn) : drawn[a].path = m
  BY <1>1, FoundIsShown
<1>5. \A path \in graph.found : Shown(path)
  BY <1>2, <1>4 DEF Shown
<1>6. ASSUME NEW i \in Reachable, input.packages[i].name \in input.query
      PROVE  \E k \in DOMAIN drawn : drawn[k].node = i
  <2>1. i \in Met(graph, Nodes)
    BY <1>1, <1>3, ReachableIsMet
  <2>2. PICK p \in Seq(Nat), ns \in Seq(Nodes) : Leads(graph, Nodes, i, p, ns) /\ Len(p) <= MaxSearch
    BY <2>1 DEF Met
  <2>3. /\ Follows(graph, p, ns) /\ Trail(graph, p, ns) /\ ns[Len(p)] = i
        /\ Len(p) >= 1 /\ Len(p) \in Nat /\ p[1] \in DOMAIN graph.roots
    BY <2>2 DEF Leads, Follows
  <2>4. NodesOn(graph, p) = ns
    BY <2>2, <2>3, NodesOnTrail
  <2>5. SearchPath(graph, Nodes, p)
    BY <2>2, <2>3 DEF SearchPath
  <2>6. p \in graph.found
    BY <1>1, <1>6, <2>2, <2>3, <2>4, <2>5, FoundIs
  <2>7. PICK a \in 1 .. Len(drawn) : drawn[a].path = p
    BY <1>4, <2>6
  <2>8. PICK ls \in Seq(Nodes) : Trail(graph, drawn[a].path, ls) /\ ls[Len(drawn[a].path)] = drawn[a].node
    BY <1>1, RowTrail
  <2>9. Trail(graph, p, ls) /\ ls[Len(p)] = drawn[a].node
    BY <2>7, <2>8
  <2>10. NodesOn(graph, p) = ls
    BY <2>2, <2>3, <2>8, <2>9, NodesOnTrail
  <2> QED
    BY <1>2, <2>3, <2>4, <2>9, <2>10
<1>7. ASSUME NEW k \in DOMAIN drawn PROVE \E path \in graph.found : IsPrefixOf(drawn[k].path, path)
  BY <1>1, <1>2 DEF Honest, HonestRow, KeptOf
<1> QED
  BY <1>5, <1>6, <1>7

(* MatchesAreShown -- when a lockfile that is searched locks no package    *)
(* twice and has no chain of dependencies as deep as the search goes       *)
(* (MAX_SEARCH_DEPTH), every package the roots reach and the search box    *)
(* matches has a row, as has every path the search found, and every row    *)
(* leads to one of those.                                                  *)
THEOREM MatchesAreShown ==
  ASSUME \A in \in Inputs : in.query # None => LockedOnce(in) /\ NoChain(GraphOf(in).edges, MaxSearch)
  PROVE  Spec => []EveryMatchShown
BY WalkInvariant, MatchesHold, PTL

(* Of a tree drawn whole: no filter, no depth, nothing closed.             *)
Whole(in) == {in.depth, in.opened, in.query} = {None}

(* A package that is drawn is drawn once with its dependencies.            *)
LEMMA SomewhereFull ==
  ASSUME input \in Inputs, Built, Whole(input), Listed(graph, Nodes, drawn), Honest(input, graph, drawn),
         AllSeen(input, graph, drawn), NEW k \in 1 .. Len(drawn)
  PROVE  \E a \in 1 .. Len(drawn) : drawn[a].node = drawn[k].node /\ drawn[a].placement = "Full"
<1> DEFINE row == drawn[k]
<1>0. drawn \in Seq(Row(Nodes)) /\ WellFormed(graph, Nodes)
  BY BuiltWell DEF Listed
<1>1. /\ Len(drawn) \in Nat /\ DOMAIN drawn = 1 .. Len(drawn)
      /\ \A l \in 1 .. Len(drawn) : drawn[l].placement \in Placements
  BY <1>0, RowFields
<1>2. input.depth = None /\ input.opened = None /\ input.query = None
  BY DEF Whole
<1>3. ASSUME NEW l \in 1 .. Len(drawn) PROVE drawn[l].placement \in {"Cycle", "Root", "Repeat", "Full"}
  <2>1. HonestRow(input, graph, drawn, l)
    BY DEF Honest
  <2>2. OpenedOf(input, graph, drawn[l].path)
    BY <1>2 DEF OpenedOf
  <2> QED
    BY <1>1, <1>2, <2>1, <2>2 DEF HonestRow, Placements
<1>4. CASE row.placement = "Full"
  BY <1>4
<1>5. CASE row.placement = "Repeat"
  <2>1. PICK a \in 1 .. k - 1 : drawn[a].node = row.node /\ drawn[a].placement = "Full"
    BY <1>5 DEF Honest, HonestRow
  <2>2. a \in 1 .. Len(drawn)
    BY <1>1
  <2> QED
    BY <2>1, <2>2
<1>6. CASE row.placement = "Cycle"
  <2>1. PICK a \in 1 .. k - 1, n \in 1 .. Len(row.path) - 1 :
           drawn[a].path = SubSeq(row.path, 1, n) /\ drawn[a].node = row.node
    BY <1>6 DEF Honest, HonestRow
  <2>2. PICK b \in 1 .. k - 1 : drawn[b].path = SubSeq(row.path, 1, n) /\ drawn[b].placement = "Full"
    BY AboveIsFull
  <2>3. a \in 1 .. Len(drawn) /\ b \in 1 .. Len(drawn)
    BY <1>1
  <2>4. a = b
    BY <2>1, <2>2, <2>3 DEF Listed
  <2> QED
    BY <2>1, <2>2, <2>3, <2>4
<1>7. CASE row.placement = "Root"
  <2> DEFINE Q == RootSlots(graph, row.node)
  <2>1. Q # {}
    BY <1>7 DEF Honest, HonestRow, Pointed
  <2>2. Q \subseteq Nat /\ \A q \in Q : q \in DOMAIN graph.roots /\ graph.roots[q] = row.node
    <3>1. graph.roots \in Seq(Nodes)
      BY <1>0 DEF WellFormed
    <3> QED
      BY <3>1 DEF RootSlots
  <2> HIDE DEF Q
  <2>3. PICK r \in Q : \A q \in Q : r <= q
    BY <2>1, <2>2, LeastNat
  <2>4. Shown(<<r>>)
    BY <1>7, PointerLeads DEF Q
  <2>5. PICK a \in 1 .. Len(drawn) : drawn[a].path = <<r>>
    BY <1>1, <2>4 DEF Shown
  <2>6. Len(drawn[a].path) = 1 /\ drawn[a].path[1] = r
    BY <2>5
  <2>7. drawn[a].node = row.node
    BY <2>2, <2>6 DEF Listed
  <2>8. \A q \in RootSlots(graph, drawn[a].node) : drawn[a].path[1] <= q
    BY <2>3, <2>6, <2>7 DEF Q
  <2>9. drawn[a].placement \in {"Full", "Depth", "Collapsed"}
    BY <2>6, <2>8 DEF Honest, HonestRow
  <2>10. drawn[a].placement = "Full"
    BY <1>3, <2>9
  <2> QED
    BY <2>7, <2>10
<1> QED
  BY <1>3, <1>4, <1>5, <1>6, <1>7

(* The row of each dependency of a row shown in full.                      *)
LEMMA DependencyDrawn ==
  ASSUME input \in Inputs, Built, Whole(input), Listed(graph, Nodes, drawn), AllSeen(input, graph, drawn),
         NEW a \in 1 .. Len(drawn), drawn[a].placement = "Full", NEW y \in Elements(graph.edges[drawn[a].node])
  PROVE  \E k \in 1 .. Len(drawn) :
            Len(drawn[k].path) > 1 /\ Parent(drawn[k].path) = drawn[a].path /\ drawn[k].node = y
<1>1. drawn[a] \in Row(Nodes) /\ WellFormed(graph, Nodes)
  BY BuiltWell DEF Listed
<1> DEFINE p == drawn[a].path
           x == drawn[a].node
<1>2. p \in Seq(Nat) /\ x \in Nodes /\ Len(p) \in Nat /\ Len(p) >= 1
  BY <1>1, RowFields DEF Listed
<1>3. graph.edges[x] \in Seq(Nodes)
  BY <1>1, <1>2 DEF WellFormed
<1>4. PICK s \in DOMAIN graph.edges[x] : y = graph.edges[x][s]
  BY DEF Elements
<1>5. s \in 1 .. Len(graph.edges[x]) /\ s \in Nat
  BY <1>3
<1>6. KeptOf(input, graph, Append(p, s))
  BY DEF KeptOf, Whole
<1>7. PICK k \in 1 .. Len(drawn) : drawn[k].path = Append(p, s)
  BY <1>5, <1>6 DEF AllSeen, Seen
<1>8. drawn[k].node = y
  BY <1>4, <1>7, BelowARow
<1> DEFINE q == drawn[k].path
<1>9. q = Append(p, s)
  BY <1>7
<1> HIDE DEF p, q
<1>10. Len(q) > 1 /\ Parent(q) = p
  <2>1. q \in Seq(Nat) /\ Len(q) = Len(p) + 1 /\ \A i \in 1 .. Len(p) : q[i] = p[i]
    BY <1>2, <1>5, <1>9
  <2>2. Len(q) - 1 \in 0 .. Len(q) /\ Len(q) - 1 = Len(p) /\ Len(q) > 1
    BY <1>2, <2>1
  <2> DEFINE u == SubSeq(q, 1, Len(q) - 1)
  <2>3. u \in Seq(Nat) /\ Len(u) = Len(q) - 1 /\ \A i \in 1 .. Len(q) - 1 : u[i] = q[i]
    BY <2>1, <2>2, PrefixFacts
  <2> HIDE DEF u
  <2>4. u = p
    BY <1>2, <2>1, <2>2, <2>3, SeqEqual
  <2> QED
    BY <2>2, <2>4 DEF u, Parent
<1> QED
  BY <1>8, <1>10 DEF p, q

(* A walk that is done draws the dependencies that can be reached.         *)
LEMMA EdgesHold ==
  ASSUME \A in \in Inputs : LockedOnce(in)
  PROVE  WalkInv => EveryEdgeDrawn
<1> SUFFICES ASSUME WalkInv, pc = "done", Whole(input), ~truncated
             PROVE  /\ {drawn[i].node : i \in DOMAIN drawn} = Reachable
                    /\ DrawnEdges = {e \in Reachable \X Nodes : e[2] \in DependsOn(e[1])}
  BY DEF EveryEdgeDrawn, Whole
<1>1. /\ input \in Inputs /\ Built /\ WellFormed(graph, Nodes)
      /\ Listed(graph, Nodes, drawn) /\ Honest(input, graph, drawn) /\ AllSeen(input, graph, drawn)
  BY WalkedAll
<1>2. drawn \in Seq(Row(Nodes)) /\ DOMAIN drawn = 1 .. Len(drawn) /\ Len(drawn) \in Nat
  <2>1. drawn \in Seq(Row(Nodes))
    BY <1>1 DEF Listed
  <2> QED
    BY <2>1
<1>3. \A i \in Nodes : Elements(graph.edges[i]) = DependsOn(i)
  <2>1. \A i \in Nodes : Elements(GraphOf(input).edges[i]) = DependsOf(input, i)
    BY <1>1, InputFacts, GraphShape DEF Nodes
  <2> QED
    BY <1>1, <2>1 DEF Built, DependsOf, DependsOn, Nodes
<1>4. \A i \in 1 .. Len(drawn) : drawn[i].node \in Nodes /\ drawn[i].path \in Seq(Nat) /\ Len(drawn[i].path) \in Nat
  BY <1>2, RowFields
<1> DEFINE D == {drawn[i].node : i \in DOMAIN drawn}
<1>5. ASSUME NEW x \in D PROVE \E a \in 1 .. Len(drawn) : drawn[a].node = x /\ drawn[a].placement = "Full"
  <2>1. PICK i \in 1 .. Len(drawn) : drawn[i].node = x
    BY <1>2
  <2> QED
    BY <1>1, <2>1, SomewhereFull
<1>6. ASSUME NEW a \in 1 .. Len(drawn), drawn[a].placement = "Full", NEW y \in Elements(graph.edges[drawn[a].node])
      PROVE  \E k \in 1 .. Len(drawn) :
                Len(drawn[k].path) > 1 /\ Parent(drawn[k].path) = drawn[a].path /\ drawn[k].node = y
  BY <1>1, <1>6, DependencyDrawn
<1>7. Reachable \subseteq D
  <2>1. ASSUME NEW r \in DOMAIN graph.roots PROVE graph.roots[r] \in D
    <3>1. graph.roots \in Seq(Nodes)
      BY <1>1 DEF WellFormed
    <3>2. r \in 1 .. Len(graph.roots)
      BY <3>1
    <3>3. KeptOf(input, graph, <<r>>)
      BY DEF KeptOf, Whole
    <3>4. PICK a \in 1 .. Len(drawn) : drawn[a].path = <<r>>
      BY <1>1, <3>2, <3>3 DEF AllSeen, Seen
    <3>5. Len(drawn[a].path) = 1 /\ drawn[a].path[1] = r
      BY <3>4
    <3>6. drawn[a].node = graph.roots[r]
      BY <1>1, <3>5 DEF Listed
    <3> QED
      BY <1>2, <3>6
  <2>2. Elements(graph.roots) \subseteq D
    BY <2>1 DEF Elements
  <2>3. ASSUME NEW x \in D \cap Nodes, NEW y \in DependsOn(x) PROVE y \in D
    <3>1. PICK a \in 1 .. Len(drawn) : drawn[a].node = x /\ drawn[a].placement = "Full"
      BY <1>5
    <3>2. y \in Elements(graph.edges[drawn[a].node])
      BY <1>3, <3>1
    <3>3. PICK k \in 1 .. Len(drawn) : drawn[k].node = y
      BY <1>6, <3>1, <3>2
    <3> QED
      BY <1>2, <3>3
  <2> HIDE DEF D
  <2> QED
    BY <1>1, <2>2, <2>3, ReachableIs
<1>8. ASSUME NEW k \in 1 .. Len(drawn), Len(drawn[k].path) > 1
      PROVE  \E a \in 1 .. k - 1 :
                /\ a \in 1 .. Len(drawn) /\ drawn[a].path = Parent(drawn[k].path)
                /\ drawn[k].node \in DependsOn(drawn[a].node)
  <2>1. PICK a \in 1 .. k - 1 : Hangs(graph, drawn, a, k)
    BY <1>1, <1>8 DEF Listed
  <2>2. a \in 1 .. Len(drawn)
    BY <1>2
  <2> DEFINE E == graph.edges[drawn[a].node]
             s == drawn[k].path[Len(drawn[k].path)]
  <2>3. drawn[a].path = Parent(drawn[k].path) /\ s \in 1 .. Len(E) /\ drawn[k].node = E[s]
    BY <2>1 DEF Hangs
  <2>4. drawn[a].node \in Nodes /\ E \in Seq(Nodes)
    BY <1>1, <1>4, <2>2 DEF WellFormed
  <2>5. drawn[k].node \in Elements(E)
    <3> HIDE DEF E, s
    <3>1. s \in DOMAIN E
      BY <2>3, <2>4
    <3> QED
      BY <2>3, <3>1 DEF Elements
  <2> QED
    BY <1>3, <2>2, <2>3, <2>4, <2>5
<1>9. D \subseteq Reachable
  <2> DEFINE T == {n \in Nat : \A k \in 1 .. Len(drawn) : k <= n => drawn[k].node \in Reachable}
  <2>1. 0 \in T
    OBVIOUS
  <2>2. ASSUME NEW n \in Nat, n \in T PROVE n + 1 \in T
    <3> SUFFICES ASSUME n + 1 \in 1 .. Len(drawn) PROVE drawn[n + 1].node \in Reachable
      <4>1. \A k \in 1 .. Len(drawn) : k <= n + 1 => k <= n \/ k = n + 1
        BY <1>2
      <4> QED
        BY <2>2, <4>1
    <3>1. CASE Len(drawn[n + 1].path) = 1
      <4>1. /\ drawn[n + 1].path[1] \in 1 .. Len(graph.roots)
            /\ drawn[n + 1].node = graph.roots[drawn[n + 1].path[1]]
        BY <1>1, <3>1 DEF Listed
      <4>2. graph.roots \in Seq(Nodes)
        BY <1>1 DEF WellFormed
      <4>3. drawn[n + 1].path[1] \in DOMAIN graph.roots
        BY <4>1, <4>2
      <4>4. drawn[n + 1].node \in Elements(graph.roots)
        BY <4>1, <4>3 DEF Elements
      <4> QED
        BY <1>1, <4>4, ReachableIs
    <3>2. CASE Len(drawn[n + 1].path) > 1
      <4>1. PICK a \in 1 .. (n + 1) - 1 :
                /\ a \in 1 .. Len(drawn) /\ drawn[a].path = Parent(drawn[n + 1].path)
                /\ drawn[n + 1].node \in DependsOn(drawn[a].node)
        BY <1>8, <3>2
      <4>2. a <= n
        OBVIOUS
      <4>3. drawn[a].node \in Reachable
        BY <2>2, <4>1, <4>2
      <4> QED
        BY <1>1, <4>1, <4>3, ReachableIs
    <3>3. Len(drawn[n + 1].path) >= 1 /\ Len(drawn[n + 1].path) \in Nat
      BY <1>1, <1>4 DEF Listed
    <3>4. Len(drawn[n + 1].path) = 1 \/ Len(drawn[n + 1].path) > 1
      <4> DEFINE L == Len(drawn[n + 1].path)
      <4>1. L >= 1 /\ L \in Nat
        BY <3>3
      <4> HIDE DEF L
      <4>2. L = 1 \/ L > 1
        BY <4>1
      <4> QED
        BY <4>2 DEF L
    <3> QED
      BY <3>1, <3>2, <3>4
  <2> HIDE DEF T
  <2>3. Nat \subseteq T
    BY <2>1, <2>2, SetInduction
  <2>4. ASSUME NEW k \in 1 .. Len(drawn) PROVE drawn[k].node \in Reachable
    <3>1. k \in Nat /\ k <= k
      BY <1>2
    <3> QED
      BY <2>3, <3>1 DEF T
  <2> QED
    BY <1>2, <2>4
<1>10. D = Reachable
  BY <1>7, <1>9
<1>11. ASSUME NEW a \in 1 .. Len(drawn) PROVE RowAt(drawn[a].path) = a
  <2>1. RowAt(drawn[a].path) \in DOMAIN drawn /\ drawn[RowAt(drawn[a].path)].path = drawn[a].path
    BY <1>2 DEF RowAt
  <2> QED
    BY <1>1, <1>2, <2>1 DEF Listed
<1> DEFINE F == {e \in Reachable \X Nodes : e[2] \in DependsOn(e[1])}
<1>12. DrawnEdges \subseteq F
  <2> SUFFICES ASSUME NEW e \in DrawnEdges PROVE e \in F
    OBVIOUS
  <2>1. PICK k \in DOMAIN drawn : /\ Len(drawn[k].path) > 1
                                  /\ e = <<drawn[RowAt(Parent(drawn[k].path))].node, drawn[k].node>>
    BY DEF DrawnEdges
  <2>2. k \in 1 .. Len(drawn)
    BY <1>2
  <2>3. PICK a \in 1 .. k - 1 :
           /\ a \in 1 .. Len(drawn) /\ drawn[a].path = Parent(drawn[k].path)
           /\ drawn[k].node \in DependsOn(drawn[a].node)
    BY <1>8, <2>1, <2>2
  <2>4. e = <<drawn[a].node, drawn[k].node>>
    BY <1>11, <2>1, <2>3
  <2>5. drawn[a].node \in Reachable /\ drawn[k].node \in Nodes
    BY <1>2, <1>4, <1>10, <2>2, <2>3
  <2> QED
    BY <2>3, <2>4, <2>5
<1>13. F \subseteq DrawnEdges
  <2> SUFFICES ASSUME NEW e \in F PROVE e \in DrawnEdges
    OBVIOUS
  <2>1. PICK x \in Reachable, y \in Nodes : e = <<x, y>> /\ y \in DependsOn(x)
    OBVIOUS
  <2>2. PICK a \in 1 .. Len(drawn) : drawn[a].node = x /\ drawn[a].placement = "Full"
    BY <1>5, <1>10
  <2>3. y \in Elements(graph.edges[drawn[a].node])
    BY <1>3, <1>4, <2>1, <2>2
  <2>4. PICK k \in 1 .. Len(drawn) :
           Len(drawn[k].path) > 1 /\ Parent(drawn[k].path) = drawn[a].path /\ drawn[k].node = y
    BY <1>6, <2>2, <2>3
  <2>5. RowAt(Parent(drawn[k].path)) = a
    BY <1>11, <2>4
  <2> QED
    BY <1>2, <2>1, <2>2, <2>4, <2>5 DEF DrawnEdges
<1> QED
  BY <1>10, <1>12, <1>13

(* EdgesAreDrawn -- when a lockfile locks no package twice, a tree drawn   *)
(* whole (no depth, nothing closed or filtered, budget not spent) draws    *)
(* exactly the packages the roots reach and exactly their dependencies,    *)
(* whatever repeats, cycles and root pointers it collapses.                *)
THEOREM EdgesAreDrawn ==
  ASSUME \A in \in Inputs : LockedOnce(in)
  PROVE  Spec => []EveryEdgeDrawn
BY WalkInvariant, EdgesHold, PTL

(* GraphIsTold -- under the hypotheses of the theorems above, whatever is  *)
(* collapsed, closed, filtered, inverted or cut, the walk                  *)
(* (DependencyGraph::walk) hides nothing and keeps its bounds.             *)
THEOREM GraphIsTold ==
  ASSUME \A in \in Inputs :
            /\ LockedOnce(in)
            /\ NoChain(GraphOf(in).edges, MaxWalkDepth)
            /\ in.query # None => NoChain(GraphOf(in).edges, MaxSearch)
  PROVE  Spec => []WalkTellsAll
<1>1. Spec => []EveryEdgeDrawn
  BY EdgesAreDrawn
<1>2. Spec => []BoundedByEdges
  BY WalkIsBounded
<1>3. Spec => []EveryMatchShown
  BY MatchesAreShown
<1> QED
  BY <1>1, <1>2, <1>3, MarkersLead, PTL DEF WalkTellsAll
=============================================================================
