---------------------------- MODULE Order_proofs ----------------------------
(***************************************************************************)
(* The walk of the plan: whatever a plan's graph and however its steps are *)
(* listed, the order dependency_order returns puts every step after all it *)
(* waits for, and no step twice.                                           *)
(*                                                                         *)
(* Induction is over sets, as the least element of a set of numbers: the   *)
(* provers cannot instantiate an induction principle for predicates.       *)
(***************************************************************************)
EXTENDS PlanOrder, Integers, FiniteSetTheorems, WellFoundedInduction, TLAPS

(* Induction.                                                              *)

\* Every set of numbers has a least one.
LEMMA LeastElement ==
  ASSUME NEW T \in SUBSET Nat, NEW m \in T
  PROVE  \E x \in T : \A y \in T : x <= y
<1> DEFINE R == OpToRel(<, Nat)
<1>1. IsWellFoundedOn(R, Nat)
  BY NatLessThanWellFounded
<1>2. \A x, y \in Nat : <<y, x>> \in R <=> y < x
  BY DEF OpToRel
<1> HIDE DEF R
<1>3. PICK x \in T : \A y \in T : <<y, x>> \notin R
  BY <1>1, WFMin
<1>4. ASSUME NEW y \in T
      PROVE  x <= y
  <2>1. x \in Nat /\ y \in Nat /\ <<y, x>> \notin R
    BY <1>3
  <2>2. ~(y < x)
    BY <1>2, <2>1
  <2> QED
    BY <2>1, <2>2
<1> QED
  BY <1>4

\* A set that holds 0 and with each number the next holds them all.
LEMMA InductionOverNat ==
  ASSUME NEW S, 0 \in S, \A n \in Nat : n \in S => n + 1 \in S
  PROVE  Nat \subseteq S
<1> DEFINE T == Nat \ S
<1>1. SUFFICES ASSUME NEW m \in T
               PROVE  FALSE
  OBVIOUS
<1>2. PICK x \in T : \A y \in T : x <= y
  BY LeastElement
<1>3. x # 0 /\ x - 1 \in Nat /\ x - 1 \notin T
  BY <1>2
<1> QED
  BY <1>3

\* The same up to a bound.
LEMMA InductionUpTo ==
  ASSUME NEW n \in Nat, NEW S, 0 \in S,
         \A k \in 1 .. n : k - 1 \in S => k \in S
  PROVE  0 .. n \subseteq S
<1> DEFINE T == {k \in Nat : k <= n => k \in S}
<1>1. 0 \in T
  OBVIOUS
<1>2. ASSUME NEW k \in Nat, k \in T
      PROVE  k + 1 \in T
  BY <1>2
<1>3. Nat \subseteq T
  <2> HIDE DEF T
  <2> QED
    BY <1>1, <1>2, InductionOverNat
<1> QED
  BY <1>3

-----------------------------------------------------------------------------
(* Folds.                                                                  *)

\* The largest of 1 .. k.
LEMMA MaxOf ==
  ASSUME NEW k \in Nat, NEW s \in SUBSET (1 .. k), k \in s
  PROVE  Max(s) = k
<1>1. \A y \in s : k >= y
  OBVIOUS
<1>2. \A x \in s : (\A y \in s : x >= y) => x = k
  OBVIOUS
<1> QED
  BY <1>1, <1>2 DEF Max

\* The largest of a set of indices is one of them.
LEMMA MaxIn ==
  ASSUME NEW n \in Nat, NEW s \in SUBSET (1 .. n), s # {}
  PROVE  Max(s) \in s
<1> DEFINE T == {n - i : i \in s}
<1>1. PICK i \in s : TRUE
  OBVIOUS
<1>2. T \in SUBSET Nat /\ n - i \in T
  OBVIOUS
<1>3. PICK x \in T : \A y \in T : x <= y
  <2> HIDE DEF T
  <2> QED
    BY <1>2, LeastElement
<1>4. PICK m \in s : x = n - m
  BY <1>3
<1>5. ASSUME NEW j \in s
      PROVE  m >= j
  <2>1. n - j \in T
    OBVIOUS
  <2>2. n - m <= n - j
    BY <1>3, <1>4, <2>1
  <2>3. m \in Nat /\ j \in Nat
    OBVIOUS
  <2> QED
    BY <2>2, <2>3
<1> QED
  BY <1>5 DEF Max

\* f is the function behind FoldLeft: over sets of indices, taking the largest away.
Folds(f, n, base, H) ==
  f = [s \in SUBSET (1 .. n) |->
         IF s = {} THEN base ELSE H[Max(s)][f[s \ {Max(s)}]]]

\* There is always such a function.
LEMMA FoldExists ==
  ASSUME NEW n \in Nat, NEW X, NEW base \in X, NEW H \in [1 .. n -> [X -> X]]
  PROVE  \E f \in [SUBSET (1 .. n) -> X] : Folds(f, n, base, H)
<1> DEFINE K == {k \in 0 .. n : \E f \in [SUBSET (1 .. k) -> X] : Folds(f, k, base, H)}
<1>1. 0 \in K
  <2> DEFINE f == [s \in SUBSET (1 .. 0) |-> base]
  <2>1. \A s \in SUBSET (1 .. 0) : s = {}
    OBVIOUS
  <2>2. f \in [SUBSET (1 .. 0) -> X] /\ Folds(f, 0, base, H)
    BY <2>1 DEF Folds
  <2> QED
    BY <2>2
<1>2. ASSUME NEW k \in 1 .. n, k - 1 \in K
      PROVE  k \in K
  <2>1. PICK f \in [SUBSET (1 .. k - 1) -> X] : Folds(f, k - 1, base, H)
    BY <1>2
  <2> DEFINE g == [s \in SUBSET (1 .. k) |->
                     IF k \in s THEN H[k][f[s \ {k}]] ELSE f[s]]
  <2>2. ASSUME NEW s \in SUBSET (1 .. k)
        PROVE  /\ k \in s => s \ {k} \in SUBSET (1 .. k - 1)
               /\ k \notin s => s \in SUBSET (1 .. k - 1)
    OBVIOUS
  <2>3. ASSUME NEW s \in SUBSET (1 .. k)
        PROVE  g[s] \in X
    <3>1. CASE k \in s
      <4>1. f[s \ {k}] \in X
        BY <2>1, <2>2, <3>1
      <4>2. H[k] \in [X -> X]
        OBVIOUS
      <4> QED
        BY <3>1, <4>1, <4>2
    <3>2. CASE k \notin s
      BY <2>1, <2>2, <3>2
    <3> QED
      BY <3>1, <3>2
  <2>4. ASSUME NEW s \in SUBSET (1 .. k)
        PROVE  g[s] = IF s = {} THEN base ELSE H[Max(s)][g[s \ {Max(s)}]]
    <3>1. CASE k \in s
      <4>1. Max(s) = k /\ s # {}
        BY <3>1, MaxOf
      <4>2. s \ {k} \in SUBSET (1 .. k) /\ k \notin s \ {k}
        OBVIOUS
      <4>3. g[s \ {k}] = f[s \ {k}]
        BY <4>2
      <4> QED
        BY <3>1, <4>1, <4>3
    <3>2. CASE k \notin s
      <4>1. s \in SUBSET (1 .. k - 1) /\ s \ {Max(s)} \in SUBSET (1 .. k - 1)
        BY <2>2, <3>2
      <4>2. f[s] = IF s = {} THEN base ELSE H[Max(s)][f[s \ {Max(s)}]]
        BY <2>1, <4>1 DEF Folds
      <4>3. g[s] = f[s]
        BY <3>2
      <4>4. g[s \ {Max(s)}] = f[s \ {Max(s)}]
        BY <3>2
      <4> QED
        BY <4>2, <4>3, <4>4
    <3> QED
      BY <3>1, <3>2
  <2>5. DOMAIN g = SUBSET (1 .. k) /\ g = [s \in DOMAIN g |-> g[s]]
    OBVIOUS
  <2> HIDE DEF g
  <2>6. g \in [SUBSET (1 .. k) -> X]
    BY <2>3, <2>5
  <2>7. Folds(g, k, base, H)
    BY <2>4, <2>5 DEF Folds
  <2> QED
    BY <2>6, <2>7
<1>3. 0 .. n \subseteq K
  <2> HIDE DEF K
  <2> QED
    BY <1>1, <1>2, InductionUpTo
<1>4. n \in K
  <2> HIDE DEF K
  <2> QED
    BY <1>3
<1> QED
  BY <1>4

\* A function that goes on like that as long as it stays within X.
Unfolds(f, n, X, base, H) ==
  /\ f[{}] = base
  /\ \A s \in SUBSET (1 .. n) : s # {} /\ f[s \ {Max(s)}] \in X =>
       f[s] = H[Max(s)][f[s \ {Max(s)}]]

\* The values on the way from base to the result.
Runs(p, n, base, H) == p[0] = base /\ \A k \in 1 .. n : p[k] = H[k][p[k - 1]]

Foldable(f, n, X, base, H) ==
  n \in Nat /\ base \in X /\ H \in [1 .. n -> [X -> X]] /\ Unfolds(f, n, X, base, H)

EndsRun(r, n, X, base, H) ==
  \E p \in [0 .. n -> X] : Runs(p, n, base, H) /\ p[n] = r

\* What such a function makes of 1 .. n, index by index.
LEMMA FoldRuns ==
  ASSUME NEW n, NEW X, NEW base, NEW H, NEW f, Foldable(f, n, X, base, H)
  PROVE  EndsRun(f[1 .. n], n, X, base, H)
<1>0. /\ n \in Nat /\ base \in X /\ H \in [1 .. n -> [X -> X]]
      /\ Unfolds(f, n, X, base, H)
  BY DEF Foldable
<1> DEFINE p == [k \in 0 .. n |-> f[1 .. k]]
<1>1. p[0] = base /\ p[n] = f[1 .. n]
  <2>1. 1 .. 0 = {} /\ 0 \in 0 .. n /\ n \in 0 .. n
    BY <1>0
  <2> QED
    BY <1>0, <2>1 DEF Unfolds
<1>2. ASSUME NEW k \in 1 .. n, p[k - 1] \in X
      PROVE  p[k] = H[k][p[k - 1]]
  <2>1. (1 .. k) \in SUBSET (1 .. n) /\ k \in 1 .. k /\ k \in Nat
    BY <1>0
  <2>2. Max(1 .. k) = k
    BY <2>1, MaxOf
  <2>3. (1 .. k) \ {k} = 1 .. k - 1
    BY <2>1
  <2>4. k \in 0 .. n /\ k - 1 \in 0 .. n
    BY <1>0
  <2>5. p[k] = f[1 .. k] /\ p[k - 1] = f[1 .. k - 1]
    BY <2>4
  <2> HIDE DEF p
  <2>6. (1 .. k) # {} /\ f[(1 .. k) \ {Max(1 .. k)}] \in X
    BY <1>2, <2>1, <2>2, <2>3, <2>5
  <2>7. f[1 .. k] = H[Max(1 .. k)][f[(1 .. k) \ {Max(1 .. k)}]]
    BY <1>0, <2>1, <2>6 DEF Unfolds
  <2> QED
    BY <2>2, <2>3, <2>5, <2>7
<1>3. \A k \in 0 .. n : p[k] \in X
  <2> DEFINE K == {k \in 0 .. n : p[k] \in X}
  <2>1. 0 \in K
    BY <1>0, <1>1
  <2>2. ASSUME NEW k \in 1 .. n, k - 1 \in K
        PROVE  k \in K
    <3>1. H[k] \in [X -> X] /\ k \in 0 .. n
      BY <1>0
    <3> HIDE DEF p
    <3> QED
      BY <1>2, <2>2, <3>1
  <2>3. 0 .. n \subseteq K
    <3> HIDE DEF K
    <3> QED
      BY <1>0, <2>1, <2>2, InductionUpTo
  <2> QED
    BY <2>3
<1>4. p \in [0 .. n -> X]
  BY <1>3
<1>5. \A k \in 1 .. n : p[k] = H[k][p[k - 1]]
  <2>1. \A k \in 1 .. n : p[k - 1] \in X
    BY <1>0, <1>3
  <2> HIDE DEF p
  <2> QED
    BY <1>2, <2>1
<1> HIDE DEF p
<1>6. Runs(p, n, base, H)
  BY <1>1, <1>5 DEF Runs
<1> QED
  BY <1>1, <1>4, <1>6 DEF EndsRun

-----------------------------------------------------------------------------
(* The walk.                                                               *)

\* Placing keeps a sequence of steps (_dependency_order).
LEMMA PlaceType ==
  ASSUME NEW S, NEW done \in Seq(S), NEW s \in S, NEW g
  PROVE  Place(g, done, s) \in Seq(S)
BY DEF Place

\* The places of one pass.
Placing(S, g, order, listed) ==
  \E p \in [0 .. Len(listed) -> Seq(S)] :
    /\ p[0] = order
    /\ p[Len(listed)] = Pass(g, order, listed)
    /\ \A k \in 1 .. Len(listed) : p[k] = Place(g, p[k - 1], listed[k])

\* A pass places the steps one after the other, as they are listed.
LEMMA PassByPlaces ==
  ASSUME NEW S, NEW listed \in Seq(S), NEW order \in Seq(S), NEW g
  PROVE  Placing(S, g, order, listed)
<1> DEFINE n == Len(listed)
           H == [k \in 1 .. n |-> [done \in Seq(S) |-> Place(g, done, listed[k])]]
           Body(f) == [s \in SUBSET DOMAIN listed |->
                         IF s = {} THEN order
                         ELSE Place(g, f[s \ {Max(s)}], listed[Max(s)])]
           iter == CHOOSE f : f = Body(f)
<1>1. n \in Nat /\ DOMAIN listed = 1 .. n /\ \A i \in 1 .. n : listed[i] \in S
  OBVIOUS
<1>2. H \in [1 .. n -> [Seq(S) -> Seq(S)]]
  BY <1>1, PlaceType
<1>3. order \in Seq(S)
  OBVIOUS
<1>4. ASSUME NEW f, NEW s \in SUBSET (1 .. n), s # {}, f[s \ {Max(s)}] \in Seq(S)
      PROVE  H[Max(s)][f[s \ {Max(s)}]] = Place(g, f[s \ {Max(s)}], listed[Max(s)])
  BY <1>1, <1>4, MaxIn
<1>5. PICK f \in [SUBSET (1 .. n) -> Seq(S)] : Folds(f, n, order, H)
  <2> HIDE DEF H, n
  <2> QED
    BY <1>1, <1>2, <1>3, FoldExists
<1>6. f = Body(f)
  <2>1. \A s \in SUBSET (1 .. n) : s # {} => f[s \ {Max(s)}] \in Seq(S)
    OBVIOUS
  <2> HIDE DEF H
  <2> QED
    BY <1>1, <1>4, <1>5, <2>1 DEF Folds
<1>7. iter = Body(iter)
  <2> HIDE DEF Body
  <2> QED
    BY <1>6
<1>8. Pass(g, order, listed) = iter[1 .. n]
  BY <1>1 DEF Pass, FoldLeft, MapThenFoldSet
<1>9. Unfolds(iter, n, Seq(S), order, H)
  <2> HIDE DEF iter, H
  <2> QED
    BY <1>1, <1>4, <1>7 DEF Unfolds
<1>10. PICK p \in [0 .. n -> Seq(S)] : Runs(p, n, order, H) /\ p[n] = iter[1 .. n]
  <2> DEFINE X == Seq(S)
             base == order
  <2>1. Foldable(iter, n, X, base, H)
    <3> HIDE DEF iter, H, n
    <3> QED
      BY <1>1, <1>2, <1>3, <1>9 DEF Foldable
  <2> HIDE DEF Body, iter, H, n, X, base
  <2>2. EndsRun(iter[1 .. n], n, X, base, H)
    BY <2>1, FoldRuns, Zenon
  <2> QED
    BY <2>2 DEF X, base, EndsRun
<1>11. \A k \in 1 .. n : p[k] = Place(g, p[k - 1], listed[k])
  <2>1. \A k \in 1 .. n : p[k - 1] \in Seq(S)
    BY <1>1
  <2>2. \A k \in 1 .. n : H[k][p[k - 1]] = Place(g, p[k - 1], listed[k])
    BY <2>1
  <2> HIDE DEF iter, H
  <2> QED
    BY <1>10, <2>2 DEF Runs
<1> HIDE DEF Body, iter, H, n
<1> QED
  BY <1>8, <1>10, <1>11 DEF Runs, n, Placing

\* The passes of the whole walk.
Passing(S, g, listed) ==
  \E p \in [0 .. Len(listed) -> Seq(S)] :
    /\ p[0] = <<>>
    /\ p[Len(listed)] = dependency_order(g, listed)
    /\ \A k \in 1 .. Len(listed) : p[k] = Pass(g, p[k - 1], listed)

\* The walk is one pass for every listed step.
LEMMA OrderByPasses ==
  ASSUME NEW S, NEW listed \in Seq(S), NEW g
  PROVE  Passing(S, g, listed)
<1>0. \A order \in Seq(S) : Pass(g, order, listed) \in Seq(S)
  <2>1. Len(listed) \in 0 .. Len(listed)
    OBVIOUS
  <2> QED
    BY <2>1, PassByPlaces DEF Placing
<1> DEFINE n == Len(listed)
           H == [k \in 1 .. n |-> [order \in Seq(S) |-> Pass(g, order, listed)]]
           Body(f) == [s \in SUBSET DOMAIN listed |->
                         IF s = {} THEN <<>>
                         ELSE Pass(g, f[s \ {Max(s)}], listed)]
           iter == CHOOSE f : f = Body(f)
<1>1. n \in Nat /\ DOMAIN listed = 1 .. n /\ \A i \in 1 .. n : listed[i] \in S
  OBVIOUS
<1>2. H \in [1 .. n -> [Seq(S) -> Seq(S)]]
  BY <1>1, <1>0
<1>3. <<>> \in Seq(S)
  OBVIOUS
<1>4. ASSUME NEW f, NEW s \in SUBSET (1 .. n), s # {}, f[s \ {Max(s)}] \in Seq(S)
      PROVE  H[Max(s)][f[s \ {Max(s)}]] = Pass(g, f[s \ {Max(s)}], listed)
  BY <1>1, <1>4, MaxIn
<1>5. PICK f \in [SUBSET (1 .. n) -> Seq(S)] : Folds(f, n, <<>>, H)
  <2> HIDE DEF H, n
  <2> QED
    BY <1>1, <1>2, <1>3, FoldExists
<1>6. f = Body(f)
  <2>1. \A s \in SUBSET (1 .. n) : s # {} => f[s \ {Max(s)}] \in Seq(S)
    OBVIOUS
  <2> HIDE DEF H
  <2> QED
    BY <1>1, <1>4, <1>5, <2>1 DEF Folds
<1>7. iter = Body(iter)
  <2> HIDE DEF Body
  <2> QED
    BY <1>6
<1>8. dependency_order(g, listed) = iter[1 .. n]
  BY <1>1 DEF dependency_order, FoldLeft, MapThenFoldSet
<1>9. Unfolds(iter, n, Seq(S), <<>>, H)
  <2> HIDE DEF iter, H
  <2> QED
    BY <1>1, <1>4, <1>7 DEF Unfolds
<1>10. PICK p \in [0 .. n -> Seq(S)] : Runs(p, n, <<>>, H) /\ p[n] = iter[1 .. n]
  <2> DEFINE X == Seq(S)
             base == <<>>
  <2>1. Foldable(iter, n, X, base, H)
    <3> HIDE DEF iter, H, n
    <3> QED
      BY <1>1, <1>2, <1>3, <1>9 DEF Foldable
  <2> HIDE DEF Body, iter, H, n, X, base
  <2>2. EndsRun(iter[1 .. n], n, X, base, H)
    BY <2>1, FoldRuns, Zenon
  <2> QED
    BY <2>2 DEF X, base, EndsRun
<1>11. \A k \in 1 .. n : p[k] = Pass(g, p[k - 1], listed)
  <2>1. \A k \in 1 .. n : p[k - 1] \in Seq(S)
    BY <1>1
  <2>2. \A k \in 1 .. n : H[k][p[k - 1]] = Pass(g, p[k - 1], listed)
    BY <2>1
  <2> HIDE DEF iter, H
  <2> QED
    BY <1>10, <2>2 DEF Runs
<1> HIDE DEF Body, iter, H, n
<1> QED
  BY <1>8, <1>10, <1>11 DEF Runs, n, Passing

-----------------------------------------------------------------------------
(* What the walk guarantees.                                               *)

\* Every step comes after all it waits for.
Topological(g, order) ==
  \A i \in DOMAIN order : Deps(g, order[i]) \subseteq {order[j] : j \in 1 .. i - 1}

\* An order of steps of S, none twice, each after all it waits for.
Walk(S, g, order) ==
  order \in Seq(S) /\ IsInjective(order) /\ Topological(g, order)

\* Placing extends a walk, by the step if it may be placed (_dependency_order).
LEMMA PlaceExtends ==
  ASSUME NEW S, NEW g, NEW done, Walk(S, g, done), NEW s \in S
  PROVE  LET next == Place(g, done, s) IN
         /\ Walk(S, g, next)
         /\ ToSet(done) \subseteq ToSet(next)
         /\ Deps(g, s) \subseteq ToSet(done) => s \in ToSet(next)
         /\ next # done => Len(next) > Len(done)
<1> DEFINE n == Len(done)
<1>1. done \in Seq(S) /\ n \in Nat /\ DOMAIN done = 1 .. n
  BY DEF Walk
<1>2. CASE s \in ToSet(done) \/ ~(Deps(g, s) \subseteq ToSet(done))
  <2>1. Place(g, done, s) = done
    BY <1>2 DEF Place
  <2> QED
    BY <1>1, <1>2, <2>1
<1>3. CASE ~(s \in ToSet(done) \/ ~(Deps(g, s) \subseteq ToSet(done)))
  <2> DEFINE next == Append(done, s)
  <2>1. Place(g, done, s) = next
    BY <1>3 DEF Place
  <2>2. /\ next \in Seq(S) /\ Len(next) = n + 1 /\ DOMAIN next = 1 .. n + 1
        /\ next[n + 1] = s /\ \A i \in 1 .. n : next[i] = done[i]
    BY <1>1
  <2> HIDE DEF next
  <2>3. ToSet(done) \subseteq ToSet(next) /\ s \in ToSet(next)
    BY <1>1, <2>2 DEF ToSet
  <2>4. \A i \in 1 .. n : done[i] # s
    BY <1>1, <1>3 DEF ToSet
  <2>5. IsInjective(next)
    <3>1. SUFFICES ASSUME NEW i \in 1 .. n + 1, NEW j \in 1 .. n + 1, next[i] = next[j]
                   PROVE  i = j
      BY <2>2 DEF IsInjective
    <3>2. CASE i \in 1 .. n /\ j \in 1 .. n
      BY <1>1, <2>2, <3>1, <3>2 DEF Walk, IsInjective
    <3>3. CASE i = n + 1 \/ j = n + 1
      BY <1>1, <2>2, <2>4, <3>1, <3>3
    <3> QED
      BY <1>1, <3>2, <3>3
  <2>6. Topological(g, next)
    <3>1. SUFFICES ASSUME NEW i \in 1 .. n + 1, NEW d \in Deps(g, next[i])
                   PROVE  \E j \in 1 .. i - 1 : d = next[j]
      BY <2>2 DEF Topological
    <3>2. CASE i \in 1 .. n
      <4>1. PICK j \in 1 .. i - 1 : d = done[j]
        BY <1>1, <2>2, <3>1, <3>2 DEF Walk, Topological
      <4> QED
        BY <1>1, <2>2, <3>2, <4>1
    <3>3. CASE i = n + 1
      <4>1. PICK j \in 1 .. n : d = done[j]
        BY <1>1, <1>3, <2>2, <3>1, <3>3 DEF ToSet
      <4> QED
        BY <1>1, <2>2, <3>3, <4>1
    <3> QED
      BY <1>1, <3>2, <3>3
  <2> QED
    BY <1>1, <2>1, <2>2, <2>3, <2>5, <2>6 DEF Walk
<1> QED
  BY <1>2, <1>3

\* A pass extends a walk, by every step whose dependencies were placed before it.
LEMMA PassExtends ==
  ASSUME NEW S, NEW g, NEW listed \in Seq(S), NEW order, Walk(S, g, order)
  PROVE  LET next == Pass(g, order, listed) IN
         /\ Walk(S, g, next)
         /\ ToSet(order) \subseteq ToSet(next)
         /\ next # order => Len(next) > Len(order)
         /\ \A s \in ToSet(listed) : Deps(g, s) \subseteq ToSet(order) => s \in ToSet(next)
<1> DEFINE n == Len(listed)
           Grows(q) == /\ Walk(S, g, q)
                       /\ ToSet(order) \subseteq ToSet(q)
                       /\ q # order => Len(q) > Len(order)
           Places(q, i) == Deps(g, listed[i]) \subseteq ToSet(order) => listed[i] \in ToSet(q)
<1>1. n \in Nat /\ DOMAIN listed = 1 .. n /\ \A i \in 1 .. n : listed[i] \in S
  OBVIOUS
<1>2. order \in Seq(S)
  BY DEF Walk
<1>3. PICK p \in [0 .. n -> Seq(S)] :
        /\ p[0] = order
        /\ p[n] = Pass(g, order, listed)
        /\ \A k \in 1 .. n : p[k] = Place(g, p[k - 1], listed[k])
  <2>1. Placing(S, g, order, listed)
    BY <1>2, PassByPlaces
  <2> QED
    BY <2>1 DEF Placing
<1> DEFINE K == {k \in 0 .. n : Grows(p[k]) /\ \A i \in 1 .. k : Places(p[k], i)}
<1>4. 0 \in K
  <2>1. 0 \in 0 .. n /\ 1 .. 0 = {} /\ Len(order) \in Nat
    BY <1>1, <1>2
  <2>2. Grows(p[0])
    BY <1>3, <2>1
  <2> HIDE DEF Grows, Places
  <2> QED
    BY <2>1, <2>2
<1>5. ASSUME NEW k \in 1 .. n, k - 1 \in K
      PROVE  k \in K
  <2> DEFINE q == p[k - 1]
             r == p[k]
             s == listed[k]
  <2>1. /\ k \in 0 .. n /\ k - 1 \in 0 .. n /\ k \in Nat
        /\ s \in S /\ q \in Seq(S) /\ Walk(S, g, q) /\ r = Place(g, q, s)
    BY <1>1, <1>3, <1>5
  <2>2. /\ Walk(S, g, r) /\ ToSet(q) \subseteq ToSet(r)
        /\ Deps(g, s) \subseteq ToSet(q) => s \in ToSet(r)
        /\ r # q => Len(r) > Len(q)
    BY <2>1, PlaceExtends
  <2>3. Grows(q) /\ \A i \in 1 .. k - 1 : Places(q, i)
    BY <1>5
  <2>4. Len(q) \in Nat /\ Len(r) \in Nat /\ Len(order) \in Nat
    BY <1>2, <2>1, <2>2 DEF Walk
  <2> HIDE DEF q, r, K
  <2>5. Grows(r)
    BY <2>2, <2>3, <2>4
  <2>6. ASSUME NEW i \in 1 .. k - 1
        PROVE  Places(r, i)
    BY <2>2, <2>3, <2>4
  <2>7. Places(r, k)
    BY <2>2, <2>3
  <2>8. \A i \in 1 .. k : Places(r, i)
    <3> HIDE DEF Places
    <3> QED
      BY <2>1, <2>6, <2>7
  <2> QED
    BY <2>1, <2>5, <2>8 DEF K, r
<1>6. n \in K
  <2>1. 0 .. n \subseteq K
    <3> HIDE DEF K, n
    <3> QED
      BY <1>1, <1>4, <1>5, InductionUpTo
  <2> HIDE DEF K
  <2> QED
    BY <1>1, <2>1
<1>7. \A s \in ToSet(listed) : \E i \in 1 .. n : s = listed[i]
  BY <1>1 DEF ToSet
<1> QED
  BY <1>3, <1>6, <1>7

\* 1 .. n has n elements.
LEMMA CountTo ==
  ASSUME NEW n \in Nat
  PROVE  IsFiniteSet(1 .. n) /\ Cardinality(1 .. n) = n
<1>1. 1 \in Int /\ n \in Int
  OBVIOUS
<1>2. /\ IsFiniteSet(1 .. n)
      /\ Cardinality(1 .. n) = IF 1 > n THEN 0 ELSE n - 1 + 1
  BY <1>1, FS_Interval, Zenon
<1> QED
  BY <1>2

\* Whatever the graph and the listing, the order found has each step at most once and
\* after all it waits for; and it has every listed step unless some of them wait for
\* each other in a ring, or for a step that is not listed (_dependency_order).
THEOREM WalkIsTopological ==
  ASSUME NEW S, NEW listed \in Seq(S), NEW g
  PROVE  LET order == dependency_order(g, listed) IN
         /\ order \in Seq(ToSet(listed))
         /\ IsInjective(order)
         /\ Topological(g, order)
         /\ /\ \A s \in ToSet(listed) : Deps(g, s) \subseteq ToSet(listed)
            /\ \A C \in (SUBSET ToSet(listed)) \ {{}} : \E s \in C : Deps(g, s) \cap C = {}
            => ToSet(order) = ToSet(listed)
<1> DEFINE n == Len(listed)
           T == ToSet(listed)
           order == dependency_order(g, listed)
<1>1. n \in Nat /\ DOMAIN listed = 1 .. n /\ listed \in Seq(T)
  BY DEF ToSet
<1>2. PICK p \in [0 .. n -> Seq(T)] :
        /\ p[0] = <<>>
        /\ p[n] = order
        /\ \A k \in 1 .. n : p[k] = Pass(g, p[k - 1], listed)
  <2>1. Passing(T, g, listed)
    BY <1>1, OrderByPasses
  <2> QED
    BY <2>1 DEF Passing
<1> DEFINE Rings == \A C \in (SUBSET T) \ {{}} : \E s \in C : Deps(g, s) \cap C = {}
           Inside == \A s \in T : Deps(g, s) \subseteq T
           Good(q, k) == /\ Walk(T, g, q)
                         /\ Inside /\ Rings => T \subseteq ToSet(q) \/ Len(q) >= k
           K == {k \in 0 .. n : Good(p[k], k)}
<1>3. 0 \in K
  <2>1. 0 \in 0 .. n /\ Len(p[0]) = 0 /\ DOMAIN p[0] = {} /\ p[0] \in Seq(T)
    BY <1>1, <1>2
  <2>2. Walk(T, g, p[0])
    BY <2>1 DEF Walk, IsInjective, Topological
  <2> QED
    BY <2>1, <2>2
<1>4. ASSUME NEW k \in 1 .. n, k - 1 \in K
      PROVE  k \in K
  <2> DEFINE q == p[k - 1]
             r == p[k]
  <2>1. /\ k \in 0 .. n /\ k - 1 \in 0 .. n /\ k \in Nat
        /\ Walk(T, g, q) /\ r = Pass(g, q, listed)
    BY <1>1, <1>2, <1>4
  <2>2. /\ Walk(T, g, r) /\ ToSet(q) \subseteq ToSet(r)
        /\ r # q => Len(r) > Len(q)
        /\ \A s \in T : Deps(g, s) \subseteq ToSet(q) => s \in ToSet(r)
    BY <1>1, <2>1, PassExtends
  <2>3. Good(q, k - 1)
    BY <1>4
  <2>4. Len(q) \in Nat /\ Len(r) \in Nat /\ ToSet(q) \subseteq T
    BY <2>1, <2>2 DEF Walk, ToSet
  <2>5. ASSUME Inside, Rings
        PROVE  T \subseteq ToSet(r) \/ Len(r) >= k
    <3>1. CASE T \subseteq ToSet(q)
      BY <2>2, <3>1
    <3>2. CASE ~(T \subseteq ToSet(q))
      <4> DEFINE C == T \ ToSet(q)
      <4>1. PICK s \in C : Deps(g, s) \cap C = {}
        <5>1. C \in (SUBSET T) \ {{}}
          BY <3>2
        <5> HIDE DEF C
        <5> QED
          BY <2>5, <5>1
      <4>2. Deps(g, s) \subseteq ToSet(q)
        BY <2>5, <4>1
      <4>3. r # q
        BY <2>2, <4>1, <4>2
      <4>4. Len(q) >= k - 1
        BY <2>3, <2>5, <3>2
      <4> HIDE DEF q, r
      <4> QED
        BY <2>1, <2>2, <2>4, <4>3, <4>4
    <3> QED
      BY <3>1, <3>2
  <2>6. Good(r, k)
    <3> HIDE DEF q, r, T, Inside, Rings
    <3> QED
      BY <2>2, <2>5
  <2> QED
    BY <2>1, <2>6
<1>5. Good(order, n)
  <2>1. 0 .. n \subseteq K
    <3> HIDE DEF K, n
    <3> QED
      BY <1>1, <1>3, <1>4, InductionUpTo
  <2>2. n \in K
    <3> HIDE DEF K
    <3> QED
      BY <1>1, <2>1
  <2> QED
    BY <1>2, <2>2
<1>6. ASSUME Len(order) >= n, Walk(T, g, order)
      PROVE  T \subseteq ToSet(order)
  <2> DEFINE m == Len(order)
  <2>1. m \in Nat /\ DOMAIN order = 1 .. m /\ order \in [1 .. m -> T]
    BY <1>6 DEF Walk
  <2>2. IsFiniteSet(1 .. n) /\ Cardinality(1 .. n) = n
    <3> HIDE DEF n
    <3> QED
      BY <1>1, CountTo
  <2>3. IsFiniteSet(1 .. m) /\ Cardinality(1 .. m) = m
    <3> HIDE DEF m
    <3> QED
      BY <2>1, CountTo
  <2>4. listed \in Surjection(1 .. n, T)
    BY <1>1 DEF Surjection, ToSet
  <2>5. IsFiniteSet(T) /\ Cardinality(T) <= n
    <3> HIDE DEF T, n
    <3> QED
      BY <2>2, <2>4, FS_Surjection
  <2>6. order \in Injection(1 .. m, T)
    <3> HIDE DEF T, m, order
    <3> QED
      BY <1>6, <2>1 DEF Walk, Injection
  <2>7. m <= Cardinality(T) /\ (m = Cardinality(T) <=> order \in Surjection(1 .. m, T))
    <3> HIDE DEF T, m, order
    <3> QED
      BY <2>3, <2>5, <2>6, FS_Injection
  <2>8. Cardinality(T) \in Nat
    BY <2>5, FS_CardinalityType
  <2>9. order \in Surjection(1 .. m, T)
    <3> HIDE DEF T, order
    <3> QED
      BY <1>1, <1>6, <2>1, <2>5, <2>7, <2>8
  <2> HIDE DEF T, order
  <2> QED
    BY <2>1, <2>9 DEF Surjection, ToSet
<1>7. Walk(T, g, order)
  BY <1>5
<1>8. ToSet(order) \subseteq T
  <2> HIDE DEF T, order
  <2> QED
    BY <1>7 DEF Walk, ToSet
<1>9. Inside /\ Rings => T \subseteq ToSet(order)
  <2> HIDE DEF T, order, Inside, Rings
  <2> QED
    BY <1>5, <1>6
<1>10. order \in Seq(T) /\ IsInjective(order) /\ Topological(g, order)
  BY <1>7 DEF Walk
<1>11. Inside /\ Rings => ToSet(order) = T
  <2> HIDE DEF T, order, Inside, Rings
  <2> QED
    BY <1>8, <1>9
<1> HIDE DEF order
<1> QED
  BY <1>10, <1>11 DEF order
=============================================================================
