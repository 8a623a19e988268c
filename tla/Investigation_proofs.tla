------------------------ MODULE Investigation_proofs ------------------------
(***************************************************************************)
(* What an investigation's verdict is worth, for every tree, layout, cap   *)
(* and number of edits: an honest answer is refused only if somebody       *)
(* edited the tree meanwhile, what passes is what the tree holds, and what *)
(* the model is shown hides nothing without saying so.                     *)
(***************************************************************************)
EXTENDS Investigation, Order_proofs

(* Sequences.                                                              *)

\* What holds of the empty sequence, and of every longer one when of the shorter, holds
\* of all.
LEMMA SeqInduction ==
  ASSUME NEW X, NEW T, <<>> \in T,
         \A s \in Seq(X) : \A x \in X : s \in T => Append(s, x) \in T
  PROVE  Seq(X) \subseteq T
<1> SUFFICES ASSUME NEW s \in Seq(X)
             PROVE  s \in T
  OBVIOUS
<1> DEFINE K == {k \in Nat : k <= Len(s) => SubSeq(s, 1, k) \in T}
<1>1. 0 \in K
  <2>1. SubSeq(s, 1, 0) = <<>>
    OBVIOUS
  <2> QED
    BY <2>1
<1>2. ASSUME NEW k \in 1 .. Len(s), k - 1 \in K
      PROVE  k \in K
  <2>1. SubSeq(s, 1, k - 1) \in Seq(X) /\ s[k] \in X /\ SubSeq(s, 1, k - 1) \in T
    BY <1>2
  <2>2. SubSeq(s, 1, k) = Append(SubSeq(s, 1, k - 1), s[k])
    OBVIOUS
  <2> DEFINE c == SubSeq(s, 1, k - 1)
             x == s[k]
  <2>3. c \in Seq(X) /\ x \in X /\ c \in T
    BY <2>1
  <2> HIDE DEF c, x
  <2>4. Append(c, x) \in T
    BY <2>3
  <2>5. SubSeq(s, 1, k) = Append(c, x)
    BY <2>2 DEF c, x
  <2>6. SubSeq(s, 1, k) \in T
    BY <2>4, <2>5, Zenon
  <2>7. k \in Nat
    OBVIOUS
  <2> QED
    BY <2>6, <2>7
<1>3. 0 .. Len(s) \subseteq K
  <2>1. Len(s) \in Nat
    OBVIOUS
  <2> HIDE DEF K
  <2> QED
    BY <1>1, <1>2, <2>1, InductionUpTo
<1>4. Len(s) \in K
  <2> HIDE DEF K
  <2> QED
    BY <1>3
<1>5. SubSeq(s, 1, Len(s)) = s /\ Len(s) \in Nat
  OBVIOUS
<1>6. SubSeq(s, 1, Len(s)) \in T
  BY <1>4, <1>5
<1> QED
  BY <1>5, <1>6

\* One element of a filter.
Kept(kept, x, S) == IF x \in S THEN Append(kept, x) ELSE kept

KeptUpTo(p, X, s, S) ==
  /\ p \in [0 .. Len(s) -> Seq(X)]
  /\ p[0] = <<>>
  /\ \A k \in 1 .. Len(s) : p[k] = Kept(p[k - 1], s[k], S)

\* A filter goes through its sequence one element after the other.
LEMMA KeepRuns ==
  ASSUME NEW X, NEW s \in Seq(X), NEW S
  PROVE  \E p : KeptUpTo(p, X, s, S) /\ p[Len(s)] = Keep(s, S)
<1> DEFINE n == Len(s)
           base == <<>>
           H == [k \in 1 .. n |-> [kept \in Seq(X) |-> Kept(kept, s[k], S)]]
           Body(f) == [t \in SUBSET DOMAIN s |->
                         IF t = {} THEN base
                         ELSE Kept(f[t \ {Max(t)}], s[Max(t)], S)]
           iter == CHOOSE f : f = Body(f)
<1>1. n \in Nat /\ DOMAIN s = 1 .. n /\ \A i \in 1 .. n : s[i] \in X
  OBVIOUS
<1>2. H \in [1 .. n -> [Seq(X) -> Seq(X)]]
  BY <1>1 DEF Kept
<1>3. base \in Seq(X)
  OBVIOUS
<1>4. ASSUME NEW f, NEW t \in SUBSET (1 .. n), t # {}, f[t \ {Max(t)}] \in Seq(X)
      PROVE  H[Max(t)][f[t \ {Max(t)}]] = Kept(f[t \ {Max(t)}], s[Max(t)], S)
  BY <1>1, <1>4, MaxIn
<1>5. PICK f \in [SUBSET (1 .. n) -> Seq(X)] : Folds(f, n, base, H)
  <2> HIDE DEF H, n, base
  <2> QED
    BY <1>1, <1>2, <1>3, FoldExists
<1>6. f = Body(f)
  <2>1. \A t \in SUBSET (1 .. n) : t # {} => f[t \ {Max(t)}] \in Seq(X)
    OBVIOUS
  <2> HIDE DEF H
  <2> QED
    BY <1>1, <1>4, <1>5, <2>1 DEF Folds
<1>7. iter = Body(iter)
  <2> HIDE DEF Body
  <2> QED
    BY <1>6
<1>8. Keep(s, S) = iter[1 .. n]
  BY <1>1 DEF Keep, Kept, FoldLeft, MapThenFoldSet
<1>9. Unfolds(iter, n, Seq(X), base, H)
  <2> HIDE DEF iter, H
  <2> QED
    BY <1>1, <1>4, <1>7 DEF Unfolds
<1>10. PICK p \in [0 .. n -> Seq(X)] : Runs(p, n, base, H) /\ p[n] = iter[1 .. n]
  <2> DEFINE Y == Seq(X)
  <2>1. Foldable(iter, n, Y, base, H)
    <3> HIDE DEF iter, H, n
    <3> QED
      BY <1>1, <1>2, <1>3, <1>9 DEF Foldable
  <2> HIDE DEF Body, iter, H, n, Y, base
  <2>2. EndsRun(iter[1 .. n], n, Y, base, H)
    BY <2>1, FoldRuns, Zenon
  <2> QED
    BY <2>2 DEF Y, EndsRun
<1>11. \A k \in 1 .. n : p[k] = Kept(p[k - 1], s[k], S)
  <2>1. \A k \in 1 .. n : p[k - 1] \in Seq(X)
    BY <1>1
  <2>2. \A k \in 1 .. n : H[k][p[k - 1]] = Kept(p[k - 1], s[k], S)
    BY <2>1
  <2> HIDE DEF H
  <2> QED
    BY <1>10, <2>2 DEF Runs
<1>12. p[0] = <<>>
  BY <1>10 DEF Runs
<1> QED
  BY <1>8, <1>10, <1>11, <1>12 DEF KeptUpTo

\* The empty sequence has nothing to keep.
LEMMA KeepEmpty ==
  ASSUME NEW S
  PROVE  Keep(<<>>, S) = <<>>
<1> DEFINE s == <<>>
<1>1. s \in Seq({}) /\ Len(s) = 0
  OBVIOUS
<1> HIDE DEF s
<1>2. PICK p : KeptUpTo(p, {}, s, S) /\ p[Len(s)] = Keep(s, S)
  BY <1>1, KeepRuns
<1> QED
  BY <1>1, <1>2 DEF KeptUpTo, s

\* A filter keeps the type.
LEMMA KeepType ==
  ASSUME NEW X, NEW s \in Seq(X), NEW S
  PROVE  Keep(s, S) \in Seq(X)
<1>1. PICK p : KeptUpTo(p, X, s, S) /\ p[Len(s)] = Keep(s, S)
  BY KeepRuns
<1>2. Len(s) \in 0 .. Len(s)
  OBVIOUS
<1> QED
  BY <1>1, <1>2 DEF KeptUpTo

\* The last element is kept or not.
LEMMA KeepAppend ==
  ASSUME NEW X, NEW s \in Seq(X), NEW x \in X, NEW S
  PROVE  Keep(Append(s, x), S) = IF x \in S THEN Append(Keep(s, S), x) ELSE Keep(s, S)
<1> DEFINE r == Append(s, x)
           n == Len(s)
<1>1. /\ r \in Seq(X) /\ Len(r) = n + 1 /\ n \in Nat /\ r[n + 1] = x
      /\ \A k \in 1 .. n : r[k] = s[k]
  OBVIOUS
<1> HIDE DEF r
<1>2. PICK p : KeptUpTo(p, X, s, S) /\ p[n] = Keep(s, S)
  BY KeepRuns
<1>3. PICK q : KeptUpTo(q, X, r, S) /\ q[Len(r)] = Keep(r, S)
  BY <1>1, KeepRuns
<1> DEFINE K == {k \in 0 .. n : p[k] = q[k]}
<1>4. 0 \in K
  BY <1>1, <1>2, <1>3 DEF KeptUpTo
<1>5. ASSUME NEW k \in 1 .. n, k - 1 \in K
      PROVE  k \in K
  <2>1. p[k] = Kept(p[k - 1], s[k], S)
    BY <1>2 DEF KeptUpTo
  <2>2. q[k] = Kept(q[k - 1], r[k], S)
    BY <1>1, <1>3 DEF KeptUpTo
  <2> QED
    BY <1>1, <1>5, <2>1, <2>2
<1>6. 0 .. n \subseteq K
  <2> HIDE DEF K, n
  <2> QED
    BY <1>1, <1>4, <1>5, InductionUpTo
<1>7. p[n] = q[n]
  BY <1>1, <1>6
<1>8. q[n + 1] = Kept(q[n], r[n + 1], S)
  <2>1. n + 1 \in 1 .. Len(r) /\ n + 1 - 1 = n
    BY <1>1
  <2> QED
    BY <1>3, <2>1 DEF KeptUpTo
<1> QED
  BY <1>1, <1>2, <1>3, <1>7, <1>8 DEF Kept, r

\* Two parts are filtered one after the other.
LEMMA KeepConcat ==
  ASSUME NEW X, NEW a \in Seq(X), NEW b \in Seq(X), NEW S
  PROVE  Keep(a \o b, S) = Keep(a, S) \o Keep(b, S)
<1> DEFINE T == {c \in Seq(X) : Keep(a \o c, S) = Keep(a, S) \o Keep(c, S)}
<1>1. <<>> \in T
  <2>1. Keep(a, S) \in Seq(X)
    BY KeepType
  <2>2. a \o <<>> = a /\ Keep(a, S) \o <<>> = Keep(a, S)
    BY <2>1
  <2>3. Keep(<<>>, S) = <<>>
    BY KeepEmpty
  <2>4. <<>> \in Seq(X)
    OBVIOUS
  <2>5. Keep(a \o <<>>, S) = Keep(a, S) \o Keep(<<>>, S)
    BY <2>2, <2>3
  <2> QED
    BY <2>4, <2>5
<1>2. ASSUME NEW c \in Seq(X), NEW x \in X, c \in T
      PROVE  Append(c, x) \in T
  <2>1. a \o Append(c, x) = Append(a \o c, x) /\ a \o c \in Seq(X)
    OBVIOUS
  <2>2. Keep(Append(a \o c, x), S)
          = IF x \in S THEN Append(Keep(a \o c, S), x) ELSE Keep(a \o c, S)
    BY <2>1, KeepAppend
  <2>3. Keep(Append(c, x), S) = IF x \in S THEN Append(Keep(c, S), x) ELSE Keep(c, S)
    BY KeepAppend
  <2>4. Keep(a, S) \in Seq(X) /\ Keep(c, S) \in Seq(X)
    BY KeepType
  <2>5. Keep(a, S) \o Append(Keep(c, S), x) = Append(Keep(a, S) \o Keep(c, S), x)
    BY <2>4
  <2>6. Keep(a \o Append(c, x), S) = Keep(a, S) \o Keep(Append(c, x), S)
    <3>1. Keep(a \o c, S) = Keep(a, S) \o Keep(c, S)
      BY <1>2
    <3> HIDE DEF T
    <3> QED
      BY <2>1, <2>2, <2>3, <2>5, <3>1
  <2>7. Append(c, x) \in Seq(X)
    OBVIOUS
  <2> QED
    BY <2>6, <2>7
<1>3. Seq(X) \subseteq T
  <2> HIDE DEF T
  <2> QED
    BY <1>1, <1>2, SeqInduction
<1> QED
  BY <1>3

\* The first element is kept or not.
LEMMA KeepHead ==
  ASSUME NEW X, NEW s \in Seq(X), s # <<>>, NEW S
  PROVE  Keep(s, S) = IF Head(s) \in S THEN <<Head(s)>> \o Keep(Tail(s), S)
                                       ELSE Keep(Tail(s), S)
<1> DEFINE x == Head(s)
           h == <<x>>
           r == Tail(s)
<1>0. s = h \o r
  OBVIOUS
<1>1. x \in X /\ h \in Seq(X) /\ r \in Seq(X)
  OBVIOUS
<1>2. Keep(h, S) = IF x \in S THEN h ELSE <<>>
  <2> DEFINE e == <<>>
  <2>1. e \in Seq(X) /\ h = Append(e, x)
    OBVIOUS
  <2> HIDE DEF e, h, x
  <2>2. Keep(h, S) = IF x \in S THEN Append(Keep(e, S), x) ELSE Keep(e, S)
    BY <1>1, <2>1, KeepAppend
  <2>3. Keep(e, S) = e
    BY KeepEmpty DEF e
  <2> QED
    BY <2>1, <2>2, <2>3 DEF e
<1>3. Keep(r, S) \in Seq(X)
  BY <1>1, KeepType
<1>4. Keep(h \o r, S) = Keep(h, S) \o Keep(r, S)
  <2>1. ASSUME NEW a \in Seq(X), NEW b \in Seq(X)
        PROVE  Keep(a \o b, S) = Keep(a, S) \o Keep(b, S)
    BY KeepConcat
  <2> HIDE DEF h, r
  <2> QED
    BY <1>1, <2>1
<1> HIDE DEF h, r, x
<1>5. <<>> \o Keep(r, S) = Keep(r, S)
  BY <1>3
<1> QED
  BY <1>0, <1>2, <1>4, <1>5 DEF h, r, x

\* A wider filter before a narrow one changes nothing.
LEMMA KeepKeep ==
  ASSUME NEW X, NEW s \in Seq(X), NEW P, NEW S, S \subseteq P
  PROVE  Keep(Keep(s, P), S) = Keep(s, S)
<1> DEFINE T == {c \in Seq(X) : Keep(Keep(c, P), S) = Keep(c, S)}
<1>1. <<>> \in T
  BY KeepEmpty
<1>2. ASSUME NEW c \in Seq(X), NEW x \in X, c \in T
      PROVE  Append(c, x) \in T
  <2>1. Keep(c, P) \in Seq(X) /\ Append(c, x) \in Seq(X)
    BY KeepType
  <2>2. Keep(Append(c, x), P) = IF x \in P THEN Append(Keep(c, P), x) ELSE Keep(c, P)
    BY KeepAppend
  <2>3. Keep(Append(c, x), S) = IF x \in S THEN Append(Keep(c, S), x) ELSE Keep(c, S)
    BY KeepAppend
  <2>4. Keep(Append(Keep(c, P), x), S)
          = IF x \in S THEN Append(Keep(Keep(c, P), S), x) ELSE Keep(Keep(c, P), S)
    BY <2>1, KeepAppend
  <2> QED
    BY <1>2, <2>1, <2>2, <2>3, <2>4
<1>3. Seq(X) \subseteq T
  <2> HIDE DEF T
  <2> QED
    BY <1>1, <1>2, SeqInduction
<1> QED
  BY <1>3

\* g is the function behind FlattenSeq.
Flattens(g, ss) ==
  g = [i \in 1 .. Len(ss) |-> IF i = 1 THEN ss[i] ELSE g[i - 1] \o ss[i]]

\* There is always such a function.
LEMMA FlattenExists ==
  ASSUME NEW X, NEW ss \in Seq(Seq(X))
  PROVE  \E g \in [1 .. Len(ss) -> Seq(X)] : Flattens(g, ss)
<1> DEFINE T == {r \in Seq(Seq(X)) : \E g \in [1 .. Len(r) -> Seq(X)] : Flattens(g, r)}
<1>1. <<>> \in T
  <2> DEFINE g == [i \in {} |-> <<>>]
             e == <<>>
  <2>1. e \in Seq(Seq(X)) /\ 1 .. Len(e) = {}
    OBVIOUS
  <2> HIDE DEF e
  <2>2. g \in [1 .. Len(e) -> Seq(X)]
    BY <2>1
  <2>3. Flattens(g, e)
    BY <2>1 DEF Flattens
  <2>4. e \in T
    BY <2>1, <2>2, <2>3
  <2> QED
    BY <2>4 DEF e
<1>2. ASSUME NEW r \in Seq(Seq(X)), NEW s \in Seq(X), r \in T
      PROVE  Append(r, s) \in T
  <2>1. PICK g \in [1 .. Len(r) -> Seq(X)] : Flattens(g, r)
    BY <1>2
  <2> DEFINE n == Len(r)
             q == Append(r, s)
             h == [i \in 1 .. n + 1 |-> IF i \in 1 .. n THEN g[i]
                                        ELSE IF n = 0 THEN s ELSE g[n] \o s]
  <2>2. /\ n \in Nat /\ q \in Seq(Seq(X)) /\ Len(q) = n + 1 /\ q[n + 1] = s
        /\ \A i \in 1 .. n : q[i] = r[i]
    OBVIOUS
  <2>3. n # 0 => g[n] \in Seq(X)
    <3>1. n # 0 => n \in 1 .. n
      BY <2>2
    <3> QED
      BY <2>1, <3>1
  <2>4. h \in [1 .. n + 1 -> Seq(X)]
    BY <2>2, <2>3
  <2>5. ASSUME NEW i \in 1 .. n + 1
        PROVE  h[i] = IF i = 1 THEN q[i] ELSE h[i - 1] \o q[i]
    <3>1. CASE i \in 1 .. n
      <4>1. g[i] = IF i = 1 THEN r[i] ELSE g[i - 1] \o r[i]
        <5> HIDE DEF h, q
        <5> QED
          BY <2>1, <3>1 DEF Flattens
      <4>2. h[i] = g[i] /\ q[i] = r[i] /\ (i # 1 => h[i - 1] = g[i - 1])
        BY <2>2, <3>1
      <4> HIDE DEF h, q
      <4> QED
        BY <4>1, <4>2
    <3>2. CASE i = n + 1
      <4>1. h[i] = IF n = 0 THEN s ELSE g[n] \o s
        BY <2>2, <3>2
      <4>2. n # 0 => h[n] = g[n]
        BY <2>2
      <4> HIDE DEF h, q
      <4> QED
        BY <2>2, <3>2, <4>1, <4>2
    <3> QED
      BY <2>2, <3>1, <3>2
  <2> HIDE DEF q
  <2>6. Flattens(h, q)
    <3>1. h = [i \in 1 .. n + 1 |-> h[i]]
      OBVIOUS
    <3> HIDE DEF h
    <3> QED
      BY <2>2, <2>5, <3>1 DEF Flattens
  <2> HIDE DEF h
  <2> QED
    BY <2>2, <2>4, <2>6 DEF q
<1>3. Seq(Seq(X)) \subseteq T
  <2> HIDE DEF T
  <2> QED
    BY <1>1, <1>2, SeqInduction
<1> QED
  BY <1>3

\* FlattenSeq puts one sequence after the other.
LEMMA FlattenRuns ==
  ASSUME NEW X, NEW ss \in Seq(Seq(X)), ss # <<>>
  PROVE  \E g : /\ FlattenSeq(ss) = g[Len(ss)]
                /\ \A i \in 1 .. Len(ss) :
                     g[i] = IF i = 1 THEN ss[i] ELSE g[i - 1] \o ss[i]
<1> DEFINE F(g) == [i \in 1 .. Len(ss) |-> IF i = 1 THEN ss[i] ELSE g[i - 1] \o ss[i]]
           h == CHOOSE g : g = F(g)
<1>1. h = F(h)
  <2>1. PICK g : Flattens(g, ss)
    BY FlattenExists
  <2>2. g = F(g)
    BY <2>1 DEF Flattens
  <2> HIDE DEF F
  <2> QED
    BY <2>2
<1>2. FlattenSeq(ss) = h[Len(ss)]
  <2>1. Len(ss) # 0
    OBVIOUS
  <2> QED
    BY <2>1 DEF FlattenSeq
<1> HIDE DEF h
<1> QED
  BY <1>1, <1>2

\* The last sequence goes to the end.
LEMMA FlattenAppend ==
  ASSUME NEW X, NEW ss \in Seq(Seq(X)), NEW s \in Seq(X)
  PROVE  /\ FlattenSeq(ss) \in Seq(X)
         /\ FlattenSeq(Append(ss, s)) = FlattenSeq(ss) \o s
<1> DEFINE n == Len(ss)
           r == Append(ss, s)
<1>1. /\ n \in Nat /\ r \in Seq(Seq(X)) /\ r # <<>> /\ Len(r) = n + 1 /\ r[n + 1] = s
      /\ \A i \in 1 .. n : r[i] = ss[i] /\ ss[i] \in Seq(X)
  OBVIOUS
<1> HIDE DEF r
<1>2. PICK g : /\ FlattenSeq(r) = g[Len(r)]
               /\ \A i \in 1 .. Len(r) : g[i] = IF i = 1 THEN r[i] ELSE g[i - 1] \o r[i]
  BY <1>1, FlattenRuns
<1>3. CASE n = 0
  <2>1. ss = <<>>
    BY <1>3
  <2>2. FlattenSeq(ss) = <<>>
    BY <2>1 DEF FlattenSeq
  <2>3. 1 \in 1 .. Len(r) /\ Len(r) = 1
    BY <1>1, <1>3
  <2>4. FlattenSeq(r) = s
    BY <1>1, <1>2, <1>3, <2>3
  <2>5. <<>> \o s = s /\ <<>> \in Seq(X)
    OBVIOUS
  <2> QED
    BY <2>2, <2>4, <2>5 DEF r
<1>4. CASE n # 0
  <2>1. PICK h : /\ FlattenSeq(ss) = h[n]
                 /\ \A i \in 1 .. n : h[i] = IF i = 1 THEN ss[i] ELSE h[i - 1] \o ss[i]
    BY <1>4, FlattenRuns
  <2> DEFINE K == {i \in Nat : i # 0 => h[i] = g[i] /\ h[i] \in Seq(X)}
  <2>2. 0 \in K
    OBVIOUS
  <2>3. ASSUME NEW i \in 1 .. n, i - 1 \in K
        PROVE  i \in K
    <3>1. h[i] = IF i = 1 THEN ss[i] ELSE h[i - 1] \o ss[i]
      BY <2>1
    <3>2. g[i] = IF i = 1 THEN r[i] ELSE g[i - 1] \o r[i]
      BY <1>1, <1>2
    <3>3. r[i] = ss[i] /\ ss[i] \in Seq(X)
      BY <1>1
    <3>4. i # 1 => h[i - 1] = g[i - 1] /\ h[i - 1] \in Seq(X)
      BY <2>3
    <3> HIDE DEF K
    <3>5. h[i] = g[i] /\ h[i] \in Seq(X)
      BY <3>1, <3>2, <3>3, <3>4
    <3> QED
      BY <3>5 DEF K
  <2>4. 0 .. n \subseteq K
    <3> HIDE DEF K, n
    <3> QED
      BY <1>1, <2>2, <2>3, InductionUpTo
  <2>5. h[n] = g[n] /\ h[n] \in Seq(X)
    <3>1. n \in 0 .. n
      BY <1>1
    <3>2. n \in K
      BY <2>4, <3>1
    <3> HIDE DEF n
    <3> QED
      BY <1>4, <3>2
  <2>6. g[n + 1] = g[n] \o s
    <3> DEFINE m == n + 1
    <3>1. m \in 1 .. Len(r) /\ m # 1 /\ m - 1 = n
      BY <1>1, <1>4
    <3> HIDE DEF m, n
    <3>2. g[m] = IF m = 1 THEN r[m] ELSE g[m - 1] \o r[m]
      BY <1>2, <3>1
    <3>3. g[m] = g[n] \o r[m]
      BY <3>1, <3>2
    <3> QED
      BY <1>1, <3>3 DEF m
  <2> QED
    BY <1>1, <1>2, <2>1, <2>5, <2>6 DEF r
<1> QED
  BY <1>3, <1>4

\* No sequences make the empty one.
LEMMA FlattenEmpty == FlattenSeq(<<>>) = <<>>
BY DEF FlattenSeq

\* Two lists of sequences are flattened one after the other.
LEMMA FlattenConcat ==
  ASSUME NEW X, NEW a \in Seq(Seq(X)), NEW b \in Seq(Seq(X))
  PROVE  FlattenSeq(a \o b) = FlattenSeq(a) \o FlattenSeq(b)
<1> DEFINE T == {c \in Seq(Seq(X)) : FlattenSeq(a \o c) = FlattenSeq(a) \o FlattenSeq(c)}
<1>0. \A c \in Seq(Seq(X)) : FlattenSeq(c) \in Seq(X)
  <2>1. <<>> \in Seq(X)
    OBVIOUS
  <2> QED
    BY <2>1, FlattenAppend
<1>1. <<>> \in T
  <2>1. a \o <<>> = a /\ FlattenSeq(a) \o <<>> = FlattenSeq(a) /\ <<>> \in Seq(Seq(X))
    BY <1>0
  <2>2. FlattenSeq(a \o <<>>) = FlattenSeq(a) \o FlattenSeq(<<>>)
    BY <2>1, FlattenEmpty
  <2> QED
    BY <2>1, <2>2
<1>2. ASSUME NEW c \in Seq(Seq(X)), NEW s \in Seq(X), c \in T
      PROVE  Append(c, s) \in T
  <2>1. /\ a \o Append(c, s) = Append(a \o c, s)
        /\ a \o c \in Seq(Seq(X)) /\ Append(c, s) \in Seq(Seq(X))
    OBVIOUS
  <2>2. FlattenSeq(a \o c) = FlattenSeq(a) \o FlattenSeq(c)
    BY <1>2
  <2> HIDE DEF T
  <2>3. FlattenSeq(Append(a \o c, s)) = FlattenSeq(a \o c) \o s
    BY <2>1, FlattenAppend
  <2>4. FlattenSeq(Append(c, s)) = FlattenSeq(c) \o s
    BY FlattenAppend
  <2>5. FlattenSeq(a) \in Seq(X) /\ FlattenSeq(c) \in Seq(X)
    BY <1>0
  <2>6. (FlattenSeq(a) \o FlattenSeq(c)) \o s = FlattenSeq(a) \o (FlattenSeq(c) \o s)
    BY <2>5
  <2>7. FlattenSeq(a \o Append(c, s)) = FlattenSeq(a) \o FlattenSeq(Append(c, s))
    BY <2>1, <2>2, <2>3, <2>4, <2>6
  <2> QED
    BY <2>1, <2>7 DEF T
<1>3. Seq(Seq(X)) \subseteq T
  <2> HIDE DEF T
  <2> QED
    BY <1>1, <1>2, SeqInduction
<1> QED
  BY <1>3

-----------------------------------------------------------------------------
(* The first elements of a sequence, and the matches of a tree.            *)

\* First(n, _) is the whole of what is short enough.
LEMMA FirstFits ==
  ASSUME NEW X, NEW a \in Seq(X), NEW n \in Nat
  PROVE  /\ First(n, a) \in Seq(X) /\ Len(First(n, a)) <= n
         /\ Len(a) <= n => First(n, a) = a
         /\ Len(First(n, a)) < n => First(n, a) = a
         /\ Len(a) >= n => Len(First(n, a)) = n
BY DEF First

\* Of two sequences in a row it takes from the second what the first leaves room for.
LEMMA FirstConcat ==
  ASSUME NEW X, NEW a \in Seq(X), NEW b \in Seq(X), NEW n \in Nat
  PROVE  /\ Len(a) >= n => First(n, a \o b) = First(n, a)
         /\ Len(a) <= n => First(n, a \o b) = a \o First(n - Len(a), b)
<1>1. a \o b \in Seq(X) /\ Len(a \o b) = Len(a) + Len(b) /\ Len(a) \in Nat /\ Len(b) \in Nat
  OBVIOUS
<1>2. CASE Len(a) >= n
  <2>1. SubSeq(a \o b, 1, n) = SubSeq(a, 1, n)
    BY <1>2
  <2>2. SubSeq(a, 1, Len(a)) = a
    OBVIOUS
  <2>3. First(n, a) = SubSeq(a, 1, n)
    BY <1>1, <1>2, <2>2 DEF First
  <2>4. First(n, a \o b) = First(n, a)
    <3>1. CASE b = <<>>
      BY <3>1
    <3>2. CASE b # <<>>
      <4>1. Len(a \o b) > n
        BY <1>1, <1>2, <3>2
      <4> QED
        BY <2>1, <2>3, <4>1 DEF First
    <3> QED
      BY <3>1, <3>2
  <2>5. ASSUME Len(a) <= n
        PROVE  First(n, a \o b) = a \o First(n - Len(a), b)
    <3>0. Len(a) = n
      BY <1>1, <1>2, <2>5
    <3>1. Len(a) = n /\ First(n, a) = a
      BY <1>1, <3>0 DEF First
    <3>2. First(0, b) = <<>>
      BY <1>1 DEF First
    <3>3. a \o <<>> = a /\ n - Len(a) = 0
      BY <3>1
    <3> QED
      BY <2>4, <3>1, <3>2, <3>3
  <2> QED
    BY <2>4, <2>5
<1>3. CASE Len(a) < n
  <2>1. CASE Len(a) + Len(b) <= n
    BY <1>1, <1>3, <2>1 DEF First
  <2>2. CASE Len(a) + Len(b) > n
    <3>1. SubSeq(a \o b, 1, n) = a \o SubSeq(b, 1, n - Len(a))
      BY <1>1, <1>3, <2>2
    <3> QED
      BY <1>1, <1>3, <2>2, <3>1 DEF First
  <2> QED
    BY <1>1, <2>1, <2>2
<1> QED
  BY <1>1, <1>2, <1>3

Matches == Files \X Nat

\* The matches of a file are matches.
LEMMA MatchesInType ==
  ASSUME NEW t \in [Files -> Entries], NEW f \in Files
  PROVE  /\ MatchesIn(t, f) \in Seq(Matches)
         /\ Len(MatchesIn(t, f)) = Len(Hits(t, f)) /\ Len(Hits(t, f)) \in Nat
<1> DEFINE n == Len(t[f].lines)
           numbers == [i \in 1 .. n |-> i]
           set == {i \in 1 .. n : t[f].lines[i]}
<1>1. t[f] \in Entries
  OBVIOUS
<1>2. n \in Nat
  BY <1>1, InvestigationConstants
<1>3. numbers \in Seq(Nat)
  BY <1>2
<1>4. Hits(t, f) = Keep(numbers, set)
  BY DEF Hits
<1> HIDE DEF numbers, set
<1>5. Hits(t, f) \in Seq(Nat)
  BY <1>3, <1>4, KeepType
<1> QED
  BY <1>5 DEF MatchesIn, Matches

\* The matches of two lists of files are those of the one and those of the other.
LEMMA MatchesOfConcat ==
  ASSUME NEW t \in [Files -> Entries], NEW a \in Seq(Files), NEW b \in Seq(Files)
  PROVE  /\ MatchesOf(t, a) \in Seq(Matches)
         /\ MatchesOf(t, a \o b) = MatchesOf(t, a) \o MatchesOf(t, b)
<1> DEFINE L(c) == [i \in 1 .. Len(c) |-> MatchesIn(t, c[i])]
<1>1. \A c \in Seq(Files) : L(c) \in Seq(Seq(Matches))
  BY MatchesInType
<1>2. L(a \o b) = L(a) \o L(b)
  OBVIOUS
<1>3. /\ MatchesOf(t, a) = FlattenSeq(L(a)) /\ MatchesOf(t, b) = FlattenSeq(L(b))
      /\ MatchesOf(t, a \o b) = FlattenSeq(L(a \o b))
  BY DEF MatchesOf
<1>4. L(a) \in Seq(Seq(Matches)) /\ L(b) \in Seq(Seq(Matches))
  BY <1>1
<1> HIDE DEF L
<1>5. FlattenSeq(L(a)) \in Seq(Matches)
  <2>1. <<>> \in Seq(Matches)
    OBVIOUS
  <2> QED
    BY <1>4, <2>1, FlattenAppend
<1>6. FlattenSeq(L(a) \o L(b)) = FlattenSeq(L(a)) \o FlattenSeq(L(b))
  BY <1>4, FlattenConcat
<1> QED
  BY <1>2, <1>3, <1>5, <1>6

\* Of one file, its own.
LEMMA MatchesOfOne ==
  ASSUME NEW t \in [Files -> Entries], NEW f \in Files
  PROVE  MatchesOf(t, <<f>>) = MatchesIn(t, f) /\ MatchesOf(t, <<>>) = <<>>
<1> DEFINE m == MatchesIn(t, f)
           e == <<>>
<1>1. m \in Seq(Matches)
  BY MatchesInType
<1>2. MatchesOf(t, <<f>>) = FlattenSeq(<<m>>)
  BY DEF MatchesOf
<1>3. MatchesOf(t, e) = FlattenSeq(e)
  BY DEF MatchesOf
<1>4. <<m>> = Append(e, m) /\ e \in Seq(Seq(Matches))
  OBVIOUS
<1> HIDE DEF m
<1>5. FlattenSeq(Append(e, m)) = FlattenSeq(e) \o m
  <2> HIDE DEF e
  <2> QED
    BY <1>1, <1>4, FlattenAppend
<1>6. <<>> \o m = m
  BY <1>1
<1> QED
  BY <1>2, <1>3, <1>4, <1>5, <1>6, FlattenEmpty DEF m

-----------------------------------------------------------------------------
(* The walk and the answer.                                                *)

TextFiles(t) == {f \in Files : IsText(t, f)}

\* The text files of the first k directories.
TextsTo(t, k) == Keep(FlattenSeq(SubSeq(Layout, 1, k)), TextFiles(t))

\* A sequence is its first elements and then the rest.
LEMMA SplitAt ==
  ASSUME NEW X, NEW s \in Seq(X), NEW k \in 0 .. Len(s)
  PROVE  /\ SubSeq(s, 1, k) \in Seq(X) /\ SubSeq(s, k + 1, Len(s)) \in Seq(X)
         /\ s = SubSeq(s, 1, k) \o SubSeq(s, k + 1, Len(s))
<1> DEFINE a == SubSeq(s, 1, k)
           b == SubSeq(s, k + 1, Len(s))
           c == a \o b
<1>1. Len(s) \in Nat /\ k \in Nat /\ k <= Len(s)
  OBVIOUS
<1>2. a \in Seq(X) /\ Len(a) = k /\ \A i \in 1 .. k : a[i] = s[i]
  BY <1>1
<1>3. b \in Seq(X) /\ Len(b) = Len(s) - k /\ \A i \in 1 .. Len(s) - k : b[i] = s[k + i]
  BY <1>1
<1> HIDE DEF a, b
<1>4. c \in Seq(X) /\ Len(c) = Len(s)
  BY <1>1, <1>2, <1>3
<1>5. ASSUME NEW i \in 1 .. Len(s)
      PROVE  c[i] = s[i]
  <2>1. CASE i <= k
    BY <1>1, <1>2, <1>3, <2>1
  <2>2. CASE i > k
    <3>1. c[i] = b[i - k]
      BY <1>1, <1>2, <1>3, <2>2
    <3>2. i - k \in 1 .. Len(s) - k /\ k + (i - k) = i
      BY <1>1, <2>2
    <3> QED
      BY <1>3, <3>1, <3>2
  <2>3. i <= k \/ i > k
    BY <1>1
  <2> QED
    BY <2>1, <2>2, <2>3, Zenon
<1> HIDE DEF c
<1>6. c = s
  BY <1>4, <1>5
<1> QED
  BY <1>2, <1>3, <1>6 DEF a, b, c

\* The text files are those of one directory after the other.
LEMMA TextsByDirectory ==
  ASSUME NEW t
  PROVE  /\ TextsTo(t, 0) = <<>>
         /\ TextsTo(t, Len(Layout)) = Texts(t)
         /\ \A k \in 0 .. Len(Layout) :
              /\ TextsTo(t, k) \in Seq(Files)
              /\ \E r \in Seq(Files) : Texts(t) = TextsTo(t, k) \o r
         /\ \A k \in 1 .. Len(Layout) :
              TextsTo(t, k) = TextsTo(t, k - 1) \o Keep(Layout[k], TextFiles(t))
<1> DEFINE n == Len(Layout)
           T == TextFiles(t)
<1>1. Layout \in Seq(Seq(Files)) /\ n \in Nat /\ \A k \in 1 .. n : Layout[k] \in Seq(Files)
  BY InvestigationConstants
<1>2. \A L \in Seq(Seq(Files)) : FlattenSeq(L) \in Seq(Files)
  <2>1. <<>> \in Seq(Files)
    OBVIOUS
  <2> QED
    BY <2>1, FlattenAppend
<1>3. \A k \in 0 .. n : SubSeq(Layout, 1, k) \in Seq(Seq(Files))
  BY <1>1
<1>4. TextsTo(t, 0) = <<>>
  <2>1. SubSeq(Layout, 1, 0) = <<>>
    BY <1>1
  <2> QED
    BY <2>1, FlattenEmpty, KeepEmpty DEF TextsTo
<1>5. TextsTo(t, n) = Texts(t)
  <2>1. SubSeq(Layout, 1, n) = Layout
    BY <1>1
  <2> QED
    BY <2>1 DEF TextsTo, Texts, TextFiles, Names
<1>6. ASSUME NEW k \in 0 .. n
      PROVE  /\ TextsTo(t, k) \in Seq(Files)
             /\ \E r \in Seq(Files) : Texts(t) = TextsTo(t, k) \o r
  <2> DEFINE L == SubSeq(Layout, 1, k)
             R == SubSeq(Layout, k + 1, n)
  <2>1. L \in Seq(Seq(Files)) /\ R \in Seq(Seq(Files)) /\ Layout = L \o R
    BY <1>1, SplitAt
  <2> HIDE DEF R, L
  <2>2. FlattenSeq(Layout) = FlattenSeq(L) \o FlattenSeq(R)
    BY <2>1, FlattenConcat
  <2>3. FlattenSeq(L) \in Seq(Files) /\ FlattenSeq(R) \in Seq(Files)
    BY <1>2, <2>1
  <2>4. Keep(FlattenSeq(L) \o FlattenSeq(R), T) = Keep(FlattenSeq(L), T) \o Keep(FlattenSeq(R), T)
    BY <2>3, KeepConcat
  <2>5. Keep(FlattenSeq(L), T) \in Seq(Files) /\ Keep(FlattenSeq(R), T) \in Seq(Files)
    BY <2>3, KeepType
  <2>6. Texts(t) = Keep(FlattenSeq(Layout), T)
    BY DEF Texts, TextFiles, Names
  <2>7. TextsTo(t, k) = Keep(FlattenSeq(L), T)
    BY DEF TextsTo, L
  <2> QED
    BY <2>2, <2>4, <2>5, <2>6, <2>7
<1>7. ASSUME NEW k \in 1 .. n
      PROVE  TextsTo(t, k) = TextsTo(t, k - 1) \o Keep(Layout[k], T)
  <2> DEFINE L == SubSeq(Layout, 1, k - 1)
             d == Layout[k]
  <2>1. L \in Seq(Seq(Files)) /\ d \in Seq(Files) /\ SubSeq(Layout, 1, k) = Append(L, d)
    BY <1>1
  <2> HIDE DEF L, d
  <2>2. FlattenSeq(Append(L, d)) = FlattenSeq(L) \o d
    BY <2>1, FlattenAppend
  <2>3. FlattenSeq(L) \in Seq(Files)
    BY <1>2, <2>1
  <2>4. Keep(FlattenSeq(L) \o d, T) = Keep(FlattenSeq(L), T) \o Keep(d, T)
    BY <2>1, <2>3, KeepConcat
  <2> QED
    BY <2>1, <2>2, <2>4 DEF TextsTo, L, d
<1> QED
  BY <1>4, <1>5, <1>6, <1>7

ProbeFields == {"at", "dir", "files", "scanned", "matches", "truncated"}

ProbeType(p) ==
  /\ DOMAIN p = ProbeFields
  /\ p.dir \in 0 .. Len(Layout) /\ p.files \in Seq(Files) /\ p.scanned \in Nat
  /\ p.matches \in Seq(Matches) /\ Len(p.matches) <= MaxMatches
  /\ p.truncated \in BOOLEAN

\* s are the files scanned before the search was full: the first ones, and while there is
\* room, as many as it counted, with the rest of the directory still before it.
Scanned(t, p, s) ==
  /\ s \in Seq(Files) /\ Len(s) <= MaxFiles
  /\ \E r \in Seq(Files) : Texts(t) = s \o r
  /\ p.matches = First(MaxMatches, MatchesOf(t, s))
  /\ Len(p.matches) < MaxMatches =>
       /\ Len(s) = p.scanned
       /\ p.truncated => p.scanned >= MaxFiles
       /\ ~p.truncated => s \o Keep(p.files, TextFiles(t)) = TextsTo(t, p.dir)

WalkInv(t, p) == ProbeType(p) /\ \E s : Scanned(t, p, s)

\* A search answers with the first matches of the first files, and with all there are if it
\* neither was full nor says it is truncated.
RightSearch(t, a) ==
  /\ a.op = "search"
  /\ a.matches = First(MaxMatches, MatchesOf(t, First(MaxFiles, Texts(t))))
  /\ Len(a.matches) < MaxMatches /\ ~a.truncated => a.matches = MatchesOf(t, Texts(t))

-----------------------------------------------------------------------------
(* The instrument as a function of what it holds.                          *)

\* One step of the search in tree t that holds p.
SearchStep(t, p) ==
  IF p.files = <<>>
  THEN IF p.dir = Len(Layout)
       THEN <<p, Answer(SearchAnswer(p))>>
       ELSE IF p.scanned >= MaxFiles
       THEN <<p, Answer(SearchAnswer([p EXCEPT !.truncated = TRUE]))>>
       ELSE <<[p EXCEPT !.dir = @ + 1, !.files = Sorted(t, p.dir + 1)],
              Nothing>>
  ELSE IF p.scanned >= MaxFiles
  THEN <<[p EXCEPT !.truncated = TRUE, !.files = <<>>], Nothing>>
  ELSE IF IsText(t, Head(p.files))
  THEN <<Scan(t, p, Head(p.files)), Nothing>>
  ELSE <<[p EXCEPT !.files = Tail(@)], Nothing>>

\* One look of the read of file f.
ReadStep(t, f, p) ==
  CASE p.at = "start" -> IF Present(t, f) THEN <<[p EXCEPT !.at = "stat"], Nothing>>
                                          ELSE <<p, NoEffect>>
    [] p.at = "stat"  -> IF Present(t, f) THEN <<[p EXCEPT !.at = "bytes"], Nothing>>
                                          ELSE <<p, Raised>>
    [] OTHER -> IF IsText(t, f) THEN <<p, Answer(ReadAnswer(t[f].lines))>>
                                ELSE <<p, NoEffect>>

\* s is what the instrument holds and what it returned, if it has; q is the query.
After(t, q, s) ==
  IF s[2].kind # "none" THEN s
  ELSE IF q.op = "search" THEN SearchStep(t, s[1]) ELSE ReadStep(t, q.file, s[1])

\* f is the first n steps of a measurement of t.
Measurement(t, q, f, n) ==
  /\ n \in Nat
  /\ f[0] = <<Start, Nothing>>
  /\ \A i \in 1 .. n : f[i] = After(t, q, f[i - 1])

Reached(t, q, s) == \E n, f : Measurement(t, q, f, n) /\ f[n] = s

-----------------------------------------------------------------------------
(* One tree, one answer.                                                   *)

\* Two measurements of one tree go the same way.
LEMMA SameWay ==
  ASSUME NEW t, NEW q, NEW n, NEW m, NEW f, NEW g, Measurement(t, q, f, n), Measurement(t, q, g, m),
         NEW k \in Nat, k <= n, k <= m
  PROVE  f[k] = g[k]
<1> DEFINE S == {i \in Nat : f[i] = g[i]}
<1>1. 0 \in S
  BY DEF Measurement
<1>2. ASSUME NEW i \in 1 .. k, i - 1 \in S
      PROVE  i \in S
  <2>1. i \in 1 .. n /\ i \in 1 .. m
    BY DEF Measurement
  <2>2. f[i] = After(t, q, f[i - 1]) /\ g[i] = After(t, q, g[i - 1])
    BY <2>1 DEF Measurement
  <2> QED
    BY <1>2, <2>2
<1>3. 0 .. k \subseteq S
  <2> HIDE DEF S
  <2> QED
    BY <1>1, <1>2, InductionUpTo
<1> QED
  BY <1>3

\* What has returned stays.
LEMMA StaysReturned ==
  ASSUME NEW t, NEW q, NEW m, NEW g, Measurement(t, q, g, m), NEW k \in Nat, k <= m, g[k][2].kind # "none"
  PROVE  g[m] = g[k]
<1> DEFINE S == {i \in Nat : i >= k => g[i] = g[k]}
<1>1. 0 \in S
  OBVIOUS
<1>2. ASSUME NEW i \in 1 .. m, i - 1 \in S
      PROVE  i \in S
  <2>1. g[i] = After(t, q, g[i - 1])
    BY DEF Measurement
  <2>2. i >= k => i = k \/ g[i - 1] = g[k]
    BY <1>2 DEF Measurement
  <2>3. g[i - 1] = g[k] => g[i] = g[k]
    BY <2>1 DEF After
  <2> QED
    BY <2>2, <2>3
<1>3. 0 .. m \subseteq S
  <2>1. m \in Nat
    BY DEF Measurement
  <2> HIDE DEF S
  <2> QED
    BY <1>1, <1>2, <2>1, InductionUpTo
<1> QED
  BY <1>3 DEF Measurement

\* Two measurements of one tree that have returned, returned the same.
LEMMA OneAnswer ==
  ASSUME NEW t, NEW q, NEW s, NEW r, Reached(t, q, s), Reached(t, q, r),
         s[2].kind # "none", r[2].kind # "none"
  PROVE  s = r
<1>1. PICK n, f : Measurement(t, q, f, n) /\ f[n] = s
  BY DEF Reached
<1>2. PICK m, g : Measurement(t, q, g, m) /\ g[m] = r
  BY DEF Reached
<1>3. n \in Nat /\ m \in Nat
  BY <1>1, <1>2 DEF Measurement
<1>4. CASE n <= m
  <2>1. g[n] = s
    BY <1>1, <1>2, <1>3, <1>4, SameWay
  <2> QED
    BY <1>2, <1>3, <1>4, <2>1, StaysReturned
<1>5. CASE m <= n
  <2>1. f[m] = r
    BY <1>1, <1>2, <1>3, <1>5, SameWay
  <2> QED
    BY <1>1, <1>3, <1>5, <2>1, StaysReturned
<1> QED
  BY <1>3, <1>4, <1>5

\* A measurement starts from nothing.
LEMMA ReachedAtStart ==
  ASSUME NEW t, NEW q
  PROVE  Reached(t, q, <<Start, Nothing>>)
<1> DEFINE f == [i \in {0} |-> <<Start, Nothing>>]
<1>1. Measurement(t, q, f, 0)
  BY DEF Measurement
<1> HIDE DEF f
<1>2. f[0] = <<Start, Nothing>>
  BY <1>1 DEF Measurement
<1> QED
  BY <1>1, <1>2 DEF Reached

\* And goes on by its steps.
LEMMA ReachedNext ==
  ASSUME NEW t, NEW q, NEW s, Reached(t, q, s)
  PROVE  Reached(t, q, After(t, q, s))
<1>1. PICK n, f : Measurement(t, q, f, n) /\ f[n] = s
  BY DEF Reached
<1>2. n \in Nat
  BY <1>1 DEF Measurement
<1> DEFINE r == After(t, q, s)
           g == [i \in 0 .. n + 1 |-> IF i = n + 1 THEN r ELSE f[i]]
<1>3. g[n + 1] = r
  BY <1>2
<1>4. \A i \in 0 .. n : g[i] = f[i]
  BY <1>2
<1>5. r = After(t, q, f[n])
  BY <1>1
<1> HIDE DEF g, r
<1>6. Measurement(t, q, g, n + 1)
  <2>1. ASSUME NEW i \in 1 .. n + 1
        PROVE  g[i] = After(t, q, g[i - 1])
    <3>1. CASE i = n + 1
      BY <1>2, <1>3, <1>4, <1>5, <3>1
    <3>2. CASE i # n + 1
      <4>1. i \in 1 .. n /\ i - 1 \in 0 .. n /\ i \in 0 .. n
        BY <1>2, <3>2
      <4> QED
        BY <1>1, <1>4, <4>1 DEF Measurement
    <3> QED
      BY <3>1, <3>2
  <2>2. g[0] = <<Start, Nothing>>
    BY <1>1, <1>2, <1>4 DEF Measurement
  <2> QED
    BY <1>2, <2>1, <2>2 DEF Measurement
<1> QED
  BY <1>3, <1>6 DEF Reached, r

-----------------------------------------------------------------------------
(* What a search answers.                                                  *)

\* The walk starts with nothing scanned.
LEMMA WalkStarts ==
  ASSUME NEW t \in [Files -> Entries]
  PROVE  WalkInv(t, Start)
<1> DEFINE s == <<>>
<1>1. s \in Seq(Files) /\ Len(s) = 0 /\ s \in Seq(Matches)
  OBVIOUS
<1>2. /\ DOMAIN Start = ProbeFields /\ Start.dir = 0 /\ Start.files = s /\ Start.scanned = 0
      /\ Start.matches = s /\ Start.truncated = FALSE
  BY DEF Start, ProbeFields
<1>3. Layout \in Seq(Seq(Files)) /\ MaxFiles \in Nat /\ MaxMatches \in Nat
  BY InvestigationConstants
<1>4. ProbeType(Start)
  <2>1. 0 \in 0 .. Len(Layout) /\ 0 \in Nat /\ 0 <= MaxMatches /\ FALSE \in BOOLEAN
    BY <1>3
  <2> HIDE DEF s
  <2> QED
    BY <1>1, <1>2, <2>1 DEF ProbeType
<1>5. MatchesOf(t, s) = s
  BY FlattenEmpty, <1>1 DEF MatchesOf
<1>6. First(MaxMatches, s) = s
  BY <1>1, <1>3 DEF First
<1>7. \E r \in Seq(Files) : Texts(t) = s \o r
  <2>1. 0 \in 0 .. Len(Layout)
    BY <1>3
  <2> QED
    BY <2>1, TextsByDirectory
<1>8. Keep(s, TextFiles(t)) = s /\ s \o s = s /\ TextsTo(t, 0) = s
  BY KeepEmpty, TextsByDirectory
<1> HIDE DEF s
<1>9. Scanned(t, Start, s)
  <2>1. Len(s) <= MaxFiles
    BY <1>1, <1>3
  <2>2. s = First(MaxMatches, MatchesOf(t, s))
    BY <1>5, <1>6
  <2> QED
    BY <1>1, <1>2, <1>7, <1>8, <2>1, <2>2 DEF Scanned
<1> QED
  BY <1>4, <1>9 DEF WalkInv

\* It enters a directory.
LEMMA EnterKeepsWalk ==
  ASSUME NEW t \in [Files -> Entries], NEW p, WalkInv(t, p),
         p.files = <<>>, p.dir # Len(Layout)
  PROVE  WalkInv(t, [p EXCEPT !.dir = @ + 1, !.files = Sorted(t, p.dir + 1)])
<1> DEFINE d == p.dir + 1
           ns == Sorted(t, d)
           q == [p EXCEPT !.dir = @ + 1, !.files = ns]
           T == TextFiles(t)
<1>1. ProbeType(p) /\ Layout \in Seq(Seq(Files))
  BY InvestigationConstants DEF WalkInv
<1>2. d \in 1 .. Len(Layout) /\ p.dir = d - 1 /\ Layout[d] \in Seq(Files)
  BY <1>1 DEF ProbeType
<1>3. ns \in Seq(Files)
  BY <1>2, KeepType DEF Sorted
<1>4. Keep(ns, T) = Keep(Layout[d], T)
  <2>1. T \subseteq {f \in Files : Present(t, f)}
    BY DEF TextFiles, IsText, Present
  <2> HIDE DEF T, d
  <2> QED
    BY <1>2, <2>1, KeepKeep DEF Sorted
<1> HIDE DEF ns
<1>5. /\ DOMAIN q = ProbeFields /\ q.dir = d /\ q.files = ns /\ q.scanned = p.scanned
      /\ q.matches = p.matches /\ q.truncated = p.truncated
  BY <1>1 DEF ProbeType, ProbeFields
<1> HIDE DEF q, d
<1>6. ProbeType(q)
  BY <1>1, <1>2, <1>3, <1>5 DEF ProbeType
<1>7. PICK s : Scanned(t, p, s)
  BY DEF WalkInv
<1>8. s \in Seq(Files) /\ s \o <<>> = s
  BY <1>7 DEF Scanned
<1>9. Keep(p.files, T) = <<>>
  BY KeepEmpty
<1>10. TextsTo(t, d) = TextsTo(t, d - 1) \o Keep(ns, T)
  BY <1>2, <1>4, TextsByDirectory
<1>11. Scanned(t, q, s)
  BY <1>2, <1>5, <1>7, <1>8, <1>9, <1>10 DEF Scanned
<1> QED
  BY <1>6, <1>11 DEF WalkInv, q, ns, d

\* It stops at the cap on files.
LEMMA CutKeepsWalk ==
  ASSUME NEW t \in [Files -> Entries], NEW p, WalkInv(t, p), p.scanned >= MaxFiles
  PROVE  /\ WalkInv(t, [p EXCEPT !.truncated = TRUE, !.files = <<>>])
         /\ WalkInv(t, [p EXCEPT !.truncated = TRUE])
<1>1. PICK s : Scanned(t, p, s)
  BY DEF WalkInv
<1>2. ASSUME NEW fs \in Seq(Files), NEW q,
             DOMAIN q = ProbeFields, q.dir = p.dir, q.files = fs, q.scanned = p.scanned,
             q.matches = p.matches, q.truncated = TRUE
      PROVE  WalkInv(t, q)
  <2>1. ProbeType(q)
    BY <1>2 DEF ProbeType, WalkInv
  <2>2. Scanned(t, q, s)
    BY <1>1, <1>2 DEF Scanned
  <2> QED
    BY <2>1, <2>2 DEF WalkInv
<1>3. DOMAIN p = ProbeFields /\ p.files \in Seq(Files) /\ <<>> \in Seq(Files)
  BY DEF WalkInv, ProbeType
<1>4. WalkInv(t, [p EXCEPT !.truncated = TRUE, !.files = <<>>])
  <2> DEFINE q == [p EXCEPT !.truncated = TRUE, !.files = <<>>]
             fs == <<>>
  <2>1. /\ DOMAIN q = ProbeFields /\ q.dir = p.dir /\ q.files = fs /\ q.scanned = p.scanned
        /\ q.matches = p.matches /\ q.truncated = TRUE /\ fs \in Seq(Files)
    BY <1>3 DEF ProbeFields
  <2> HIDE DEF q, fs
  <2>2. WalkInv(t, q)
    BY <1>2, <2>1
  <2> QED
    BY <2>2 DEF q, fs
<1>5. WalkInv(t, [p EXCEPT !.truncated = TRUE])
  <2> DEFINE q == [p EXCEPT !.truncated = TRUE]
             fs == p.files
  <2>1. /\ DOMAIN q = ProbeFields /\ q.dir = p.dir /\ q.files = fs /\ q.scanned = p.scanned
        /\ q.matches = p.matches /\ q.truncated = TRUE /\ fs \in Seq(Files)
    BY <1>3 DEF ProbeFields
  <2> HIDE DEF q, fs
  <2>2. WalkInv(t, q)
    BY <1>2, <2>1
  <2> QED
    BY <2>2 DEF q, fs
<1> QED
  BY <1>4, <1>5

\* It passes over a file it does not read.
LEMMA SkipKeepsWalk ==
  ASSUME NEW t \in [Files -> Entries], NEW p, WalkInv(t, p), p.files # <<>>,
         ~IsText(t, Head(p.files))
  PROVE  WalkInv(t, [p EXCEPT !.files = Tail(@)])
<1> DEFINE fs == p.files
           q == [p EXCEPT !.files = Tail(@)]
           T == TextFiles(t)
<1>1. PICK s : Scanned(t, p, s)
  BY DEF WalkInv
<1>2. ProbeType(p)
  BY DEF WalkInv
<1>3. fs \in Seq(Files) /\ fs # <<>> /\ Tail(fs) \in Seq(Files) /\ Head(fs) \notin T
  BY <1>2 DEF ProbeType, TextFiles
<1>4. /\ DOMAIN q = ProbeFields /\ q.dir = p.dir /\ q.files = Tail(fs) /\ q.scanned = p.scanned
      /\ q.matches = p.matches /\ q.truncated = p.truncated
  BY <1>2 DEF ProbeType, ProbeFields
<1>5. Keep(fs, T) = Keep(Tail(fs), T)
  <2> HIDE DEF fs, T
  <2> QED
    BY <1>3, KeepHead
<1> HIDE DEF q
<1>6. ProbeType(q)
  BY <1>2, <1>3, <1>4 DEF ProbeType
<1>7. Scanned(t, q, s)
  BY <1>1, <1>4, <1>5 DEF Scanned
<1> QED
  BY <1>6, <1>7 DEF WalkInv, q

\* What scanning a text file does to what the search holds.
LEMMA ScanFields ==
  ASSUME NEW t \in [Files -> Entries], NEW p, ProbeType(p), p.files # <<>>
  PROVE  LET f == Head(p.files)
             q == Scan(t, p, f)
             room == MaxMatches - Len(p.matches)
         IN  /\ DOMAIN q = ProbeFields /\ q.dir = p.dir /\ q.scanned = p.scanned + 1
             /\ q.matches = p.matches \o First(room, MatchesIn(t, f))
             /\ q.truncated \in BOOLEAN
             /\ Len(Hits(t, f)) >= room => q.files = <<>>
             /\ Len(Hits(t, f)) < room => q.files = Tail(p.files) /\ q.truncated = p.truncated
<1> DEFINE f == Head(p.files)
           room == MaxMatches - Len(p.matches)
           hits == Hits(t, f)
           full == Len(hits) >= room
           last == IF room = 0 THEN 0 ELSE hits[room]
           ms == p.matches \o First(room, MatchesIn(t, f))
           tr == p.truncated \/ (full /\ last < Len(t[f].lines))
           fs == IF full THEN <<>> ELSE Tail(p.files)
           q == [p EXCEPT !.scanned = @ + 1, !.matches = ms, !.truncated = tr, !.files = fs]
<1>1. Scan(t, p, f) = q
  BY DEF Scan
<1>2. tr \in BOOLEAN
  BY DEF ProbeType
<1>3. Len(hits) < room => ~full /\ tr = p.truncated /\ fs = Tail(p.files)
  <2>1. Len(hits) \in Nat /\ room \in Int
    <3>1. f \in Files
      BY DEF ProbeType
    <3>2. Len(hits) \in Nat
      BY <3>1, MatchesInType
    <3>3. MaxMatches \in Nat /\ Len(p.matches) \in Nat
      BY InvestigationConstants DEF ProbeType
    <3> QED
      BY <3>2, <3>3
  <2>2. Len(hits) < room => ~full
    BY <2>1
  <2>3. p.truncated \in BOOLEAN
    BY DEF ProbeType
  <2> HIDE DEF hits, room, last
  <2>4. ~full => (tr <=> p.truncated)
    OBVIOUS
  <2>5. ~full => tr = p.truncated
    BY <1>2, <2>3, <2>4
  <2> QED
    BY <2>2, <2>5
<1>4. full => fs = <<>>
  OBVIOUS
<1> HIDE DEF ms, tr, fs
<1>5. /\ DOMAIN q = ProbeFields /\ q.dir = p.dir /\ q.scanned = p.scanned + 1
      /\ q.matches = ms /\ q.truncated = tr /\ q.files = fs
  BY DEF ProbeType, ProbeFields
<1> HIDE DEF q
<1> QED
  BY <1>1, <1>2, <1>3, <1>4, <1>5 DEF ms

\* It scans a text file.
LEMMA ScanKeepsWalk ==
  ASSUME NEW t \in [Files -> Entries], NEW p, WalkInv(t, p), p.files # <<>>,
         IsText(t, Head(p.files)), p.scanned < MaxFiles
  PROVE  WalkInv(t, Scan(t, p, Head(p.files)))
<1> DEFINE fs == p.files
           f == Head(fs)
           g == <<f>>
           rest == Tail(fs)
           ms == p.matches
           room == MaxMatches - Len(ms)
           inF == MatchesIn(t, f)
           new == First(room, inF)
           q == Scan(t, p, f)
           T == TextFiles(t)
<1>1. PICK s : Scanned(t, p, s)
  BY DEF WalkInv
<1>2. ProbeType(p)
  BY DEF WalkInv
<1>3. /\ fs \in Seq(Files) /\ fs # <<>> /\ rest \in Seq(Files) /\ f \in Files /\ f \in T
      /\ g \in Seq(Files) /\ Len(g) = 1
  BY <1>2 DEF ProbeType, TextFiles
<1>4. /\ ms \in Seq(Matches) /\ Len(ms) \in Nat /\ MaxMatches \in Nat /\ Len(ms) <= MaxMatches
      /\ MaxFiles \in Nat /\ p.scanned \in Nat /\ room \in Nat
  BY <1>2, InvestigationConstants DEF ProbeType
<1>5. inF \in Seq(Matches) /\ Len(inF) = Len(Hits(t, f)) /\ Len(inF) \in Nat
  BY <1>3, MatchesInType
<1>6. /\ new \in Seq(Matches) /\ Len(new) <= room
      /\ Len(inF) <= room => new = inF
      /\ Len(inF) >= room => Len(new) = room
  <2> HIDE DEF room, inF
  <2> QED
    BY <1>4, <1>5, FirstFits
<1>7. /\ DOMAIN q = ProbeFields /\ q.dir = p.dir /\ q.scanned = p.scanned + 1
      /\ q.matches = ms \o new /\ q.truncated \in BOOLEAN
      /\ Len(inF) >= room => q.files = <<>>
      /\ Len(inF) < room => q.files = rest /\ q.truncated = p.truncated
  BY <1>2, <1>3, <1>5, ScanFields
<1> HIDE DEF new, q
<1>8. Len(ms \o new) = Len(ms) + Len(new) /\ Len(new) \in Nat /\ ms \o new \in Seq(Matches)
  BY <1>4, <1>6
<1>9. ProbeType(q)
  <2>1. q.files \in Seq(Files)
    <3>1. Len(inF) >= room \/ Len(inF) < room
      <4> HIDE DEF inF, room
      <4> QED
        BY <1>4, <1>5
    <3>2. <<>> \in Seq(Files)
      OBVIOUS
    <3> QED
      BY <1>3, <1>7, <3>1, <3>2
  <2>2. Len(q.matches) <= MaxMatches
    BY <1>4, <1>6, <1>7, <1>8
  <2>3. q.scanned \in Nat
    BY <1>4, <1>7
  <2>4. q.dir \in 0 .. Len(Layout)
    BY <1>2, <1>7 DEF ProbeType
  <2> QED
    BY <1>7, <1>8, <2>1, <2>2, <2>3, <2>4 DEF ProbeType
<1>10. CASE Len(ms) = MaxMatches
  <2>1. room = 0
    BY <1>4, <1>10
  <2>2. Len(new) = 0 /\ new = <<>>
    BY <1>6, <1>8, <2>1
  <2>3. q.matches = ms
    BY <1>4, <1>7, <2>2
  <2>4. Len(q.matches) = MaxMatches /\ ~(Len(q.matches) < MaxMatches)
    BY <1>4, <1>10, <2>3
  <2>5. /\ s \in Seq(Files) /\ Len(s) <= MaxFiles /\ \E r \in Seq(Files) : Texts(t) = s \o r
        /\ q.matches = First(MaxMatches, MatchesOf(t, s))
    BY <1>1, <2>3 DEF Scanned
  <2>6. Scanned(t, q, s)
    BY <2>4, <2>5 DEF Scanned
  <2> QED
    BY <1>9, <2>6 DEF WalkInv, q
<1>11. CASE Len(ms) < MaxMatches
  <2> DEFINE s2 == s \o g
             K == Keep(rest, T)
             mo == MatchesOf(t, s)
  <2>1. /\ s \in Seq(Files) /\ Len(s) = p.scanned /\ ms = First(MaxMatches, mo)
        /\ p.truncated = FALSE
        /\ s \o Keep(fs, T) = TextsTo(t, p.dir)
    <3>1. p.truncated \in BOOLEAN /\ ~(p.scanned >= MaxFiles)
      BY <1>2, <1>4 DEF ProbeType
    <3> QED
      BY <1>1, <1>11, <3>1 DEF Scanned
  <2>2. s2 \in Seq(Files) /\ Len(s2) = p.scanned + 1 /\ Len(s2) <= MaxFiles
    BY <1>3, <1>4, <2>1
  <2>3. Keep(fs, T) = g \o K
    <3> HIDE DEF fs, T
    <3> QED
      BY <1>3, KeepHead
  <2>4. K \in Seq(Files)
    <3> HIDE DEF rest, T
    <3> QED
      BY <1>3, KeepType
  <2>5. s2 \o K = TextsTo(t, p.dir)
    <3> HIDE DEF g, K
    <3>1. (s \o g) \o K = s \o (g \o K)
      BY <1>3, <2>1, <2>4
    <3> QED
      BY <2>1, <2>3, <3>1
  <2>6. \E r \in Seq(Files) : Texts(t) = s2 \o r
    <3>1. PICK r \in Seq(Files) : Texts(t) = TextsTo(t, p.dir) \o r
      <4>1. p.dir \in 0 .. Len(Layout)
        BY <1>2 DEF ProbeType
      <4> QED
        BY <4>1, TextsByDirectory
    <3> HIDE DEF K, s2
    <3>2. (s2 \o K) \o r = s2 \o (K \o r) /\ K \o r \in Seq(Files)
      BY <2>2, <2>4
    <3> QED
      BY <2>5, <3>1, <3>2
  <2>7. mo \in Seq(Matches) /\ MatchesOf(t, s2) = mo \o inF
    <3> HIDE DEF g
    <3>1. mo \in Seq(Matches) /\ MatchesOf(t, s2) = mo \o MatchesOf(t, g)
      BY <1>3, <2>1, MatchesOfConcat
    <3>2. MatchesOf(t, g) = inF
      BY <1>3, MatchesOfOne DEF g
    <3> QED
      BY <3>1, <3>2
  <2> HIDE DEF mo, s2, K, inF
  <2>8. ms = mo
    BY <1>4, <1>11, <2>1, <2>7, FirstFits
  <2>9. q.matches = First(MaxMatches, MatchesOf(t, s2))
    <3>1. First(MaxMatches, mo \o inF) = mo \o First(MaxMatches - Len(mo), inF)
      BY <1>4, <1>5, <2>7, <2>8, FirstConcat
    <3> QED
      BY <1>7, <2>7, <2>8, <3>1 DEF new
  <2>10. Len(q.matches) < MaxMatches => q.files = rest /\ q.truncated = FALSE
    <3>1. Len(inF) >= room => Len(q.matches) = Len(ms) + room
      BY <1>6, <1>7, <1>8
    <3>2. Len(ms) + room = MaxMatches
      BY <1>4
    <3>3. Len(inF) >= room \/ Len(inF) < room
      <4> HIDE DEF room
      <4> QED
        BY <1>4, <1>5
    <3>4. Len(q.matches) < MaxMatches => Len(inF) < room
      <4> HIDE DEF room
      <4> QED
        BY <1>4, <3>1, <3>2, <3>3
    <3> QED
      BY <1>7, <2>1, <3>4
  <2>11. Scanned(t, q, s2)
    <3>1. Len(s2) = q.scanned
      BY <1>7, <2>2
    <3> HIDE DEF rest, T
    <3> QED
      BY <1>7, <2>2, <2>5, <2>6, <2>9, <2>10, <3>1 DEF Scanned, K, T
  <2> QED
    BY <1>9, <2>11 DEF WalkInv, q
<1>12. Len(ms) = MaxMatches \/ Len(ms) < MaxMatches
  BY <1>4
<1> QED
  BY <1>10, <1>11, <1>12, Zenon

\* What has scanned the first files and is full, cut or at the end answers rightly.
LEMMA EndsRight ==
  ASSUME NEW t \in [Files -> Entries], NEW p, WalkInv(t, p), p.files = <<>>,
         p.truncated \/ p.dir = Len(Layout)
  PROVE  RightSearch(t, SearchAnswer(p))
<1> DEFINE a == SearchAnswer(p)
           all == Texts(t)
           T == TextFiles(t)
           e == <<>>
<1>1. a.op = "search" /\ a.matches = p.matches /\ a.truncated = p.truncated
  BY DEF SearchAnswer
<1> HIDE DEF a
<1>2. PICK s : Scanned(t, p, s)
  BY DEF WalkInv
<1>3. PICK r \in Seq(Files) : all = s \o r
  BY <1>2 DEF Scanned
<1>4. /\ s \in Seq(Files) /\ Len(s) <= MaxFiles /\ Len(s) \in Nat
      /\ MaxFiles \in Nat /\ MaxMatches \in Nat /\ e \in Seq(Files)
  BY <1>2, InvestigationConstants DEF Scanned
<1> DEFINE r2 == First(MaxFiles - Len(s), r)
           ms == MatchesOf(t, s)
<1>5. First(MaxFiles, all) = s \o r2 /\ r2 \in Seq(Files)
  <2> DEFINE n == MaxFiles - Len(s)
  <2>1. n \in Nat
    BY <1>4
  <2>2. First(MaxFiles, s \o r) = s \o First(n, r)
    BY <1>4, FirstConcat
  <2> HIDE DEF n
  <2>3. First(n, r) \in Seq(Files)
    BY <2>1, FirstFits
  <2> QED
    BY <1>3, <2>2, <2>3 DEF n
<1>6. /\ ms \in Seq(Matches) /\ MatchesOf(t, r2) \in Seq(Matches)
      /\ MatchesOf(t, s \o r2) = ms \o MatchesOf(t, r2)
  <2> HIDE DEF r2
  <2> QED
    BY <1>4, <1>5, MatchesOfConcat
<1> HIDE DEF ms, r2, all
<1>7. p.matches = First(MaxMatches, ms)
  BY <1>2 DEF Scanned, ms
<1>8. p.matches \in Seq(Matches) /\ Len(p.matches) \in Nat /\ Len(p.matches) <= MaxMatches
  BY DEF WalkInv, ProbeType
<1>9. CASE Len(p.matches) = MaxMatches
  <2>1. Len(ms) >= MaxMatches
    <3>1. Len(ms) \in Nat /\ (Len(ms) <= MaxMatches => First(MaxMatches, ms) = ms)
      BY <1>4, <1>6, FirstFits
    <3> QED
      BY <1>4, <1>7, <1>9, <3>1
  <2>2. First(MaxMatches, ms \o MatchesOf(t, r2)) = First(MaxMatches, ms)
    <3> DEFINE b == MatchesOf(t, r2)
    <3>1. b \in Seq(Matches)
      BY <1>6
    <3> HIDE DEF b
    <3>2. First(MaxMatches, ms \o b) = First(MaxMatches, ms)
      BY <1>4, <1>6, <2>1, <3>1, FirstConcat
    <3> QED
      BY <3>2 DEF b
  <2> QED
    BY <1>1, <1>4, <1>5, <1>6, <1>7, <1>9, <2>2 DEF RightSearch, a, all
<1>10. CASE Len(p.matches) < MaxMatches
  <2>1. p.matches = ms
    BY <1>4, <1>6, <1>7, <1>10, FirstFits
  <2>2. Len(s) = p.scanned
    BY <1>2, <1>10 DEF Scanned
  <2>3. CASE p.truncated
    <3>1. Len(s) = MaxFiles
      <4>1. p.scanned >= MaxFiles
        BY <1>2, <1>10, <2>3 DEF Scanned
      <4> QED
        BY <1>4, <2>2, <4>1
    <3>2. First(MaxFiles, s) = s
      BY <1>4, FirstFits
    <3>3. First(MaxFiles, all) = s
      <4>1. Len(s) >= MaxFiles
        BY <1>4, <3>1
      <4>2. First(MaxFiles, s \o r) = First(MaxFiles, s)
        BY <1>4, <4>1, FirstConcat
      <4> QED
        BY <1>3, <3>2, <4>2
    <3>4. a.matches = First(MaxMatches, MatchesOf(t, First(MaxFiles, all)))
      BY <1>1, <1>7, <3>3 DEF ms
    <3> QED
      BY <1>1, <2>3, <3>4 DEF RightSearch, a, all
  <2>4. CASE ~p.truncated
    <3>1. s \o Keep(p.files, T) = TextsTo(t, p.dir)
      BY <1>2, <1>10, <2>4 DEF Scanned
    <3>2. Keep(p.files, T) = e /\ s \o e = s
      BY <1>4, KeepEmpty
    <3>3. all = s
      BY <2>4, <3>1, <3>2, TextsByDirectory DEF all
    <3>4. First(MaxFiles, s) = s
      BY <1>4, FirstFits
    <3>5. a.matches = First(MaxMatches, MatchesOf(t, First(MaxFiles, all)))
      BY <1>1, <1>7, <3>3, <3>4 DEF ms
    <3>6. a.matches = MatchesOf(t, all)
      BY <1>1, <2>1, <3>3 DEF ms
    <3> QED
      BY <1>1, <3>5, <3>6 DEF RightSearch, a, all
  <2> QED
    BY <2>3, <2>4
<1>11. Len(p.matches) = MaxMatches \/ Len(p.matches) < MaxMatches
  BY <1>4, <1>8
<1> QED
  BY <1>9, <1>10, <1>11

\* A step of the search goes on with the walk or answers rightly.
LEMMA SearchStepIsRight ==
  ASSUME NEW t \in [Files -> Entries], NEW p, WalkInv(t, p)
  PROVE  LET s == SearchStep(t, p)
         IN  \/ s[2] = Nothing /\ WalkInv(t, s[1])
             \/ \E a : s[2] = Answer(a) /\ RightSearch(t, a)
<1> DEFINE s == SearchStep(t, p)
<1>1. MaxFiles \in Nat /\ p.scanned \in Nat /\ p.files \in Seq(Files)
  BY InvestigationConstants DEF WalkInv, ProbeType
<1>2. CASE p.files = <<>> /\ p.dir = Len(Layout)
  <2>1. s[2] = Answer(SearchAnswer(p))
    BY <1>2 DEF SearchStep
  <2> QED
    BY <1>2, <2>1, EndsRight
<1>3. CASE p.files = <<>> /\ p.dir # Len(Layout) /\ p.scanned >= MaxFiles
  <2> DEFINE q == [p EXCEPT !.truncated = TRUE]
  <2>1. s[2] = Answer(SearchAnswer(q))
    BY <1>3 DEF SearchStep
  <2>2. WalkInv(t, q)
    BY <1>3, CutKeepsWalk
  <2>3. q.files = <<>> /\ q.truncated
    BY <1>3 DEF WalkInv, ProbeType, ProbeFields
  <2> HIDE DEF q
  <2>4. RightSearch(t, SearchAnswer(q))
    BY <2>2, <2>3, EndsRight
  <2> QED
    BY <2>1, <2>4
<1>4. CASE p.files = <<>> /\ p.dir # Len(Layout) /\ ~(p.scanned >= MaxFiles)
  <2> DEFINE q == [p EXCEPT !.dir = @ + 1, !.files = Sorted(t, p.dir + 1)]
  <2>1. s = <<q, Nothing>>
    BY <1>4 DEF SearchStep
  <2>2. WalkInv(t, q)
    BY <1>4, EnterKeepsWalk
  <2> HIDE DEF q
  <2> QED
    BY <2>1, <2>2
<1>5. CASE p.files # <<>> /\ p.scanned >= MaxFiles
  <2> DEFINE q == [p EXCEPT !.truncated = TRUE, !.files = <<>>]
  <2>1. s = <<q, Nothing>>
    BY <1>5 DEF SearchStep
  <2>2. WalkInv(t, q)
    BY <1>5, CutKeepsWalk
  <2> HIDE DEF q
  <2> QED
    BY <2>1, <2>2
<1>6. CASE p.files # <<>> /\ ~(p.scanned >= MaxFiles) /\ IsText(t, Head(p.files))
  <2>1. s = <<Scan(t, p, Head(p.files)), Nothing>>
    BY <1>6 DEF SearchStep
  <2>2. p.scanned < MaxFiles
    BY <1>1, <1>6
  <2> QED
    BY <1>6, <2>1, <2>2, ScanKeepsWalk
<1>7. CASE p.files # <<>> /\ ~(p.scanned >= MaxFiles) /\ ~IsText(t, Head(p.files))
  <2>1. s = <<[p EXCEPT !.files = Tail(@)], Nothing>>
    BY <1>7 DEF SearchStep
  <2> QED
    BY <1>7, <2>1, SkipKeepsWalk
<1> QED
  BY <1>2, <1>3, <1>4, <1>5, <1>6, <1>7

\* A read answers with the text of the file, or with the beginning of it and says so.
RightRead(t, f, a) ==
  /\ a.op = "read_file" /\ IsText(t, f)
  /\ IsPrefix(a.content, t[f].lines)
  /\ ~a.truncated => a.content = t[f].lines

RightAnswer(t, q, a) ==
  \/ q.op = "search" /\ RightSearch(t, a)
  \/ q.op = "read_file" /\ RightRead(t, q.file, a)

\* The answer of a read is right.
LEMMA ReadAnswersRight ==
  ASSUME NEW t \in [Files -> Entries], NEW f \in Files, IsText(t, f)
  PROVE  RightRead(t, f, ReadAnswer(t[f].lines))
<1> DEFINE l == t[f].lines
           a == ReadAnswer(l)
<1>1. t[f] \in Entries
  OBVIOUS
<1>2. l \in Seq(BOOLEAN) /\ ReadCap \in Nat
  BY <1>1, InvestigationConstants
<1> HIDE DEF l
<1>3. /\ a.op = "read_file" /\ a.truncated = (Bytes(l) > ReadCap)
      /\ a.content = IF Bytes(l) > ReadCap THEN First(ReadCap, l) ELSE l
  BY DEF ReadAnswer
<1> HIDE DEF a
<1>4. IsPrefix(First(ReadCap, l), l) /\ IsPrefix(l, l)
  <2>1. SubSeq(l, 1, Len(l)) = l /\ Len(l) \in Nat
    BY <1>2
  <2>2. \/ First(ReadCap, l) = l
        \/ First(ReadCap, l) = SubSeq(l, 1, ReadCap) /\ Len(l) > ReadCap
    BY DEF First
  <2>3. \A n \in 0 .. Len(l) : IsPrefix(SubSeq(l, 1, n), l)
    <3> SUFFICES ASSUME NEW n \in 0 .. Len(l)
                 PROVE  IsPrefix(SubSeq(l, 1, n), l)
      OBVIOUS
    <3>1. Len(SubSeq(l, 1, n)) = n
      BY <1>2
    <3> QED
      BY <1>2, <3>1 DEF IsPrefix
  <2>4. Len(l) \in 0 .. Len(l) /\ (Len(l) > ReadCap => ReadCap \in 0 .. Len(l))
    BY <1>2, <2>1
  <2>5. IsPrefix(l, l)
    BY <2>1, <2>3, <2>4
  <2>6. Len(l) > ReadCap => IsPrefix(SubSeq(l, 1, ReadCap), l)
    BY <2>3, <2>4
  <2> QED
    BY <2>2, <2>5, <2>6
<1> QED
  BY <1>3, <1>4 DEF RightRead, l, a

\* Whatever a measurement of a tree answers, it answers rightly.
LEMMA AnswersAreRight ==
  ASSUME NEW t \in [Files -> Entries], NEW q,
         q.op = "search" \/ (q.op = "read_file" /\ q.file \in Files),
         NEW s, Reached(t, q, s), s[2].kind = "answer"
  PROVE  RightAnswer(t, q, s[2].answer)
<1>1. PICK n, f : Measurement(t, q, f, n) /\ f[n] = s
  BY DEF Reached
<1>2. n \in Nat /\ f[0] = <<Start, Nothing>> /\ \A i \in 1 .. n : f[i] = After(t, q, f[i - 1])
  BY <1>1 DEF Measurement
<1> DEFINE Fine(u) == /\ u[2].kind = "answer" => RightAnswer(t, q, u[2].answer)
                      /\ u[2].kind = "none" /\ q.op = "search" => WalkInv(t, u[1])
           K == {i \in Nat : Fine(f[i])}
<1>3. 0 \in K
  <2>1. f[0][1] = Start /\ f[0][2].kind = "none"
    BY <1>2 DEF Nothing
  <2> QED
    BY <2>1, WalkStarts
<1>4. ASSUME NEW u, Fine(u)
      PROVE  Fine(After(t, q, u))
  <2>1. CASE u[2].kind # "none"
    BY <1>4, <2>1 DEF After
  <2>2. CASE u[2].kind = "none" /\ q.op = "search"
    <3> DEFINE v == SearchStep(t, u[1])
    <3>1. After(t, q, u) = v
      BY <2>2 DEF After
    <3>2. WalkInv(t, u[1])
      BY <1>4, <2>2
    <3>3. \/ v[2] = Nothing /\ WalkInv(t, v[1])
          \/ \E a : v[2] = Answer(a) /\ RightSearch(t, a)
      BY <3>2, SearchStepIsRight
    <3> HIDE DEF v
    <3>4. v[2] = Nothing => v[2].kind = "none"
      BY DEF Nothing
    <3>5. \A a : v[2] = Answer(a) => v[2].kind = "answer" /\ v[2].answer = a
      BY DEF Answer
    <3>6. Fine(v)
      BY <2>2, <3>3, <3>4, <3>5 DEF RightAnswer
    <3> HIDE DEF Fine
    <3> QED
      BY <3>1, <3>6
  <2>3. CASE u[2].kind = "none" /\ q.op # "search"
    <3> DEFINE v == ReadStep(t, q.file, u[1])
    <3>1. After(t, q, u) = v /\ q.op = "read_file" /\ q.file \in Files
      BY <2>3 DEF After
    <3>2. \/ v[2] = Nothing \/ v[2] = NoEffect \/ v[2] = Raised
          \/ IsText(t, q.file) /\ v[2] = Answer(ReadAnswer(t[q.file].lines))
      <4>1. CASE u[1].at = "start"
        BY <4>1 DEF ReadStep
      <4>2. CASE u[1].at = "stat"
        BY <4>2 DEF ReadStep
      <4>3. CASE u[1].at \notin {"start", "stat"}
        BY <4>3 DEF ReadStep
      <4> QED
        BY <4>1, <4>2, <4>3
    <3>3. IsText(t, q.file) => RightRead(t, q.file, ReadAnswer(t[q.file].lines))
      BY <3>1, ReadAnswersRight
    <3> HIDE DEF v
    <3>4. v[2] \in {Nothing, NoEffect, Raised} => v[2].kind # "answer"
      <4>1. Nothing.kind # "answer" /\ NoEffect.kind # "answer" /\ Raised.kind # "answer"
        BY DEF Nothing, NoEffect, Raised
      <4> QED
        BY <4>1
    <3>5. \A a : v[2] = Answer(a) => v[2].kind = "answer" /\ v[2].answer = a
      BY DEF Answer
    <3>6. Fine(v)
      BY <2>3, <3>1, <3>2, <3>3, <3>4, <3>5 DEF RightAnswer
    <3> HIDE DEF Fine
    <3> QED
      BY <3>1, <3>6
  <2> QED
    BY <2>1, <2>2, <2>3
<1>5. ASSUME NEW i \in 1 .. n, i - 1 \in K
      PROVE  i \in K
  <2>1. Fine(f[i - 1]) /\ f[i] = After(t, q, f[i - 1])
    BY <1>2, <1>5
  <2> HIDE DEF Fine
  <2> QED
    BY <1>4, <2>1
<1>6. 0 .. n \subseteq K
  <2> HIDE DEF K
  <2> QED
    BY <1>2, <1>3, <1>5, InductionUpTo
<1>7. Fine(f[n])
  <2> HIDE DEF Fine
  <2> QED
    BY <1>2, <1>6
<1> QED
  BY <1>1, <1>7

-----------------------------------------------------------------------------
(* The inductive invariant.                                                *)

Phases == {"run", "observed", "check", "verified", "over"}

InstrumentType ==
  /\ phase \in Phases
  /\ query.op \in {"search", "read_file"}
  /\ DOMAIN probe = ProbeFields
  /\ probe.scanned \in Nat
  /\ probe.at \in {"start", "stat", "bytes"}
  /\ found.kind \in {"none", "no effect", "raised", "answer"}
  /\ found.kind = "none" => found = Nothing
  /\ \E S : edited \in Seq(S)

\* While nobody edits the tree, capability and verifier each measure it as it is.
MeasuresTheTree ==
  phase \in {"run", "check"} /\ Quiet({phase}) => Reached(tree, query, <<probe, found>>)

\* While nobody has edited it since the step began, the capability was told what the tree
\* answers still.
ToldTheTruth ==
  phase \in {"observed", "check"} /\ Quiet({"run", "observed", "check"})
    => \E s : Reached(tree, query, s) /\ s[2].kind = "answer" /\ s[2].answer = told

VerdictsAreLate == verdict # "PENDING" => phase \in {"verified", "over"}

InvestigationInv ==
  InstrumentType /\ MeasuresTheTree /\ ToldTheTruth /\ VerdictsAreLate /\ HonestPasses

\* It holds at the start.
LEMMA InvestigationHolds == Init => InvestigationInv
<1> SUFFICES ASSUME Init
             PROVE  InvestigationInv
  OBVIOUS
<1>1. InstrumentType
  <2>1. edited \in Seq({})
    BY DEF Init
  <2> QED
    BY <2>1 DEF Init, InstrumentType, Start, ProbeFields, Nothing, Phases
<1>2. MeasuresTheTree
  BY ReachedAtStart DEF Init, MeasuresTheTree
<1> QED
  BY <1>1, <1>2 DEF Init, InvestigationInv, ToldTheTruth, VerdictsAreLate, HonestPasses

\* The steps of the instrument.
Instrument == enter_directory \/ scan_file \/ read_exists \/ read_stat \/ read_bytes

\* The instrument does what After says.
LEMMA InstrumentSteps ==
  ASSUME InstrumentType, Instrument
  PROVE  /\ <<probe, found>>' = After(tree, query, <<probe, found>>)
         /\ phase \in {"run", "check"} /\ found.kind = "none"
         /\ UNCHANGED <<tree, query, phase, told, action, report, verdict, digest, edited>>
<1>0. MaxFiles \in Nat /\ probe.scanned \in Nat
  BY InvestigationConstants DEF InstrumentType
<1>1. Instrument => found = Nothing /\ found.kind = "none" /\ phase \in {"run", "check"}
  BY DEF Instrument, enter_directory, scan_file, read_exists, read_stat, read_bytes, Measuring,
     InstrumentType
<1>2. found = Nothing => After(tree, query, <<probe, found>>) =
         IF query.op = "search" THEN SearchStep(tree, probe) ELSE ReadStep(tree, query.file, probe)
  BY DEF After, Nothing
<1>3. CASE enter_directory
  <2>1. query.op = "search" /\ probe.files = <<>>
    BY <1>3 DEF enter_directory
  <2>2. CASE probe.dir = Len(Layout)
    BY <1>1, <1>2, <1>3, <2>1, <2>2 DEF Instrument, enter_directory, SearchStep, Returns
  <2>3. CASE probe.dir # Len(Layout) /\ probe.scanned >= MaxFiles
    BY <1>1, <1>2, <1>3, <2>1, <2>3 DEF Instrument, enter_directory, SearchStep, Returns
  <2>4. CASE probe.dir # Len(Layout) /\ ~(probe.scanned >= MaxFiles)
    BY <1>1, <1>2, <1>3, <2>1, <2>4 DEF Instrument, enter_directory, SearchStep, Goes, Listing
  <2> QED
    BY <2>2, <2>3, <2>4, <1>1, <1>3 DEF enter_directory, Instrument
<1>4. CASE scan_file
  <2>1. query.op = "search" /\ probe.files # <<>>
    BY <1>4 DEF scan_file
  <2>2. CASE probe.scanned >= MaxFiles
    BY <1>0, <1>1, <1>2, <1>4, <2>1, <2>2 DEF Instrument, scan_file, SearchStep, Goes
  <2>3. CASE ~(probe.scanned >= MaxFiles) /\ IsText(tree, Head(probe.files))
    BY <1>0, <1>1, <1>2, <1>4, <2>1, <2>3 DEF Instrument, scan_file, SearchStep, Goes
  <2>4. CASE ~(probe.scanned >= MaxFiles) /\ ~IsText(tree, Head(probe.files))
    BY <1>0, <1>1, <1>2, <1>4, <2>1, <2>4 DEF Instrument, scan_file, SearchStep, Goes
  <2> QED
    BY <2>2, <2>3, <2>4
<1>5. CASE read_exists
  BY <1>1, <1>2, <1>5 DEF Instrument, read_exists, ReadStep, Returns, Goes
<1>6. CASE read_stat
  BY <1>1, <1>2, <1>6 DEF Instrument, read_stat, ReadStep, Returns, Goes
<1>7. CASE read_bytes
  BY <1>1, <1>2, <1>7 DEF Instrument, read_bytes, ReadStep, Returns, Goes
<1> QED
  BY <1>3, <1>4, <1>5, <1>6, <1>7 DEF Instrument

\* The instrument keeps its types.
LEMMA InstrumentKeepsTypes ==
  ASSUME InstrumentType, Instrument
  PROVE  InstrumentType'
<1>1. /\ UNCHANGED <<query, phase, edited>>
      /\ \/ UNCHANGED probe
         \/ /\ DOMAIN probe' = ProbeFields
            /\ probe'.scanned \in Nat /\ probe'.at \in {"start", "stat", "bytes"}
  <2>1. CASE enter_directory
    BY <2>1 DEF enter_directory, Goes, Returns, InstrumentType, ProbeFields
  <2>2. CASE scan_file
    <3>1. CASE probe' = Scan(tree, probe, Head(probe.files))
      <4> DEFINE r(m, u, s) == [probe EXCEPT !.scanned = @ + 1, !.matches = m, !.truncated = u,
                                             !.files = s]
      <4>1. ASSUME NEW m, NEW u, NEW s
            PROVE  /\ DOMAIN r(m, u, s) = ProbeFields
                   /\ r(m, u, s).scanned \in Nat /\ r(m, u, s).at \in {"start", "stat", "bytes"}
        <5>1. DOMAIN r(m, u, s) = DOMAIN probe
          OBVIOUS
        <5>2. {"scanned", "at"} \subseteq DOMAIN probe
          BY DEF InstrumentType, ProbeFields
        <5>3. r(m, u, s).scanned = probe.scanned + 1 /\ r(m, u, s).at = probe.at
          BY <5>2
        <5>4. /\ DOMAIN probe = ProbeFields
              /\ probe.scanned \in Nat /\ probe.at \in {"start", "stat", "bytes"}
          BY DEF InstrumentType
        <5>5. probe.scanned + 1 \in Nat
          BY <5>4
        <5> HIDE DEF r
        <5> QED
          BY <5>1, <5>3, <5>4, <5>5
      <4>2. \E m, u, s : probe' = r(m, u, s)
        BY <3>1 DEF Scan
      <4> HIDE DEF r
      <4>3. UNCHANGED <<query, phase, edited>>
        BY <2>2 DEF scan_file
      <4> QED
        BY <4>1, <4>2, <4>3
    <3>2. CASE probe' # Scan(tree, probe, Head(probe.files))
      BY <2>2, <3>2 DEF scan_file, Goes, InstrumentType, ProbeFields
    <3> QED
      BY <3>1, <3>2
  <2>3. CASE read_exists
    BY <2>3 DEF read_exists, Goes, Returns, InstrumentType, ProbeFields
  <2>4. CASE read_stat
    BY <2>4 DEF read_stat, Goes, Returns, InstrumentType, ProbeFields
  <2>5. CASE read_bytes
    BY <2>5 DEF read_bytes, Goes, Returns, InstrumentType, ProbeFields
  <2> QED
    BY <2>1, <2>2, <2>3, <2>4, <2>5 DEF Instrument
<1>2. /\ found'.kind \in {"none", "no effect", "raised", "answer"}
      /\ found'.kind = "none" => found' = Nothing
  <2>1. \/ UNCHANGED found
        \/ \E a : found' = Answer(a)
        \/ found' \in {NoEffect, Raised}
    BY DEF Instrument, enter_directory, scan_file, read_exists, read_stat, read_bytes,
       Goes, Returns
  <2>2. CASE UNCHANGED found
    BY <2>2 DEF InstrumentType
  <2>3. CASE \E a : found' = Answer(a)
    BY <2>3 DEF Answer
  <2>4. CASE found' = NoEffect
    BY <2>4 DEF NoEffect
  <2>5. CASE found' = Raised
    BY <2>5 DEF Raised
  <2> QED
    BY <2>1, <2>2, <2>3, <2>4, <2>5
<1> QED
  BY <1>1, <1>2 DEF InstrumentType

\* The measurement it makes goes on; the rest waits.
LEMMA InstrumentKeeps ==
  ASSUME InvestigationInv, Instrument
  PROVE  InvestigationInv'
<1>1. InstrumentType'
  BY InstrumentKeepsTypes DEF InvestigationInv
<1>2. /\ <<probe, found>>' = After(tree, query, <<probe, found>>)
      /\ phase \in {"run", "check"} /\ found.kind = "none"
      /\ UNCHANGED <<tree, query, phase, told, action, report, verdict, digest, edited>>
  BY InstrumentSteps DEF InvestigationInv
<1>3. MeasuresTheTree'
  <2>1. SUFFICES ASSUME Quiet({phase})
                 PROVE  Reached(tree', query', <<probe, found>>')
    BY <1>2 DEF MeasuresTheTree, Quiet
  <2> QED
    BY <1>2, <2>1, ReachedNext DEF InvestigationInv, MeasuresTheTree
<1> QED
  BY <1>1, <1>2, <1>3 DEF InvestigationInv, ToldTheTruth, VerdictsAreLate, HonestPasses, Quiet

-----------------------------------------------------------------------------
(* The others' steps.                                                      *)

\* The capability returns, and its answer becomes the report.
LEMMA SettleKeeps ==
  ASSUME InvestigationInv, settle
  PROVE  InvestigationInv'
<1>1. InstrumentType'
  BY DEF InvestigationInv, InstrumentType, settle, Phases
<1>2. ToldTheTruth'
  <2>1. SUFFICES ASSUME phase' = "observed", Quiet({"run", "observed", "check"})
                 PROVE  \E s : /\ Reached(tree, query, s)
                               /\ s[2].kind = "answer" /\ s[2].answer = told'
    BY DEF ToldTheTruth, Quiet, settle
  <2>2. Quiet({phase})
    BY <2>1 DEF Quiet, settle
  <2>3. Reached(tree, query, <<probe, found>>)
    BY <2>2 DEF InvestigationInv, MeasuresTheTree, settle
  <2>4. found.kind = "answer" /\ told' = found.answer
    BY <2>1 DEF settle
  <2> QED
    BY <2>3, <2>4
<1> QED
  BY <1>1, <1>2 DEF InvestigationInv, MeasuresTheTree, VerdictsAreLate, HonestPasses, settle

\* The verifier starts over.
LEMMA BeginKeeps ==
  ASSUME InvestigationInv, begin_verification
  PROVE  InvestigationInv'
<1>1. InstrumentType'
  BY DEF InvestigationInv, InstrumentType, begin_verification, Phases, Start, ProbeFields, Nothing
<1>2. MeasuresTheTree'
  BY ReachedAtStart DEF MeasuresTheTree, begin_verification
<1> QED
  BY <1>1, <1>2 DEF InvestigationInv, ToldTheTruth, VerdictsAreLate, HonestPasses, Quiet,
     begin_verification

\* The heart: what the verifier got is what the capability was told.
LEMMA ConcludeKeeps ==
  ASSUME InvestigationInv, conclude
  PROVE  InvestigationInv'
<1>1. InstrumentType'
  BY DEF InvestigationInv, InstrumentType, conclude, Phases
<1>2. HonestPasses'
  <2>1. SUFFICES ASSUME verdict' # "PASS", Quiet({"run", "observed", "check"}), report = told
                 PROVE  FALSE
    BY DEF HonestPasses, Quiet, conclude
  <2>2. Quiet({phase})
    BY <2>1 DEF Quiet, conclude
  <2>3. Reached(tree, query, <<probe, found>>)
    BY <2>2 DEF InvestigationInv, MeasuresTheTree, conclude
  <2>4. PICK s : Reached(tree, query, s) /\ s[2].kind = "answer" /\ s[2].answer = told
    BY <2>1 DEF InvestigationInv, ToldTheTruth, conclude
  <2>5. found = s[2]
    <3>1. <<probe, found>>[2].kind # "none"
      BY DEF conclude
    <3>2. <<probe, found>> = s
      BY <2>3, <2>4, <3>1, OneAnswer
    <3> QED
      BY <3>2
  <2> QED
    BY <2>1, <2>4, <2>5 DEF conclude, Agrees
<1> QED
  BY <1>1, <1>2 DEF InvestigationInv, MeasuresTheTree, ToldTheTruth, VerdictsAreLate, conclude

\* The model is shown the digest.
LEMMA FeedBackKeeps ==
  ASSUME InvestigationInv, feed_back
  PROVE  InvestigationInv'
<1>1. InstrumentType'
  BY DEF InvestigationInv, InstrumentType, feed_back, Phases
<1> QED
  BY <1>1 DEF InvestigationInv, MeasuresTheTree, ToldTheTruth, VerdictsAreLate, HonestPasses,
     Quiet, feed_back

\* An edit ends the silence of its phase.
LEMMA EditKeeps ==
  ASSUME InvestigationInv, NEW f \in Files, NEW e \in Entries, edit(f, e)
  PROVE  InvestigationInv'
<1>1. phase \in ToSet(edited') /\ ToSet(edited) \subseteq ToSet(edited')
  <2>1. PICK S : edited \in Seq(S)
    BY DEF InvestigationInv, InstrumentType
  <2> QED
    BY <2>1 DEF edit, ToSet
<1>2. InstrumentType'
  <2>1. PICK S : edited \in Seq(S)
    BY DEF InvestigationInv, InstrumentType
  <2>2. edited' \in Seq(S \cup {phase})
    BY <2>1 DEF edit
  <2>3. UNCHANGED <<phase, query, probe, found>>
    BY DEF edit
  <2> QED
    BY <2>2, <2>3 DEF InvestigationInv, InstrumentType
<1>3. MeasuresTheTree'
  BY <1>1 DEF MeasuresTheTree, Quiet, edit
<1>4. ToldTheTruth'
  BY <1>1 DEF ToldTheTruth, Quiet, edit
<1>5. HonestPasses' /\ VerdictsAreLate'
  BY <1>1 DEF InvestigationInv, VerdictsAreLate, HonestPasses, Quiet, edit
<1> QED
  BY <1>2, <1>3, <1>4, <1>5 DEF InvestigationInv

\* The invariant: the instrument measures the tree as it is unless it is edited meanwhile, and
\* what the capability was told is what the tree still answers unless it was edited since.
THEOREM InvestigationInvariance == Spec => []InvestigationInv
<1>1. InvestigationInv /\ [Next]_vars => InvestigationInv'
  <2> SUFFICES ASSUME InvestigationInv, [Next]_vars
               PROVE  InvestigationInv'
    OBVIOUS
  <2>1. CASE Instrument
    BY <2>1, InstrumentKeeps
  <2>2. CASE settle
    BY <2>2, SettleKeeps
  <2>3. CASE begin_verification
    BY <2>3, BeginKeeps
  <2>4. CASE conclude
    BY <2>4, ConcludeKeeps
  <2>5. CASE feed_back
    BY <2>5, FeedBackKeeps
  <2>6. CASE \E f \in Files, e \in Entries : edit(f, e)
    BY <2>6, EditKeeps
  <2>7. CASE UNCHANGED vars
    BY <2>7 DEF vars, InvestigationInv, InstrumentType, MeasuresTheTree, ToldTheTruth,
       VerdictsAreLate, HonestPasses, Quiet
  <2> QED
    BY <2>1, <2>2, <2>3, <2>4, <2>5, <2>6, <2>7 DEF Next, Instrument
<1> QED
  BY InvestigationHolds, <1>1, PTL DEF Spec

\* HonestPasses: the verifier's walk over an unedited tree gives the capability's answer, so an
\* honest answer is refused only if somebody edited the tree meanwhile.
THEOREM HonestAnswersPass == Spec => []HonestPasses
<1>1. InvestigationInv => HonestPasses
  BY DEF InvestigationInv
<1> QED
  BY <1>1, InvestigationInvariance, PTL

-----------------------------------------------------------------------------
(* What a PASS and a digest are worth.                                     *)

\* While nobody edits the tree under the verifier, a report that passed is what the tree
\* answers.
PassedOnTheTree ==
  verdict = "PASS" /\ Quiet({"check", "verified"})
    => \E s : Reached(tree, query, s) /\ s[2].kind = "answer" /\ s[2].answer = report

TreeAndQuery ==
  /\ tree \in [Files -> Entries]
  /\ query.op = "search" \/ (query.op = "read_file" /\ query.file \in Files)

DigestIsOfThePass ==
  /\ phase = "verified" => verdict = "PASS"
  /\ digest # NoAnswer => verdict = "PASS" /\ digest = Digest(report)

PassInv == TreeAndQuery /\ PassedOnTheTree /\ DigestIsOfThePass

\* It holds at the start.
LEMMA PassHolds == Init => PassInv
<1>1. Init => TreeAndQuery
  <2> SUFFICES ASSUME Init
               PROVE  TreeAndQuery
    OBVIOUS
  <2>1. tree \in [Files -> Entries]
    BY InvestigationConstants DEF Init
  <2> QED
    BY <2>1 DEF Init, TreeAndQuery
<1>2. Init => PassedOnTheTree /\ DigestIsOfThePass
  BY DEF Init, PassedOnTheTree, DigestIsOfThePass
<1> QED
  BY <1>1, <1>2 DEF PassInv

\* What passes is what the verifier has just measured.
LEMMA ConcludeKeepsPass ==
  ASSUME InvestigationInv, PassInv, conclude
  PROVE  PassInv'
<1>1. /\ phase = "check" /\ found.kind # "none" /\ verdict = "PENDING" /\ digest = NoAnswer
      /\ UNCHANGED <<tree, query, report, digest, edited>>
  BY DEF conclude, InvestigationInv, VerdictsAreLate, PassInv, DigestIsOfThePass
<1>2. phase' = "verified" => verdict' = "PASS"
  BY DEF conclude
<1>3. PassedOnTheTree'
  <2> SUFFICES ASSUME verdict' = "PASS", Quiet({"check", "verified"})
               PROVE  \E s : /\ Reached(tree, query, s)
                             /\ s[2].kind = "answer" /\ s[2].answer = report
    BY <1>1 DEF PassedOnTheTree, Quiet
  <2>1. Reached(tree, query, <<probe, found>>)
    BY <1>1 DEF InvestigationInv, MeasuresTheTree, Quiet
  <2>2. found.kind = "answer" /\ report = found.answer
    <3>1. found.kind \in {"no effect", "raised", "answer"}
      BY <1>1 DEF InvestigationInv, InstrumentType
    <3> QED
      BY <3>1 DEF conclude, Agrees
  <2> DEFINE s == <<probe, found>>
  <2>3. Reached(tree, query, s) /\ s[2].kind = "answer" /\ s[2].answer = report
    BY <2>1, <2>2
  <2> HIDE DEF s
  <2> QED
    BY <2>3
<1> QED
  BY <1>1, <1>2, <1>3 DEF PassInv, TreeAndQuery, DigestIsOfThePass

\* The other steps leave a report that passed alone, and end the silence if they do not leave
\* the tree alone.
LEMMA OthersKeepPass ==
  ASSUME InvestigationInv, PassInv,
         \/ Instrument \/ settle \/ begin_verification \/ feed_back
         \/ \E f \in Files, e \in Entries : edit(f, e)
         \/ UNCHANGED vars
  PROVE  PassInv'
<1>1. CASE Instrument
  <2>1. UNCHANGED <<tree, query, phase, report, verdict, digest, edited>>
    BY <1>1, InstrumentSteps DEF InvestigationInv
  <2> QED
    BY <2>1 DEF PassInv, TreeAndQuery, PassedOnTheTree, DigestIsOfThePass, Quiet
<1>2. CASE settle
  <2>1. /\ UNCHANGED <<tree, query, verdict, digest, edited>>
        /\ verdict = "PENDING" /\ phase' # "verified"
    BY <1>2 DEF settle, InvestigationInv, VerdictsAreLate
  <2> QED
    BY <2>1 DEF PassInv, TreeAndQuery, PassedOnTheTree, DigestIsOfThePass
<1>3. CASE begin_verification
  <2>1. /\ UNCHANGED <<tree, query, report, verdict, digest, edited>>
        /\ phase' # "verified"
    BY <1>3 DEF begin_verification
  <2> QED
    BY <2>1 DEF PassInv, TreeAndQuery, PassedOnTheTree, DigestIsOfThePass, Quiet
<1>4. CASE feed_back
  <2>1. /\ UNCHANGED <<tree, query, report, verdict, edited>>
        /\ phase = "verified" /\ phase' = "over" /\ digest' = Digest(report)
    BY <1>4 DEF feed_back
  <2> QED
    BY <2>1 DEF PassInv, TreeAndQuery, PassedOnTheTree, DigestIsOfThePass, Quiet
<1>5. CASE \E f \in Files, e \in Entries : edit(f, e)
  <2>1. PICK f \in Files, e \in Entries : edit(f, e)
    BY <1>5
  <2>2. /\ UNCHANGED <<query, phase, report, verdict, digest>>
        /\ phase # "over" /\ tree' = [tree EXCEPT ![f] = e] /\ edited' = Append(edited, phase)
    BY <2>1 DEF edit
  <2>3. phase \in ToSet(edited')
    <3>1. PICK S : edited \in Seq(S)
      BY DEF InvestigationInv, InstrumentType
    <3> QED
      BY <2>2, <3>1 DEF ToSet
  <2>4. PassedOnTheTree'
    <3>1. verdict = "PASS" => phase = "verified"
      BY <2>2 DEF InvestigationInv, VerdictsAreLate
    <3> QED
      BY <2>2, <2>3, <3>1 DEF PassedOnTheTree, Quiet
  <2>5. TreeAndQuery'
    BY <2>2 DEF PassInv, TreeAndQuery
  <2> QED
    BY <2>2, <2>4, <2>5 DEF PassInv, DigestIsOfThePass
<1>6. CASE UNCHANGED vars
  BY <1>6 DEF vars, PassInv, TreeAndQuery, PassedOnTheTree, DigestIsOfThePass, Quiet
<1> QED
  BY <1>1, <1>2, <1>3, <1>4, <1>5, <1>6

\* The second invariant: what passed is what the tree answers, and the digest is of that.
THEOREM PassInvariance == Spec => []PassInv
<1>1. InvestigationInv /\ PassInv /\ [Next]_vars => PassInv'
  BY ConcludeKeepsPass, OthersKeepPass DEF Next, Instrument
<1> QED
  BY PassHolds, InvestigationInvariance, <1>1, PTL DEF Spec

\* PassIsTrue: the docstring of verify_codebase_query.  While nobody edits the tree under the
\* verifier, an answer that passed lists the first matches of the first files, and a read is
\* the file or the beginning of one that is larger.
THEOREM PassesAreTheTree == Spec => []PassIsTrue
<1>1. PassInv => PassIsTrue
  <2> SUFFICES ASSUME PassInv, verdict = "PASS", Quiet({"check", "verified"})
               PROVE  \/ RightSearch(tree, report)
                      \/ RightRead(tree, query.file, report)
    BY DEF PassIsTrue, RightSearch, RightRead
  <2>1. PICK s : Reached(tree, query, s) /\ s[2].kind = "answer" /\ s[2].answer = report
    BY DEF PassInv, PassedOnTheTree
  <2>2. RightAnswer(tree, query, s[2].answer)
    <3>1. /\ tree \in [Files -> Entries]
          /\ query.op = "search" \/ (query.op = "read_file" /\ query.file \in Files)
      BY DEF PassInv, TreeAndQuery
    <3> QED
      BY <2>1, <3>1, AnswersAreRight
  <2> QED
    BY <2>1, <2>2 DEF RightAnswer
<1> QED
  BY <1>1, PassInvariance, PTL

\* NothingHiddenQuietly: a verified search that is shown to the model as untruncated shows
\* every match in the tree: no cap of the search or the digest hides one unnoticed.
THEOREM NothingIsHidden == Spec => []NothingHiddenQuietly
<1>1. PassInv => NothingHiddenQuietly
  <2> SUFFICES ASSUME PassInv, digest.op = "search", ~digest.truncated,
                      Quiet({"check", "verified"})
               PROVE  digest.matches = MatchesOf(tree, Texts(tree))
    BY DEF NothingHiddenQuietly
  <2>1. verdict = "PASS" /\ digest = Digest(report)
    <3>1. digest # NoAnswer
      BY DEF NoAnswer
    <3> QED
      BY <3>1 DEF PassInv, DigestIsOfThePass
  <2>2. report.op = "search"
    BY <2>1 DEF Digest
  <2>3. /\ digest.matches = First(DigestCap, report.matches)
        /\ ~report.truncated /\ ~(Len(report.matches) > DigestCap)
    BY <2>1, <2>2 DEF Digest
  <2>4. tree \in [Files -> Entries]
    BY DEF PassInv, TreeAndQuery
  <2>5. RightSearch(tree, report)
    <3>1. PICK s : Reached(tree, query, s) /\ s[2].kind = "answer" /\ s[2].answer = report
      BY <2>1 DEF PassInv, PassedOnTheTree
    <3>2. RightAnswer(tree, query, s[2].answer)
      <4>1. query.op = "search" \/ (query.op = "read_file" /\ query.file \in Files)
        BY DEF PassInv, TreeAndQuery
      <4> QED
        BY <2>4, <3>1, <4>1, AnswersAreRight
    <3> QED
      BY <2>2, <3>1, <3>2 DEF RightAnswer, RightRead
  <2>6. Len(report.matches) < MaxMatches
    <3> DEFINE firsts == First(MaxFiles, Texts(tree))
               all == MatchesOf(tree, firsts)
    <3>1. MaxFiles \in Nat /\ MaxMatches \in Nat /\ DigestCap \in Nat /\ DigestCap < MaxMatches
      BY InvestigationConstants, DigestIsShorter
    <3>2. Texts(tree) \in Seq(Files)
      <4>1. Len(Layout) \in 0 .. Len(Layout)
        BY InvestigationConstants
      <4> QED
        BY <4>1, TextsByDirectory
    <3>3. firsts \in Seq(Files)
      BY <3>1, <3>2, FirstFits
    <3> HIDE DEF firsts
    <3>4. all \in Seq(Matches)
      BY <2>4, <3>3, MatchesOfConcat
    <3> HIDE DEF all
    <3>5. First(MaxMatches, all) \in Seq(Matches)
      BY <3>1, <3>4, FirstFits
    <3>6. Len(report.matches) \in Nat
      BY <2>5, <3>5 DEF RightSearch, all, firsts
    <3> QED
      BY <2>3, <3>1, <3>6
  <2>7. report.matches = MatchesOf(tree, Texts(tree))
    BY <2>3, <2>5, <2>6 DEF RightSearch
  <2>8. First(DigestCap, report.matches) = report.matches
    BY <2>3 DEF First
  <2> QED
    BY <2>3, <2>7, <2>8
<1> QED
  BY <1>1, PassInvariance, PTL
=============================================================================
