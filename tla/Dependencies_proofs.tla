------------------------ MODULE Dependencies_proofs ------------------------
(***************************************************************************)
(* The colouring search finds a cycle exactly if there is one, in every    *)
(* finite graph; hence no sequence of edits and repairs commits a cycle,   *)
(* whatever the number of steps, callers and changes, and the live loop's  *)
(* walk orders every graph that results.                                   *)
(***************************************************************************)
EXTENDS Dependencies, Order_proofs

(* The search as the sequence of its steps.                                *)

Colors == {"WHITE", "GRAY", "BLACK"}

\* What a search of g may hold.
Searches(g) == [color : [Nodes(g) -> Colors], path : Seq(Nodes(g)),
                ahead : SUBSET Edges(g), cycle : BOOLEAN]

\* Before the first step.
LEMMA WhiteType ==
  ASSUME NEW g
  PROVE  White(g) \in Searches(g)
<1>1. <<>> \in Seq(Nodes(g)) /\ [s \in Nodes(g) |-> "WHITE"] \in [Nodes(g) -> Colors]
  BY DEF Colors
<1> QED
  BY <1>1 DEF White, Searches

\* What is left to do at the top of the path.
Next_of(search) == {edge \in search.ahead : edge[1] = Last(search.path)}

WhiteRoots(g, search) == {s \in DOMAIN g : search.color[s] = "WHITE"}

Over(g, search) == search.cycle \/ (search.path = <<>> /\ WhiteRoots(g, search) = {})

\* A search that is not over enters a node, leaves one, or looks along an edge.
LEMMA SearchSteps ==
  ASSUME NEW g, NEW s \in Searches(g), ~Over(g, s)
  PROVE  LET node == Last(s.path)
             r == Search(g, s)
         IN  \/ \E root \in DOMAIN g : /\ s.path = <<>> /\ s.color[root] = "WHITE"
                                       /\ r = Enter(s, root)
             \/ /\ s.path # <<>> /\ node \in Nodes(g)
                /\ \A e \in s.ahead : e[1] # node
                /\ r = Leave(s, node)
             \/ \E e \in s.ahead :
                  /\ s.path # <<>> /\ node \in Nodes(g) /\ e[1] = node
                  /\ e[2] \in Nodes(g) /\ e[2] \in Deps(g, node)
                  /\ r = Look(s, e)
<1> DEFINE node == Last(s.path)
           r == Search(g, s)
<1>1. s.path \in Seq(Nodes(g)) /\ s.ahead \subseteq Edges(g) /\ ~s.cycle
  BY DEF Searches, Over
<1>2. CASE s.path = <<>>
  <2> DEFINE root == CHOOSE x \in WhiteRoots(g, s) : TRUE
  <2>1. root \in WhiteRoots(g, s)
    <3>1. WhiteRoots(g, s) # {}
      BY <1>2 DEF Over
    <3> QED
      BY <3>1
  <2>2. r = Enter(s, root)
    BY <1>1, <1>2, <2>1 DEF Search, WhiteRoots
  <2> HIDE DEF root
  <2>3. root \in DOMAIN g /\ s.color[root] = "WHITE"
    BY <2>1 DEF WhiteRoots
  <2> QED
    BY <1>2, <2>2, <2>3
<1>3. CASE s.path # <<>>
  <2>1. node \in Nodes(g)
    <3>1. Len(s.path) \in 1 .. Len(s.path)
      BY <1>1, <1>3
    <3> QED
      BY <1>1, <3>1 DEF Last
  <2>2. r = IF Next_of(s) = {} THEN Leave(s, node)
            ELSE Look(s, CHOOSE e \in Next_of(s) : TRUE)
    BY <1>1, <1>3 DEF Search, visit, Next_of
  <2>3. CASE Next_of(s) = {}
    BY <1>3, <2>1, <2>2, <2>3 DEF Next_of
  <2>4. CASE Next_of(s) # {}
    <3> DEFINE e == CHOOSE x \in Next_of(s) : TRUE
    <3>1. e \in Next_of(s)
      BY <2>4
    <3>2. r = Look(s, e)
      BY <2>2, <2>4
    <3> HIDE DEF e, r
    <3>3. e \in s.ahead /\ e[1] = node
      BY <3>1 DEF Next_of
    <3>4. e[2] \in Nodes(g) /\ e[2] \in Deps(g, node)
      BY <1>1, <3>3 DEF Edges
    <3> QED
      BY <1>3, <2>1, <3>2, <3>3, <3>4 DEF r
  <2> QED
    BY <2>3, <2>4
<1> QED
  BY <1>2, <1>3

\* What entering a node writes.
LEMMA EnterFields ==
  ASSUME NEW g, NEW s \in Searches(g), NEW n \in Nodes(g)
  PROVE  /\ Enter(s, n) \in Searches(g)
         /\ Enter(s, n).color = [s.color EXCEPT ![n] = "GRAY"]
         /\ Enter(s, n).path = Append(s.path, n)
         /\ Enter(s, n).ahead = s.ahead /\ Enter(s, n).cycle = s.cycle
<1> DEFINE c == [s.color EXCEPT ![n] = "GRAY"]
           p == Append(s.path, n)
           r == [s EXCEPT !.color = c, !.path = p]
<1>1. s.color \in [Nodes(g) -> Colors] /\ s.path \in Seq(Nodes(g))
  BY DEF Searches
<1>2. c \in [Nodes(g) -> Colors]
  BY <1>1 DEF Colors
<1>3. p \in Seq(Nodes(g))
  BY <1>1
<1>4. Enter(s, n) = r
  BY DEF Enter, Searches
<1> HIDE DEF c, p
<1>5. /\ r \in Searches(g) /\ r.color = c /\ r.path = p
      /\ r.ahead = s.ahead /\ r.cycle = s.cycle
  BY <1>2, <1>3 DEF Searches
<1> HIDE DEF r
<1>6. /\ Enter(s, n) \in Searches(g) /\ Enter(s, n).color = c /\ Enter(s, n).path = p
      /\ Enter(s, n).ahead = s.ahead /\ Enter(s, n).cycle = s.cycle
  BY <1>4, <1>5
<1> QED
  BY <1>6 DEF c, p

\* What leaving one writes.
LEMMA LeaveFields ==
  ASSUME NEW g, NEW s \in Searches(g), NEW n \in Nodes(g), s.path # <<>>
  PROVE  /\ Leave(s, n) \in Searches(g)
         /\ Leave(s, n).color = [s.color EXCEPT ![n] = "BLACK"]
         /\ Leave(s, n).path = Front(s.path)
         /\ Leave(s, n).ahead = s.ahead /\ Leave(s, n).cycle = s.cycle
<1> DEFINE c == [s.color EXCEPT ![n] = "BLACK"]
           p == Front(s.path)
           r == [s EXCEPT !.color = c, !.path = p]
<1>1. s.color \in [Nodes(g) -> Colors] /\ s.path \in Seq(Nodes(g))
  BY DEF Searches
<1>2. c \in [Nodes(g) -> Colors]
  BY <1>1 DEF Colors
<1>3. p \in Seq(Nodes(g))
  BY <1>1 DEF Front
<1>4. Leave(s, n) = r
  BY DEF Leave, Searches
<1> HIDE DEF c, p
<1>5. /\ r \in Searches(g) /\ r.color = c /\ r.path = p
      /\ r.ahead = s.ahead /\ r.cycle = s.cycle
  BY <1>2, <1>3 DEF Searches
<1> HIDE DEF r
<1>6. /\ Leave(s, n) \in Searches(g) /\ Leave(s, n).color = c /\ Leave(s, n).path = p
      /\ Leave(s, n).ahead = s.ahead /\ Leave(s, n).cycle = s.cycle
  BY <1>4, <1>5
<1> QED
  BY <1>6 DEF c, p

Looked(s, e) == [s EXCEPT !.ahead = @ \ {e}]

\* And what looking along an edge does.
LEMMA LookFields ==
  ASSUME NEW g, NEW s \in Searches(g), NEW e \in s.ahead, e[2] \in Nodes(g)
  PROVE  /\ Looked(s, e) \in Searches(g)
         /\ Looked(s, e).color = s.color /\ Looked(s, e).path = s.path
         /\ Looked(s, e).cycle = s.cycle /\ Looked(s, e).ahead = s.ahead \ {e}
         /\ \/ s.color[e[2]] = "BLACK" /\ Look(s, e) = Looked(s, e)
            \/ s.color[e[2]] = "WHITE" /\ Look(s, e) = Enter(Looked(s, e), e[2])
            \/ /\ s.color[e[2]] = "GRAY"
               /\ Look(s, e) \in Searches(g) /\ Look(s, e).cycle = TRUE
<1> DEFINE l == [s EXCEPT !.ahead = @ \ {e}]
           d == e[2]
<1>1. /\ s.color \in [Nodes(g) -> Colors] /\ s.path \in Seq(Nodes(g))
      /\ s.ahead \in SUBSET Edges(g) /\ s.cycle \in BOOLEAN
  BY DEF Searches
<1>2. l \in Searches(g)
  BY DEF Searches
<1>3. l.color = s.color /\ l.path = s.path /\ l.cycle = s.cycle /\ l.ahead = s.ahead \ {e}
  BY DEF Searches
<1>4. s.color[d] \in Colors
  BY <1>1
<1>5. /\ s.color[d] = "BLACK" => Look(s, e) = l
      /\ s.color[d] = "WHITE" => Look(s, e) = Enter(l, d)
      /\ s.color[d] = "GRAY" => Look(s, e) = [l EXCEPT !.cycle = TRUE]
  BY DEF Look
<1> HIDE DEF l
<1>6. [l EXCEPT !.cycle = TRUE] \in Searches(g) /\ [l EXCEPT !.cycle = TRUE].cycle = TRUE
  BY <1>2 DEF Searches
<1>7. l = Looked(s, e)
  BY DEF Looked, l
<1> QED
  BY <1>2, <1>3, <1>4, <1>5, <1>6, <1>7 DEF Colors

\* A step leads from a search to a search.
LEMMA SearchType ==
  ASSUME NEW g, NEW s \in Searches(g)
  PROVE  Search(g, s) \in Searches(g)
<1>1. CASE Over(g, s)
  BY <1>1 DEF Search, Over, WhiteRoots
<1>2. CASE ~Over(g, s)
  <2>1. \A x \in DOMAIN g : x \in Nodes(g)
    BY DEF Nodes
  <2>2. ASSUME NEW e \in s.ahead, e[2] \in Nodes(g)
        PROVE  Look(s, e) \in Searches(g)
    <3> DEFINE l == Looked(s, e)
               d == e[2]
    <3>1. /\ l \in Searches(g)
          /\ \/ Look(s, e) = l
             \/ Look(s, e) = Enter(l, d)
             \/ Look(s, e) \in Searches(g)
      BY <2>2, LookFields
    <3> HIDE DEF l
    <3>2. Enter(l, d) \in Searches(g)
      BY <2>2, <3>1, EnterFields
    <3> QED
      BY <3>1, <3>2
  <2>3. \A n \in Nodes(g) : /\ Enter(s, n) \in Searches(g)
                            /\ s.path # <<>> => Leave(s, n) \in Searches(g)
    BY EnterFields, LeaveFields
  <2> DEFINE node == Last(s.path)
             r == Search(g, s)
  <2>4. \/ \E root \in DOMAIN g : r = Enter(s, root)
        \/ s.path # <<>> /\ node \in Nodes(g) /\ r = Leave(s, node)
        \/ \E e \in s.ahead : e[2] \in Nodes(g) /\ r = Look(s, e)
    BY <1>2, SearchSteps
  <2> HIDE DEF node, r
  <2>5. r \in Searches(g)
    BY <2>1, <2>2, <2>3, <2>4
  <2> QED
    BY <2>5 DEF r
<1> QED
  BY <1>1, <1>2

SearchSize(g) == 2 * Cardinality(Nodes(g)) + Cardinality(Edges(g))

\* p are the steps of the search of g.
SearchRun(p, g) ==
  /\ p \in [0 .. SearchSize(g) -> Searches(g)]
  /\ p[0] = White(g)
  /\ \A k \in 1 .. SearchSize(g) : p[k] = Search(g, p[k - 1])

\* has_cycle is what the last of them found.
LEMMA SearchRuns ==
  ASSUME NEW g, SearchSize(g) \in Nat
  PROVE  \E p : SearchRun(p, g) /\ has_cycle(g) = p[SearchSize(g)].cycle
<1> DEFINE n == SearchSize(g)
           s == [k \in 1 .. n |-> k]
           X == Searches(g)
           base == White(g)
           H == [k \in 1 .. n |-> [x \in X |-> Search(g, x)]]
           Body(f) == [t \in SUBSET DOMAIN s |->
                         IF t = {} THEN base ELSE Search(g, f[t \ {Max(t)}])]
           iter == CHOOSE f : f = Body(f)
<1>1. n \in Nat /\ DOMAIN s = 1 .. n
  OBVIOUS
<1>2. H \in [1 .. n -> [X -> X]]
  <2> HIDE DEF X
  <2>1. \A x \in X : Search(g, x) \in X
    BY SearchType DEF X
  <2> QED
    BY <2>1
<1>3. base \in X
  BY WhiteType
<1> HIDE DEF X, n
<1>4. ASSUME NEW f, NEW t \in SUBSET (1 .. n), t # {}, f[t \ {Max(t)}] \in X
      PROVE  H[Max(t)][f[t \ {Max(t)}]] = Search(g, f[t \ {Max(t)}])
  BY <1>1, <1>4, MaxIn
<1>5. PICK f \in [SUBSET (1 .. n) -> X] : Folds(f, n, base, H)
  <2> HIDE DEF H, base
  <2> QED
    BY <1>1, <1>2, <1>3, FoldExists
<1>6. f = Body(f)
  <2>1. \A t \in SUBSET (1 .. n) : t # {} => f[t \ {Max(t)}] \in X
    OBVIOUS
  <2> HIDE DEF H, base
  <2> QED
    BY <1>1, <1>4, <1>5, <2>1 DEF Folds
<1>7. iter = Body(iter)
  <2> HIDE DEF Body
  <2> QED
    BY <1>6
<1>8. has_cycle(g) = iter[1 .. n].cycle
  BY <1>1 DEF has_cycle, FoldLeft, MapThenFoldSet, n, SearchSize
<1>9. Unfolds(iter, n, X, base, H)
  <2> HIDE DEF iter, H, base
  <2> QED
    BY <1>1, <1>4, <1>7 DEF Unfolds
<1>10. PICK p \in [0 .. n -> X] : Runs(p, n, base, H) /\ p[n] = iter[1 .. n]
  <2>1. Foldable(iter, n, X, base, H)
    <3> HIDE DEF iter, H, base
    <3> QED
      BY <1>1, <1>2, <1>3, <1>9 DEF Foldable
  <2> HIDE DEF Body, iter, H, base
  <2>2. EndsRun(iter[1 .. n], n, X, base, H)
    BY <2>1, FoldRuns, Zenon
  <2> QED
    BY <2>2 DEF EndsRun
<1>11. \A k \in 1 .. n : p[k] = Search(g, p[k - 1])
  <2>1. \A k \in 1 .. n : p[k - 1] \in X
    BY <1>1
  <2>2. \A k \in 1 .. n : H[k][p[k - 1]] = Search(g, p[k - 1])
    BY <2>1
  <2> HIDE DEF H
  <2> QED
    BY <1>10, <2>2 DEF Runs
<1>12. p[0] = base
  BY <1>10 DEF Runs
<1> HIDE DEF iter
<1> QED
  BY <1>8, <1>10, <1>11, <1>12 DEF SearchRun, n, X

-----------------------------------------------------------------------------
(* What holds of a search under way.                                       *)

\* The grey nodes are the path, which has each once and follows the edges.
PathIsGray(g, s) ==
  /\ \A i, j \in 1 .. Len(s.path) : s.path[i] = s.path[j] => i = j
  /\ \A n \in Nodes(g) : s.color[n] = "GRAY" <=> \E i \in 1 .. Len(s.path) : s.path[i] = n
  /\ \A i \in 1 .. Len(s.path) - 1 : s.path[i + 1] \in Deps(g, s.path[i])

\* What hangs from a black node is black, and no cycle is.
BlackIsDone(g, s) ==
  /\ \A n \in Nodes(g) : \A d \in Deps(g, n) : s.color[n] = "BLACK" => s.color[d] = "BLACK"
  /\ \A C \in SUBSET {n \in Nodes(g) : s.color[n] = "BLACK"} :
       C # {} => \E n \in C : Deps(g, n) \cap C = {}

\* A node that was not entered has all its edges ahead.
WhiteIsAhead(g, s) ==
  \A n \in Nodes(g) : \A d \in Deps(g, n) : s.color[n] = "WHITE" => <<n, d>> \in s.ahead

\* An edge of the path that was looked at leads to a black node or is the one the path
\* takes; from the top it may lead to next.
GrayIsLooked(g, s, next) ==
  \A i \in 1 .. Len(s.path) : \A d \in Deps(g, s.path[i]) :
    \/ <<s.path[i], d>> \in s.ahead
    \/ s.color[d] = "BLACK"
    \/ i < Len(s.path) /\ d = s.path[i + 1]
    \/ i = Len(s.path) /\ d \in next

SearchInv(g, s) ==
  /\ s \in Searches(g)
  /\ s.cycle => Cyclic(g)
  /\ ~s.cycle => /\ PathIsGray(g, s) /\ BlackIsDone(g, s)
                 /\ WhiteIsAhead(g, s) /\ GrayIsLooked(g, s, {})

\* What a node waits for is a node.
LEMMA DepsAreNodes ==
  ASSUME NEW g, NEW n, NEW d \in Deps(g, n)
  PROVE  n \in DOMAIN g /\ n \in Nodes(g) /\ d \in Nodes(g)
BY DEF Deps, Nodes

\* It holds before the first step.
LEMMA SearchInvAtStart ==
  ASSUME NEW g
  PROVE  SearchInv(g, White(g))
<1> DEFINE s == White(g)
<1>1. /\ s.color = [n \in Nodes(g) |-> "WHITE"] /\ s.path = <<>> /\ s.ahead = Edges(g)
      /\ s.cycle = FALSE
  BY DEF White
<1>2. s \in Searches(g)
  BY WhiteType
<1> HIDE DEF s
<1>3. PathIsGray(g, s) /\ GrayIsLooked(g, s, {})
  BY <1>1 DEF PathIsGray, GrayIsLooked
<1>4. BlackIsDone(g, s)
  BY <1>1 DEF BlackIsDone
<1>5. WhiteIsAhead(g, s)
  BY <1>1, DepsAreNodes DEF WhiteIsAhead, Edges
<1> QED
  BY <1>1, <1>2, <1>3, <1>4, <1>5 DEF SearchInv, s

\* A white node is entered: a root, or one the top of the path waits for.
LEMMA EnterKeepsSearch ==
  ASSUME NEW g, NEW s \in Searches(g), NEW n \in Nodes(g), s.color[n] = "WHITE", ~s.cycle,
         PathIsGray(g, s), BlackIsDone(g, s), WhiteIsAhead(g, s), GrayIsLooked(g, s, {n}),
         s.path # <<>> => n \in Deps(g, Last(s.path))
  PROVE  SearchInv(g, Enter(s, n))
<1> DEFINE r == Enter(s, n)
           m == Len(s.path)
<1>1. /\ s.color \in [Nodes(g) -> Colors] /\ s.path \in Seq(Nodes(g)) /\ m \in Nat
  BY DEF Searches
<1>2. /\ r \in Searches(g)
      /\ r.color = [s.color EXCEPT ![n] = "GRAY"] /\ r.path = Append(s.path, n)
      /\ r.ahead = s.ahead /\ r.cycle = s.cycle
  BY EnterFields
<1> HIDE DEF r
<1>3. /\ Len(r.path) = m + 1 /\ r.path[m + 1] = n
      /\ \A i \in 1 .. m : r.path[i] = s.path[i] /\ s.path[i] \in Nodes(g)
  BY <1>1, <1>2
<1>4. /\ r.color[n] = "GRAY"
      /\ \A x \in Nodes(g) : x # n => r.color[x] = s.color[x]
  BY <1>1, <1>2
<1>5. \A i \in 1 .. m : s.path[i] # n
  <2>1. ~(\E i \in 1 .. m : s.path[i] = n)
    BY DEF PathIsGray
  <2> QED
    BY <2>1
<1>6. m # 0 => n \in Deps(g, s.path[m])
  BY <1>1 DEF Last
<1> HIDE DEF m
<1>7. PathIsGray(g, r)
  <2>1. ASSUME NEW i \in 1 .. Len(r.path), NEW j \in 1 .. Len(r.path), r.path[i] = r.path[j]
        PROVE  i = j
    <3>1. i \in 1 .. m \/ i = m + 1
      BY <1>1, <1>3
    <3>2. j \in 1 .. m \/ j = m + 1
      BY <1>1, <1>3
    <3> QED
      BY <1>3, <1>5, <2>1, <3>1, <3>2 DEF PathIsGray, m
  <2>2. ASSUME NEW x \in Nodes(g)
        PROVE  r.color[x] = "GRAY" <=> \E i \in 1 .. Len(r.path) : r.path[i] = x
    <3>1. CASE x = n
      <4>1. m + 1 \in 1 .. Len(r.path)
        BY <1>1, <1>3
      <4> QED
        BY <1>3, <1>4, <3>1, <4>1
    <3>2. CASE x # n
      <4>1. r.color[x] = s.color[x]
        BY <1>4, <3>2
      <4>2. s.color[x] = "GRAY" <=> \E i \in 1 .. m : s.path[i] = x
        BY DEF PathIsGray, m
      <4>3. 1 .. m \subseteq 1 .. Len(r.path)
        BY <1>1, <1>3
      <4>4. \A i \in 1 .. Len(r.path) : r.path[i] = x => i \in 1 .. m
        BY <1>1, <1>3, <3>2
      <4> QED
        BY <1>3, <4>1, <4>2, <4>3, <4>4
    <3> QED
      BY <3>1, <3>2
  <2>3. ASSUME NEW i \in 1 .. Len(r.path) - 1
        PROVE  r.path[i + 1] \in Deps(g, r.path[i])
    <3>1. CASE i = m
      BY <1>1, <1>3, <1>6, <3>1
    <3>2. CASE i # m
      <4>1. i \in 1 .. m - 1 /\ i \in 1 .. m /\ i + 1 \in 1 .. m
        BY <1>1, <1>3, <3>2
      <4>2. s.path[i + 1] \in Deps(g, s.path[i])
        BY <4>1 DEF PathIsGray, m
      <4> QED
        BY <1>3, <4>1, <4>2
    <3> QED
      BY <3>1, <3>2
  <2> QED
    BY <2>1, <2>2, <2>3 DEF PathIsGray
<1>8. \A x \in Nodes(g) : r.color[x] = "BLACK" <=> s.color[x] = "BLACK"
  BY <1>4
<1>9. BlackIsDone(g, r)
  BY <1>8, DepsAreNodes DEF BlackIsDone
<1>10. WhiteIsAhead(g, r)
  BY <1>2, <1>4 DEF WhiteIsAhead
<1>11. GrayIsLooked(g, r, {})
  <2> SUFFICES ASSUME NEW i \in 1 .. Len(r.path), NEW d \in Deps(g, r.path[i])
               PROVE  \/ <<r.path[i], d>> \in r.ahead
                      \/ r.color[d] = "BLACK"
                      \/ i < Len(r.path) /\ d = r.path[i + 1]
    BY DEF GrayIsLooked
  <2>1. d \in Nodes(g)
    BY DepsAreNodes
  <2>2. CASE i = m + 1
    <3>1. <<n, d>> \in s.ahead
      BY <1>3, <2>2 DEF WhiteIsAhead
    <3> QED
      BY <1>2, <1>3, <2>2, <3>1
  <2>3. CASE i # m + 1
    <3>1. i \in 1 .. m /\ (i < m => i + 1 \in 1 .. m) /\ i < Len(r.path)
      BY <1>1, <1>3, <2>3
    <3>2. \/ <<s.path[i], d>> \in s.ahead
          \/ s.color[d] = "BLACK"
          \/ i < m /\ d = s.path[i + 1]
          \/ i = m /\ d \in {n}
      BY <1>3, <3>1 DEF GrayIsLooked, m
    <3> QED
      BY <1>2, <1>3, <1>8, <2>1, <3>1, <3>2
  <2> QED
    BY <2>2, <2>3
<1> QED
  BY <1>2, <1>7, <1>9, <1>10, <1>11 DEF SearchInv, r

\* A node whose edges were all looked at is left.
LEMMA LeaveKeepsSearch ==
  ASSUME NEW g, NEW s \in Searches(g), s.path # <<>>, ~s.cycle,
         PathIsGray(g, s), BlackIsDone(g, s), WhiteIsAhead(g, s), GrayIsLooked(g, s, {}),
         \A e \in s.ahead : e[1] # Last(s.path)
  PROVE  SearchInv(g, Leave(s, Last(s.path)))
<1> DEFINE n == Last(s.path)
           r == Leave(s, n)
           m == Len(s.path)
<1>1. /\ s.color \in [Nodes(g) -> Colors] /\ s.path \in Seq(Nodes(g)) /\ m \in Nat
      /\ m # 0 /\ m \in 1 .. m /\ n = s.path[m] /\ n \in Nodes(g)
  <2>1. s.color \in [Nodes(g) -> Colors] /\ s.path \in Seq(Nodes(g))
    BY DEF Searches
  <2>2. m \in Nat /\ m # 0
    BY <2>1
  <2>3. m \in 1 .. m /\ n = s.path[m]
    BY <2>2 DEF Last
  <2> QED
    BY <2>1, <2>2, <2>3
<1>2. /\ r \in Searches(g)
      /\ r.color = [s.color EXCEPT ![n] = "BLACK"] /\ r.path = Front(s.path)
      /\ r.ahead = s.ahead /\ r.cycle = s.cycle
  <2> HIDE DEF n
  <2> QED
    BY <1>1, LeaveFields
<1> HIDE DEF r
<1>3. Len(r.path) = m - 1 /\ \A i \in 1 .. m - 1 : r.path[i] = s.path[i]
  BY <1>1, <1>2 DEF Front
<1>4. /\ r.color[n] = "BLACK"
      /\ \A x \in Nodes(g) : x # n => r.color[x] = s.color[x]
  BY <1>1, <1>2
<1>5. \A i \in 1 .. m - 1 : s.path[i] # n /\ i \in 1 .. m
  BY <1>1 DEF PathIsGray
<1>6. s.color[n] = "GRAY"
  BY <1>1 DEF PathIsGray
<1>7. \A d \in Deps(g, n) : d \in Nodes(g) /\ s.color[d] = "BLACK"
  <2> SUFFICES ASSUME NEW d \in Deps(g, n)
               PROVE  s.color[d] = "BLACK"
    BY DepsAreNodes
  <2>1. <<n, d>> \notin s.ahead
    <3>1. <<n, d>>[1] = n
      OBVIOUS
    <3> QED
      BY <3>1
  <2> QED
    BY <1>1, <2>1 DEF GrayIsLooked
<1> HIDE DEF m, n
<1>8. PathIsGray(g, r)
  <2>1. \A i, j \in 1 .. Len(r.path) : r.path[i] = r.path[j] => i = j
    <3> SUFFICES ASSUME NEW i \in 1 .. Len(r.path), NEW j \in 1 .. Len(r.path),
                        r.path[i] = r.path[j]
                 PROVE  i = j
      OBVIOUS
    <3>1. i \in 1 .. m - 1 /\ j \in 1 .. m - 1
      BY <1>3
    <3>2. i \in 1 .. m /\ j \in 1 .. m /\ s.path[i] = s.path[j]
      BY <1>3, <1>5, <3>1
    <3> QED
      BY <3>2 DEF PathIsGray, m
  <2>2. ASSUME NEW x \in Nodes(g)
        PROVE  r.color[x] = "GRAY" <=> \E i \in 1 .. Len(r.path) : r.path[i] = x
    <3>1. CASE x = n
      BY <1>3, <1>4, <1>5, <3>1
    <3>2. CASE x # n
      <4>1. s.color[x] = "GRAY" <=> \E i \in 1 .. m : s.path[i] = x
        BY DEF PathIsGray, m
      <4>2. \A i \in 1 .. m : s.path[i] = x => i \in 1 .. m - 1
        BY <1>1, <3>2
      <4> QED
        BY <1>3, <1>4, <1>5, <3>2, <4>1, <4>2
    <3> QED
      BY <3>1, <3>2
  <2>3. ASSUME NEW i \in 1 .. Len(r.path) - 1
        PROVE  r.path[i + 1] \in Deps(g, r.path[i])
    <3>1. i \in 1 .. m - 1 /\ i + 1 \in 1 .. m - 1
      BY <1>1, <1>3
    <3>2. s.path[i + 1] \in Deps(g, s.path[i])
      BY <3>1 DEF PathIsGray, m
    <3> QED
      BY <1>3, <3>1, <3>2
  <2> QED
    BY <2>1, <2>2, <2>3 DEF PathIsGray
<1>9. \A x \in Nodes(g) : r.color[x] = "BLACK" <=> (x = n \/ s.color[x] = "BLACK")
  BY <1>1, <1>4
<1>10. BlackIsDone(g, r)
  <2>1. ASSUME NEW x \in Nodes(g), NEW d \in Deps(g, x), r.color[x] = "BLACK"
        PROVE  r.color[d] = "BLACK"
    <3>1. d \in Nodes(g)
      BY DepsAreNodes
    <3>2. s.color[d] = "BLACK"
      BY <1>7, <1>9, <2>1 DEF BlackIsDone
    <3> QED
      BY <1>9, <3>1, <3>2
  <2>2. ASSUME NEW C \in SUBSET {x \in Nodes(g) : r.color[x] = "BLACK"}, C # {},
               \A x \in C : Deps(g, x) \cap C # {}
        PROVE  FALSE
    <3> DEFINE D == C \ {n}
    <3>1. \A x \in C : x \in Nodes(g) /\ (x = n \/ s.color[x] = "BLACK")
      BY <1>9
    <3>2. D \in SUBSET {x \in Nodes(g) : s.color[x] = "BLACK"}
      BY <3>1
    <3>3. ASSUME NEW x \in C
          PROVE  Deps(g, x) \cap D # {}
      <4>1. PICK d \in Deps(g, x) : d \in C
        BY <2>2
      <4>2. s.color[d] = "BLACK"
        BY <1>7, <3>1, <4>1 DEF BlackIsDone
      <4>3. d # n
        BY <1>6, <4>2
      <4> QED
        BY <4>1, <4>3
    <3>4. D # {}
      BY <2>2, <3>3
    <3>5. \A x \in D : Deps(g, x) \cap D # {}
      BY <3>3
    <3> HIDE DEF D
    <3> QED
      BY <3>2, <3>4, <3>5 DEF BlackIsDone
  <2> QED
    BY <2>1, <2>2 DEF BlackIsDone
<1>11. WhiteIsAhead(g, r)
  BY <1>2, <1>4 DEF WhiteIsAhead
<1>12. GrayIsLooked(g, r, {})
  <2> SUFFICES ASSUME NEW i \in 1 .. Len(r.path), NEW d \in Deps(g, r.path[i])
               PROVE  \/ <<r.path[i], d>> \in r.ahead
                      \/ r.color[d] = "BLACK"
                      \/ i < Len(r.path) /\ d = r.path[i + 1]
    BY DEF GrayIsLooked
  <2>1. d \in Nodes(g) /\ i \in 1 .. m - 1 /\ i \in 1 .. m /\ r.path[i] = s.path[i] /\ i # m
    BY <1>1, <1>3, <1>5, DepsAreNodes
  <2>2. \/ <<s.path[i], d>> \in s.ahead
        \/ s.color[d] = "BLACK"
        \/ i < m /\ d = s.path[i + 1]
    BY <2>1 DEF GrayIsLooked, m
  <2>3. d = s.path[i + 1] => d = n \/ (i < m - 1 /\ d = r.path[i + 1])
    <3>1. i + 1 = m \/ i + 1 \in 1 .. m - 1
      BY <1>1, <2>1
    <3> QED
      BY <1>1, <1>3, <2>1, <3>1
  <2> QED
    BY <1>2, <1>3, <1>9, <2>1, <2>2, <2>3
<1> QED
  BY <1>2, <1>8, <1>10, <1>11, <1>12 DEF SearchInv, r, n

\* An edge of the top of the path is looked along.
LEMMA LookKeepsSearch ==
  ASSUME NEW g, NEW s \in Searches(g), s.path # <<>>, ~s.cycle,
         PathIsGray(g, s), BlackIsDone(g, s), WhiteIsAhead(g, s), GrayIsLooked(g, s, {}),
         NEW e \in s.ahead, e[1] = Last(s.path), e[2] \in Nodes(g), e[2] \in Deps(g, e[1])
  PROVE  SearchInv(g, Look(s, e))
<1> DEFINE n == e[1]
           d == e[2]
           l == Looked(s, e)
           m == Len(s.path)
<1>1. /\ s.color \in [Nodes(g) -> Colors] /\ s.path \in Seq(Nodes(g)) /\ m \in Nat
      /\ m # 0 /\ m \in 1 .. m /\ n = s.path[m] /\ n \in Nodes(g) /\ e = <<n, d>>
  <2>1. s.color \in [Nodes(g) -> Colors] /\ s.path \in Seq(Nodes(g)) /\ e \in Edges(g)
    BY DEF Searches
  <2>2. m \in Nat /\ m # 0
    BY <2>1
  <2>3. m \in 1 .. m /\ n = s.path[m]
    BY <2>2 DEF Last
  <2>4. e = <<n, d>>
    BY <2>1 DEF Edges
  <2> QED
    BY <2>1, <2>2, <2>3, <2>4
<1>2. /\ l \in Searches(g) /\ l.color = s.color /\ l.path = s.path /\ l.cycle = s.cycle
      /\ l.ahead = s.ahead \ {e}
      /\ \/ s.color[d] = "BLACK" /\ Look(s, e) = l
         \/ s.color[d] = "WHITE" /\ Look(s, e) = Enter(l, d)
         \/ /\ s.color[d] = "GRAY"
            /\ Look(s, e) \in Searches(g) /\ Look(s, e).cycle = TRUE
  <2>1. ASSUME NEW x \in Searches(g), NEW f \in x.ahead, f[2] \in Nodes(g)
        PROVE  /\ Looked(x, f) \in Searches(g)
               /\ Looked(x, f).color = x.color /\ Looked(x, f).path = x.path
               /\ Looked(x, f).cycle = x.cycle /\ Looked(x, f).ahead = x.ahead \ {f}
               /\ \/ x.color[f[2]] = "BLACK" /\ Look(x, f) = Looked(x, f)
                  \/ x.color[f[2]] = "WHITE" /\ Look(x, f) = Enter(Looked(x, f), f[2])
                  \/ /\ x.color[f[2]] = "GRAY"
                     /\ Look(x, f) \in Searches(g) /\ Look(x, f).cycle = TRUE
    BY <2>1, LookFields, Zenon
  <2> QED
    BY <2>1
<1> HIDE DEF l
<1>3. s.color[n] = "GRAY"
  BY <1>1 DEF PathIsGray
<1>4. PathIsGray(g, l) /\ BlackIsDone(g, l)
  BY <1>2 DEF PathIsGray, BlackIsDone
<1>5. WhiteIsAhead(g, l)
  <2> SUFFICES ASSUME NEW x \in Nodes(g), NEW y \in Deps(g, x), s.color[x] = "WHITE"
               PROVE  <<x, y>> \in s.ahead /\ <<x, y>> # e
    BY <1>2 DEF WhiteIsAhead
  <2>1. x # n
    BY <1>3
  <2>2. <<x, y>> # e
    BY <1>1, <2>1
  <2> QED
    BY <2>2 DEF WhiteIsAhead
<1>6. ASSUME NEW next, s.color[d] = "BLACK" \/ d \in next
      PROVE  GrayIsLooked(g, l, next)
  <2> SUFFICES ASSUME NEW i \in 1 .. m, NEW y \in Deps(g, s.path[i])
               PROVE  \/ <<s.path[i], y>> \in l.ahead
                      \/ s.color[y] = "BLACK"
                      \/ i < m /\ y = s.path[i + 1]
                      \/ i = m /\ y \in next
    BY <1>2 DEF GrayIsLooked
  <2>1. \/ <<s.path[i], y>> \in s.ahead
        \/ s.color[y] = "BLACK"
        \/ i < m /\ y = s.path[i + 1]
    BY DEF GrayIsLooked
  <2>2. CASE <<s.path[i], y>> = e
    <3>1. y = d /\ s.path[i] = n
      BY <1>1, <2>2
    <3>2. i = m
      BY <1>1, <3>1 DEF PathIsGray
    <3> QED
      BY <1>6, <3>1, <3>2
  <2>3. CASE <<s.path[i], y>> # e
    BY <1>2, <2>1, <2>3
  <2> QED
    BY <2>2, <2>3
<1>7. CASE s.color[d] = "BLACK"
  <2>1. GrayIsLooked(g, l, {})
    BY <1>6, <1>7
  <2>2. Look(s, e) = l
    BY <1>2, <1>7
  <2> QED
    BY <1>2, <1>4, <1>5, <2>1, <2>2 DEF SearchInv
<1>8. CASE s.color[d] = "WHITE"
  <2>1. GrayIsLooked(g, l, {d})
    BY <1>6
  <2>2. Look(s, e) = Enter(l, d)
    BY <1>2, <1>8
  <2>3. d \in Deps(g, Last(l.path)) /\ l.color[d] = "WHITE" /\ ~l.cycle /\ d \in Nodes(g)
    BY <1>2, <1>8
  <2>4. SearchInv(g, Enter(l, d))
    <3> HIDE DEF d
    <3> QED
      BY <1>2, <1>4, <1>5, <2>1, <2>3, EnterKeepsSearch
  <2> QED
    BY <2>2, <2>4
<1>9. CASE s.color[d] = "GRAY"
  <2>1. PICK j \in 1 .. m : s.path[j] = d
    BY <1>9 DEF PathIsGray
  <2> DEFINE C == {s.path[i] : i \in j .. m}
  <2>2. \A i \in j .. m : i \in 1 .. m /\ s.path[i] \in C /\ s.path[i] \in Nodes(g)
    BY <1>1, <2>1
  <2>3. C \in SUBSET Nodes(g) /\ C # {}
    <3>1. m \in j .. m
      BY <1>1, <2>1
    <3> QED
      BY <2>2, <3>1
  <2>4. ASSUME NEW i \in j .. m
        PROVE  Deps(g, s.path[i]) \cap C # {}
    <3>1. CASE i = m
      <4>1. j \in j .. m
        BY <1>1, <2>1
      <4> QED
        BY <1>1, <2>1, <2>2, <3>1, <4>1
    <3>2. CASE i # m
      <4>1. i \in 1 .. m - 1 /\ i + 1 \in j .. m
        BY <1>1, <2>1, <3>2
      <4>2. s.path[i + 1] \in Deps(g, s.path[i])
        BY <4>1 DEF PathIsGray
      <4> QED
        BY <2>2, <4>1, <4>2
    <3> QED
      BY <3>1, <3>2
  <2>5. Cyclic(g)
    <3>1. \A x \in C : Deps(g, x) \cap C # {}
      BY <2>4
    <3> HIDE DEF C
    <3> QED
      BY <2>3, <3>1 DEF Cyclic
  <2> QED
    BY <1>2, <1>9, <2>5 DEF SearchInv
<1>10. s.color[d] \in Colors
  BY <1>1
<1> QED
  BY <1>7, <1>8, <1>9, <1>10 DEF Colors

\* Every step keeps it.
LEMMA SearchKeepsSearch ==
  ASSUME NEW g, NEW s, SearchInv(g, s)
  PROVE  SearchInv(g, Search(g, s))
<1>1. CASE Over(g, s)
  <2>1. Search(g, s) = s
    BY <1>1 DEF Search, Over, WhiteRoots
  <2> QED
    BY <2>1
<1>2. CASE ~Over(g, s)
  <2>1. /\ s \in Searches(g) /\ ~s.cycle
        /\ PathIsGray(g, s) /\ BlackIsDone(g, s) /\ WhiteIsAhead(g, s) /\ GrayIsLooked(g, s, {})
    BY <1>2 DEF SearchInv, Over
  <2> DEFINE n == Last(s.path)
             r == Search(g, s)
  <2>2. \/ \E root \in DOMAIN g : /\ s.path = <<>> /\ s.color[root] = "WHITE"
                                  /\ r = Enter(s, root)
        \/ /\ s.path # <<>>
           /\ \A e \in s.ahead : e[1] # n
           /\ r = Leave(s, n)
        \/ \E e \in s.ahead :
             /\ s.path # <<>> /\ e[1] = n
             /\ e[2] \in Nodes(g) /\ e[2] \in Deps(g, n)
             /\ r = Look(s, e)
    BY <1>2, <2>1, SearchSteps
  <2> HIDE DEF r
  <2>3. ASSUME NEW root \in DOMAIN g, s.path = <<>>, s.color[root] = "WHITE"
        PROVE  SearchInv(g, Enter(s, root))
    <3>1. root \in Nodes(g)
      BY DEF Nodes
    <3>2. GrayIsLooked(g, s, {root})
      BY <2>3 DEF GrayIsLooked
    <3> QED
      BY <2>1, <2>3, <3>1, <3>2, EnterKeepsSearch
  <2>4. ASSUME s.path # <<>>, \A e \in s.ahead : e[1] # n
        PROVE  SearchInv(g, Leave(s, n))
    BY <2>1, <2>4, LeaveKeepsSearch
  <2>5. ASSUME NEW e \in s.ahead, s.path # <<>>, e[1] = n, e[2] \in Nodes(g),
               e[2] \in Deps(g, n)
        PROVE  SearchInv(g, Look(s, e))
    BY <2>1, <2>5, LookKeepsSearch
  <2> HIDE DEF n
  <2>6. SearchInv(g, r)
    BY <2>2, <2>3, <2>4, <2>5
  <2> QED
    BY <2>6 DEF r
<1> QED
  BY <1>1, <1>2

-----------------------------------------------------------------------------
(* The search ends, and what it found.                                     *)

Whites(g, s) == {n \in Nodes(g) : s.color[n] = "WHITE"}
Unleft(g, s) == {n \in Nodes(g) : s.color[n] # "BLACK"}

\* The steps that are left: nodes to enter, nodes to leave, edges to look along.
Todo(g, s) == Cardinality(Whites(g, s)) + Cardinality(Unleft(g, s)) + Cardinality(s.ahead)

\* They are finitely many.
LEMMA TodoType ==
  ASSUME NEW g, IsFiniteSet(Nodes(g)), IsFiniteSet(Edges(g)), NEW s \in Searches(g)
  PROVE  /\ IsFiniteSet(Whites(g, s)) /\ IsFiniteSet(Unleft(g, s)) /\ IsFiniteSet(s.ahead)
         /\ Cardinality(Whites(g, s)) \in Nat /\ Cardinality(Unleft(g, s)) \in Nat
         /\ Cardinality(s.ahead) \in Nat
<1>1. /\ Whites(g, s) \in SUBSET Nodes(g) /\ Unleft(g, s) \in SUBSET Nodes(g)
      /\ s.ahead \in SUBSET Edges(g)
  BY DEF Whites, Unleft, Searches
<1>2. IsFiniteSet(Whites(g, s)) /\ IsFiniteSet(Unleft(g, s)) /\ IsFiniteSet(s.ahead)
  BY <1>1, FS_Subset
<1> QED
  BY <1>2, FS_CardinalityType

\* Entering a node leaves one step less.
LEMMA EnterProgress ==
  ASSUME NEW g, IsFiniteSet(Nodes(g)), IsFiniteSet(Edges(g)), NEW s \in Searches(g),
         NEW n \in Nodes(g), s.color[n] = "WHITE"
  PROVE  Todo(g, Enter(s, n)) = Todo(g, s) - 1
<1> DEFINE r == Enter(s, n)
<1>1. s.color \in [Nodes(g) -> Colors]
  BY DEF Searches
<1>2. r.color = [s.color EXCEPT ![n] = "GRAY"] /\ r.ahead = s.ahead
  BY EnterFields
<1> HIDE DEF r
<1>3. Whites(g, r) = Whites(g, s) \ {n} /\ n \in Whites(g, s)
  BY <1>1, <1>2 DEF Whites
<1>4. Unleft(g, r) = Unleft(g, s)
  BY <1>1, <1>2 DEF Unleft
<1>5. Cardinality(Whites(g, r)) = Cardinality(Whites(g, s)) - 1
  BY <1>3, TodoType, FS_RemoveElement
<1> QED
  BY <1>2, <1>4, <1>5, TodoType DEF Todo, r

\* So does every other.
LEMMA SearchProgress ==
  ASSUME NEW g, IsFiniteSet(Nodes(g)), IsFiniteSet(Edges(g)), NEW s, SearchInv(g, s),
         ~Over(g, s)
  PROVE  Search(g, s).cycle \/ Todo(g, Search(g, s)) <= Todo(g, s) - 1
<1> DEFINE n == Last(s.path)
           r == Search(g, s)
<1>1. s \in Searches(g) /\ s.color \in [Nodes(g) -> Colors] /\ PathIsGray(g, s)
  BY DEF SearchInv, Over, Searches
<1>2. Todo(g, s) \in Nat
  BY <1>1, TodoType DEF Todo
<1>3. \/ \E root \in DOMAIN g : s.color[root] = "WHITE" /\ r = Enter(s, root)
      \/ s.path # <<>> /\ n \in Nodes(g) /\ r = Leave(s, n)
      \/ \E e \in s.ahead : e[2] \in Nodes(g) /\ r = Look(s, e)
  BY <1>1, SearchSteps
<1> HIDE DEF r
<1>4. CASE \E root \in DOMAIN g : s.color[root] = "WHITE" /\ r = Enter(s, root)
  <2>1. PICK root \in DOMAIN g : s.color[root] = "WHITE" /\ r = Enter(s, root)
    BY <1>4
  <2>2. root \in Nodes(g)
    BY DEF Nodes
  <2>3. Todo(g, Enter(s, root)) = Todo(g, s) - 1
    BY <1>1, <2>1, <2>2, EnterProgress
  <2> QED
    BY <1>2, <2>1, <2>3 DEF r
<1>5. CASE s.path # <<>> /\ n \in Nodes(g) /\ r = Leave(s, n)
  <2>1. s.color[n] = "GRAY"
    <3>1. s.path \in Seq(Nodes(g)) /\ Len(s.path) \in 1 .. Len(s.path)
      BY <1>1, <1>5 DEF Searches
    <3> QED
      BY <1>1, <1>5, <3>1 DEF PathIsGray, Last
  <2> HIDE DEF n
  <2>2. r.color = [s.color EXCEPT ![n] = "BLACK"] /\ r.ahead = s.ahead
    BY <1>1, <1>5, LeaveFields
  <2>3. Unleft(g, r) = Unleft(g, s) \ {n} /\ n \in Unleft(g, s)
    BY <1>1, <1>5, <2>1, <2>2 DEF Unleft
  <2>4. Whites(g, r) = Whites(g, s)
    BY <1>1, <1>5, <2>1, <2>2 DEF Whites
  <2>5. Cardinality(Unleft(g, r)) = Cardinality(Unleft(g, s)) - 1
    BY <1>1, <2>3, TodoType, FS_RemoveElement
  <2>6. Todo(g, r) = Todo(g, s) - 1
    BY <1>1, <2>2, <2>4, <2>5, TodoType DEF Todo
  <2> QED
    BY <1>2, <2>6 DEF r
<1>6. CASE \E e \in s.ahead : e[2] \in Nodes(g) /\ r = Look(s, e)
  <2>1. PICK e \in s.ahead : e[2] \in Nodes(g) /\ r = Look(s, e)
    BY <1>6
  <2> DEFINE l == Looked(s, e)
             d == e[2]
  <2>2. /\ l \in Searches(g) /\ l.color = s.color /\ l.ahead = s.ahead \ {e}
        /\ \/ Look(s, e) = l
           \/ s.color[d] = "WHITE" /\ Look(s, e) = Enter(l, d)
           \/ Look(s, e).cycle = TRUE
    <3>1. ASSUME NEW x \in Searches(g), NEW f \in x.ahead, f[2] \in Nodes(g)
          PROVE  /\ Looked(x, f) \in Searches(g)
                 /\ Looked(x, f).color = x.color /\ Looked(x, f).path = x.path
                 /\ Looked(x, f).cycle = x.cycle /\ Looked(x, f).ahead = x.ahead \ {f}
                 /\ \/ x.color[f[2]] = "BLACK" /\ Look(x, f) = Looked(x, f)
                    \/ x.color[f[2]] = "WHITE" /\ Look(x, f) = Enter(Looked(x, f), f[2])
                    \/ /\ x.color[f[2]] = "GRAY"
                       /\ Look(x, f) \in Searches(g) /\ Look(x, f).cycle = TRUE
      BY <3>1, LookFields, Zenon
    <3> QED
      BY <1>1, <2>1, <3>1
  <2> HIDE DEF l
  <2>3. Whites(g, l) = Whites(g, s) /\ Unleft(g, l) = Unleft(g, s)
    BY <2>2 DEF Whites, Unleft
  <2>4. Cardinality(l.ahead) = Cardinality(s.ahead) - 1
    <3>1. IsFiniteSet(s.ahead) /\ e \in s.ahead
      BY <1>1, <2>1, TodoType
    <3>2. Cardinality(s.ahead \ {e}) = Cardinality(s.ahead) - 1
      BY <3>1, FS_RemoveElement
    <3> QED
      BY <2>2, <3>2
  <2>5. Todo(g, l) = Todo(g, s) - 1
    BY <1>1, <2>3, <2>4, TodoType DEF Todo
  <2>6. s.color[d] = "WHITE" => Todo(g, Enter(l, d)) = Todo(g, l) - 1
    BY <2>1, <2>2, EnterProgress
  <2>7. Todo(g, r) <= Todo(g, s) - 1 \/ r.cycle
    BY <1>2, <2>1, <2>2, <2>5, <2>6
  <2> QED
    BY <2>7 DEF r
<1> QED
  BY <1>3, <1>4, <1>5, <1>6

\* A search with nothing left to do is over.
LEMMA NothingTodo ==
  ASSUME NEW g, IsFiniteSet(Nodes(g)), IsFiniteSet(Edges(g)), NEW s, SearchInv(g, s),
         Todo(g, s) <= 0
  PROVE  Over(g, s)
<1> SUFFICES ASSUME ~s.cycle
             PROVE  s.path = <<>> /\ WhiteRoots(g, s) = {}
  BY DEF Over
<1>1. s \in Searches(g) /\ PathIsGray(g, s)
  BY DEF SearchInv
<1>2. Cardinality(Whites(g, s)) = 0 /\ Cardinality(Unleft(g, s)) = 0
  BY <1>1, TodoType DEF Todo
<1>3. Whites(g, s) = {} /\ Unleft(g, s) = {}
  BY <1>1, <1>2, TodoType, FS_EmptySet
<1>4. s.path = <<>>
  <2> SUFFICES ASSUME s.path # <<>>
               PROVE  FALSE
    OBVIOUS
  <2>1. 1 \in 1 .. Len(s.path) /\ s.path[1] \in Nodes(g)
    BY <1>1 DEF Searches
  <2>2. s.color[s.path[1]] = "GRAY"
    BY <1>1, <2>1 DEF PathIsGray
  <2> QED
    BY <1>3, <2>1, <2>2 DEF Unleft
<1> QED
  BY <1>3, <1>4 DEF WhiteRoots, Whites, Nodes

\* A search that is over has found a cycle or there is none.
LEMMA OverIsExact ==
  ASSUME NEW g, NEW s, SearchInv(g, s), Over(g, s)
  PROVE  s.cycle = Cyclic(g)
<1>1. s \in Searches(g) /\ s.cycle \in BOOLEAN
  BY DEF SearchInv, Searches
<1>2. s.cycle => Cyclic(g)
  BY DEF SearchInv
<1>3. ASSUME ~s.cycle, Cyclic(g)
      PROVE  FALSE
  <2>1. PICK C \in (SUBSET Nodes(g)) \ {{}} : \A x \in C : Deps(g, x) \cap C # {}
    BY <1>3 DEF Cyclic
  <2>2. s.path = <<>> /\ WhiteRoots(g, s) = {} /\ PathIsGray(g, s) /\ BlackIsDone(g, s)
    BY <1>3 DEF SearchInv, Over
  <2>3. ASSUME NEW x \in C
        PROVE  s.color[x] = "BLACK"
    <3>1. x \in DOMAIN g /\ x \in Nodes(g)
      BY <2>1, DepsAreNodes
    <3>2. s.color[x] # "WHITE"
      BY <2>2, <3>1 DEF WhiteRoots
    <3>3. s.color[x] # "GRAY"
      BY <2>2, <3>1 DEF PathIsGray
    <3>4. s.color[x] \in Colors
      BY <1>1, <3>1 DEF Searches
    <3> QED
      BY <3>2, <3>3, <3>4 DEF Colors
  <2> QED
    BY <2>1, <2>2, <2>3 DEF BlackIsDone
<1>4. Cyclic(g) \in BOOLEAN
  BY DEF Cyclic
<1> QED
  BY <1>1, <1>2, <1>3, <1>4

\* Law 13 (_has_cycle): in every finite graph the colouring search finds a cycle exactly if
\* there is one.
THEOREM SearchFindsCycles ==
  ASSUME NEW g, IsFiniteSet(Nodes(g))
  PROVE  has_cycle(g) = Cyclic(g)
<1> DEFINE n == SearchSize(g)
<1>1. IsFiniteSet(Edges(g))
  <2>1. IsFiniteSet(Nodes(g) \X Nodes(g)) /\ Edges(g) \in SUBSET (Nodes(g) \X Nodes(g))
    BY FS_Product DEF Edges
  <2> QED
    BY <2>1, FS_Subset
<1>2. Cardinality(Nodes(g)) \in Nat /\ Cardinality(Edges(g)) \in Nat /\ n \in Nat
  BY <1>1, FS_CardinalityType DEF SearchSize
<1>3. PICK p : SearchRun(p, g) /\ has_cycle(g) = p[n].cycle
  BY <1>2, SearchRuns
<1> DEFINE K == {k \in Nat : /\ SearchInv(g, p[k])
                             /\ Over(g, p[k]) \/ Todo(g, p[k]) <= n - k}
<1>4. 0 \in K
  <2>1. p[0] = White(g)
    BY <1>3 DEF SearchRun
  <2>2. White(g).color = [x \in Nodes(g) |-> "WHITE"] /\ White(g).ahead = Edges(g)
    BY DEF White
  <2>3. Whites(g, White(g)) = Nodes(g) /\ Unleft(g, White(g)) = Nodes(g)
    BY <2>2 DEF Whites, Unleft
  <2>4. Todo(g, White(g)) = n
    BY <1>2, <2>2, <2>3 DEF Todo, SearchSize
  <2>5. SearchInv(g, White(g))
    BY SearchInvAtStart
  <2> QED
    BY <1>2, <2>1, <2>4, <2>5
<1>5. ASSUME NEW k \in 1 .. n, k - 1 \in K
      PROVE  k \in K
  <2> DEFINE s == p[k - 1]
             r == Search(g, s)
  <2>1. p[k] = r
    BY <1>3 DEF SearchRun
  <2>2. SearchInv(g, s) /\ (Over(g, s) \/ Todo(g, s) <= n - (k - 1))
    BY <1>5
  <2> HIDE DEF s
  <2>3. SearchInv(g, r)
    BY <2>2, SearchKeepsSearch
  <2>4. Over(g, r) \/ Todo(g, r) <= n - k
    <3>1. CASE Over(g, s)
      <4>1. r = s
        BY <3>1 DEF Search, Over, WhiteRoots
      <4> QED
        BY <3>1, <4>1
    <3>2. CASE ~Over(g, s)
      <4>1. r.cycle \/ Todo(g, r) <= Todo(g, s) - 1
        BY <1>1, <2>2, <3>2, SearchProgress
      <4>2. Todo(g, s) \in Nat /\ Todo(g, r) \in Nat
        <5>1. s \in Searches(g) /\ r \in Searches(g)
          BY <2>2, <2>3 DEF SearchInv
        <5> HIDE DEF r
        <5> QED
          BY <1>1, <5>1, TodoType DEF Todo
      <4> HIDE DEF r, n
      <4> QED
        BY <1>2, <2>2, <3>2, <4>1, <4>2 DEF Over
    <3> QED
      BY <3>1, <3>2
  <2> HIDE DEF r
  <2> QED
    BY <2>1, <2>3, <2>4
<1>6. 0 .. n \subseteq K
  <2> HIDE DEF K, n
  <2> QED
    BY <1>2, <1>4, <1>5, InductionUpTo
<1>7. SearchInv(g, p[n]) /\ (Over(g, p[n]) \/ Todo(g, p[n]) <= 0)
  <2>1. n \in K
    BY <1>2, <1>6
  <2> HIDE DEF n
  <2> QED
    BY <1>2, <2>1
<1> HIDE DEF n
<1>8. Over(g, p[n])
  BY <1>1, <1>7, NothingTodo
<1> QED
  BY <1>3, <1>7, <1>8, OverIsExact

-----------------------------------------------------------------------------
(* The plan's graph.                                                       *)

\* There are finitely many steps, and what is committed has no cycle.
GraphInv ==
  /\ IsFiniteSet(Rows) /\ IsFiniteSet(Nodes(graph))
  /\ ~Cyclic(graph)

\* What may be submitted is finite.
LEMMA ShapesAreFinite ==
  ASSUME NEW n \in Nat, NEW g \in Shapes(n)
  PROVE  IsFiniteSet(Nodes(g)) /\ DOMAIN g = 1 .. n /\ IsFiniteSet(1 .. n)
<1>1. IsFiniteSet(1 .. n)
  BY FS_Interval
<1>2. DOMAIN g = 1 .. n /\ Nodes(g) \in SUBSET (1 .. n)
  BY DEF Shapes, Nodes
<1> QED
  BY <1>1, <1>2, FS_Subset

\* An added edge or step leaves the graph finite.
LEMMA WiderIsFinite ==
  ASSUME NEW g, IsFiniteSet(Nodes(g)), NEW s, NEW deps, IsFiniteSet(deps),
         NEW h, DOMAIN h = DOMAIN g \cup {s},
         \A n \in DOMAIN h : h[n] \subseteq deps \cup Nodes(g)
  PROVE  IsFiniteSet(Nodes(h))
<1>1. IsFiniteSet(Nodes(g) \cup {s})
  BY FS_AddElement
<1>2. IsFiniteSet((Nodes(g) \cup {s}) \cup deps)
  BY <1>1, FS_Union
<1>3. Nodes(h) \in SUBSET ((Nodes(g) \cup {s}) \cup deps)
  <2>1. DOMAIN h \subseteq Nodes(g) \cup {s}
    BY DEF Nodes
  <2> QED
    BY <2>1 DEF Nodes
<1> QED
  BY <1>2, <1>3, FS_Subset

\* An edge between two steps.
LEMMA WithEdgeIsFinite ==
  ASSUME GraphInv, NEW s, NEW dep
  PROVE  IsFiniteSet(Nodes(WithEdge(s, dep)))
<1> DEFINE h == WithEdge(s, dep)
<1>1. DOMAIN h = DOMAIN graph \cup {s}
  BY DEF WithEdge
<1>2. \A n \in DOMAIN h : h[n] \subseteq {dep} \cup Nodes(graph)
  <2>1. h[s] = Deps(graph, s) \cup {dep} /\ Deps(graph, s) \subseteq Nodes(graph)
    BY DepsAreNodes DEF WithEdge
  <2>2. \A n \in DOMAIN graph : n # s => h[n] = graph[n] /\ graph[n] \subseteq Nodes(graph)
    BY DEF WithEdge, Nodes
  <2> HIDE DEF h
  <2> QED
    BY <1>1, <2>1, <2>2
<1>3. IsFiniteSet({dep}) /\ IsFiniteSet(Nodes(graph))
  BY FS_Singleton DEF GraphInv
<1> HIDE DEF h
<1>4. IsFiniteSet(Nodes(h))
  BY <1>1, <1>2, <1>3, WiderIsFinite
<1> QED
  BY <1>4 DEF h

\* It holds at the start.
LEMMA GraphHolds == Init => GraphInv
<1> SUFFICES ASSUME Init
             PROVE  GraphInv
  OBVIOUS
<1>1. DOMAIN graph = {} /\ DOMAIN depends_on = {}
  BY DEF Init
<1>2. Nodes(graph) = {}
  BY <1>1 DEF Nodes
<1> QED
  BY <1>1, <1>2, FS_EmptySet DEF GraphInv, Rows, Cyclic

\* A plan may be created with its steps.
LEMMA CreatePlanKeepsGraph ==
  ASSUME NEW n \in 1 .. MaxSteps, NEW g \in Shapes(n), create_plan_with_steps(g)
  PROVE  GraphInv'
<1>1. n \in Nat
  BY DependencyConstants
<1>2. IsFiniteSet(Nodes(g)) /\ DOMAIN g = 1 .. n /\ IsFiniteSet(1 .. n)
  BY <1>1, ShapesAreFinite
<1>3. ~Cyclic(g) /\ graph' = g /\ depends_on' = g
  BY <1>2, SearchFindsCycles DEF create_plan_with_steps
<1> QED
  BY <1>2, <1>3 DEF GraphInv, Rows

\* A step may be created with its dependencies.
LEMMA CreateStepKeepsGraph ==
  ASSUME GraphInv, NEW deps \in SUBSET (Rows \cup {Foreign}), create_step(deps)
  PROVE  GraphInv'
<1> DEFINE s == Cardinality(Rows) + 1
           With(f) == [n \in DOMAIN f \cup {s} |-> IF n = s THEN deps ELSE f[n]]
           h == With(graph)
<1>1. graph' = h /\ depends_on' = With(depends_on) /\ ~has_cycle(h)
  BY DEF create_step, Commit
<1>2. IsFiniteSet(Rows) /\ IsFiniteSet(Nodes(graph))
  BY DEF GraphInv
<1>3. IsFiniteSet(deps)
  <2>1. IsFiniteSet(Rows \cup {Foreign})
    BY <1>2, FS_AddElement
  <2> QED
    BY <2>1, FS_Subset
<1> HIDE DEF s
<1>4. Rows' = Rows \cup {s}
  BY <1>1 DEF Rows
<1>5. DOMAIN h = DOMAIN graph \cup {s} /\ \A n \in DOMAIN h : h[n] \subseteq deps \cup Nodes(graph)
  BY DEF Nodes
<1> HIDE DEF h
<1>6. IsFiniteSet(Nodes(h))
  BY <1>2, <1>3, <1>5, WiderIsFinite
<1>7. IsFiniteSet(Rows')
  BY <1>2, <1>4, FS_AddElement
<1>8. ~Cyclic(h)
  BY <1>1, <1>6, SearchFindsCycles
<1> QED
  BY <1>1, <1>6, <1>7, <1>8 DEF GraphInv

\* An edge may be added.
LEMMA AddDependencyKeepsGraph ==
  ASSUME GraphInv, NEW c, NEW s \in Rows, NEW dep \in Rows, add_dependency(c, s, dep)
  PROVE  GraphInv'
<1>1. graph' = WithEdge(s, dep) /\ ~has_cycle(WithEdge(s, dep)) /\ Rows' = Rows
  BY DEF add_dependency, Commit, Rows
<1>2. IsFiniteSet(Nodes(WithEdge(s, dep)))
  BY WithEdgeIsFinite
<1>3. ~Cyclic(WithEdge(s, dep))
  BY <1>1, <1>2, SearchFindsCycles
<1> QED
  BY <1>1, <1>2, <1>3 DEF GraphInv

\* A human may replace the graph.
LEMMA RepairKeepsGraph ==
  ASSUME GraphInv, NEW c, NEW g \in Shapes(Cardinality(Rows)), repair_graph(c, g)
  PROVE  GraphInv'
<1>1. Cardinality(Rows) \in Nat
  BY FS_CardinalityType DEF GraphInv
<1>2. IsFiniteSet(Nodes(g))
  BY <1>1, ShapesAreFinite
<1>3. graph' = g /\ ~has_cycle(g) /\ Rows' = Rows
  BY DEF repair_graph, Commit, Rows
<1>4. ~Cyclic(g)
  BY <1>2, <1>3, SearchFindsCycles
<1> QED
  BY <1>2, <1>3, <1>4 DEF GraphInv

\* The invariant: the plan is finite and its graph has no cycle.
THEOREM GraphInvariance == Spec => []GraphInv
<1>1. GraphInv /\ [Next]_vars => GraphInv'
  <2> SUFFICES ASSUME GraphInv, [Next]_vars
               PROVE  GraphInv'
    OBVIOUS
  <2>1. CASE \E n \in 1 .. MaxSteps : \E g \in Shapes(n) : create_plan_with_steps(g)
    BY <2>1, CreatePlanKeepsGraph
  <2>2. CASE \E deps \in SUBSET (Rows \cup {Foreign}) : create_step(deps)
    BY <2>2, CreateStepKeepsGraph
  <2>3. CASE \E c \in Callers : \E s, dep \in Rows : add_dependency(c, s, dep)
    BY <2>3, AddDependencyKeepsGraph
  <2>4. CASE \E c \in Callers : \E g \in Shapes(Cardinality(Rows)) : repair_graph(c, g)
    BY <2>4, RepairKeepsGraph
  <2>5. CASE UNCHANGED <<graph, depends_on>>
    BY <2>5 DEF GraphInv, Rows
  <2>6. CASE create_plan \/ close_plan \/ (\E c \in Callers : read_plan(c)) \/ UNCHANGED vars
    <3>1. UNCHANGED <<graph, depends_on>>
      BY <2>6 DEF create_plan, close_plan, read_plan, vars
    <3> QED
      BY <2>5, <3>1
  <2> QED
    BY <2>1, <2>2, <2>3, <2>4, <2>6 DEF Next
<1> QED
  BY GraphHolds, <1>1, PTL DEF Spec

\* GraphIsAcyclic, Law 13 (create_step, add_dependency, repair_object): no sequence of edits
\* and repairs, by callers with whatever snapshots, commits a cycle.
THEOREM GraphAlwaysAcyclic == Spec => []GraphIsAcyclic
<1>1. GraphInv => GraphIsAcyclic
  BY DEF GraphInv, GraphIsAcyclic
<1> QED
  BY <1>1, GraphInvariance, PTL

\* SearchIsExact, Law 13 (_has_cycle): of the edges that could be added at any time the search
\* refuses exactly those that close a cycle.
THEOREM SearchAlwaysExact == Spec => []SearchIsExact
<1>1. GraphInv => SearchIsExact
  BY WithEdgeIsFinite, SearchFindsCycles DEF SearchIsExact
<1> QED
  BY <1>1, GraphInvariance, PTL

\* A finite set as a sequence has all its elements.
LEMMA ListsAll ==
  ASSUME NEW S, IsFiniteSet(S), NEW l \in {SetToSeq(S), Reverse(SetToSeq(S))}
  PROVE  l \in Seq(S) /\ ToSet(l) = S
<1> DEFINE n == Cardinality(S)
           f == SetToSeq(S)
<1>1. n \in Nat /\ ExistsBijection(1 .. n, S)
  BY FS_CardinalityType
<1>2. f \in [1 .. n -> S] /\ IsInjective(f)
  <2>1. PICK b : b \in [1 .. n -> S] /\ IsInjective(b)
    BY <1>1 DEF ExistsBijection, Bijection, Injection, IsInjective
  <2> QED
    BY <2>1 DEF SetToSeq
<1> HIDE DEF f
<1>3. f \in Injection(1 .. n, S)
  BY <1>2 DEF Injection, IsInjective
<1>4. IsFiniteSet(1 .. n) /\ Cardinality(1 .. n) = n
  BY <1>1, FS_Interval
<1>5. f \in Surjection(1 .. n, S)
  <2> HIDE DEF n
  <2> QED
    BY <1>3, <1>4, FS_Injection DEF n
<1>6. f \in Seq(S) /\ Len(f) = n
  BY <1>1, <1>2
<1>7. \A x \in S : \E i \in 1 .. n : f[i] = x
  BY <1>5 DEF Surjection
<1>8. ToSet(f) = S
  BY <1>2, <1>7 DEF ToSet
<1>9. Reverse(f) \in Seq(S) /\ ToSet(Reverse(f)) = S
  <2> DEFINE r == Reverse(f)
  <2>1. r = [i \in 1 .. n |-> f[n - i + 1]]
    BY <1>6 DEF Reverse
  <2>2. \A i \in 1 .. n : n - i + 1 \in 1 .. n /\ n - (n - i + 1) + 1 = i
    BY <1>1
  <2> HIDE DEF r
  <2>3. r \in [1 .. n -> S]
    BY <1>2, <2>1, <2>2
  <2>4. \A x \in S : \E i \in 1 .. n : r[i] = x
    <3> SUFFICES ASSUME NEW x \in S
                 PROVE  \E i \in 1 .. n : r[i] = x
      OBVIOUS
    <3>1. PICK i \in 1 .. n : f[i] = x
      BY <1>7
    <3> DEFINE j == n - i + 1
    <3>2. j \in 1 .. n /\ n - j + 1 = i
      BY <2>2
    <3> HIDE DEF j
    <3>3. r[j] = f[n - j + 1]
      BY <2>1, <3>2
    <3> QED
      BY <3>1, <3>2, <3>3
  <2>5. r \in Seq(S)
    BY <1>1, <2>3
  <2>6. ToSet(r) = S
    BY <2>3, <2>4 DEF ToSet
  <2> QED
    BY <2>5, <2>6 DEF r
<1> QED
  BY <1>6, <1>8, <1>9 DEF f

\* OrderIsTopological, Law 13 (_dependency_order): in whatever of two orders the steps are
\* listed, a step comes once and after everything it waits for, and the walk stops short only of
\* steps that wait for one outside the plan.
THEOREM OrderAlwaysTopological == Spec => []OrderIsTopological
<1>1. GraphInv => OrderIsTopological
  <2> SUFFICES ASSUME GraphInv, NEW listed \in {SetToSeq(Rows), Reverse(SetToSeq(Rows))}
               PROVE  LET order == dependency_order(graph, listed) IN
                      /\ \A i \in 1 .. Len(order) :
                           Deps(graph, order[i]) \subseteq {order[j] : j \in 1 .. i - 1}
                      /\ Cardinality(ToSet(order)) = Len(order)
                      /\ Nodes(graph) \subseteq Rows => Len(order) = Cardinality(Rows)
    BY DEF OrderIsTopological
  <2> DEFINE order == dependency_order(graph, listed)
             m == Len(order)
  <2>1. listed \in Seq(Rows) /\ ToSet(listed) = Rows /\ IsFiniteSet(Rows)
    BY ListsAll DEF GraphInv
  <2>2. /\ order \in Seq(Rows) /\ IsInjective(order) /\ Topological(graph, order)
        /\ /\ \A s \in Rows : Deps(graph, s) \subseteq Rows
           /\ \A C \in (SUBSET Rows) \ {{}} : \E s \in C : Deps(graph, s) \cap C = {}
           => ToSet(order) = Rows
    BY <2>1, WalkIsTopological
  <2> HIDE DEF order
  <2>3. m \in Nat /\ order \in [1 .. m -> Rows] /\ ToSet(order) = {order[i] : i \in 1 .. m}
    BY <2>2 DEF ToSet
  <2>4. Cardinality(ToSet(order)) = m
    <3>1. order \in Bijection(1 .. m, ToSet(order))
      BY <2>2, <2>3 DEF Bijection, Injection, Surjection, IsInjective
    <3>2. ExistsBijection(1 .. m, ToSet(order))
      BY <3>1 DEF ExistsBijection
    <3> QED
      BY <2>3, <3>2, FS_CountingElements
  <2>5. ASSUME Nodes(graph) \subseteq Rows
        PROVE  m = Cardinality(Rows)
    <3>1. \A s \in Rows : Deps(graph, s) \subseteq Rows
      BY <2>5, DepsAreNodes
    <3>2. \A C \in (SUBSET Rows) \ {{}} : \E s \in C : Deps(graph, s) \cap C = {}
      <4> SUFFICES ASSUME NEW C \in (SUBSET Rows) \ {{}},
                          \A s \in C : Deps(graph, s) \cap C # {}
                   PROVE  FALSE
        OBVIOUS
      <4>1. C \subseteq Nodes(graph)
        BY DepsAreNodes
      <4> QED
        BY <4>1 DEF GraphInv, Cyclic
    <3> QED
      BY <2>2, <2>4, <3>1, <3>2
  <2>6. \A i \in 1 .. m : Deps(graph, order[i]) \subseteq {order[j] : j \in 1 .. i - 1}
    BY <2>2 DEF Topological
  <2> QED
    BY <2>4, <2>5, <2>6 DEF order
<1> QED
  BY <1>1, GraphInvariance, PTL
=============================================================================
