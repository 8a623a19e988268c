------------------------------ MODULE PlanOrder ------------------------------
(***************************************************************************)
(* The order in which the live loop works off the steps of a plan          *)
(* (_dependency_order, v5/live_loop.py).  A graph maps a step to the steps *)
(* it waits for.                                                           *)
(***************************************************************************)
EXTENDS Sequences, SequencesExt

\* graph.get(s, set())
Deps(g, s) == IF s \in DOMAIN g THEN g[s] ELSE {}

\* A step is placed once, after everything it waits for.
Place(g, done, s) ==
  IF s \in ToSet(done) \/ ~(Deps(g, s) \subseteq ToSet(done)) THEN done
  ELSE Append(done, s)

\* One pass over the steps as listed; a step placed in this pass already counts
\* for the ones after it.
Pass(g, order, listed) ==
  FoldLeft(LAMBDA done, s : Place(g, done, s), order, listed)

\* Mutant: the order the model listed them in.
dependency_order_Listed(g, listed) == listed

\* Passes until one places nothing, which is after at most as many as there are
\* steps; the code raises when the order it ends with is too short.
dependency_order(g, listed) ==
  FoldLeft(LAMBDA order, s : Pass(g, order, listed), <<>>, listed)
=============================================================================
