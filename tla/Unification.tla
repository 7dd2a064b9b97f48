---------------------------- MODULE Unification ----------------------------
(***************************************************************************)
(* What unify is for.  A valuation says which term every live cell stands  *)
(* for; the heap is a set of equations about them, and so is the push-down *)
(* list.  The solutions are the valuations that make all of them true.     *)
(* They are compared step by step, so that no recursion over terms is      *)
(* needed, and no occurs check: a heap with a circle has no solution among *)
(* finite terms, before it is closed by a binding and afterwards.          *)
(***************************************************************************)
EXTENDS WAM

CONSTANT Values    \* the terms a cell may stand for, functor cells included

\* What the n cells after address a stand for.
Parts(v, a, n) == [k \in 1 .. n |-> v[a + k]]

\* The term that c stands for under valuation v: the constants of a term are
\* the word's tag and value, and its parts are what the cells of its block
\* stand for.
Meaning(v, c) ==
  CASE c.tag = TagREF -> v[c.val]
    [] c.tag = TagSTR ->
         LET f == Heap[c.val].val IN <<TagSTR, f, Parts(v, c.val, prog.Arity[f + 1])>>
    [] c.tag = TagLIS -> <<TagLIS, v[c.val], v[c.val + 1]>>
    [] OTHER -> <<c.tag, c.val>>

\* Every live cell stands for what it holds.
HeapSays(v) == \A a \in 0 .. H - 1 : v[a] = Meaning(v, Heap[a])

\* The cells of a push-down list are equal in pairs, from the top.
PairsSay(v, cells) ==
  \A k \in 1 .. Len(cells) - 1 :
    (Len(cells) - k) % 2 = 1 => Meaning(v, cells[k]) = Meaning(v, cells[k + 1])

Solutions == { v \in [0 .. H - 1 -> Values] : HeapSays(v) /\ PairsSay(v, pdl) }

\* unify solves its pairs: no iteration of its loop, whatever it pops,
\* dereferences, binds or pushes, loses a solution or adds one, and it fails
\* only if there is none.  So when it has returned, what the bindings say is
\* what the pair it was given said.
UnifySolves ==
  [][ Unifying /\ Whole /\ ~panic' =>
        Solutions = IF Fail' THEN {} ELSE Solutions' ]_vars
=============================================================================
