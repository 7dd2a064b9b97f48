----------------------------- MODULE TermPairs -----------------------------
(***************************************************************************)
(* Pairs of small terms to unify.                                          *)
(***************************************************************************)
EXTENDS SLD

Flat == {Var("X"), Var("Y"), Atom("a"), Atom("b")}
Structures ==
  { Compound("f", <<u, v>>) : u, v \in {Var("X"), Var("Y"), Atom("a")} }
  \cup { Compound("f", <<Compound("g", <<u>>), v>>) : u, v \in {Var("X"), Var("Y")} }
Lists == { Pair(u, v) : u, v \in {Var("X"), Var("Y"), Atom("b")} }

\* Those of ts whose unifier, where they have one, is no cyclic term.
Finite(ts) ==
  { p \in ts \X ts : \A s \in Unifiers(p[1], p[2], <<>>) : ~Cyclic(DOMAIN s, s) }
=============================================================================
