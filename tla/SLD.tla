-------------------------------- MODULE SLD --------------------------------
(***************************************************************************)
(* What a query means, with no machine: resolution, goal by goal and       *)
(* clause by clause in the order written, over an immutable substitution   *)
(* from variables to terms (what the README describes as Bowen's design).  *)
(* Like the machine it does without the occurs check; it is meant for      *)
(* queries whose search is finite.                                         *)
(***************************************************************************)
EXTENDS Terms, SequencesExt

\* The terms of the n-th clause used.  An anonymous variable is told from the
\* others by its place, the positions that lead to it.
RECURSIVE Renamed(_, _, _)
Renamed(t, n, place) ==
  CASE t = Anonymous -> Node("Var", "_", n, place)
    [] t.kind = "Var" /\ t # Anonymous -> Node("Var", t.name, n, <<>>)
    [] t.kind = "Compound" ->
         Compound(t.name, MapTerms(LAMBDA u, k : Renamed(u, n, Append(place, Integer(k))), t.args))
    [] t.kind \notin {"Var", "Compound"} -> t

RECURSIVE Walked(_, _)
Walked(t, s) ==
  IF t.kind = "Var" /\ t \in DOMAIN s THEN Walked(s[t], s) ELSE t

\* The most general unifier of a and b over s: a set, empty when there is none.
RECURSIVE Unifiers(_, _, _)
Unifiers(a, b, s) ==
  Once(<<Walked(a, s), Walked(b, s)>>, LAMBDA uv :
    LET u == uv[1]
        v == uv[2]
    IN  CASE u = v -> {s}
          [] u # v /\ u.kind = "Var" -> {(u :> v) @@ s}
          [] u # v /\ u.kind # "Var" /\ v.kind = "Var" -> {(v :> u) @@ s}
          [] u # v /\ u.kind # "Var" /\ v.kind # "Var" ->
               IF /\ u.kind = "Compound" /\ v.kind = "Compound"
                  /\ u.name = v.name /\ Len(u.args) = Len(v.args)
               THEN Pass(LAMBDA ss, k : UNION {Unifiers(u.args[k], v.args[k], r) : r \in ss},
                         {s}, [k \in DOMAIN u.args |-> k])
               ELSE {})

\* The substitutions that solve goals, in the order they are found.
RECURSIVE Solutions(_, _, _, _)
Solutions(clauses, goals, s, n) ==
  IF goals = <<>> THEN <<s>>
  ELSE
    LET Body(cl) == MapTerms(LAMBDA g, k : Renamed(g, n, <<Integer(k)>>), cl.Body)
        Using(cl) ==
          Once(Unifiers(Head(goals), Renamed(cl.Head, n, <<Integer(0)>>), s), LAMBDA mgu :
            IF mgu = {} THEN <<>>
            ELSE Once(<<Body(cl) \o Tail(goals), CHOOSE r \in mgu : TRUE>>, LAMBDA w :
                   Solutions(clauses, w[1], w[2], n + 1)))
    IN  Pass(LAMBDA found, cl : found \o Using(cl), <<>>, clauses)

\* A term printed as print.go prints a cell that holds it.  It is part of the
\* structures of within: one that is part of itself is cut off there.
RECURSIVE Printed(_, _, _), PrintedParts(_, _, _, _)
Printed(term, s, within) ==
  Once(Walked(term, s), LAMBDA t :
      CASE t.kind = "Compound" /\ IsPair(t) ->
             Node("List", "", 0, PrintedParts(t, s, within, <<>>))
        [] t \in within -> Node("Ellipsis", "...", 0, <<>>)
        [] t.kind = "Compound" /\ ~IsPair(t) /\ t \notin within ->
             Compound(t.name, MapTerms(LAMBDA u, k : Printed(u, s, within \cup {t}), t.args))
        [] t.kind # "Compound" -> t)
PrintedParts(term, s, within, parts) ==
  Once(Walked(term, s), LAMBDA t :
      CASE t \in {Nil, Atom("nil")} -> parts
        [] t.kind = "Compound" /\ IsPair(t) ->
             PrintedParts(t.args[2], s, within, Append(parts, Printed(t.args[1], s, within)))
        [] OTHER -> Append(parts, Node("Tail", "", 0, <<Printed(t, s, within)>>)))

\* Answers are compared up to the names of their unbound variables, which are
\* numbered in order of appearance.
Distinct(leaves) ==
  Pass(LAMBDA ds, v : IF Contains(ds, v) THEN ds ELSE Append(ds, v), <<>>, leaves)

RECURSIVE Numbered(_, _)
Numbered(t, leaves) ==
  IF t.kind = "Var"
  THEN Node("Var", "_", CHOOSE k \in DOMAIN leaves : leaves[k] = t, <<>>)
  ELSE Node(t.kind, t.name, t.val, MapTerms(LAMBDA u, k : Numbered(u, leaves), t.args))

Canonical(trees) ==
  Once(trees, LAMBDA ts :
    Once(Distinct(ArgVarLeaves(ts)), LAMBDA leaves :
      MapTerms(LAMBDA t, k : Numbered(t, leaves), ts)))

\* Whether variables of vs lead to each other in a circle.
RECURSIVE Circling(_, _)
Circling(vs, leads) ==
  LET on == {v \in vs : leads[v] \cap vs # {}}
  IN  IF on = vs THEN vs # {} ELSE Circling(on, leads)

\* Without the occurs check a variable of vs may be bound to a term that holds
\* a variable of vs, and so on in a circle.
Cyclic(vs, s) == Circling(vs, [v \in vs |-> ToSet(VarLeaves(s[v]))])

\* The variables that a list leads to, through pairs only.
RECURSIVE InPairs(_)
InPairs(t) ==
  CASE t.kind = "Var" -> {t}
    [] IsPair(t) -> InPairs(t.args[1]) \cup InPairs(t.args[2])
    [] t.kind # "Var" /\ ~IsPair(t) -> {}

\* No list has a list as a part of itself, but for one inside a structure.
ListsEnd(s) == ~Circling(DOMAIN s, [v \in DOMAIN s |-> InPairs(s[v])])

\* The answer that would have to print an infinite list.
Infinite == <<Node("Infinite", "", 0, <<>>)>>

\* All answers to a query: the printed bindings of vars, in order.
Answers(clauses, goal, vars) ==
  LET query == Renamed(goal, 0, <<Integer(0)>>)
      found == Solutions(clauses, <<query>>, <<>>, 1)
      Answer(s) == MapTerms(LAMBDA v, k : Printed(Var(v), s, {}), vars)
  IN  MapTerms(LAMBDA s, k : IF ListsEnd(s) THEN Canonical(Answer(s)) ELSE Infinite, found)
=============================================================================
