------------------------------- MODULE Terms -------------------------------
(***************************************************************************)
(* Operators on the trees of Syntax: their variables and their text.       *)
(***************************************************************************)
EXTENDS Syntax, Integers, SequencesExt

\* Op(value), and the fold of Op over a sequence; they differ from these only
\* in that TLC evaluates the value once, not at each use of Op's parameter.
Once(value, Op(_)) == CHOOSE r \in {Op(v) : v \in {value}} : TRUE
Pass(Op(_, _), base, seq) ==
  FoldLeft(LAMBDA acc, x : Once(acc, LAMBDA v : Op(v, x)), base, seq)

IsPair(t)  == t.name = "." /\ Len(t.args) = 2

Anonymous == Var("_")

\* A sequence of terms, each replaced by Op of it and its position.
MapTerms(Op(_, _), ts) ==
  Once(ts, LAMBDA us :
    Pass(LAMBDA out, k : Append(out, Op(us[k], k)), <<>>, [k \in DOMAIN us |-> k]))

\* The variable leaves of a term, in order of occurrence and repeated.
RECURSIVE VarLeaves(_), ArgVarLeaves(_)
VarLeaves(t) == IF t.kind = "Var" THEN <<t>> ELSE ArgVarLeaves(t.args)
ArgVarLeaves(ts) ==
  IF ts = <<>> THEN <<>> ELSE VarLeaves(Head(ts)) \o ArgVarLeaves(Tail(ts))

\* collectVarNames.
VarNames(t) == MapTerms(LAMBDA v, k : v.name, VarLeaves(t))
-----------------------------------------------------------------------------
(* The String methods of Term and Clause. *)

Joined(texts, sep) ==
  IF texts = <<>> THEN ""
  ELSE FoldLeft(LAMBDA s, text : s \o sep \o text, Head(texts), Tail(texts))

RECURSIVE TermString(_)
TermString(t) ==
  CASE t.kind \in {"Var", "Atom"} -> t.name
    [] t.kind = "Integer" -> ToString(t.val)
    [] t.kind = "Compound" ->
         IF t.args = <<>> THEN t.name
         ELSE t.name \o "(" \o Joined(MapTerms(LAMBDA u, k : TermString(u), t.args), ",") \o ")"

ClauseString(cl) ==
  IF cl.Body = <<>> THEN TermString(cl.Head) \o "."
  ELSE TermString(cl.Head) \o " :- "
         \o Joined(MapTerms(LAMBDA g, k : TermString(g), cl.Body), ", ") \o "."
=============================================================================
