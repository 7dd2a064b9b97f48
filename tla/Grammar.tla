------------------------------ MODULE Grammar ------------------------------
(***************************************************************************)
(* What texts mean, with no parser: the trees a sequence of tokens can be  *)
(* read as, by splitting it in every way, and the tokens that write a tree *)
(* in standard notation.  It is Prolog's grammar except that commas        *)
(* between arguments may be missing and one may follow the last.           *)
(***************************************************************************)
EXTENDS Terms, FiniteSets

Part(w, j, k) == SubSeq(w, j, k)
Is(w, k, kind) == k \in DOMAIN w /\ w[k].kind = kind

\* As many brackets are opened as closed.  The first k tokens can be read by
\* themselves only if this holds of them.
Count(w, kind) == Cardinality({k \in DOMAIN w : w[k].kind = kind})
Balanced(w) == Count(w, "(") = Count(w, ")") /\ Count(w, "[") = Count(w, "]")
Cuts(w) == {k \in DOMAIN w : Balanced(Part(w, 1, k))}

\* All ways to read w as first sep rest, put together by Op.
Splits(w, sep, First(_), Rest(_), Op(_, _)) ==
  UNION { LET firsts == First(Part(w, 1, k))
          IN  IF firsts = {} THEN {}
              ELSE {Op(f, r) : f \in firsts, r \in Rest(Part(w, k + 2, Len(w)))} :
          k \in {n \in Cuts(w) : Is(w, n + 1, sep)} }

\* w is open, something, close.
Enclosed(w, open, close) ==
  Len(w) >= 2 /\ Is(w, 1, open) /\ Is(w, Len(w), close)

RECURSIVE AsTerm(_), AsArgs(_), AsElements(_)

AsApplied(w) ==
  IF Is(w, 1, "Atom") /\ Enclosed(Tail(w), "(", ")")
  THEN {Compound(w[1].text, args) : args \in AsArgs(Part(w, 3, Len(w) - 1))}
  ELSE {}

AsLeaf(w) ==
  CASE w[1].kind = "Var"  -> {Var(w[1].text)}
    [] w[1].kind = "Atom" -> {Atom(w[1].text)}
    [] w[1].kind = "Int"  ->
         {Integer(n) : n \in {m \in 0 .. 99 : w[1].text \in {ToString(m), "0" \o ToString(m)}}}
    [] OTHER -> {}

AsTerm(w) ==
  CASE Len(w) = 0 -> {}
    [] Len(w) = 1 -> AsLeaf(w)
    [] Len(w) > 1 ->
         IF Enclosed(w, "[", "]")
         THEN IF Len(w) = 2 THEN {Nil} ELSE AsElements(Part(w, 2, Len(w) - 1))
         ELSE AsApplied(w)

\* A sequence of arguments, each perhaps followed by a comma.
AsArgs(w) ==
  IF w = <<>> THEN {<<>>}
  ELSE UNION { LET terms == AsTerm(Part(w, 1, k))
                   from  == IF Is(w, k + 1, ",") THEN k + 2 ELSE k + 1
               IN  IF terms = {} THEN {}
                   ELSE {<<t>> \o ts : t \in terms, ts \in AsArgs(Part(w, from, Len(w)))} :
               k \in Cuts(w) }

\* The elements of a list, with or without a tail.
AsElements(w) ==
  {Pair(t, Nil) : t \in AsTerm(w)}
  \cup Splits(w, ",", AsTerm, AsElements, Pair)
  \cup Splits(w, "|", AsTerm, AsTerm, Pair)

AsCompound(w) ==
  IF Len(w) = 1 /\ Is(w, 1, "Atom") THEN {Compound(w[1].text, <<>>)} ELSE AsApplied(w)

RECURSIVE AsGoals(_), AsProgram(_)
AsGoals(w) ==
  {<<g>> : g \in AsCompound(w)}
  \cup Splits(w, ",", AsCompound, AsGoals, LAMBDA g, gs : <<g>> \o gs)

\* A clause without its full stop.
AsClause(w) ==
  {Clause(h, <<>>) : h \in AsCompound(w)} \cup Splits(w, ":-", AsCompound, AsGoals, Clause)

AsProgram(w) ==
  IF w = <<>> THEN {<<>>}
  ELSE Splits(w, ".", AsClause, AsProgram, LAMBDA c, cs : <<c>> \o cs)

\* A query is a compound at the start; an atom before "(" is not one.
AsQuery(w) ==
  { <<Clause(g, <<>>)>> :
      g \in UNION { AsCompound(Part(w, 1, k)) :
                    k \in {n \in Cuts(w) : n > 1 \/ ~Is(w, 2, "(")} } }

-----------------------------------------------------------------------------
(* Writing. *)

\* Names that are not atoms unless quoted.
Unquoted(name) == name \notin {"X", "a b", "%", "."}

NameText(name) == IF Unquoted(name) THEN name ELSE "'" \o name \o "'"

Separated(parts, sep) ==
  IF parts = <<>> THEN <<>>
  ELSE FoldLeft(LAMBDA s, p : s \o <<sep>> \o p, Head(parts), Tail(parts))

RECURSIVE TermTexts(_), TailTexts(_)
TermTexts(t) ==
  CASE t.kind = "Var" -> <<t.name>>
    [] t.kind = "Integer" -> <<ToString(t.val)>>
    [] t = Nil -> <<"[", "]">>
    [] t.kind = "Atom" /\ t # Nil -> <<NameText(t.name)>>
    [] t.kind = "Compound" /\ IsPair(t) ->
         <<"[">> \o TermTexts(t.args[1]) \o TailTexts(t.args[2])
    [] t.kind = "Compound" /\ ~IsPair(t) ->
         IF t.args = <<>> THEN <<NameText(t.name)>>
         ELSE <<NameText(t.name), "(">>
              \o Separated(MapTerms(LAMBDA u, k : TermTexts(u), t.args), ",") \o <<")">>

TailTexts(t) ==
  CASE t = Nil -> <<"]">>
    [] t.kind = "Compound" /\ IsPair(t) ->
         <<",">> \o TermTexts(t.args[1]) \o TailTexts(t.args[2])
    [] OTHER -> <<"|">> \o TermTexts(t) \o <<"]">>

ClauseTexts(c) ==
  TermTexts(c.Head)
  \o (IF c.Body = <<>> THEN <<>>
      ELSE <<":-">> \o Separated(MapTerms(LAMBDA g, k : TermTexts(g), c.Body), ","))
  \o <<".">>
=============================================================================
