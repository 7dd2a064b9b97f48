------------------------------ MODULE MCParser ------------------------------
(***************************************************************************)
(* Texts for the parser: terms, clauses and programs written in several    *)
(* layouts and as their String methods print them, and short texts of all  *)
(* kinds of token, well-formed or not.                                     *)
(***************************************************************************)
EXTENDS Parser, Grammar

a == Atom("a")
X == Var("X")

\* Written as a head, a goal or a query.
Flat == {X, Var("_y1"), a, Atom("-"), Integer(7), Integer(MaxInt), Nil}
Odd  == {Atom("X"), Atom("a b"), Atom("%"), Atom(".")}
Deep == { Compound("g", <<t>>) : t \in Flat }
  \cup { Pair(t, u) : t, u \in {X, a, Nil} }
  \cup { Pair(X, Pair(a, t)) : t \in Flat }
  \cup { Pair(Pair(a, Nil), Compound("h", <<Pair(X, a), Nil>>)) }
Goals == { Compound("p", <<>>), Compound("=", <<X, a>>) }
  \cup { Compound("q", <<t>>) : t \in Flat \cup Odd \cup Deep }
  \cup { Compound("r2", <<t, u>>) : t, u \in {X, a, Pair(a, X), Compound("g", <<X>>)} }

Facts == {Clause(g, <<>>) : g \in Goals}
Rules == {Clause(Compound("p", <<>>), <<g>>) : g \in Goals}
  \cup {Clause(Compound("q", <<X>>), <<g, Compound("p", <<>>)>>) : g \in Goals}

Layouts == {"", " ", "\n", "\t% a, (comment.\n"}

Written(c, layout) == Joined(ClauseTexts(c), layout)

\* What String prints can be read again if no name needs quotes and there are
\* no lists, which print with the functor "." (term.go).
RECURSIVE Plain(_)
Plain(t) ==
  /\ t.kind \in {"Atom", "Compound"} => Unquoted(t.name) /\ t # Nil
  /\ \A k \in DOMAIN t.args : Plain(t.args[k])
Printed(c) == IF \A g \in {c.Head} \cup ToSet(c.Body) : Plain(g) THEN {ClauseString(c)} ELSE {}

\* A text and the clauses it was written from; or, with NoMeans, any text.
Document(entry, text, means) == [entry |-> entry, text |-> text, means |-> {means}]
NoMeans(entry, text) == [entry |-> entry, text |-> text, means |-> {}]

Documents ==
  { Document("clauses", Written(c, layout), <<c>>) : c \in Facts \cup Rules, layout \in Layouts }
  \cup UNION { {Document("clauses", text, <<c>>) : text \in Printed(c)} : c \in Facts \cup Rules }
  \cup { Document("clauses", Written(c, layout) \o layout \o Written(d, layout), <<c, d>>) :
           c \in {Clause(Compound("p", <<>>), <<Compound("=", <<X, a>>)>>)},
           d \in Facts, layout \in Layouts }
  \cup { Document("query", Written(c, layout), <<c>>) : c \in Facts, layout \in Layouts }
  \cup { Document("query", " " \o TermString(c.Head) \o "\n", <<c>>) :
           c \in {f \in Facts : Plain(f.Head)} }

\* Short texts: an opening and up to n tokens after it.
Words(alphabet, n) == UNION { [1 .. k -> alphabet] : k \in 0 .. n }
Short(entry, opening, alphabet, n) ==
  { NoMeans(entry, opening \o " " \o Joined(w, " ")) : w \in Words(alphabet, n) }

TermTokens == {"a", "X", "(", ")", "[", "]", ",", "|"}
ClauseTokens == {"a", "(", ")", ",", ".", ":-"}

Cut == {NoMeans("clauses", text) : text \in
            {"p(X)", "p :- q", "p :- 'q.", "p :- q % r.", "p :- X = a.", "p : - q."}}
  \cup {NoMeans("query", text) : text \in
            {"p(1.5)", "p(X), q(X)", "p(a<b, X--1)", "p(!)", "", "p(07)"}}

MCInputs ==
  Documents \cup Cut
  \cup Short("query", "f(", TermTokens, 4)
  \cup Short("query", "f([", TermTokens, 4)
  \cup Short("clauses", "p", ClauseTokens, 5)

-----------------------------------------------------------------------------
(* Properties. *)

\* Terms, clauses and programs in standard notation are parsed to what was
\* written, in any layout; and so is what String prints (parse.go, term.go).
ReadsWhatIsWritten ==
  Ended => \A clauses \in input.means : ~refused /\ parsed = clauses

\* One token of lookahead decides: a text is accepted exactly if its tokens can
\* be read as clauses (as a compound, for a query), and parsed to the one tree
\* they can be read as.
ReadsTheGrammar ==
  Tokenised /\ Ended =>
    LET w == SubSeq(toks, 1, Len(toks) - 1)
    IN  (IF IsQuery THEN AsQuery(w) ELSE AsProgram(w)) = IF refused THEN {} ELSE {parsed}
=============================================================================
