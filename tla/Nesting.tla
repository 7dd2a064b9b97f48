------------------------------- MODULE Nesting -------------------------------
(***************************************************************************)
(* What one token of lookahead and a stack promise of brackets and full    *)
(* stops: a pushdown automaton over the kinds of the tokens.  What is open *)
(* is closed in order, by its own token, and a text is accepted with       *)
(* nothing open.  Everything else about the grammar is left out.           *)
(***************************************************************************)
EXTENDS Integers, Sequences

VARIABLES
  toks,       \* the tokens, each with its kind
  pos,        \* index of the next token
  open,       \* the brackets and the clause not yet closed, innermost last
  accepted, refused

vars == <<toks, pos, open, accepted, refused>>

Closer(opener) == CASE opener = "(" -> ")" [] opener = "[" -> "]" [] OTHER -> "."

CanRead(o, kind) ==
  kind \in {")", "]", "."} => o # <<>> /\ Closer(o[Len(o)]) = kind

After(o, kind) ==
  CASE kind \in {"(", "["}      -> Append(o, kind)
    [] kind \in {")", "]", "."} -> SubSeq(o, 1, Len(o) - 1)
    [] OTHER                    -> o

Init == toks = <<>> /\ pos = 1 /\ open = <<>> /\ ~accepted /\ ~refused

\* The tokens are found first.
Tokenise ==
  /\ pos = 1
  /\ SubSeq(toks', 1, Len(toks)) = toks
  /\ UNCHANGED <<pos, open, accepted, refused>>

Read ==
  /\ pos <= Len(toks)
  /\ CanRead(open, toks[pos].kind)
  /\ open' = After(open, toks[pos].kind)
  /\ pos' = pos + 1
  /\ UNCHANGED <<toks, accepted, refused>>

\* A name is read with its bracket, and an empty list at once.
ReadTwo ==
  LET between == After(open, toks[pos].kind) IN
  /\ pos + 1 <= Len(toks)
  /\ CanRead(open, toks[pos].kind) /\ CanRead(between, toks[pos + 1].kind)
  /\ open' = After(between, toks[pos + 1].kind)
  /\ pos' = pos + 2
  /\ UNCHANGED <<toks, accepted, refused>>

\* A clause begins where nothing is open.
BeginClause ==
  /\ open = <<>>
  /\ open' = <<"clause">>
  /\ UNCHANGED <<toks, pos, accepted, refused>>

Accept ==
  /\ open = <<>>
  /\ accepted' = TRUE
  /\ UNCHANGED <<toks, pos, open, refused>>

Refuse ==
  /\ refused' = TRUE
  /\ pos' \in {pos, pos + 1}
  /\ UNCHANGED <<toks, open, accepted>>

Next ==
  /\ ~accepted /\ ~refused
  /\ Tokenise \/ Read \/ ReadTwo \/ BeginClause \/ Accept \/ Refuse

Spec == Init /\ [][Next]_vars
=============================================================================
