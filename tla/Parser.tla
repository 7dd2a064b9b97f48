------------------------------- MODULE Parser -------------------------------
(***************************************************************************)
(* The recursive-descent parser of parse.go, behind its tokeniser.  The    *)
(* Go call stack is explicit: doing is the function about to run, stack    *)
(* the calls that wait for its result.  A call of parseClause waits for    *)
(* its head or a goal, an argument loop (parseCompound and parseTerm have  *)
(* the same) for an argument, parseList for an element or the tail.        *)
(***************************************************************************)
EXTENDS Tokeniser, Syntax, SequencesExt

CONSTANTS
  Inputs,    \* what may be asked: records of entry (clauses or query) and text
  MaxInt     \* the largest int (2^63 - 1)

ASSUME MaxIntAssumption == MaxInt \in Nat

VARIABLES
  input,     \* the request
  pos,       \* index of the next token
  doing,     \* clauses, compound, term, args; return (of value); done
  value,     \* the term being returned
  stack,     \* the calls waiting
  parsed     \* the clauses parsed; the query, as a clause

parseVars == <<input, pos, doing, value, stack, parsed>>
vars == <<scanVars, parseVars>>

IsQuery == input.entry = "query"

Frame(wait, name, items) == [wait |-> wait, name |-> name, items |-> items]

\* strings.TrimSpace, and the full stop MustParseQuery adds.
Trimmed(text) ==
  LET ink == {k \in 1 .. Len(text) : SubSeq(text, k, k) \notin Space}
  IN  IF ink = {} THEN ""
      ELSE LET first == CHOOSE k \in ink : \A m \in ink : k <= m
               last  == CHOOSE k \in ink : \A m \in ink : k >= m
           IN  SubSeq(text, first, last)
Stopped(text) ==
  IF text # "" /\ SubSeq(text, Len(text), Len(text)) = "." THEN text ELSE text \o "."

\* strconv.Atoi of a run of digits; the error it returns out of range is ignored.
DigitValue(d) == CHOOSE n \in 0 .. 9 : d = ToString(n)
Atoi(text) ==
  LET n == FoldLeft(LAMBDA acc, k : 10 * acc + DigitValue(SubSeq(text, k, k)),
                    0, [k \in 1 .. Len(text) |-> k])
  IN  IF n <= MaxInt THEN n ELSE MaxInt

Init ==
  /\ input \in Inputs
  /\ src = IF IsQuery THEN Stopped(Trimmed(input.text)) ELSE input.text
  /\ i = 1
  /\ toks = <<>>
  /\ refused = FALSE
  /\ pos = 1
  /\ doing = IF IsQuery THEN "compound" ELSE "clauses"
  /\ value = Nil
  /\ stack = <<>>
  /\ parsed = <<>>

-----------------------------------------------------------------------------
Doing(f) == Tokenised /\ ~refused /\ doing = f

\* The next tokens are of these kinds.
Sees(kinds) ==
  /\ pos + Len(kinds) - 1 <= Len(toks)
  /\ \A k \in 1 .. Len(kinds) : toks[pos + k - 1].kind = kinds[k]
SeesOneOf(kinds) == \E k \in kinds : Sees(<<k>>)

Text   == toks[pos].text
Top    == stack[Len(stack)]
Popped == SubSeq(stack, 1, Len(stack) - 1)
Push(frame) == Append(stack, frame)
Replace(frame) == Append(Popped, frame)

\* Consume n tokens and continue with f.
Go(n, f, frames) ==
  /\ pos' = pos + n
  /\ doing' = f
  /\ stack' = frames
  /\ UNCHANGED <<scanVars, input>>

Call(n, f, frames) == Go(n, f, frames) /\ UNCHANGED <<value, parsed>>
Return(n, term, frames) ==
  Go(n, "return", frames) /\ value' = term /\ UNCHANGED parsed

\* The call on top of the stack resumes with value.
Resumes(wait) == Doing("return") /\ stack # <<>> /\ Top.wait = wait
Items == Append(Top.items, value)

\* ParseClauses.
NextClause ==
  /\ Doing("clauses") /\ ~Sees(<<"EOF">>)
  /\ Call(0, "compound", Push(Frame("head", "", <<>>)))

AllClauses == Doing("clauses") /\ Sees(<<"EOF">>) /\ Call(0, "done", stack)

\* parseClause: the items are the head and the goals.
EndClause ==
  /\ Resumes("head") \/ Resumes("goal")
  /\ Sees(<<".">>)
  /\ parsed' = Append(parsed, Clause(Items[1], Tail(Items)))
  /\ Go(1, "clauses", Popped)
  /\ UNCHANGED value

NextGoal ==
  /\ \/ Resumes("head") /\ Sees(<<":-">>)
     \/ Resumes("goal") /\ Sees(<<",">>)
  /\ Call(1, "compound", Replace(Frame("goal", "", Items)))

\* MustParseQuery: what follows the compound is not looked at.
EndQuery ==
  /\ Doing("return") /\ stack = <<>>
  /\ parsed' = <<Clause(value, <<>>)>>
  /\ Go(0, "done", stack)
  /\ UNCHANGED value

\* parseCompound and parseTerm.
BareCompound ==
  /\ Doing("compound") /\ Sees(<<"Atom">>) /\ ~Sees(<<"Atom", "(">>)
  /\ Return(1, Compound(Text, <<>>), stack)

Leaf ==
  /\ Doing("term")
  /\ \/ Sees(<<"Var">>) /\ Return(1, Var(Text), stack)
     \/ Sees(<<"Int">>) /\ Return(1, Integer(Atoi(Text)), stack)
     \/ /\ Sees(<<"Atom">>) /\ ~Sees(<<"Atom", "(">>)
        /\ Return(1, Atom(Text), stack)

OpenArgs ==
  /\ Doing("compound") \/ Doing("term")
  /\ Sees(<<"Atom", "(">>)
  /\ Call(2, "args", Push(Frame("arg", Text, <<>>)))

NextArg == Doing("args") /\ ~Sees(<<")">>) /\ Call(0, "term", stack)

\* Mutation: what follows an argument is taken for a comma.
AddArgAnyComma ==
  Resumes("arg") /\ Call(1, "args", Replace(Frame("arg", Top.name, Items)))

\* A comma after an argument is consumed, but not required.
AddArg ==
  /\ Resumes("arg")
  /\ Call(IF Sees(<<",">>) THEN 1 ELSE 0, "args", Replace(Frame("arg", Top.name, Items)))

CloseArgs ==
  /\ Doing("args") /\ Sees(<<")">>)
  /\ Return(1, Compound(Top.name, Top.items), Popped)

\* parseList.
BuildList(heads, tail) == FoldRight(Pair, heads, tail)

EmptyList == Doing("term") /\ Sees(<<"[", "]">>) /\ Return(2, Nil, stack)

OpenList ==
  /\ Doing("term") /\ Sees(<<"[">>) /\ ~Sees(<<"[", "]">>)
  /\ Call(1, "term", Push(Frame("element", "", <<>>)))

\* Mutation: commas between elements may be missing, as between arguments.
NextElementAnyhow ==
  /\ Resumes("element") /\ ~SeesOneOf({"|", "]"})
  /\ Call(IF Sees(<<",">>) THEN 1 ELSE 0, "term", Replace(Frame("element", "", Items)))

NextElement ==
  /\ Resumes("element") /\ Sees(<<",">>)
  /\ Call(1, "term", Replace(Frame("element", "", Items)))

ListTail ==
  /\ Resumes("element") /\ Sees(<<"|">>)
  /\ Call(1, "term", Replace(Frame("tail", "", Items)))

\* Mutation: any closing bracket ends a list.
CloseListAnyBracket ==
  /\ SeesOneOf({"]", ")"})
  /\ \/ Resumes("element") /\ Return(1, BuildList(Items, Nil), Popped)
     \/ Resumes("tail") /\ Return(1, BuildList(Top.items, value), Popped)

CloseList ==
  /\ Sees(<<"]">>)
  /\ \/ Resumes("element") /\ Return(1, BuildList(Items, Nil), Popped)
     \/ Resumes("tail") /\ Return(1, BuildList(Top.items, value), Popped)

\* parseTerm panics at the token, expect has consumed it.
Refuse ==
  /\ \/ Doing("term") /\ ~SeesOneOf({"Var", "Int", "Atom", "["}) /\ pos' = pos
     \/ /\ \/ Doing("compound") /\ ~Sees(<<"Atom">>)
           \/ Resumes("head") /\ ~SeesOneOf({".", ":-"})
           \/ Resumes("goal") /\ ~SeesOneOf({".", ","})
           \/ Resumes("element") /\ ~SeesOneOf({"|", "]", ","})
           \/ Resumes("tail") /\ ~Sees(<<"]">>)
        /\ pos' = pos + 1
  /\ refused' = TRUE
  /\ UNCHANGED <<src, i, toks, input, doing, value, stack, parsed>>

Parse == NextClause \/ AllClauses \/ EndClause \/ NextGoal \/ EndQuery
  \/ BareCompound \/ Leaf \/ OpenArgs \/ NextArg \/ AddArg \/ CloseArgs
  \/ EmptyList \/ OpenList \/ NextElement \/ ListTail \/ CloseList \/ Refuse

Next == (Scan /\ UNCHANGED parseVars) \/ Parse

Spec == Init /\ [][Next]_vars

\* Both are loops and calls that nothing suspends.
FairSpec == Spec /\ WF_vars(Next)

-----------------------------------------------------------------------------
(* Properties. *)

Ended == refused \/ doing = "done"

\* No text makes the parser look past the last token, however it is cut off:
\* peek and next index toks without a check of their own (parse.go).
TokensSuffice ==
  Tokenised /\ ~refused => pos \in 1 .. Len(toks)

\* Every text is either parsed or refused: the loops over clauses, arguments
\* and elements end with no token left as well.
ParseEnds == <>Ended

\* The brackets and the clause that the waiting calls have read the start of.
Opened(wait) ==
  CASE wait \in {"head", "goal"} -> "clause" [] wait = "arg" -> "(" [] OTHER -> "["
Open == [k \in 1 .. Len(stack) |-> Opened(stack[k].wait)]

Nest == INSTANCE Nesting WITH open <- Open, accepted <- doing = "done"

\* The calls that wait are the brackets that are open: a closing bracket ends
\* the loop that read the opening one (parse.go, parseCompound, parseTerm,
\* parseList), at any depth and with commas missing; a clause's full stop is
\* read with no bracket open; and a text is accepted only with none open.
BracketsNest == Nest!Spec
=============================================================================
