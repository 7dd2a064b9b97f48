------------------------------ MODULE Command ------------------------------
(***************************************************************************)
(* The command line: runQuery of main.go, a caller of Query that prints    *)
(* what Next returns.  The flag -all is read once, after the first answer, *)
(* and is left open until then.  main runs one query after the other, each *)
(* on a machine of its own; this is one of them.  Interpret calls Next as  *)
(* -all does.                                                              *)
(***************************************************************************)
EXTENDS Query

CONSTANT Unprinted   \* the answer, in meaning, that has no end when printed

VARIABLES
  step,      \* runQuery is about to call Next; waits; has ended
  screen     \* the lines printed

commandVars == <<step, screen>>

\* A line is a text or, with none, the bindings of an answer (printBindings).
Line(text, bindings) == [text |-> text, bindings |-> bindings]
Say(text) == Line(text, <<>>)
Shown(answer) == IF answer = <<>> THEN Say("true.") ELSE Line("", answer)

CommandInit == QueryInit /\ step = "call" /\ screen = <<>>

CallNext ==
  /\ step = "call"
  /\ NextFirst \/ NextAlternative \/ NextNone
  /\ step' = "wait"
  /\ UNCHANGED screen

\* Next is at work.
Working == (RunStep \/ RunReturns) /\ UNCHANGED commandVars

Returned(ok) == step = "wait" /\ Idle /\ done = ~ok

Println(lines, next) ==
  /\ screen' = screen \o lines
  /\ step' = next
  /\ UNCHANGED allVars

First == screen = <<>>
Answer == Shown(answers[Len(answers)])

NoAnswer == Returned(FALSE) /\ First /\ Println(<<Say("false.")>>, "end")

\* Without -all.
OnlyAnswer ==
  /\ Returned(TRUE) /\ First
  /\ Println(<<Answer, Say(IF MayHaveMore THEN "(more)" ELSE "(1 solution)")>>, "end")

\* With -all.
FirstAnswer == Returned(TRUE) /\ First /\ Println(<<Answer>>, "call")

AnotherAnswer == Returned(TRUE) /\ ~First /\ Println(<<Say(";"), Answer>>, "call")

NoMoreAnswers == Returned(FALSE) /\ ~First /\ Println(<<Say(".")>>, "end")

CommandNext ==
  \/ CallNext \/ Working
  \/ NoAnswer \/ OnlyAnswer \/ FirstAnswer \/ AnotherAnswer \/ NoMoreAnswers

CommandSpec == CommandInit /\ [][CommandNext]_<<allVars, commandVars>>

\* One goroutine, which nothing suspends.
FairCommandSpec == CommandSpec /\ WF_<<allVars, commandVars>>(CommandNext)

-----------------------------------------------------------------------------
(* Properties. *)

\* The answers of the query as -all prints them.
Separated(solutions) ==
  [k \in 1 .. 2 * Len(solutions) - 1 |->
     IF k % 2 = 1 THEN Shown(solutions[(k + 1) \div 2]) ELSE Say(";")]

AllOf(solutions) ==
  IF solutions = <<>> THEN <<Say("false.")>>
  ELSE Append(Separated(solutions), Say("."))

\* What main.go prints is true of the query: "false." when resolution finds no
\* answer, with -all every answer and then the full stop, without it the first
\* answer, called the only one only if it is.
OutputIsTrue ==
  step = "end" =>
    \/ screen = AllOf(meaning)
    \/ /\ meaning # <<>>
       /\ \/ screen = <<Shown(meaning[1]), Say("(more)")>>
          \/ Len(meaning) = 1 /\ screen = <<Shown(meaning[1]), Say("(1 solution)")>>

\* By resolution the answer to come is an infinite list.
ListWithoutEnd ==
  running /\ Halted /\ ~Fail /\ Len(answers) < Len(meaning)
  /\ meaning[Len(answers) + 1] = Unprinted

\* The command ends, or panics, or is left printing an infinite list: Next
\* returns each time, and not for ever with another answer.  Answers in which a
\* structure is a part of itself are printed to their end (print.go, seen).
CommandEnds == <>(step = "end" \/ panic \/ ListWithoutEnd)
=============================================================================
