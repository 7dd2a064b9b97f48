------------------------------- MODULE Query -------------------------------
(***************************************************************************)
(* interpret.go: a caller asks a query for one answer after the other.     *)
(* The programs are compiled ones, extended with                           *)
(*   varRegs   the query's variables and their Y slots,                    *)
(*   clauses, goal   what was compiled.                                    *)
(* Between two calls of Next the machine keeps its state; the caller may   *)
(* stop calling at any time.                                               *)
(*                                                                         *)
(* The printer and the meaning of a query are left open: the instances     *)
(* take them from ReadTerm and SLD.                                        *)
(***************************************************************************)
EXTENDS WAM, FiniteSets

CONSTANTS
  Solve(_, _, _),      \* the answers a query should return: clauses, goal, vars
  Reading(_, _),       \* print.go: the tree of a cell in a heap
  NeverEnds(_, _),     \* whether print.go follows that cell for ever
  UpToNames(_)         \* trees, without the names of their unbound variables

VARIABLES
  started, done,   \* the fields of Query
  running,         \* Next has called Run, which has not returned
  answers,         \* the bindings returned so far
  meaning          \* those the query should return, which never change

queryVars == <<started, done, running, answers, meaning>>
allVars == <<vars, queryVars>>

\* The names of the query's variables in slot order.
QueryVars == [k \in 1 .. Cardinality(DOMAIN prog.varRegs) |->
                CHOOSE v \in DOMAIN prog.varRegs : prog.varRegs[v] = -k]

QueryInit ==
  /\ Init
  /\ started = FALSE
  /\ done = FALSE
  /\ running = FALSE
  /\ answers = <<>>
  /\ meaning = Solve(prog.clauses, prog.goal, QueryVars)

Idle == ~running /\ ~panic

\* Mutation: the oldest choice point is not counted.
MayHaveMoreOffByOne == ~done /\ B > 0

MayHaveMore == ~done /\ B >= 0

\* The first call of Next starts the machine, a later one makes it backtrack;
\* calls after done change nothing.
NextFirst ==
  /\ Idle /\ ~done /\ ~started
  /\ started' = TRUE
  /\ running' = TRUE
  /\ UNCHANGED <<vars, done, answers, meaning>>

NextAlternative ==
  /\ Idle /\ ~done /\ started /\ B >= 0
  /\ TakeAlternative
  /\ LET dead == ~(P' \in 0 .. Len(prog.Code) - 1)
     IN  done' = dead /\ running' = ~dead
  /\ UNCHANGED <<started, answers, meaning>>

NextNone ==
  /\ Idle /\ ~done /\ started /\ B < 0
  /\ done' = TRUE
  /\ UNCHANGED <<vars, started, running, answers, meaning>>

RunStep == running /\ Next /\ UNCHANGED queryVars

Bindings == UpToNames([k \in DOMAIN QueryVars |->
                         Reading(Heap, GetReg(prog.varRegs[QueryVars[k]]))])

\* What the query's Y slots hold can be read in finite time.
Readable == \A v \in DOMAIN prog.varRegs : ~NeverEnds(Heap, GetReg(prog.varRegs[v]))

\* Run returns, with a failure or with an answer, which Next reads from the
\* query's Y slots.
RunReturns ==
  /\ running /\ ~panic /\ Halted
  /\ Fail \/ Readable
  /\ running' = FALSE
  /\ done' = Fail
  /\ answers' = IF Fail THEN answers ELSE Append(answers, Bindings)
  /\ UNCHANGED <<vars, started, meaning>>

QueryNext ==
  NextFirst \/ NextAlternative \/ NextNone \/ RunStep \/ RunReturns

QuerySpec == QueryInit /\ [][QueryNext]_allVars

\* Run is a loop that nothing suspends.
FairQuerySpec == QuerySpec /\ WF_allVars(RunStep \/ RunReturns)

-----------------------------------------------------------------------------
(* Properties. *)

\* Next returns the answers of the query, each once and in the order in which
\* resolution finds them, and reports the end only after the last one, however
\* the compiler chose the registers (interpret.go, Next).
AnswersAreSLD ==
  Idle => /\ Len(answers) <= Len(meaning)
          /\ \A k \in 1 .. Len(answers) : answers[k] = meaning[k]
          /\ done => answers = meaning

\* MayHaveMore is never wrong when it says no: main.go then prints that the
\* answer was the only one.
NoMoreMeansComplete ==
  Idle /\ started /\ ~MayHaveMore => answers = meaning

\* When a query succeeds, the frame Next reads is the query's own, the oldest,
\* and each of its slots refers to what is in the heap: clauses have left the
\* frame to it, and nothing has been undone below it (interpret.go, bindings).
AnswersLand ==
  Halted /\ ~Fail /\ ~panic =>
    \A v \in DOMAIN prog.varRegs : E = 0 /\ Lands(GetReg(prog.varRegs[v]))

\* Every call of Next returns, or the process has panicked.
NextReturns == running ~> ~running \/ panic
=============================================================================
