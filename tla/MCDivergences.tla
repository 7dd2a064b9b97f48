--------------------------- MODULE MCDivergences ---------------------------
(***************************************************************************)
(* Programs and queries, each chosen to show one place where the code does *)
(* not do what a comment or the README says; the tables are MCQuery's.     *)
(***************************************************************************)
EXTENDS MCQuery

\* ?- eq(L, [a, b]).  The inner pair is built between PUT_LIST and SET_*.
NestedList == QueryPrograms(equal, F("eq", <<V("L"), Pair(a, Pair(b, Nil))>>))

\* ?- eq(f(X, Y), f(f(Y, Y), g(a))).  X is f(g(a), g(a)), one g(a) shared.
SharedSubterm ==
  QueryPrograms(equal,
    F("eq", <<F("f", <<V("X"), V("Y")>>),
              F("f", <<F("f", <<V("Y"), V("Y")>>), F("g", <<a>>)>>)>>))

\* p :- q(g(a)).  q(X).  The argument's argument takes the argument's register.
Clobbered ==
  QueryPrograms(<< Clause(F("p", <<>>), <<F("q", <<F("g", <<a>>)>>)>>),
                   Fact(F("q", <<V("X")>>)) >>, F("p", <<>>))

\* p :- q(a).  q(X).  The clause of p has no permanent variables.
NoReturn ==
  QueryPrograms(<< Clause(F("p", <<>>), <<F("q", <<a>>)>>),
                   Fact(F("q", <<V("X")>>)) >>, F("p", <<>>))

\* v(X, g('X'(a))).  ?- v(b, g('X'(a))).  A quoted functor with the name of a
\* variable of the clause.
QuotedFunctor ==
  LET quoted == F("g", <<F("X", <<a>>)>>) IN
  QueryPrograms(<< Fact(F("v", <<V("X"), quoted>>)) >>, F("v", <<b, quoted>>))

\* ?- nat(s(s(zero))).
TailCalls == QueryPrograms(nat, Nat2)

\* Compiling a goal never loads a register twice: freshReg "never returns a
\* register that already holds something" (compiler.go, resetTemps).
Loads(i) ==
  CASE i.Op \in {"PUT_STRUCTURE", "PUT_VALUE", "PUT_CONSTANT", "PUT_UNSAFE_VALUE"} -> {i.Arg2}
    [] i.Op = "PUT_VARIABLE" -> {i.Arg1, i.Arg2} \cap Nat
    [] i.Op \in {"PUT_LIST", "SET_VARIABLE"} -> {i.Arg1} \cap Nat
    [] OTHER -> {}

SameGoal(j, k) ==
  j < k /\ \A n \in j .. k : prog.Code[n].Op \notin {"CALL", "EXECUTE"}

FreshHoldsNothing ==
  \A j, k \in 1 .. Len(prog.Code) :
    SameGoal(j, k) => Loads(prog.Code[j]) \cap Loads(prog.Code[k]) = {}
=============================================================================
