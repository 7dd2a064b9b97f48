---------------------------- MODULE MCCompilerL0 ----------------------------
(***************************************************************************)
(* The compiler of chapter 2 as TestL0CompilerCorrectness uses it: the     *)
(* code that builds one term, then the code that matches it with another,  *)
(* on the machine of WAM, for every two terms of a set.                    *)
(***************************************************************************)
EXTENDS WAM, ReadTerm, CompilerL0, TermPairs

F(functor, args) == Compound(functor, args)
V(name) == Var(name)
a == Atom("a")
b == Atom("b")

MCAtomNames == <<"[]", "nil">>
MCFunctors == << <<"f", 1>>, <<"f", 2>>, <<"g", 1>>, <<"h", 2>>, <<"p", 3>>,
                 <<"a", 0>>, <<"b", 0>>, <<"7", 0>> >>

I(op, a1, a2) == [Op |-> op, Arg1 |-> a1, Arg2 |-> a2]

\* p(Z, h(Z, W), f(W)) and p(f(X), h(Y, f(a)), Y) of the tests.
Built   == F("p", <<V("Z"), F("h", <<V("Z"), V("W")>>), F("f", <<V("W")>>)>>)
Matched == F("p", <<F("f", <<V("X")>>), F("h", <<V("Y"), F("f", <<a>>)>>), V("Y")>>)

\* TestCompileQueryL0 and TestCompileProgramL0.
ASSUME CompilesQueryL0 ==
  CompileQueryL0(Built) =
    << I("PUT_STRUCTURE", FuncId("h", 2), 3), I("SET_VARIABLE", 2, 0),
       I("SET_VARIABLE", 5, 0), I("PUT_STRUCTURE", FuncId("f", 1), 4),
       I("SET_VALUE", 5, 0), I("PUT_STRUCTURE", FuncId("p", 3), 1),
       I("SET_VALUE", 2, 0), I("SET_VALUE", 3, 0), I("SET_VALUE", 4, 0) >>

ASSUME CompilesProgramL0 ==
  CompileProgramL0(Matched) =
    << I("GET_STRUCTURE", FuncId("p", 3), 1), I("UNIFY_VARIABLE", 2, 0),
       I("UNIFY_VARIABLE", 3, 0), I("UNIFY_VARIABLE", 4, 0),
       I("GET_STRUCTURE", FuncId("f", 1), 2), I("UNIFY_VARIABLE", 5, 0),
       I("GET_STRUCTURE", FuncId("h", 2), 3), I("UNIFY_VALUE", 4, 0),
       I("UNIFY_VARIABLE", 6, 0), I("GET_STRUCTURE", FuncId("f", 1), 6),
       I("UNIFY_VARIABLE", 7, 0), I("GET_STRUCTURE", FuncId("a", 0), 7) >>

\* TestFlattenL0Atom: h(f(a), b).
ASSUME FlattensAtoms ==
  [k \in 1 .. 4 |-> FlattenL0(F("h", <<F("f", <<a>>), b>>)).Eqs[k].Reg] = <<1, 2, 3, 4>>

-----------------------------------------------------------------------------
\* Both terms name their variables alike, which the code keeps apart.
Leaves == {V("X"), V("Y"), Anonymous, a}
Nested == {F("g", <<V("X")>>), F("g", <<a>>), F("g", <<F("g", <<V("Y")>>)>>),
           F("h", <<V("X"), V("Y")>>), F("h", <<F("g", <<V("Y")>>), V("Y")>>)}
Terms2 == { F("f", <<u, v>>) : u, v \in Leaves \cup Nested }
  \cup { F("f", <<u, Integer(7)>>) : u \in Leaves } \cup {F("a", <<>>), F("g", <<a>>)}

\* What makes both terms one, over variables that are apart.
Query(t)   == Renamed(t, 0, <<>>)
Program(t) == Renamed(t, 1, <<>>)

\* A constant is a structure.
RECURSIVE Structured(_)
Structured(t) ==
  CASE t.kind = "Var" -> t
    [] t.kind = "Integer" -> Compound(ToString(t.val), <<>>)
    [] t.kind \in {"Atom", "Compound"} ->
         Compound(t.name, MapTerms(LAMBDA u, k : Structured(u), t.args))

Mgu(s, t) == Unifiers(Query(Structured(s)), Program(Structured(t)), <<>>)

L0Program(s, t) ==
  [Code   |-> CompileQueryL0(s) \o CompileProgramL0(t),
   Labels |-> <<>>,
   Arity  |-> [k \in DOMAIN Functors |-> Functors[k][2]],
   start  |-> 0,
   terms  |-> <<s, t>>]

L0Programs ==
  { L0Program(p[1], p[2]) :
      p \in { q \in (Terms2 \X Terms2) \cup {<<Built, Matched>>} :
                \A s \in Mgu(q[1], q[2]) : ~Cyclic(DOMAIN s, s) } }

-----------------------------------------------------------------------------
\* The term a cell denotes; unlike ReadTerm, shared subterms in full.
RECURSIVE TermAt(_)
TermAt(cell) ==
  Once(Deref(Heap, cell), LAMBDA c :
    IF IsREF(c) THEN PrintedVar(c.val)
    ELSE LET functor == FuncEntry(Heap[c.val].val)
         IN  Compound(functor[1],
               MapTerms(LAMBDA k, n : TermAt(Heap[c.val + k]), [k \in 1 .. functor[2] |-> k])))

\* The code of the second term, run after that of the first, unifies the two:
\* it fails if they have no unifier, and otherwise X1, which the code of
\* neither term reuses, holds the most general instance (compiler_l0_test.go,
\* TestL0CompilerCorrectness, for one pair).
L0Unifies ==
  /\ ~panic
  /\ Halted =>
       LET mgu == Mgu(prog.terms[1], prog.terms[2])
       IN  IF mgu = {} THEN Fail
           ELSE /\ ~Fail
                /\ Canonical(<<TermAt(X[1])>>) =
                   Canonical(<<Printed(Query(Structured(prog.terms[1])),
                                       CHOOSE s \in mgu : TRUE, {})>>)
=============================================================================
