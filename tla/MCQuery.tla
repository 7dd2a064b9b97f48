------------------------------ MODULE MCQuery ------------------------------
(***************************************************************************)
(* Prolog programs and queries, compiled with every register assignment    *)
(* the compiler may choose: those of interpret_test.go and                 *)
(* compiler_test.go, and others that backtrack into conjunctions, match    *)
(* and build structures and lists, share variables, build circular lists,  *)
(* unify any two small terms, and call a procedure that is not there.      *)
(***************************************************************************)
EXTENDS Query, Compiler, ReadTerm, SLD, TermPairs

F(functor, args) == Compound(functor, args)
V(name) == Var(name)
a == Atom("a")
b == Atom("b")
nil == Atom("nil")
cons(h, t) == F("cons", <<h, t>>)
Fact(head) == Clause(head, <<>>)

MCAtomNames == <<"[]", "a", "b", "c", "nil", "zero">>
MCFunctors == << <<"append", 3>>, <<"cons", 2>>, <<"nat", 1>>, <<"s", 1>>,
  <<"parent", 2>>, <<"anc", 2>>, <<"both", 2>>, <<"q", 1>>, <<"r", 1>>,
  <<"list", 2>>, <<"two", 3>>, <<"eq", 2>>, <<"f", 2>>, <<"g", 1>>, <<"m", 1>>,
  <<"none", 1>>, <<"p", 0>>,
  <<"f", 1>>, <<"h", 2>>, <<"p", 3>>, <<"X", 1>>, <<"v", 2>> >>

-----------------------------------------------------------------------------
append ==
  << Fact(F("append", <<nil, V("L"), V("L")>>)),
     Clause(F("append", <<cons(V("X"), V("L1")), V("L2"), cons(V("X"), V("L3"))>>),
            <<F("append", <<V("L1"), V("L2"), V("L3")>>)>>) >>

\* TestInterpretAppend and TestInterpretAppendMulti, lists one element shorter.
Append1 == F("append", <<cons(a, nil), cons(b, nil), V("L")>>)
Append2 == F("append", <<V("L"), V("X"), cons(a, cons(b, nil))>>)

\* TestCompileNat.
nat == << Fact(F("nat", <<Atom("zero")>>)),
          Clause(F("nat", <<F("s", <<V("X")>>)>>), <<F("nat", <<V("X")>>)>>) >>
Nat2 == F("nat", <<F("s", <<F("s", <<Atom("zero")>>)>>)>>)

ancestor ==
  << Fact(F("parent", <<a, b>>)), Fact(F("parent", <<b, Atom("c")>>)),
     Clause(F("anc", <<V("X"), V("Y")>>), <<F("parent", <<V("X"), V("Y")>>)>>),
     Clause(F("anc", <<V("X"), V("Y")>>),
            <<F("parent", <<V("X"), V("Z")>>), F("anc", <<V("Z"), V("Y")>>)>>) >>

conjunction ==
  << Fact(F("q", <<a>>)), Fact(F("q", <<b>>)), Fact(F("q", <<V("X")>>)),
     Fact(F("r", <<b>>)), Fact(F("r", <<Integer(1)>>)),
     Clause(F("both", <<V("X"), V("Y")>>),
            <<F("q", <<V("X")>>), F("r", <<V("Y")>>), F("r", <<V("X")>>)>>) >>

\* From cons terms to lists.
lists ==
  << Fact(F("list", <<nil, Nil>>)),
     Clause(F("list", <<cons(V("X"), V("C")), Pair(V("X"), V("T"))>>),
            <<F("list", <<V("C"), V("T")>>)>>),
     Fact(F("two", <<V("X"), V("Y"), Pair(V("X"), Pair(V("Y"), Anonymous))>>)) >>
ListBuilt   == F("list", <<cons(a, cons(V("Y"), nil)), V("L")>>)
ListMatched == F("list", <<cons(V("X"), cons(b, nil)), Pair(a, V("T"))>>)
ListEnds    == F("list", <<V("C"), Pair(a, nil)>>)
TwoBuilt    == F("two", <<V("X"), b, V("L")>>)
TwoMatched  == F("two", <<V("X"), V("Y"), Pair(a, V("T"))>>)

equal == << Fact(F("eq", <<V("X"), V("X")>>)) >>
EqStructures == F("eq", <<F("f", <<V("X"), F("g", <<V("X")>>)>>), F("f", <<a, V("Y")>>)>>)
EqVariables  == F("eq", <<F("f", <<V("X"), V("Y")>>), F("f", <<V("Y"), V("Z")>>)>>)
EqLists      == F("eq", <<Pair(V("X"), b), Pair(a, V("Y"))>>)
EqFails      == F("eq", <<F("f", <<V("X"), b>>), F("f", <<a, a>>)>>)
EqFunctors   == F("eq", <<F("g", <<V("X")>>), F("f", <<V("X"), a>>)>>)

\* An answer that is a part of itself, where printing ends: ?- eq(X, g(X)).
\* Both ways round, two that hold each other, and with a list in between; and
\* one that is followed by another answer.
Winding == {
  F("eq", <<V("X"), F("g", <<V("X")>>)>>),
  F("eq", <<F("f", <<a, V("X")>>), V("X")>>),
  F("eq", <<F("f", <<V("X"), V("Y")>>), F("f", <<F("g", <<V("Y")>>), F("f", <<V("X"), b>>)>>)>>),
  F("eq", <<F("f", <<V("X"), V("Y")>>), F("f", <<Pair(a, V("Y")), F("g", <<V("X")>>)>>)>>) }
equalOrNot == << Fact(F("eq", <<V("X"), V("X")>>)),
                 Fact(F("eq", <<V("X"), F("g", <<V("X")>>)>>)) >>

\* One for which it does not: ?- eq(X, [a | X]).  Both ways round, and below a
\* structure.
Circular == {
  F("eq", <<V("X"), Pair(a, V("X"))>>),
  F("eq", <<Pair(V("X"), b), V("X")>>),
  F("eq", <<F("f", <<V("X"), V("Y")>>), F("f", <<Pair(a, V("Y")), Pair(b, V("X"))>>)>>) }

\* The largest integer a cell can hold, and the smallest.
extremes == << Fact(F("q", <<Integer(ValueSpace - 1)>>)), Fact(F("q", <<Integer(0)>>)) >>

missing ==
  << Clause(F("m", <<V("X")>>), <<F("none", <<V("X")>>)>>), Fact(F("m", <<a>>)),
     Fact(F("m", <<F("f", <<Anonymous, Anonymous>>)>>)), Fact(F("m", <<Integer(1)>>)) >>

\* More frames, X registers, heap cells and pairs to compare than there is room for.
RECURSIVE Peano(_)
Peano(n) == IF n = 0 THEN Atom("zero") ELSE F("s", <<Peano(n - 1)>>)
large == << Clause(F("both", <<F("s", <<V("X")>>), Anonymous>>),
                   <<F("both", <<V("X"), F("append", <<a, b, F("f", <<a, b>>)>>)>>)>>) >>
Nested(t) == F("append", <<a, a, F("append", <<t, b, t>>)>>)

Asked == {
  <<append, Append1>>,
  <<append, Append2>>,
  <<nat, Nat2>>,
  <<ancestor, F("anc", <<a, V("W")>>)>>,
  <<ancestor, F("anc", <<V("W"), Anonymous>>)>>,
  <<conjunction, F("both", <<V("X"), V("Y")>>)>>,
  <<lists, ListBuilt>>,
  <<lists, ListMatched>>,
  <<lists, ListEnds>>,
  <<lists, TwoBuilt>>,
  <<lists, TwoMatched>>,
  <<equal, EqStructures>>,
  <<equal, EqVariables>>,
  <<equal, EqLists>>,
  <<equal, EqFails>>,
  <<equal, EqFunctors>>,
  <<missing, F("m", <<V("X")>>)>>,
  <<missing, F("m", <<F("f", <<a, V("X")>>)>>)>>,
  <<extremes, F("q", <<V("X")>>)>>,
  <<extremes, F("q", <<Integer(ValueSpace - 1)>>)>> }
  \cup { <<equal, q>> : q \in Winding \cup Circular }
  \cup { <<equalOrNot, F("eq", <<V("X"), F("g", <<V("X")>>)>>)>> }
  \cup { <<nat, F("nat", <<Peano(9)>>)>>, <<nat, F("nat", <<Peano(16)>>)>>,
         <<large, F("both", <<Peano(6), a>>)>>, <<equal, F("eq", <<Nested(a), Nested(V("X"))>>)>> }

\* ?- eq(s, t) for every two small terms: GET_VALUE unifies what the query builds.
Unified == { <<equal, F("eq", p)>> : p \in Finite(Flat \cup Structures \cup Lists) }

MCPrograms == UNION {QueryPrograms(q[1], q[2]) : q \in Asked \cup Unified}

-----------------------------------------------------------------------------
(* The listings that compiler_test.go expects. *)

I(op, a1, a2) == [Op |-> op, Arg1 |-> a1, Arg2 |-> a2]

\* TestCompileQuerySection2_2: ?- p(Z, h(Z, W), f(W)).
ASSUME CompilesQuerySection2_2 ==
  CompileQuery(F("p", <<V("Z"), F("h", <<V("Z"), V("W")>>), F("f", <<V("W")>>)>>)) =
    << I("ALLOCATE", 2, 0), I("PUT_VARIABLE", -1, 0), I("PUT_UNSAFE_VALUE", -1, 3),
       I("PUT_VARIABLE", -2, 4), I("PUT_STRUCTURE", FuncId("h", 2), 1),
       I("SET_VALUE", 3, 0), I("SET_VALUE", 4, 0), I("PUT_UNSAFE_VALUE", -2, 5),
       I("PUT_STRUCTURE", FuncId("f", 1), 2), I("SET_VALUE", 5, 0),
       I("CALL", FuncId("p", 3), 3) >>

\* TestCompileProgramSection2_3: p(f(X), h(Y, f(a)), Y), for either order in
\* which Go may range over X and Y.
ASSUME CompilesProgramSection2_3 ==
  LET clause == Fact(F("p", <<F("f", <<V("X")>>),
                              F("h", <<V("Y"), F("f", <<a>>)>>), V("Y")>>))
  IN  { CompileClause(clause, regs) : regs \in Assignments(clause) } =
      { << I("GET_STRUCTURE", FuncId("f", 1), 0), I("UNIFY_VARIABLE", 7 - y, 0),
           I("GET_STRUCTURE", FuncId("h", 2), 1), I("UNIFY_VARIABLE", y, 0),
           I("UNIFY_VARIABLE", 5, 0), I("GET_VALUE", y, 2),
           I("GET_STRUCTURE", FuncId("f", 1), 5),
           I("UNIFY_CONSTANT", IntOf(ATM(AtomId("a"))), 0), I("PROCEED", 0, 0) >> :
          y \in {3, 4} }
=============================================================================
