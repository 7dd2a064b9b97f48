----------------------------- MODULE MCAnyCode -----------------------------
(***************************************************************************)
(* Code no compiler emitted: every way of filling the gaps of a program    *)
(* that makes a variable, leaves a choice point, fails, and fails again,   *)
(* with labels into the middle of it; of one that builds terms in a frame, *)
(* unifies them, leaves the frame and fails; and of one that unifies two   *)
(* blocks over two variables, and then the variables.                      *)
(***************************************************************************)
EXTENDS Unification, TLC

I(op, a1, a2) == [Op |-> op, Arg1 |-> a1, Arg2 |-> a2]

Binding == {
  I("GET_STRUCTURE", 0, 0), I("GET_LIST", 1, 0), I("GET_VALUE", 0, 1),
  I("GET_CONSTANT", IntOf(ATM(0)), 0), I("SET_VARIABLE", 1, 0),
  I("UNIFY_VALUE", 0, 0), I("UNIFY_VARIABLE", 1, 0), I("PUT_VARIABLE", 0, 1) }

Making == {
  I("GET_STRUCTURE", 0, 0), I("GET_LIST", 1, 0), I("SET_VARIABLE", 1, 0) }

Choosing == {
  I("TRY_ME_ELSE", 7, 2), I("TRY", 4, 1), I("RETRY_ME_ELSE", 5, 0),
  I("TRUST_ME", 0, 0), I("RETRY", 3, 0), I("TRUST", 3, 0),
  I("CALL", 0, 0) }

Gaps ==
  { [Code |-> <<I("PUT_VARIABLE", 0, 1), b1, I("TRY_ME_ELSE", 7, 1), b2, c1, b3,
                I("CALL", 0, 0), c2, I("CALL", 0, 0)>>,
     Labels |-> <<>>, Arity |-> <<1>>, start |-> 0] :
      b1 \in Making, b2, b3 \in Binding, c1, c2 \in Choosing }

\* Building, below a choice point, what GET_VALUE will unify; then leaving the
\* frame by EXECUTE, failing, and continuing in it.  Functor 1 has no procedure.
Building == {
  I("PUT_STRUCTURE", 0, 0), I("PUT_STRUCTURE", 0, 1), I("PUT_LIST", 0, 0),
  I("PUT_LIST", 1, 0), I("SET_VALUE", 1, 0), I("SET_CONSTANT", IntOf(ATM(0)), 0),
  I("SET_LIST", 0, 0), I("SET_VOID", 2, 0), I("UNIFY_VOID", 1, 0),
  I("GET_VARIABLE", -1, 1), I("PUT_VALUE", -1, 1),
  I("PUT_CONSTANT", IntOf(ATM(0)), 1), I("PUT_UNSAFE_VALUE", -1, 1) }

Frames ==
  { [Code |-> <<I("ALLOCATE", 1, 0), I("PUT_VARIABLE", -1, 0), I("TRY_ME_ELSE", 8, 2),
                b1, b2, b3, I("GET_VALUE", 0, 1), I("EXECUTE", 0, 1),
                I("TRUST_ME", 0, 0), I("PUT_UNSAFE_VALUE", 0, 1), I("CALL", 1, 0)>>,
     Labels |-> (0 :> 9), Arity |-> <<1, 0>>, start |-> 0] :
      b1, b2, b3 \in Building }

\* Two blocks over the variables Y1 and Y2 and the constant a, the second over
\* the first one also.
Arguments == { I("SET_VALUE", -1, 0), I("SET_VALUE", -2, 0),
               I("SET_CONSTANT", IntOf(ATM(0)), 0) }
Blocks(r, args) ==
  { <<I("PUT_LIST", r, 0), h, t>> : h, t \in args }
    \cup { <<I("PUT_STRUCTURE", 0, r), x>> : x \in args }
    \cup { <<I("PUT_STRUCTURE", 1, r)>>, <<I("PUT_CONSTANT", IntOf(ATM(0)), r)>> }

Pairs ==
  { [Code |-> <<I("ALLOCATE", 2, 0)>> \o b1 \o b2
               \o <<I("GET_VALUE", 0, 1), I("GET_VALUE", -1, -2)>>,
     Labels |-> <<>>, Arity |-> <<1, 0>>, start |-> 0] :
      b1 \in Blocks(0, Arguments),
      b2 \in Blocks(1, Arguments \cup {I("SET_VALUE", 0, 0)}) }

MCPrograms == Gaps \cup Frames \cup Pairs

\* Terms of depth two: a, f(a), [a|a]; and the functor cell of f/1.
MCValues ==
  LET a == <<TagATM, 0>>
  IN  { a, <<TagSTR, 0, <<a>>>>, <<TagLIS, a, a>>, <<TagFUN, 0>> }
=============================================================================
