----------------------------- MODULE MCCutCode -----------------------------
(***************************************************************************)
(* Assembled code with cuts, which the compiler does not emit: two choice  *)
(* points, the first one's level taken in Y0, bindings above each, a cut,  *)
(* and then failure.                                                       *)
(***************************************************************************)
EXTENDS WAM

I(op, a1, a2) == [Op |-> op, Arg1 |-> a1, Arg2 |-> a2]
Fails == I("CALL", 0, 0)     \* there is no such procedure

Binding == { I("GET_CONSTANT", IntOf(ATM(0)), 0), I("GET_LIST", 1, 0),
             I("GET_VALUE", 0, 1), I("SET_LIST", 0, 0) }

CutInstr == { I("NECK_CUT", 0, 0), I("CUT", -1, 0) }

\* tail is the code after the cut; alternatives continue at instruction 10.
WithCut(tails) ==
  { [Code |-> <<I("ALLOCATE", 1, 0), I("PUT_VARIABLE", 0, 1),
                I("TRY_ME_ELSE", 10, 1), I("GET_LEVEL", -1, 0), b1,
                I("TRY_ME_ELSE", 10, 1), b2, cut>> \o tail,
     Labels |-> <<>>, Arity |-> <<1>>, start |-> 0] :
      b1, b2 \in Binding, cut \in CutInstr, tail \in tails }

\* After the cut the code fails, binds once more, or returns.
CutThenFail ==
  WithCut({ <<b, Fails, next, i, I("PROCEED", 0, 0)>> :
              b \in Binding \cup {I("DEALLOCATE", 0, 0)}, i \in Binding,
              next \in {I("RETRY_ME_ELSE", 11, 0), I("RETRY", 11, 0), Fails} })

\* After the cut the code leaves another choice point, and takes it back.
CutThenTry ==
  WithCut({ <<I("TRY_ME_ELSE", 11, 1), I("TRUST_ME", 0, 0), Fails,
              I("PROCEED", 0, 0)>> })
=============================================================================
