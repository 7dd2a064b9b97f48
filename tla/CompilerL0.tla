----------------------------- MODULE CompilerL0 -----------------------------
(***************************************************************************)
(* compiler_l0.go: the compiler of chapter 2, in three steps.  One term is *)
(* flattened to equations Xi = f(Xj, ...), these are put in order, and     *)
(* translated to PUT_* code (the term of a query) or GET_* code (of a      *)
(* program).  Arguments are register numbers; the length of Args is the    *)
(* arity.                                                                  *)
(***************************************************************************)
EXTENDS Terms, Atoms

FlatEq(reg, fid, args) == [Reg |-> reg, FID |-> fid, Args |-> args]

-----------------------------------------------------------------------------
(* Step 1: flatten, breadth first.  Constants are structures without       *)
(* arguments.                                                              *)

FlatFunctor(t) ==
  IF t.kind = "Integer" THEN FuncId(ToString(t.val), 0) ELSE FuncId(t.name, Len(t.args))

\* Mutation: _ is tracked like a named variable.
FlattenArgSharing(st, t) ==
  LET known == t.kind = "Var" /\ t.name \in DOMAIN st.varRegs
      reg   == IF known THEN st.varRegs[t.name] ELSE st.nextReg
  IN  [st EXCEPT
         !.args    = Append(@, reg),
         !.nextReg = IF known THEN @ ELSE @ + 1,
         !.varRegs = IF t.kind = "Var" THEN (t.name :> reg) @@ @ ELSE @,
         !.queue   = IF t.kind = "Var" THEN @ ELSE Append(@, [t |-> t, reg |-> reg])]

\* One argument: only a named variable met before has a register already.
FlattenArg(st, t) ==
  LET known == t.kind = "Var" /\ t.name \in DOMAIN st.varRegs
      reg   == IF known THEN st.varRegs[t.name] ELSE st.nextReg
  IN  [st EXCEPT
         !.args    = Append(@, reg),
         !.nextReg = IF known THEN @ ELSE @ + 1,
         !.varRegs = IF t.kind = "Var" /\ t # Anonymous THEN (t.name :> reg) @@ @ ELSE @,
         !.queue   = IF t.kind = "Var" THEN @ ELSE Append(@, [t |-> t, reg |-> reg])]

RECURSIVE FlattenQueue(_)
FlattenQueue(state) ==
  Once(state, LAMBDA st :
    IF st.queue = <<>> THEN st
    ELSE LET w == Head(st.queue)
             rest == [st EXCEPT !.queue = Tail(@), !.args = <<>>]
         IN  FlattenQueue(
               IF w.t.kind = "Var" THEN rest
               ELSE Once(Pass(FlattenArg, rest, w.t.args), LAMBDA s :
                      [s EXCEPT !.eqs = Append(@, FlatEq(w.reg, FlatFunctor(w.t), s.args))])))

FlattenL0(t) ==
  Once(FlattenQueue([queue |-> <<[t |-> t, reg |-> 1]>>, args |-> <<>>, nextReg |-> 2,
                     varRegs |-> <<>>, eqs |-> <<>>]), LAMBDA st :
    [Eqs |-> st.eqs, Root |-> 1, VarRegs |-> st.varRegs])

-----------------------------------------------------------------------------
(* Step 2: order.  A query builds inner structures first, a program takes  *)
(* outer ones apart first.                                                 *)

RECURSIVE Visit(_, _, _)
Visit(eqs, reg, acc) ==
  LET defining == SelectSeq(eqs, LAMBDA eq : eq.Reg = reg)
      marked   == [acc EXCEPT !.visited = @ \cup {reg}]
      below    == Pass(LAMBDA a, r : Visit(eqs, r, a), marked, defining[1].Args)
  IN  CASE reg \in acc.visited -> acc
        [] reg \notin acc.visited /\ defining = <<>> -> marked
        [] reg \notin acc.visited /\ defining # <<>> ->
             [below EXCEPT !.result = Append(@, defining[1])]

ReorderQueryL0(ft) == Visit(ft.Eqs, ft.Root, [visited |-> {}, result |-> <<>>]).result

ReorderProgramL0(ft) == ft.Eqs

-----------------------------------------------------------------------------
(* Step 3: translate.  The first use of a register introduces it.          *)

Translate(eqs, structure, first, again) ==
  LET Instr(op, arg1, arg2) == [Op |-> op, Arg1 |-> arg1, Arg2 |-> arg2]
      Argument(acc, r) ==
        [seen |-> acc.seen \cup {r},
         code |-> Append(acc.code, Instr(IF r \in acc.seen THEN again ELSE first, r, 0))]
      Equation(acc, eq) ==
        Pass(Argument,
             [seen |-> acc.seen \cup {eq.Reg},
              code |-> Append(acc.code, Instr(structure, eq.FID, eq.Reg))],
             eq.Args)
  IN  Pass(Equation, [seen |-> {}, code |-> <<>>], eqs).code

TranslateQueryL0(eqs) == Translate(eqs, "PUT_STRUCTURE", "SET_VARIABLE", "SET_VALUE")
TranslateProgramL0(eqs) == Translate(eqs, "GET_STRUCTURE", "UNIFY_VARIABLE", "UNIFY_VALUE")

CompileQueryL0(t)   == TranslateQueryL0(ReorderQueryL0(FlattenL0(t)))
CompileProgramL0(t) == TranslateProgramL0(ReorderProgramL0(FlattenL0(t)))
=============================================================================
