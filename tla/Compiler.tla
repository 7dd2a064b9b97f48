------------------------------ MODULE Compiler ------------------------------
(***************************************************************************)
(* classify.go and compiler.go: from clauses and a query goal to code.     *)
(*                                                                         *)
(* A clause is compiled by threading a record c through its terms: the     *)
(* code emitted so far, the variables already seen and the X registers in  *)
(* use.  Go ranges over maps in any order, so which register a variable    *)
(* gets is a choice: every operator takes the assignment regs, and         *)
(* Assignments(cl) are those classifyVars and CompileClause may make.      *)
(***************************************************************************)
EXTENDS Terms, Cells, Atoms, FiniteSets, SequencesExt

\* A constant as an operand: int(ATM(id)) or int(INT(n)).
ConstantOf(t) ==
  IF t.kind = "Atom" THEN IntOf(ATM(AtomId(t.name))) ELSE IntOf(INT(t.val))

-----------------------------------------------------------------------------
(* classify.go. *)

Named(t) == ToSet(VarNames(t)) \ {"_"}
BodySegments(cl, v) == {k \in DOMAIN cl.Body : v \in Named(cl.Body[k])}
ClauseVars(cl) == Named(cl.Head) \cup UNION {Named(g) : g \in ToSet(cl.Body)}

IsPerm(cl, v) ==
  \/ Cardinality(BodySegments(cl, v)) > 1
  \/ v \in Named(cl.Head) /\ BodySegments(cl, v) # {}

Perms(cl) == {v \in ClauseVars(cl) : IsPerm(cl, v)}
Temps(cl) == ClauseVars(cl) \ Perms(cl)

\* Permanent variables get the Y slots -1, -2, ..., temporary ones the X
\* registers after those of the head's arguments, each in any order.
YSlots(n) == -n .. -1
Assignments(cl) ==
  LET first == Len(cl.Head.args)
      last  == first + Cardinality(Temps(cl)) - 1
  IN  { p @@ t : p \in Bijection(Perms(cl), YSlots(Cardinality(Perms(cl)))),
                 t \in Bijection(Temps(cl), first .. last) }

-----------------------------------------------------------------------------
(* compiler.go. *)

Emit(c, op, a1, a2) ==
  [c EXCEPT !.code = Append(@, [Op |-> op, Arg1 |-> a1, Arg2 |-> a2])]

\* resetTemps marks the head's argument registers and the temporaries.
StartClause(arity, regs) ==
  [code |-> <<>>, seen |-> {},
   used |-> (0 .. arity - 1) \cup {regs[v] : v \in {u \in DOMAIN regs : regs[u] >= 0}}]

\* freshReg: the lowest register not in use.
FreshReg(c) ==
  Once(c.used, LAMBDA used :
    CHOOSE r \in 0 .. Cardinality(used) :
      r \notin used /\ \A q \in 0 .. r - 1 : q \in used)
WithFresh(c, r) == [c EXCEPT !.used = @ \cup {r}]

\* The first occurrence of variable v emits one instruction, later ones other.
EmitVar(c, v, first, other, a1, a2) ==
  Once(c, LAMBDA d :
    IF v \in d.seen THEN Emit(d, other, a1, a2)
    ELSE [Emit(d, first, a1, a2) EXCEPT !.seen = @ \cup {v}])

\* Mutation: no argument is skipped.
EmitVoidOfNone(c) == Emit(c, "UNIFY_VOID", 0, 0)

EmitVoid(c) == Emit(c, "UNIFY_VOID", 1, 0)

\* emitUnify; work is the queue of subterms still to be matched.
EmitUnify(w, t, regs) ==
  CASE t = Anonymous -> [w EXCEPT !.c = EmitVoid(@)]
    [] t.kind = "Var" /\ t # Anonymous ->
         [w EXCEPT !.c = EmitVar(@, t.name, "UNIFY_VARIABLE", "UNIFY_VALUE",
                                 regs[t.name], 0)]
    [] t.kind \in {"Atom", "Integer"} ->
         [w EXCEPT !.c = Emit(@, "UNIFY_CONSTANT", ConstantOf(t), 0)]
    [] t.kind = "Compound" ->
         LET r == FreshReg(w.c)
             op == IF t.name \in w.c.seen THEN "UNIFY_VALUE" ELSE "UNIFY_VARIABLE"
         IN  [c |-> Emit(WithFresh(w.c, r), op, r, 0), work |-> Append(w.work, <<t, r>>)]

\* One turn of compileHead's loop: match t, which register reg holds.
MatchTerm(w, t, reg, regs) ==
  LET Subterms(op, a1, a2) ==
        Pass(LAMBDA u, s : EmitUnify(u, s, regs),
             [w EXCEPT !.c = Emit(@, op, a1, a2)], t.args)
  IN  CASE t = Anonymous -> w
        [] t.kind = "Var" /\ t # Anonymous ->
             [w EXCEPT !.c = EmitVar(@, t.name, "GET_VARIABLE", "GET_VALUE",
                                     regs[t.name], reg)]
        [] t.kind \in {"Atom", "Integer"} ->
             [w EXCEPT !.c = Emit(@, "GET_CONSTANT", ConstantOf(t), reg)]
        [] t.kind = "Compound" /\ IsPair(t) -> Subterms("GET_LIST", reg, 0)
        [] t.kind = "Compound" /\ ~IsPair(t) ->
             Subterms("GET_STRUCTURE", FuncId(t.name, Len(t.args)), reg)

\* compileHead: breadth first, the queue starting with the head's arguments.
RECURSIVE CompileHead(_, _)
CompileHead(queue, regs) ==
  Once(queue, LAMBDA w :
    IF w.work = <<>> THEN w.c
    ELSE CompileHead(MatchTerm([w EXCEPT !.work = Tail(@)],
                               Head(w.work)[1], Head(w.work)[2], regs), regs))

\* compileArg builds t in register target, depth first; emitSet pushes an
\* element of a list.
RECURSIVE CompileArg(_, _, _, _), EmitSet(_, _, _)
CompileArg(c, t, target, regs) ==
  CASE t = Anonymous -> Emit(c, "PUT_VARIABLE", target, target)
    [] t.kind = "Var" /\ t # Anonymous ->
         EmitVar(c, t.name, "PUT_VARIABLE",
                 IF regs[t.name] < 0 THEN "PUT_UNSAFE_VALUE" ELSE "PUT_VALUE",
                 regs[t.name], target)
    [] t.kind \in {"Atom", "Integer"} ->
         Emit(c, "PUT_CONSTANT", ConstantOf(t), target)
    [] t.kind = "Compound" /\ IsPair(t) ->
         Pass(LAMBDA d, s : EmitSet(d, s, regs), Emit(c, "PUT_LIST", target, 0), t.args)
    [] t.kind = "Compound" /\ ~IsPair(t) ->
         LET Built(b, s) ==
               Once(FreshReg(b.c), LAMBDA r :
                 [c |-> CompileArg(WithFresh(b.c, r), s, r, regs),
                  argRegs |-> Append(b.argRegs, r)])
         IN  Once(Pass(Built, [c |-> c, argRegs |-> <<>>], t.args), LAMBDA b :
               Pass(LAMBDA d, r : Emit(d, "SET_VALUE", r, 0),
                    Emit(b.c, "PUT_STRUCTURE", FuncId(t.name, Len(t.args)), target),
                    b.argRegs))

EmitSet(c, t, regs) ==
  CASE t = Anonymous -> Emit(c, "SET_VOID", 1, 0)
    [] t.kind = "Var" /\ t # Anonymous ->
         EmitVar(c, t.name, "SET_VARIABLE", "SET_VALUE", regs[t.name], 0)
    [] t.kind \in {"Atom", "Integer"} ->
         Emit(c, "SET_CONSTANT", ConstantOf(t), 0)
    [] t.kind = "Compound" ->
         Once(FreshReg(c), LAMBDA r :
           Emit(CompileArg(WithFresh(c, r), t, r, regs), "SET_VALUE", r, 0))

\* compileGoal; op is CALL or EXECUTE.
CompileGoal(c, goal, op, regs) ==
  Emit(Pass(LAMBDA d, k : CompileArg(d, goal.args[k], k - 1, regs),
            c, [k \in DOMAIN goal.args |-> k]),
       op, FuncId(goal.name, Len(goal.args)), Len(goal.args))

\* CompileClause: the clause's code, which holds no addresses.
CompileClause(cl, regs) ==
  LET perm   == Cardinality(Perms(cl))
      Op(k)  == IF k = Len(cl.Body) /\ perm > 0 THEN "EXECUTE" ELSE "CALL"
      start  == StartClause(Len(cl.Head.args), regs)
      head   == CompileHead(
                  [c |-> IF perm > 0 THEN Emit(start, "ALLOCATE", perm, 0) ELSE start,
                   work |-> [k \in DOMAIN cl.Head.args |-> <<cl.Head.args[k], k - 1>>]],
                  regs)
      body   == Pass(LAMBDA c, k : CompileGoal(c, cl.Body[k], Op(k), regs),
                     head, [k \in DOMAIN cl.Body |-> k])
      freed  == IF perm > 0 THEN Emit(body, "DEALLOCATE", 0, 0) ELSE body
  IN  (IF cl.Body = <<>> THEN Emit(freed, "PROCEED", 0, 0) ELSE freed).code

\* Mutation: the last argument is not saved.
GuardSavesFewer(k, clauses, after) ==
  LET one(op, a1, a2) == <<[Op |-> op, Arg1 |-> a1, Arg2 |-> a2]>>
      arity == Len(clauses[k].Head.args)
  IN  CASE Len(clauses) = 1 -> <<>>
        [] Len(clauses) > 1 /\ k = 1 -> one("TRY_ME_ELSE", after, arity - 1)
        [] k > 1 /\ k < Len(clauses) -> one("RETRY_ME_ELSE", after, arity - 1)
        [] k > 1 /\ k = Len(clauses) -> one("TRUST_ME", 0, 0)

\* Mutation: a clause that is alone is taken for the last of several.
GuardLoneClause(k, clauses, after) ==
  LET one(op, a1, a2) == <<[Op |-> op, Arg1 |-> a1, Arg2 |-> a2]>>
      arity == Len(clauses[k].Head.args)
  IN  CASE k = Len(clauses) -> one("TRUST_ME", 0, 0)
        [] k = 1 /\ k < Len(clauses) -> one("TRY_ME_ELSE", after, arity)
        [] k > 1 /\ k < Len(clauses) -> one("RETRY_ME_ELSE", after, arity)

\* compileProcedure: the clauses of one procedure, each with its register
\* assignment, appended to code with the choice instructions around them.
Guard(k, clauses, after) ==
  LET one(op, a1, a2) == <<[Op |-> op, Arg1 |-> a1, Arg2 |-> a2]>>
      arity == Len(clauses[k].Head.args)
  IN  CASE Len(clauses) = 1 -> <<>>
        [] Len(clauses) > 1 /\ k = 1 -> one("TRY_ME_ELSE", after, arity)
        [] k > 1 /\ k < Len(clauses) -> one("RETRY_ME_ELSE", after, arity)
        [] k > 1 /\ k = Len(clauses) -> one("TRUST_ME", 0, 0)

CompileProcedure(code, clauses, regs) ==
  Pass(LAMBDA acc, k :
         Once(CompileClause(clauses[k], regs[k]), LAMBDA body :
           acc \o Guard(k, clauses, Len(acc) + 1 + Len(body)) \o body),
       code, [k \in DOMAIN clauses |-> k])

\* CompileProgram: the clauses grouped by functor and arity, the groups in
\* order of first appearance.
Key(cl) == <<cl.Head.name, Len(cl.Head.args)>>
Keys(clauses) ==
  Pass(LAMBDA ks, cl : IF Contains(ks, Key(cl)) THEN ks ELSE Append(ks, Key(cl)),
       <<>>, clauses)
Group(clauses, key) ==
  SelectSeq([k \in DOMAIN clauses |-> k], LAMBDA k : Key(clauses[k]) = key)

CompileProgram(clauses, regs) ==
  LET Procedure(p, key) ==
        Once(Group(clauses, key), LAMBDA g :
          [code |-> CompileProcedure(p.code, [k \in DOMAIN g |-> clauses[g[k]]],
                                     [k \in DOMAIN g |-> regs[g[k]]]),
           labels |-> (FuncId(key[1], key[2]) :> Len(p.code)) @@ p.labels])
  IN  Pass(Procedure, [code |-> <<>>, labels |-> <<>>], Keys(clauses))

\* CompileQuery: every named variable of the goal gets a Y slot, in order.
QueryRegs(goal) ==
  LET names == FoldLeft(LAMBDA ns, v :
                          IF v = "_" \/ Contains(ns, v) THEN ns ELSE Append(ns, v),
                        <<>>, VarNames(goal))
  IN  [v \in ToSet(names) |-> -(CHOOSE k \in DOMAIN names : names[k] = v)]

CompileQuery(goal) ==
  Once(QueryRegs(goal), LAMBDA regs :
    LET start == StartClause(Len(goal.args), regs)
        alloc == IF regs = <<>> THEN start
                 ELSE Emit(start, "ALLOCATE", Cardinality(DOMAIN regs), 0)
    IN  CompileGoal(alloc, goal, "CALL", regs).code)

\* NewQuery's program: the clauses, then the query, where execution starts.
QueryProgram(clauses, regs, goal) ==
  Once(CompileProgram(clauses, regs), LAMBDA p :
    [Code    |-> p.code \o CompileQuery(goal),
     Labels  |-> p.labels,
     Arity   |-> [k \in DOMAIN Functors |-> Functors[k][2]],
     start   |-> Len(p.code),
     varRegs |-> QueryRegs(goal),
     clauses |-> clauses,
     goal    |-> goal])

\* Every program the compiler may produce for these clauses and this goal.
QueryPrograms(clauses, goal) ==
  Once([k \in DOMAIN clauses |-> Assignments(clauses[k])], LAMBDA choices :
    { QueryProgram(clauses, regs, goal) :
        regs \in { f \in [DOMAIN clauses -> UNION {choices[k] : k \in DOMAIN clauses}] :
                     \A k \in DOMAIN clauses : f[k] \in choices[k] } })
=============================================================================
