-------------------------------- MODULE WAM --------------------------------
(***************************************************************************)
(* The Warren Abstract Machine of machine.go, heap.go, unify.go and        *)
(* exec.go: the Run loop over an arbitrary loaded program, one action per  *)
(* instruction, and one action per iteration of the two loops inside an    *)
(* instruction (deref and unify), whose local variables are chase and pdl. *)
(*                                                                         *)
(* Go slices are 0-based and TLA+ sequences 1-based: frame E is            *)
(* envFrames[E+1], choice point B is choicePoints[B+1], the instruction at *)
(* P is prog.Code[P+1].                                                    *)
(***************************************************************************)
EXTENDS Integers, Sequences, Cells

CONSTANTS
  HeapSize,    \* cells of the heap (65536 in machine.go)
  TrailSize,   \* entries of the trail (65536)
  NumXRegs,    \* X registers (256)
  MaxStack,    \* bound: memory left for each of the growing Go slices
  Programs     \* the programs that may be loaded

Opcode == {
  "PUT_STRUCTURE", "SET_VARIABLE", "SET_VALUE", "GET_STRUCTURE",
  "UNIFY_VARIABLE", "UNIFY_VALUE", "PUT_VARIABLE", "PUT_VALUE",
  "GET_VARIABLE", "GET_VALUE", "ALLOCATE", "DEALLOCATE", "CALL", "EXECUTE",
  "PROCEED", "TRY_ME_ELSE", "RETRY_ME_ELSE", "TRUST_ME", "TRY", "RETRY",
  "TRUST", "NECK_CUT", "GET_LEVEL", "CUT", "SET_CONSTANT",
  "UNIFY_CONSTANT", "GET_CONSTANT", "PUT_CONSTANT", "PUT_LIST", "SET_LIST",
  "GET_LIST", "SET_VOID", "UNIFY_VOID", "PUT_UNSAFE_VALUE" }

\* Instructions whose first operand is a count, a functor id or a label.
NatArg1 == { "PUT_STRUCTURE", "GET_STRUCTURE", "ALLOCATE", "CALL", "EXECUTE",
  "TRY_ME_ELSE", "RETRY_ME_ELSE", "TRY", "RETRY", "TRUST", "SET_VOID",
  "UNIFY_VOID" }

Instruction ==
  { i \in [Op : Opcode, Arg1 : Int, Arg2 : Int] :
      /\ i.Op \in NatArg1 => i.Arg1 \in Nat
      /\ i.Op \in {"TRY_ME_ELSE", "TRY"} => i.Arg2 \in Nat }

\* The compiler's Program, with the start address NewQuery gives P.  Arity is
\* the functor table (functor id to arity), Labels maps functor ids to entries.
IsProgram(p) ==
  /\ p.Code \in Seq(Instruction)
  /\ p.Arity \in Seq(Nat)
  /\ \A f \in DOMAIN p.Labels : p.Labels[f] \in Nat
  /\ p.start \in Nat

ASSUME SizesAssumption ==
  /\ HeapSize \in Nat \ {0}
  /\ TrailSize \in Nat
  /\ NumXRegs \in Nat
  /\ MaxStack \in Nat

ASSUME ProgramsAssumption == \A p \in Programs : IsProgram(p)

VARIABLES
  Heap, H,                      \* heap cells and heap top
  Trail, TR,                    \* trail and its top
  X, envFrames,                 \* X registers, environment frames
  E, CP,                        \* current frame, continuation
  choicePoints, B, HB, B0,      \* choice points, current one, its H, barrier
  S, Mode,                      \* read cursor, READ or WRITE
  chase,                        \* <<c>>: the cell an instruction derefs
  pdl,                          \* unify's push-down list
  P, Fail,                      \* program counter, failure flag
  panic,                        \* an index went out of range: Go panicked
  prog                          \* the loaded program

heapVars   == <<Heap, H>>
trailVars  == <<Trail, TR>>
regVars    == <<X, envFrames>>
frameVars  == <<E, CP>>
choiceVars == <<choicePoints, B, HB, B0>>
readVars   == <<S, Mode>>
loopVars   == <<chase, pdl>>
status     == <<Fail, panic, prog>>
vars == <<heapVars, trailVars, regVars, frameVars, choiceVars, readVars,
          loopVars, P, status>>

Addr  == 0 .. HeapSize - 1
XRegs == 0 .. NumXRegs - 1

-----------------------------------------------------------------------------
(* Registers (machine.go): r >= 0 is X(r), r < 0 is slot -r-1 of frame E. *)

GetReg(r) == IF r >= 0 THEN X[r] ELSE envFrames[E + 1].Y[-r]

SetRegs(rs, c) ==
  LET Y == envFrames[E + 1].Y IN
  /\ X' = [r \in XRegs |-> IF r \in rs THEN c ELSE X[r]]
  /\ envFrames' =
       IF \A r \in rs : r >= 0 THEN envFrames
       ELSE [envFrames EXCEPT ![E + 1].Y =
               [k \in 1 .. Len(Y) |-> IF -k \in rs THEN c ELSE Y[k]]]

IsReg(r) ==
  \/ r \in XRegs
  \/ r < 0 /\ E >= 0 /\ -r <= Len(envFrames[E + 1].Y)

-----------------------------------------------------------------------------
(* Heap and trail (heap.go). *)

Room(n) == H + n <= HeapSize

Pushed(cs) ==
  [a \in Addr |-> IF H <= a /\ a < H + Len(cs) THEN cs[a - H + 1] ELSE Heap[a]]

Push(cs) == Heap' = Pushed(cs) /\ H' = H + Len(cs)

NewVars(n) == [k \in 1 .. n |-> REF(H + k - 1)]

\* deref has reached a non-variable or an unbound variable.
Resolved(c) == IsREF(c) => Heap[c.val] = c

\* Mutation: of two variables the older one is bound.
BindsOlder(a, b) == IsREF(a) /\ (~IsREF(b) \/ a.val < b.val)

BindsFirst(a, b) == IsREF(a) /\ (~IsREF(b) \/ b.val < a.val)
BoundAddr(a, b) == IF BindsFirst(a, b) THEN a.val ELSE b.val
BoundTo(a, b)   == IF BindsFirst(a, b) THEN b ELSE a

\* Mutation: the boundary is one off.
ConditionalOffByOne(addr) == addr + 1 < HB

Conditional(addr) == addr < HB

TrailIfNeeded(addr) ==
  IF Conditional(addr)
  THEN Trail' = [Trail EXCEPT ![TR] = addr] /\ TR' = TR + 1
  ELSE UNCHANGED trailVars

\* bind(a, b) on the heap contents heap.
Bind(heap, a, b) ==
  /\ Heap' = [heap EXCEPT ![BoundAddr(a, b)] = BoundTo(a, b)]
  /\ TrailIfNeeded(BoundAddr(a, b))

CanBind(a, b) == Conditional(BoundAddr(a, b)) => TR < TrailSize

\* The heap with the bindings trailed since mark undone.
Unwound(mark) ==
  [a \in Addr |->
     IF \E j \in mark .. TR - 1 : Trail[j] = a THEN REF(a) ELSE Heap[a]]

\* Mutation: TR is not reset.
UnwindKeepsTop(mark) == Heap' = Unwound(mark) /\ UNCHANGED trailVars

UnwindTrail(mark) == Heap' = Unwound(mark) /\ TR' = mark /\ UNCHANGED Trail

\* Mutation: the whole trail is dropped.
TidyEmpty == 0

\* tidyTrail: drop the topmost entries that are not below HB.
TidyTR ==
  CHOOSE t \in 0 .. TR :
    /\ \A j \in t .. TR - 1 : ~Conditional(Trail[j])
    /\ t > 0 => Conditional(Trail[t - 1])

-----------------------------------------------------------------------------
(* The Run loop: fetching, and the index checks Go makes on the way. *)

InCode  == 0 <= P /\ P < Len(prog.Code)
Ready   == InCode /\ ~Fail /\ ~panic /\ chase = <<>> /\ Len(pdl) < 2
Chasing == ~panic /\ Len(chase) = 1
Unifying == ~panic /\ Len(pdl) >= 2
Instr   == prog.Code[P + 1]
Pending == prog.Code[P]          \* the instruction being executed, P moved on

RegArg1 == { "SET_VARIABLE", "SET_VALUE", "UNIFY_VARIABLE", "PUT_VARIABLE",
  "UNIFY_VALUE", "PUT_VALUE", "GET_VARIABLE", "GET_VALUE", "GET_LEVEL", "CUT",
  "PUT_LIST", "GET_LIST", "PUT_UNSAFE_VALUE" }
RegArg2 == { "PUT_STRUCTURE", "GET_STRUCTURE", "PUT_VARIABLE", "PUT_VALUE",
  "GET_VARIABLE", "GET_VALUE", "GET_CONSTANT", "PUT_CONSTANT",
  "PUT_UNSAFE_VALUE" }
PushesOne == { "PUT_STRUCTURE", "SET_VARIABLE", "SET_VALUE", "PUT_VARIABLE",
  "SET_CONSTANT", "SET_LIST" }
UnifiesOne == {"UNIFY_VARIABLE", "UNIFY_VALUE", "UNIFY_CONSTANT"}
OnChoice == {"RETRY_ME_ELSE", "TRUST_ME", "RETRY", "TRUST"}

\* Every index the instruction uses when it is fetched is in range.
InRange(i) ==
  /\ i.Op \in RegArg1 => IsReg(i.Arg1)
  /\ i.Op \in RegArg2 => IsReg(i.Arg2)
  /\ i.Op \in PushesOne => Room(1)
  /\ i.Op \in UnifiesOne => IF Mode = "READ" THEN S < HeapSize ELSE Room(1)
  /\ i.Op = "SET_VOID" => Room(i.Arg1)
  /\ i.Op = "UNIFY_VOID" /\ Mode = "WRITE" => Room(i.Arg1)
  /\ i.Op = "ALLOCATE" => Room(i.Arg1) /\ Len(envFrames) < MaxStack
  /\ i.Op = "DEALLOCATE" => E >= 0
  /\ i.Op \in {"CALL", "EXECUTE"} => i.Arg1 < Len(prog.Arity)
  /\ i.Op \in {"TRY_ME_ELSE", "TRY"} =>
       i.Arg2 <= NumXRegs /\ Len(choicePoints) < MaxStack
  /\ i.Op \in OnChoice => B >= 0

At(op) == Ready /\ Instr.Op = op /\ InRange(Instr)

\* An instruction that only touches the heap top and the registers.
DataStep(op) ==
  /\ At(op)
  /\ P' = P + 1
  /\ UNCHANGED <<trailVars, frameVars, choiceVars, readVars, loopVars, status>>

-----------------------------------------------------------------------------
(* Chapter 2 and 5.2-5.6: building terms and matching them.  The operands  *)
(* are Instr.Arg1 and Instr.Arg2; a constant operand is CellOf(Arg1).      *)

PutStructure ==
  /\ DataStep("PUT_STRUCTURE")
  /\ Push(<<FUN(Instr.Arg1)>>)
  /\ SetRegs({Instr.Arg2}, STR(H))

SetVariable ==
  /\ DataStep("SET_VARIABLE")
  /\ Push(NewVars(1))
  /\ SetRegs({Instr.Arg1}, REF(H))

SetValue ==
  /\ DataStep("SET_VALUE")
  /\ Push(<<GetReg(Instr.Arg1)>>)
  /\ UNCHANGED regVars

SetConstant ==
  /\ DataStep("SET_CONSTANT")
  /\ Push(<<CellOf(Instr.Arg1)>>)
  /\ UNCHANGED regVars

SetList ==
  /\ DataStep("SET_LIST")
  /\ Push(<<LIS(H + 1)>>)
  /\ UNCHANGED regVars

SetVoid ==
  /\ DataStep("SET_VOID")
  /\ Push(NewVars(Instr.Arg1))
  /\ UNCHANGED regVars

PutVariable ==
  /\ DataStep("PUT_VARIABLE")
  /\ Push(NewVars(1))
  /\ SetRegs({Instr.Arg1, Instr.Arg2}, REF(H))

PutValue ==
  /\ DataStep("PUT_VALUE")
  /\ SetRegs({Instr.Arg2}, GetReg(Instr.Arg1))
  /\ UNCHANGED heapVars

PutConstant ==
  /\ DataStep("PUT_CONSTANT")
  /\ SetRegs({Instr.Arg2}, CellOf(Instr.Arg1))
  /\ UNCHANGED heapVars

PutList ==
  /\ DataStep("PUT_LIST")
  /\ SetRegs({Instr.Arg1}, LIS(H))
  /\ UNCHANGED heapVars

GetVariable ==
  /\ DataStep("GET_VARIABLE")
  /\ SetRegs({Instr.Arg1}, GetReg(Instr.Arg2))
  /\ UNCHANGED heapVars

GetLevel ==
  /\ DataStep("GET_LEVEL")
  /\ SetRegs({Instr.Arg1}, CellOf(B + 1))
  /\ UNCHANGED heapVars

\* The UNIFY_* instructions in WRITE mode push where SET_* would.
UnifyWrite ==
  /\ Mode = "WRITE"
  /\ \/ /\ DataStep("UNIFY_VARIABLE")
        /\ Push(NewVars(1))
        /\ SetRegs({Instr.Arg1}, REF(H))
     \/ /\ DataStep("UNIFY_VALUE")
        /\ Push(<<GetReg(Instr.Arg1)>>)
        /\ UNCHANGED regVars
     \/ /\ DataStep("UNIFY_CONSTANT")
        /\ Push(<<CellOf(Instr.Arg1)>>)
        /\ UNCHANGED regVars
     \/ /\ DataStep("UNIFY_VOID")
        /\ Push(NewVars(Instr.Arg1))
        /\ UNCHANGED regVars

\* In READ mode they consume the subterms at S.
ReadStep(op, width) ==
  /\ At(op)
  /\ Mode = "READ"
  /\ S' = S + width
  /\ P' = P + 1
  /\ UNCHANGED <<heapVars, trailVars, frameVars, choiceVars, Mode, chase, status>>

UnifyVariableRead ==
  /\ ReadStep("UNIFY_VARIABLE", 1)
  /\ SetRegs({Instr.Arg1}, Heap[S])
  /\ UNCHANGED pdl

UnifyVoidRead ==
  /\ ReadStep("UNIFY_VOID", Instr.Arg1)
  /\ UNCHANGED <<regVars, pdl>>

\* unify(register or constant, subterm): unify's loop starts with this pair.
UnifyRead ==
  /\ \/ /\ ReadStep("UNIFY_VALUE", 1)
        /\ pdl' = <<GetReg(Instr.Arg1), Heap[S]>>
     \/ /\ ReadStep("UNIFY_CONSTANT", 1)
        /\ pdl' = <<CellOf(Instr.Arg1), Heap[S]>>
  /\ UNCHANGED regVars

\* GET_CONSTANT dereferences its register before unify does so again.
GetUnify ==
  /\ \/ At("GET_VALUE") /\ pdl' = <<GetReg(Instr.Arg1), GetReg(Instr.Arg2)>>
     \/ At("GET_CONSTANT") /\ pdl' = <<CellOf(Instr.Arg1), GetReg(Instr.Arg2)>>
  /\ P' = P + 1
  /\ UNCHANGED <<heapVars, trailVars, regVars, frameVars, choiceVars, readVars,
                 chase, status>>

-----------------------------------------------------------------------------
(* The instructions that begin by dereferencing a register, and the loop   *)
(* of deref they run first.                                                *)

StartChase ==
  /\ \/ At("GET_STRUCTURE") /\ chase' = <<GetReg(Instr.Arg2)>>
     \/ At("GET_LIST") /\ chase' = <<GetReg(Instr.Arg1)>>
     \/ At("PUT_UNSAFE_VALUE") /\ chase' = <<GetReg(Instr.Arg1)>>
  /\ P' = P + 1
  /\ UNCHANGED <<heapVars, trailVars, regVars, frameVars, choiceVars, readVars,
                 pdl, status>>

DerefInRange(c) == IsREF(c) => c.val < HeapSize

ChaseStep ==
  /\ Chasing
  /\ DerefInRange(chase[1])
  /\ ~Resolved(chase[1])
  /\ chase' = <<Heap[chase[1].val]>>
  /\ UNCHANGED <<heapVars, trailVars, regVars, frameVars, choiceVars, readVars,
                 pdl, P, status>>

\* The instruction op continues with the dereferenced cell.
Chased(op) ==
  /\ Chasing
  /\ DerefInRange(chase[1]) /\ Resolved(chase[1])
  /\ Pending.Op = op
  /\ chase' = <<>>
  /\ UNCHANGED <<frameVars, choiceVars, pdl, P, panic, prog>>

\* Matching fails: Run will backtrack.
Mismatch ==
  /\ Fail' = TRUE
  /\ UNCHANGED <<heapVars, trailVars, regVars, readVars>>

\* Matching succeeds: UNIFY_* will read from address at.
ReadFrom(at) ==
  /\ S' = at
  /\ Mode' = "READ"
  /\ UNCHANGED <<heapVars, trailVars, regVars, Fail>>

GetStructure ==
  LET c == chase[1] IN
  /\ Chased("GET_STRUCTURE")
  /\ CASE c.tag = TagREF ->
            /\ Room(1) /\ CanBind(c, STR(H))
            /\ H' = H + 1
            /\ Bind(Pushed(<<FUN(Pending.Arg1)>>), c, STR(H))
            /\ Mode' = "WRITE"
            /\ UNCHANGED <<regVars, S, Fail>>
       [] c.tag = TagSTR ->
            /\ c.val < HeapSize
            /\ IF Heap[c.val].val = Pending.Arg1 THEN ReadFrom(c.val + 1) ELSE Mismatch
       [] OTHER -> Mismatch

GetList ==
  LET c == chase[1] IN
  /\ Chased("GET_LIST")
  /\ CASE c.tag = TagREF ->
            /\ CanBind(c, LIS(H))
            /\ Bind(Heap, c, LIS(H))
            /\ Mode' = "WRITE"
            /\ UNCHANGED <<H, regVars, S, Fail>>
       [] c.tag = TagLIS -> ReadFrom(c.val)
       [] OTHER -> Mismatch

\* A variable at or above HB is replaced by a fresh one bound to it.
PutUnsafeValue ==
  LET c == chase[1] IN
  /\ Chased("PUT_UNSAFE_VALUE")
  /\ IF IsREF(c) /\ c.val >= HB
     THEN /\ Room(1) /\ CanBind(c, REF(H))
          /\ H' = H + 1
          /\ Bind(Pushed(NewVars(1)), c, REF(H))
          /\ SetRegs({Pending.Arg2}, REF(H))
     ELSE /\ SetRegs({Pending.Arg2}, c)
          /\ UNCHANGED <<heapVars, trailVars>>
  /\ UNCHANGED <<readVars, Fail>>

-----------------------------------------------------------------------------
(* unify.go: each iteration dereferences the top two cells of the PDL, the *)
(* lower one first, then pops and compares them.                           *)

D1 == pdl[Len(pdl) - 1]
D2 == pdl[Len(pdl)]
Rest == SubSeq(pdl, 1, Len(pdl) - 2)

Comparing ==
  /\ Unifying
  /\ DerefInRange(D1) /\ Resolved(D1)
  /\ DerefInRange(D2) /\ Resolved(D2)

UnifyDeref ==
  /\ Unifying
  /\ DerefInRange(D1)
  /\ \/ /\ ~Resolved(D1)
        /\ pdl' = [pdl EXCEPT ![Len(pdl) - 1] = Heap[D1.val]]
     \/ /\ Resolved(D1)
        /\ DerefInRange(D2)
        /\ ~Resolved(D2)
        /\ pdl' = [pdl EXCEPT ![Len(pdl)] = Heap[D2.val]]
  /\ UNCHANGED <<heapVars, trailVars, regVars, frameVars, choiceVars, readVars,
                 chase, P, status>>

UnifySame ==
  /\ Comparing
  /\ D1 = D2
  /\ pdl' = Rest
  /\ UNCHANGED <<heapVars, trailVars, regVars, frameVars, choiceVars, readVars,
                 chase, P, status>>

UnifyBind ==
  /\ Comparing
  /\ D1 # D2
  /\ IsREF(D1) \/ IsREF(D2)
  /\ CanBind(D1, D2)
  /\ Bind(Heap, D1, D2)
  /\ pdl' = Rest
  /\ UNCHANGED <<H, regVars, frameVars, choiceVars, readVars, chase, P, status>>

\* Two different non-variables: structures with the same functor or lists.
BothSTR == D1 # D2 /\ D1.tag = TagSTR /\ D2.tag = TagSTR
BothLIS == D1 # D2 /\ D1.tag = TagLIS /\ D2.tag = TagLIS
STRInRange == D1.val < HeapSize /\ D2.val < HeapSize
SameFunctor == Heap[D1.val] = Heap[D2.val]
ArityInRange ==
  LET f == Heap[D1.val].val IN
  /\ f < Len(prog.Arity)
  /\ D1.val + prog.Arity[f + 1] < HeapSize
  /\ D2.val + prog.Arity[f + 1] < HeapSize
  /\ Len(Rest) + 2 * prog.Arity[f + 1] <= MaxStack
PairInRange ==
  /\ D1.val + 1 < HeapSize
  /\ D2.val + 1 < HeapSize
  /\ Len(Rest) + 4 <= MaxStack

\* Mutation: the last argument is not compared.
LastPairLost(a1, a2, n) ==
  [k \in 1 .. 2 * (n - 1) |->
     IF k % 2 = 1 THEN Heap[a1 + (k + 1) \div 2] ELSE Heap[a2 + k \div 2]]

\* The n cells after address a1, each followed by its partner after a2.
CellPairs(a1, a2, n) ==
  [k \in 1 .. 2 * n |->
     IF k % 2 = 1 THEN Heap[a1 + (k + 1) \div 2] ELSE Heap[a2 + k \div 2]]

UnifyArgs ==
  LET arity == prog.Arity[Heap[D1.val].val + 1] IN
  /\ Comparing
  /\ \/ /\ BothSTR /\ STRInRange /\ SameFunctor /\ ArityInRange
        /\ pdl' = Rest \o CellPairs(D1.val, D2.val, arity)
     \/ /\ BothLIS /\ PairInRange
        /\ pdl' = Rest \o CellPairs(D1.val - 1, D2.val - 1, 2)
  /\ UNCHANGED <<heapVars, trailVars, regVars, frameVars, choiceVars, readVars,
                 chase, P, status>>

\* unify returns false; the bindings made so far stay until backtracking.
UnifyFail ==
  /\ Comparing
  /\ D1 # D2
  /\ ~IsREF(D1) /\ ~IsREF(D2)
  /\ ~BothLIS
  /\ BothSTR => STRInRange /\ ~SameFunctor
  /\ pdl' = <<>>
  /\ Fail' = TRUE
  /\ UNCHANGED <<heapVars, trailVars, regVars, frameVars, choiceVars, readVars,
                 chase, P, panic, prog>>

-----------------------------------------------------------------------------
(* Chapter 3: environments and control transfer. *)

Allocate ==
  /\ At("ALLOCATE")
  /\ Push(NewVars(Instr.Arg1))
  /\ envFrames' = Append(envFrames,
                         [CE |-> E, CP |-> CP, Y |-> NewVars(Instr.Arg1)])
  /\ E' = Len(envFrames)
  /\ P' = P + 1
  /\ UNCHANGED <<trailVars, X, CP, choiceVars, readVars, loopVars, status>>

Deallocate ==
  /\ At("DEALLOCATE")
  /\ E' = envFrames[E + 1].CE
  /\ CP' = envFrames[E + 1].CP
  /\ P' = P + 1
  /\ UNCHANGED <<heapVars, trailVars, regVars, choiceVars, readVars, loopVars,
                 status>>

\* procLabel: a missing procedure is a failure.
Jump(functor) ==
  IF functor \in DOMAIN prog.Labels
  THEN P' = prog.Labels[functor] /\ UNCHANGED Fail
  ELSE P' = P + 1 /\ Fail' = TRUE

Call ==
  /\ At("CALL")
  /\ CP' = P + 1
  /\ Jump(Instr.Arg1)
  /\ UNCHANGED <<heapVars, trailVars, regVars, E, choiceVars, readVars, loopVars,
                 panic, prog>>

\* Mutation: the frame of the caller is not left.
ExecuteKeepsFrame ==
  /\ At("EXECUTE")
  /\ Jump(Instr.Arg1)
  /\ CP' = IF E >= 0 THEN envFrames[E + 1].CP ELSE CP
  /\ UNCHANGED <<heapVars, trailVars, regVars, E, choiceVars, readVars, loopVars,
                 panic, prog>>

Execute ==
  /\ At("EXECUTE")
  /\ IF E >= 0
     THEN E' = envFrames[E + 1].CE /\ CP' = envFrames[E + 1].CP
     ELSE UNCHANGED frameVars
  /\ Jump(Instr.Arg1)
  /\ UNCHANGED <<heapVars, trailVars, regVars, choiceVars, readVars, loopVars,
                 panic, prog>>

Proceed ==
  /\ At("PROCEED")
  /\ P' = CP
  /\ UNCHANGED <<heapVars, trailVars, regVars, frameVars, choiceVars, readVars,
                 loopVars, status>>

-----------------------------------------------------------------------------
(* Chapter 4: choice points. *)

ChoicePoint(n, next) ==
  [N |-> n, CE |-> E, CP |-> CP, B |-> B, TR |-> TR, H |-> H, B0 |-> B0,
   NextClause |-> next, Args |-> [k \in 1 .. n |-> X[k - 1]]]

\* Mutation: HB is not raised.
PushKeepsHB ==
  /\ choicePoints' = Append(choicePoints, ChoicePoint(Instr.Arg2, Instr.Arg1))
  /\ B' = Len(choicePoints)
  /\ UNCHANGED <<heapVars, trailVars, regVars, frameVars, HB, B0, readVars,
                 loopVars, status>>

PushChoice ==
  /\ choicePoints' = Append(choicePoints, ChoicePoint(Instr.Arg2, Instr.Arg1))
  /\ B' = Len(choicePoints)
  /\ HB' = H
  /\ UNCHANGED <<heapVars, trailVars, regVars, frameVars, B0, readVars, loopVars,
                 status>>

TryMeElse == At("TRY_ME_ELSE") /\ PushChoice /\ P' = P + 1

Try == At("TRY") /\ PushChoice /\ P' = Instr.Arg1

RetryMeElse ==
  /\ At("RETRY_ME_ELSE")
  /\ choicePoints' = [choicePoints EXCEPT ![B + 1].NextClause = Instr.Arg1]
  /\ P' = P + 1
  /\ UNCHANGED <<heapVars, trailVars, regVars, frameVars, B, HB, B0, readVars,
                 loopVars, status>>

\* Mutation: B still refers to the choice point that is gone.
PopKeepsB ==
  /\ choicePoints' = SubSeq(choicePoints, 1, B)
  /\ HB' = IF B = 0 THEN 0 ELSE choicePoints[B].H
  /\ UNCHANGED B

\* Mutation: the older choice points go, too.
PopsAll ==
  /\ choicePoints' = <<>>
  /\ B' = -1
  /\ HB' = 0

PopChoice ==
  /\ choicePoints' = SubSeq(choicePoints, 1, B)
  /\ B' = B - 1
  /\ HB' = IF B = 0 THEN 0 ELSE choicePoints[B].H

\* Mutation: the choice point stays.
TrustMeKeeps ==
  /\ At("TRUST_ME")
  /\ P' = P + 1
  /\ UNCHANGED <<heapVars, trailVars, regVars, frameVars, choiceVars, readVars,
                 loopVars, status>>

TrustMe ==
  /\ At("TRUST_ME")
  /\ PopChoice
  /\ P' = P + 1
  /\ UNCHANGED <<heapVars, trailVars, regVars, frameVars, B0, readVars, loopVars,
                 status>>

\* Mutation: the last argument register is not restored.
RestoreFewer ==
  LET cp == choicePoints[B + 1] IN
  /\ X' = [r \in XRegs |-> IF r + 1 < cp.N THEN cp.Args[r + 1] ELSE X[r]]
  /\ E' = cp.CE
  /\ CP' = cp.CP
  /\ UnwindTrail(cp.TR)
  /\ H' = cp.H
  /\ B0' = cp.B0
  /\ UNCHANGED envFrames

\* Mutation: the frame of the failed clause stays.
RestoreKeepsFrame ==
  LET cp == choicePoints[B + 1] IN
  /\ X' = [r \in XRegs |-> IF r < cp.N THEN cp.Args[r + 1] ELSE X[r]]
  /\ CP' = cp.CP
  /\ UnwindTrail(cp.TR)
  /\ H' = cp.H
  /\ B0' = cp.B0
  /\ UNCHANGED <<E, envFrames>>

\* restoreChoicePoint, except for HB, which it sets to the restored H.
Restore ==
  LET cp == choicePoints[B + 1] IN
  /\ X' = [r \in XRegs |-> IF r < cp.N THEN cp.Args[r + 1] ELSE X[r]]
  /\ E' = cp.CE
  /\ CP' = cp.CP
  /\ UnwindTrail(cp.TR)
  /\ H' = cp.H
  /\ B0' = cp.B0
  /\ UNCHANGED envFrames

Retry ==
  /\ At("RETRY")
  /\ Restore
  /\ HB' = choicePoints[B + 1].H
  /\ choicePoints' = [choicePoints EXCEPT ![B + 1].NextClause = Instr.Arg1]
  /\ P' = Instr.Arg1
  /\ UNCHANGED <<B, readVars, loopVars, status>>

Trust ==
  /\ At("TRUST")
  /\ Restore
  /\ PopChoice
  /\ P' = Instr.Arg1
  /\ UNCHANGED <<readVars, loopVars, status>>

\* Cut back to choice point level: the slice keeps what is cut off, HB stays.
CutTo(level) ==
  /\ IF B > level
     THEN B' = level /\ TR' = TidyTR
     ELSE UNCHANGED <<B, TR>>
  /\ P' = P + 1
  /\ UNCHANGED <<heapVars, Trail, regVars, frameVars, choicePoints, HB, B0,
                 readVars, loopVars, status>>

NeckCut == At("NECK_CUT") /\ CutTo(B0)

Cut == At("CUT") /\ CutTo(IntOf(GetReg(Instr.Arg1)) - 1)

-----------------------------------------------------------------------------
(* Run after a failed instruction, and the end of a run. *)

TakeAlternative ==
  /\ Restore
  /\ HB' = choicePoints[B + 1].H
  /\ P' = choicePoints[B + 1].NextClause
  /\ Fail' = FALSE
  /\ UNCHANGED <<choicePoints, B, readVars, loopVars, panic, prog>>

Backtrack ==
  /\ Fail /\ ~panic /\ P >= 0
  /\ \/ B >= 0 /\ TakeAlternative
     \/ /\ B < 0
        /\ P' = -1
        /\ UNCHANGED <<heapVars, trailVars, regVars, frameVars, choiceVars,
                       readVars, loopVars, status>>

\* Run's loop has ended.
Halted == (Fail /\ P < 0) \/ (~Fail /\ ~InCode /\ chase = <<>> /\ Len(pdl) < 2)

\* The dereferenced operand, or the pair being unified, takes an index out of
\* range, or one of the slices outgrows memory.
ChaseOut ==
  LET c == chase[1] IN
  \/ ~DerefInRange(c)
  \/ /\ Resolved(c)
     /\ \/ /\ Pending.Op = "GET_STRUCTURE"
           /\ \/ IsREF(c) /\ ~(Room(1) /\ CanBind(c, STR(H)))
              \/ c.tag = TagSTR /\ c.val >= HeapSize
        \/ Pending.Op = "GET_LIST" /\ IsREF(c) /\ ~CanBind(c, LIS(H))
        \/ /\ Pending.Op = "PUT_UNSAFE_VALUE"
           /\ IsREF(c) /\ c.val >= HB
           /\ ~(Room(1) /\ CanBind(c, REF(H)))

UnifyOut ==
  \/ ~DerefInRange(D1)
  \/ Resolved(D1) /\ ~DerefInRange(D2)
  \/ /\ Comparing
     /\ D1 # D2
     /\ \/ (IsREF(D1) \/ IsREF(D2)) /\ ~CanBind(D1, D2)
        \/ BothSTR /\ ~STRInRange
        \/ BothSTR /\ STRInRange /\ SameFunctor /\ ~ArityInRange
        \/ BothLIS /\ ~PairInRange

Panic ==
  /\ \/ Ready /\ ~InRange(Instr)
     \/ Chasing /\ ChaseOut
     \/ Unifying /\ UnifyOut
  /\ panic' = TRUE
  /\ UNCHANGED <<heapVars, trailVars, regVars, frameVars, choiceVars, readVars,
                 loopVars, P, Fail, prog>>

-----------------------------------------------------------------------------
\* NewWAM, Load, and the start NewQuery gives P and CP.
Init ==
  /\ prog \in Programs
  /\ Heap = [a \in Addr |-> REF(0)]
  /\ Trail = [j \in 0 .. TrailSize - 1 |-> 0]
  /\ X = [r \in XRegs |-> REF(0)]
  /\ H = 0 /\ S = 0 /\ HB = 0 /\ TR = 0
  /\ P = prog.start
  /\ CP = Len(prog.Code)
  /\ E = -1 /\ B = -1 /\ B0 = -1
  /\ Mode = "READ"
  /\ Fail = FALSE
  /\ envFrames = <<>>
  /\ choicePoints = <<>>
  /\ chase = <<>>
  /\ pdl = <<>>
  /\ panic = FALSE

Build == PutStructure \/ SetVariable \/ SetValue \/ SetConstant \/ SetList
  \/ SetVoid \/ PutVariable \/ PutValue \/ PutConstant \/ PutList
  \/ GetVariable \/ GetLevel \/ UnifyWrite
Match == UnifyVariableRead \/ UnifyVoidRead \/ UnifyRead \/ GetUnify
  \/ StartChase \/ ChaseStep \/ GetStructure \/ GetList \/ PutUnsafeValue
Unify == UnifyDeref \/ UnifySame \/ UnifyBind \/ UnifyArgs \/ UnifyFail
Control == Allocate \/ Deallocate \/ Call \/ Execute \/ Proceed
Choice == TryMeElse \/ Try \/ RetryMeElse \/ TrustMe \/ Retry \/ Trust
  \/ NeckCut \/ Cut

Next == Build \/ Match \/ Unify \/ Control \/ Choice \/ Backtrack \/ Panic

Spec == Init /\ [][Next]_vars

\* The Go program keeps executing: nothing suspends the loop of Run.
FairSpec == Spec /\ WF_vars(Next)

-----------------------------------------------------------------------------
(* Properties. *)

Frame == [CE : Int, CP : Nat, Y : Seq(Cell)]
ChoicePoints == [N : Nat, CE : Int, CP : Nat, B : Int, TR : 0 .. TrailSize,
            H : 0 .. HeapSize, B0 : Int, NextClause : Nat, Args : Seq(Cell)]

HeapOK == Heap \in [Addr -> Cell] /\ H \in 0 .. HeapSize
TrailOK == Trail \in [0 .. TrailSize - 1 -> Nat] /\ TR \in 0 .. TrailSize

\* A frame's CE is an older frame.
FramesOK ==
  /\ X \in [XRegs -> Cell]
  /\ envFrames \in Seq(Frame)
  /\ \A k \in 1 .. Len(envFrames) : envFrames[k].CE \in -1 .. k - 2
  /\ E \in -1 .. Len(envFrames) - 1 /\ CP \in Nat

\* A choice point's CE is a frame that exists.
ChoicesOK ==
  /\ choicePoints \in Seq(ChoicePoints)
  /\ \A k \in 1 .. Len(choicePoints) :
       /\ choicePoints[k].CE \in -1 .. Len(envFrames) - 1
       /\ choicePoints[k].B0 = -1
       /\ choicePoints[k].N <= NumXRegs
       /\ Len(choicePoints[k].Args) = choicePoints[k].N
  /\ B \in -1 .. Len(choicePoints) - 1 /\ HB \in 0 .. HeapSize /\ B0 = -1

LoopsOK ==
  /\ S \in Nat /\ Mode \in {"READ", "WRITE"}
  /\ chase \in Seq(Cell) /\ Len(chase) <= 1
  /\ chase # <<>> => P \in 1 .. Len(prog.Code) /\ ~Fail /\ Len(pdl) < 2
  /\ pdl \in Seq(Cell)

ControlOK ==
  /\ IsProgram(prog)
  /\ P \in Nat \cup {-1} /\ Fail \in BOOLEAN /\ panic \in BOOLEAN

\* Every variable has its type, and the indices into the slices are in range.
TypeOK == HeapOK /\ TrailOK /\ FramesOK /\ ChoicesOK /\ LoopsOK /\ ControlOK

\* The store unwinding to choice point cp would leave (restoreChoicePoint).
Undone(cp) ==
  [a \in 0 .. cp.H - 1 |->
     IF \E j \in cp.TR .. TR - 1 : Trail[j] = a THEN REF(a) ELSE Heap[a]]

Snapshot(cp) ==
  [store |-> Undone(cp), args |-> cp.Args, env |-> cp.CE, cont |-> cp.CP]

\* What the machine's state means: the live cells, and for every choice point
\* what backtracking to it would bring back.
Store == [a \in 0 .. H - 1 |-> Heap[a]]
Saved == [k \in 1 .. B + 1 |-> Snapshot(choicePoints[k])]

Bowen == INSTANCE Backtracking WITH
  store <- Store, args <- X, env <- E, cont <- CP, saved <- Saved

\* "Unwind trail, restore registers" amounts to "discard the substitution"
\* (README): whatever code without cuts the machine runs, what the trail and
\* the saved heap tops of the choice points describe is, for each choice
\* point, the store at its creation, and backtracking brings it back.
BacktrackingIsPersistent == Bowen!Spec

\* A cut is final: it takes back the choice points above its level, nothing
\* brings them back, and those below still restore what they saved
\* (instructions.go: "cut to choice point saved in Yn").
CutIsFinal == Bowen!CutSpec

\* The trail records live bound cells, each once: a cell is trailed when bound
\* and is not bound again before it is unwound.
TrailSound ==
  \A j \in 0 .. TR - 1 :
    /\ Trail[j] < H
    /\ Heap[Trail[j]] # REF(Trail[j])
    /\ \A k \in 0 .. j - 1 : Trail[k] # Trail[j]

\* Choice points are a stack, and each remembers less of the heap and of the
\* trail than the next: so HB is the heap top of the current one, and what was
\* trailed before a choice point lies in the heap it goes back to (code without
\* cuts; machine.go, HB and ChoicePoint).
ChoicesNest ==
  /\ B = Len(choicePoints) - 1
  /\ HB = IF B < 0 THEN 0 ELSE choicePoints[B + 1].H
  /\ \A k \in 1 .. Len(choicePoints) :
       /\ choicePoints[k].B = k - 2
       /\ choicePoints[k].H <= H
       /\ choicePoints[k].TR <= TR
       /\ \A j \in 0 .. choicePoints[k].TR - 1 : Trail[j] < choicePoints[k].H
       /\ \A j \in 1 .. k : /\ choicePoints[j].H <= choicePoints[k].H
                            /\ choicePoints[j].TR <= choicePoints[k].TR

\* A cell that refers to the heap refers to a block that is there: to a cell,
\* to a functor cell with its arguments, or to the two cells of a pair.
Lands(c) ==
  CASE c.tag = TagREF -> c.val < H
    [] c.tag = TagSTR -> /\ c.val < H
                         /\ Heap[c.val].tag = TagFUN
                         /\ c.val + prog.Arity[Heap[c.val].val + 1] < H
    [] c.tag = TagLIS -> c.val + 1 < H
    [] OTHER -> TRUE

Calls == Ready /\ Instr.Op \in {"CALL", "EXECUTE", "PROCEED"}

\* Compiled code completes what it builds before control leaves a clause: no
\* block is left short (of the cells UNIFY_VOID pushes in WRITE mode, say), and
\* a variable refers to an older one only, so that cutting the heap back to an
\* older top leaves none dangling.
ClosedAtCalls ==
  Calls => \A k \in 0 .. H - 1 :
             Lands(Heap[k]) /\ (IsREF(Heap[k]) => Heap[k].val <= k)

ReadRegs(i) ==
  CASE i.Op \in {"SET_VALUE", "UNIFY_VALUE", "PUT_VALUE", "PUT_UNSAFE_VALUE",
                 "GET_LIST"} -> {i.Arg1}
    [] i.Op \in {"GET_STRUCTURE", "GET_CONSTANT", "GET_VARIABLE"} -> {i.Arg2}
    [] i.Op = "GET_VALUE" -> {i.Arg1, i.Arg2}
    [] i.Op \in {"CALL", "EXECUTE"} -> 0 .. i.Arg2 - 1
    [] OTHER -> {}

\* Backtracking cuts the heap back but restores only the argument registers,
\* and Y slots not at all: compiled code never reads a register that was left
\* pointing above the heap top or into a block not yet built.
NoDanglingRead == Ready => \A r \in ReadRegs(Instr) : Lands(GetReg(r))

\* All cells of the heap and those being unified refer to what is there.
Whole ==
  /\ \A a \in 0 .. H - 1 : Lands(Heap[a])
  /\ \A k \in 1 .. Len(pdl) : Lands(pdl[k])

\* Compiled code unifies terms that are complete: nothing is compared while a
\* block is being filled, and no argument, slot or subterm is compared that
\* backtracking has cut off.
UnifiesWhole == Unifying => Whole

\* How many cells the instruction being fetched pushes.
Pushes(i) ==
  CASE i.Op \in PushesOne -> 1
    [] i.Op \in UnifiesOne /\ Mode = "WRITE" -> 1
    [] i.Op \in {"SET_VOID", "ALLOCATE"} -> i.Arg1
    [] i.Op = "UNIFY_VOID" /\ Mode = "WRITE" -> i.Arg1
    [] OTHER -> 0

\* The arrays and the register file of NewWAM, or memory, are used up, while an
\* instruction is fetched, dereferences, or unifies.
FetchAtLimit ==
  /\ InCode /\ chase = <<>> /\ Len(pdl) < 2
  /\ \/ ~Room(Pushes(Instr))
     \/ Instr.Op \in RegArg1 /\ Instr.Arg1 >= NumXRegs
     \/ Instr.Op \in RegArg2 /\ Instr.Arg2 >= NumXRegs
     \/ Instr.Op = "ALLOCATE" /\ Len(envFrames) >= MaxStack
     \/ Instr.Op = "TRY_ME_ELSE" /\ Len(choicePoints) >= MaxStack
ChaseAtLimit == Len(chase) = 1 /\ (~Room(1) \/ TR >= TrailSize)
UnifyAtLimit ==
  /\ Len(pdl) >= 2
  /\ \/ TR >= TrailSize
     \/ BothLIS /\ Len(Rest) + 4 > MaxStack
     \/ BothSTR /\ Len(Rest) + 2 * prog.Arity[Heap[D1.val].val + 1] > MaxStack

\* Go panics on compiled code only for lack of space: never because a cell, a
\* register or a label refers to what is not there, a slot is sought in a frame
\* that has none, or a clause takes back a choice point that is gone.
PanicsAtLimits == panic => FetchAtLimit \/ ChaseAtLimit \/ UnifyAtLimit

\* From a variable deref comes to no newer one, nor to the same.
Descends(c, d) == IsREF(c) /\ IsREF(d) => d.val < c.val

\* Every iteration of deref's loop (heap.go) that follows a variable to another
\* comes to an older one, although binding, unifying and backtracking have
\* written the cells it passes in any order: the loop ends, with no occurs check.
DerefDescends ==
  [][ /\ ChaseStep => Descends(chase[1], chase'[1])
      /\ UnifyDeref => \A k \in DOMAIN pdl : pdl'[k] = pdl[k] \/ Descends(pdl[k], pdl'[k]) ]_vars

-----------------------------------------------------------------------------
(* What comments and the README say, and the code does not do. *)

\* "B int // previous choice point index" (machine.go): to pop a choice point
\* is to return to the one that was current when it was pushed.
PopsToPrevious ==
  [][Len(choicePoints') < Len(choicePoints) => B' = choicePoints[B + 1].B]_vars

\* "EXECUTE combines CALL + DEALLOCATE so tail-recursive predicates run in
\* constant stack space" (README): the stack of frames only grows when the
\* frame on its top is in use, by the current clause or by a choice point.
StackIsReused ==
  [][ Len(envFrames') > Len(envFrames) =>
        Len(envFrames) - 1 \in {E} \cup {choicePoints[k].CE : k \in 1 .. B + 1} ]_vars
=============================================================================
