----------------------------- MODULE WAMProofs -----------------------------
(***************************************************************************)
(* Type correctness of the machine, for every heap and trail size and      *)
(* every set of programs: no step leaves the machine with an               *)
(* ill-formed cell, frame or choice point, or with an index outside the    *)
(* stack it points into.  One lemma per group of instructions.             *)
(***************************************************************************)
EXTENDS WAM, SequenceTheorems, WellFoundedInduction, TLAPS

\* Reinterpreting an operand word as a cell gives a cell (cell.go).
LEMMA CellOfType == ASSUME NEW n \in Int PROVE CellOf(n) \in Cell
<1>1. n % 8 \in 0 .. 7
  OBVIOUS
<1>2. (n \div 8) \in Int
  OBVIOUS
<1>3. \A m \in Int : m % ValueSpace \in Nat
  BY ValueSpaceAssumption
<1> QED BY <1>1, <1>2, <1>3 DEF CellOf, Cell

\* The instruction P points at is an instruction.
LEMMA Fetched == ASSUME TypeOK, InCode PROVE Instr \in Instruction
  BY DEF TypeOK, ControlOK, IsProgram, InCode, Instr

\* getReg of an existing register yields a cell.
LEMMA GetRegType ==
  ASSUME FramesOK, NEW r \in Int, IsReg(r) PROVE GetReg(r) \in Cell
<1>1. CASE r >= 0
  BY <1>1 DEF FramesOK, IsReg, GetReg, XRegs
<1>2. CASE r < 0
  <2>1. -r \in 1 .. Len(envFrames[E + 1].Y) /\ E >= 0
    BY <1>2 DEF IsReg, XRegs
  <2>2. envFrames[E + 1] \in Frame
    BY <2>1 DEF FramesOK
  <2>3. envFrames[E + 1].Y \in Seq(Cell)
    BY <2>2 DEF Frame
  <2>4. envFrames[E + 1].Y[-r] \in Cell
    BY <2>1, <2>3
  <2> QED BY <1>2, <2>4 DEF GetReg
<1> QED BY <1>1, <1>2

\* X and the Y slots change, the shape of the frame stack does not.
RegsKept ==
  /\ X' \in [XRegs -> Cell]
  /\ envFrames' \in Seq(Frame)
  /\ Len(envFrames') = Len(envFrames)
  /\ \A k \in 1 .. Len(envFrames) : envFrames'[k].CE = envFrames[k].CE

\* setReg writes a cell and leaves the shape of the frame stack.
LEMMA SetRegsType ==
  ASSUME FramesOK, NEW rs \in SUBSET Int, NEW c \in Cell, SetRegs(rs, c)
  PROVE  RegsKept
<1> DEFINE Y == envFrames[E + 1].Y
           newY == [k \in 1 .. Len(Y) |-> IF -k \in rs THEN c ELSE Y[k]]
<1>1. X' \in [XRegs -> Cell]
  BY DEF FramesOK, SetRegs
<1>2. CASE \A r \in rs : r >= 0
  <2>1. envFrames' = envFrames
    BY <1>2 DEF SetRegs
  <2> QED BY <1>1, <2>1 DEF FramesOK, RegsKept
<1>3. CASE (\E r \in rs : r < 0) /\ E = -1
  <2>1. envFrames' = envFrames
    BY <1>3 DEF SetRegs, FramesOK
  <2> QED BY <1>1, <2>1 DEF FramesOK, RegsKept
<1>4. CASE (\E r \in rs : r < 0) /\ E # -1
  <2>1. E >= 0 /\ E + 1 \in 1 .. Len(envFrames)
    BY <1>4 DEF FramesOK
  <2>2. envFrames[E + 1] \in Frame
    BY <2>1 DEF FramesOK
  <2>3. Y \in Seq(Cell)
    BY <2>2 DEF Frame
  <2>4. newY \in Seq(Cell)
    BY <2>3
  <2>5. envFrames' = [envFrames EXCEPT ![E + 1].Y = newY]
    BY <1>4 DEF SetRegs
  <2>6. [envFrames[E + 1] EXCEPT !.Y = newY] \in Frame
    BY <2>2, <2>4 DEF Frame
  <2>7. envFrames' = [envFrames EXCEPT ![E + 1] = [envFrames[E + 1] EXCEPT !.Y = newY]]
    BY <2>5
  <2>8. envFrames' \in Seq(Frame) /\ Len(envFrames') = Len(envFrames)
    BY <2>1, <2>6, <2>7 DEF FramesOK
  <2>9. \A k \in 1 .. Len(envFrames) : envFrames'[k].CE = envFrames[k].CE
    BY <2>1, <2>2, <2>7 DEF FramesOK, Frame
  <2> QED BY <1>1, <2>8, <2>9 DEF RegsKept
<1> QED BY <1>2, <1>3, <1>4

\* Leaving the registers alone keeps them, too.
LEMMA SameRegs ==
  ASSUME FramesOK, UNCHANGED regVars PROVE RegsKept
  BY DEF FramesOK, RegsKept, regVars

\* push keeps the heap a heap, as long as there is room.
LEMMA PushType ==
  ASSUME HeapOK, NEW cs \in Seq(Cell), Room(Len(cs)), Push(cs)
  PROVE  HeapOK'
  BY SizesAssumption DEF HeapOK, Room, Push, Pushed, Addr

\* n fresh self-references are n cells.
LEMMA NewVarsType ==
  ASSUME HeapOK, NEW n \in Nat
  PROVE  NewVars(n) \in Seq(Cell) /\ Len(NewVars(n)) = n
<1>1. \A k \in 1 .. n : REF(H + k - 1) \in Cell
  BY DEF HeapOK, REF, Cell, TagREF
<1> QED BY <1>1 DEF NewVars

\* Frames and choice points keep their types when only registers changed.
LEMMA KeptFrames ==
  ASSUME TypeOK, RegsKept, UNCHANGED frameVars PROVE FramesOK'
  BY DEF TypeOK, FramesOK, RegsKept, frameVars
\* The same for the choice points.
LEMMA KeptChoices ==
  ASSUME TypeOK, RegsKept, UNCHANGED choiceVars PROVE ChoicesOK'
  BY DEF TypeOK, ChoicesOK, RegsKept, choiceVars

\* A DataStep keeps every type once heap and registers do.
LEMMA DataStepType ==
  ASSUME TypeOK, NEW op, DataStep(op), HeapOK', RegsKept PROVE TypeOK'
<1> USE DEF DataStep
<1>1. TrailOK'
  BY DEF TypeOK, TrailOK, trailVars
<1>2. FramesOK' /\ ChoicesOK'
  BY KeptFrames, KeptChoices
<1>3. LoopsOK'
  BY DEF At, Ready, TypeOK, LoopsOK, loopVars, readVars, status
<1>4. ControlOK'
  BY DEF At, Ready, InCode, TypeOK, ControlOK, status
<1> QED BY <1>1, <1>2, <1>3, <1>4 DEF TypeOK

\* What an instruction finds when it is fetched.
LEMMA AtFacts ==
  ASSUME TypeOK, NEW op, At(op)
  PROVE  /\ Instr \in Instruction /\ Instr.Op = op
         /\ Instr.Arg1 \in Int /\ Instr.Arg2 \in Int
         /\ op \in NatArg1 => Instr.Arg1 \in Nat
         /\ op \in RegArg1 => IsReg(Instr.Arg1)
         /\ op \in RegArg2 => IsReg(Instr.Arg2)
         /\ op \in PushesOne => Room(1)
         /\ TypeOK /\ HeapOK /\ FramesOK
         /\ P \in Nat /\ P + 1 \in Nat /\ P + 1 \in 1 .. Len(prog.Code)
<1>1. Instr \in Instruction /\ Instr.Op = op /\ InRange(Instr)
  BY Fetched DEF At, Ready
<1>2. P \in Nat /\ P + 1 \in Nat /\ P + 1 \in 1 .. Len(prog.Code)
  BY DEF At, Ready, InCode, TypeOK, ControlOK, IsProgram
<1> QED BY <1>1, <1>2 DEF Instruction, InRange, TypeOK

\* A push of one cell.
LEMMA PushOneType ==
  ASSUME HeapOK, NEW c \in Cell, Room(1), Push(<<c>>) PROVE HeapOK'
<1>1. <<c>> \in Seq(Cell) /\ Len(<<c>>) = 1
  OBVIOUS
<1> QED BY <1>1, PushType

\* One fresh variable is the self-reference at the heap top.
LEMMA NewVarsOne ==
  ASSUME HeapOK PROVE NewVars(1) = <<REF(H)>> /\ REF(H) \in Cell
  BY DEF NewVars, HeapOK, REF, Cell, TagREF

\* The tagged pointers of cell.go are cells.
LEMMA PointerTypes ==
  ASSUME NEW n \in Nat
  PROVE  STR(n) \in Cell /\ LIS(n) \in Cell /\ FUN(n) \in Cell /\ REF(n) \in Cell
  BY DEF STR, LIS, FUN, REF, Cell, TagSTR, TagLIS, TagFUN, TagREF

\* PUT_*, SET_* and the writing UNIFY_* keep the types.
LEMMA BuildType == ASSUME TypeOK, Build PROVE TypeOK'
<1> USE DEF NatArg1, RegArg1, RegArg2, PushesOne
<1>0. H \in Nat /\ H + 1 \in Nat /\ HeapOK /\ FramesOK
  BY SizesAssumption DEF TypeOK, HeapOK
<1>1. CASE PutStructure
  <2>1. At("PUT_STRUCTURE")
    BY <1>1 DEF PutStructure, DataStep
  <2>2. FUN(Instr.Arg1) \in Cell /\ STR(H) \in Cell
    BY <1>0, <2>1, AtFacts, PointerTypes
  <2>3. HeapOK'
    BY <1>1, <2>1, <2>2, AtFacts, PushOneType DEF PutStructure
  <2>4. RegsKept
    BY <1>1, <2>1, <2>2, AtFacts, SetRegsType DEF PutStructure
  <2> QED BY <1>1, <2>3, <2>4, DataStepType DEF PutStructure
<1>2. CASE SetVariable
  <2>1. At("SET_VARIABLE")
    BY <1>2 DEF SetVariable, DataStep
  <2>3. HeapOK'
    BY <1>0, <1>2, <2>1, AtFacts, PushOneType, NewVarsOne DEF SetVariable
  <2>4. RegsKept
    BY <1>0, <1>2, <2>1, AtFacts, NewVarsOne, SetRegsType DEF SetVariable
  <2> QED BY <1>2, <2>3, <2>4, DataStepType DEF SetVariable
<1>3. CASE SetValue
  <2>1. At("SET_VALUE")
    BY <1>3 DEF SetValue, DataStep
  <2>2. GetReg(Instr.Arg1) \in Cell
    BY <2>1, AtFacts, GetRegType
  <2>3. HeapOK'
    BY <1>3, <2>1, <2>2, AtFacts, PushOneType DEF SetValue
  <2> QED BY <1>0, <1>3, <2>3, SameRegs, DataStepType DEF SetValue
<1>4. CASE SetConstant
  <2>1. At("SET_CONSTANT")
    BY <1>4 DEF SetConstant, DataStep
  <2>3. HeapOK'
    BY <1>4, <2>1, AtFacts, CellOfType, PushOneType DEF SetConstant
  <2> QED BY <1>0, <1>4, <2>3, SameRegs, DataStepType DEF SetConstant
<1>5. CASE SetList
  <2>1. At("SET_LIST")
    BY <1>5 DEF SetList, DataStep
  <2>3. HeapOK'
    BY <1>0, <1>5, <2>1, AtFacts, PointerTypes, PushOneType DEF SetList
  <2> QED BY <1>0, <1>5, <2>3, SameRegs, DataStepType DEF SetList
<1>6. CASE SetVoid
  <2>1. At("SET_VOID")
    BY <1>6 DEF SetVoid, DataStep
  <2>2. Room(Instr.Arg1)
    BY <2>1, AtFacts DEF At, InRange
  <2>3. HeapOK'
    BY <1>0, <1>6, <2>1, <2>2, AtFacts, NewVarsType, PushType DEF SetVoid
  <2> QED BY <1>0, <1>6, <2>3, SameRegs, DataStepType DEF SetVoid
<1>7. CASE PutVariable
  <2>1. At("PUT_VARIABLE")
    BY <1>7 DEF PutVariable, DataStep
  <2>3. HeapOK'
    BY <1>0, <1>7, <2>1, AtFacts, PushOneType, NewVarsOne DEF PutVariable
  <2>4. RegsKept
    BY <1>0, <1>7, <2>1, AtFacts, NewVarsOne, SetRegsType DEF PutVariable
  <2> QED BY <1>7, <2>3, <2>4, DataStepType DEF PutVariable
<1>8. CASE PutValue
  <2>1. At("PUT_VALUE")
    BY <1>8 DEF PutValue, DataStep
  <2>3. RegsKept
    BY <1>8, <2>1, AtFacts, GetRegType, SetRegsType DEF PutValue
  <2> QED BY <1>0, <1>8, <2>3, DataStepType DEF PutValue, HeapOK, heapVars
<1>9. CASE PutConstant
  <2>1. At("PUT_CONSTANT")
    BY <1>9 DEF PutConstant, DataStep
  <2>3. RegsKept
    BY <1>9, <2>1, AtFacts, CellOfType, SetRegsType DEF PutConstant
  <2> QED BY <1>0, <1>9, <2>3, DataStepType DEF PutConstant, HeapOK, heapVars
<1>10. CASE PutList
  <2>1. At("PUT_LIST")
    BY <1>10 DEF PutList, DataStep
  <2>3. RegsKept
    BY <1>0, <1>10, <2>1, AtFacts, PointerTypes, SetRegsType DEF PutList
  <2> QED BY <1>0, <1>10, <2>3, DataStepType DEF PutList, HeapOK, heapVars
<1>11. CASE GetVariable
  <2>1. At("GET_VARIABLE")
    BY <1>11 DEF GetVariable, DataStep
  <2>3. RegsKept
    BY <1>11, <2>1, AtFacts, GetRegType, SetRegsType DEF GetVariable
  <2> QED BY <1>0, <1>11, <2>3, DataStepType DEF GetVariable, HeapOK, heapVars
<1>12. CASE GetLevel
  <2>1. At("GET_LEVEL")
    BY <1>12 DEF GetLevel, DataStep
  <2>2. CellOf(B + 1) \in Cell
    BY CellOfType DEF TypeOK, ChoicesOK
  <2>3. RegsKept
    BY <1>12, <2>1, <2>2, AtFacts, SetRegsType DEF GetLevel
  <2> QED BY <1>0, <1>12, <2>3, DataStepType DEF GetLevel, HeapOK, heapVars
<1>13. CASE UnifyWrite
  <2>1. CASE DataStep("UNIFY_VARIABLE")
    <3>1. At("UNIFY_VARIABLE") /\ Instr.Op = "UNIFY_VARIABLE"
      BY <2>1, AtFacts DEF DataStep
    <3>2. Room(1) /\ Push(NewVars(1)) /\ SetRegs({Instr.Arg1}, REF(H))
      BY <1>13, <2>1, <3>1 DEF UnifyWrite, DataStep, At, InRange, UnifiesOne
    <3>3. HeapOK'
      BY <1>0, <3>2, PushOneType, NewVarsOne
    <3>4. RegsKept
      BY <1>0, <3>1, <3>2, AtFacts, NewVarsOne, SetRegsType
    <3> QED BY <2>1, <3>3, <3>4, DataStepType
  <2>2. CASE DataStep("UNIFY_VALUE")
    <3>1. At("UNIFY_VALUE") /\ Instr.Op = "UNIFY_VALUE"
      BY <2>2, AtFacts DEF DataStep
    <3>2. Room(1) /\ Push(<<GetReg(Instr.Arg1)>>) /\ UNCHANGED regVars
      BY <1>13, <2>2, <3>1 DEF UnifyWrite, DataStep, At, InRange, UnifiesOne
    <3>3. HeapOK'
      BY <1>0, <3>1, <3>2, AtFacts, GetRegType, PushOneType
    <3> QED BY <1>0, <2>2, <3>2, <3>3, SameRegs, DataStepType
  <2>3. CASE DataStep("UNIFY_CONSTANT")
    <3>1. At("UNIFY_CONSTANT") /\ Instr.Op = "UNIFY_CONSTANT"
      BY <2>3, AtFacts DEF DataStep
    <3>2. Room(1) /\ Push(<<CellOf(Instr.Arg1)>>) /\ UNCHANGED regVars
      BY <1>13, <2>3, <3>1 DEF UnifyWrite, DataStep, At, InRange, UnifiesOne
    <3>3. HeapOK'
      BY <1>0, <3>1, <3>2, AtFacts, CellOfType, PushOneType
    <3> QED BY <1>0, <2>3, <3>2, <3>3, SameRegs, DataStepType
  <2>4. CASE DataStep("UNIFY_VOID")
    <3>1. At("UNIFY_VOID") /\ Instr.Op = "UNIFY_VOID"
      BY <2>4, AtFacts DEF DataStep
    <3>2. Room(Instr.Arg1) /\ Push(NewVars(Instr.Arg1)) /\ UNCHANGED regVars
      BY <1>13, <2>4, <3>1 DEF UnifyWrite, DataStep, At, InRange
    <3>3. HeapOK'
      BY <1>0, <3>1, <3>2, AtFacts, NewVarsType, PushType
    <3> QED BY <1>0, <2>4, <3>2, <3>3, SameRegs, DataStepType
  <2> QED BY <1>13, <2>1, <2>2, <2>3, <2>4 DEF UnifyWrite
<1> QED BY <1>1, <1>2, <1>3, <1>4, <1>5, <1>6, <1>7, <1>8, <1>9, <1>10, <1>11,
           <1>12, <1>13 DEF Build

\* ReadStep keeps everything but S, P, and what the instruction says.
LEMMA ReadStepType ==
  ASSUME TypeOK, NEW op, NEW n \in Nat, ReadStep(op, n), RegsKept,
         pdl' \in Seq(Cell)
  PROVE  TypeOK'
<1> USE DEF ReadStep
<1>1. HeapOK' /\ TrailOK'
  BY DEF TypeOK, HeapOK, heapVars, TrailOK, trailVars
<1>2. FramesOK' /\ ChoicesOK'
  BY KeptFrames, KeptChoices
<1>3. LoopsOK'
  BY DEF At, Ready, TypeOK, LoopsOK, status
<1>4. ControlOK'
  BY DEF At, Ready, InCode, TypeOK, ControlOK, status
<1> QED BY <1>1, <1>2, <1>3, <1>4 DEF TypeOK

\* In READ mode the cell at S is there.
LEMMA ReadCellType ==
  ASSUME TypeOK, NEW op \in UnifiesOne, At(op), Mode = "READ"
  PROVE  Heap[S] \in Cell
<1>1. S < HeapSize
  BY AtFacts DEF At, InRange, UnifiesOne
<1> QED BY <1>1, SizesAssumption DEF TypeOK, LoopsOK, HeapOK, Addr

\* A step that changes only P, the PDL and the dereferenced cell.
LEMMA FetchOnlyType ==
  ASSUME TypeOK, InCode, ~Fail, P' = P + 1, chase' \in Seq(Cell), Len(chase') <= 1,
         pdl' \in Seq(Cell), chase' # <<>> => Len(pdl') < 2,
         UNCHANGED <<heapVars, trailVars, regVars, frameVars, choiceVars, readVars, status>>
  PROVE  TypeOK'
<1>1. HeapOK' /\ TrailOK'
  BY DEF TypeOK, HeapOK, heapVars, TrailOK, trailVars
<1>2. FramesOK' /\ ChoicesOK'
  BY SameRegs, KeptFrames, KeptChoices DEF TypeOK
<1>3. LoopsOK'
  BY DEF InCode, TypeOK, LoopsOK, ControlOK, IsProgram, readVars, status
<1>4. ControlOK'
  BY DEF InCode, TypeOK, ControlOK, status
<1> QED BY <1>1, <1>2, <1>3, <1>4 DEF TypeOK

\* A step within a loop: P stays.
LEMMA LoopStepType ==
  ASSUME TypeOK, chase' \in Seq(Cell), Len(chase') <= 1,
         chase' # <<>> => chase # <<>> /\ ~Fail' /\ Len(pdl') < 2,
         pdl' \in Seq(Cell), Fail' \in BOOLEAN,
         UNCHANGED <<heapVars, trailVars, regVars, frameVars, choiceVars, readVars,
                     P, panic, prog>>
  PROVE  TypeOK'
<1>1. HeapOK' /\ TrailOK'
  BY DEF TypeOK, HeapOK, heapVars, TrailOK, trailVars
<1>2. FramesOK' /\ ChoicesOK'
  BY SameRegs, KeptFrames, KeptChoices DEF TypeOK
<1>3. LoopsOK' /\ ControlOK'
  BY DEF TypeOK, LoopsOK, ControlOK, readVars
<1> QED BY <1>1, <1>2, <1>3 DEF TypeOK

\* A binding of one of two cells writes a cell and trails an address.
LEMMA BindType ==
  ASSUME NEW heap \in [Addr -> Cell], TrailOK, HB \in Nat,
         NEW a \in Cell, NEW b \in Cell,
         Bind(heap, a, b), CanBind(a, b)
  PROVE  Heap' \in [Addr -> Cell] /\ TrailOK'
<1>1. BoundTo(a, b) \in Cell /\ BoundAddr(a, b) \in Nat
  BY DEF BoundTo, BoundAddr, Cell
<1>2. Heap' \in [Addr -> Cell]
  BY <1>1 DEF Bind
<1>3. TrailOK'
  BY SMTT(30), <1>1, SizesAssumption DEF Bind, CanBind, TrailIfNeeded, TrailOK, trailVars
<1> QED BY <1>2, <1>3

\* The instruction behind a dereferencing loop, and its operands.
LEMMA ChasedFacts ==
  ASSUME TypeOK, NEW op, Chased(op)
  PROVE  /\ Pending \in Instruction /\ Pending.Op = op
         /\ chase[1] \in Cell
         /\ Pending.Arg1 \in Int /\ Pending.Arg2 \in Int
         /\ op \in NatArg1 => Pending.Arg1 \in Nat
         /\ chase' = <<>>
<1>1. Len(chase) = 1 /\ chase # <<>>
  BY DEF Chased, Chasing
<1>2. Pending \in Instruction /\ Pending.Op = op
  BY <1>1 DEF Chased, Pending, TypeOK, LoopsOK, ControlOK, IsProgram
<1>3. chase[1] \in Cell
  BY <1>1 DEF TypeOK, LoopsOK
<1> QED BY <1>2, <1>3 DEF Instruction, Chased

\* After the loop only these have to be shown.
LEMMA ChasedType ==
  ASSUME TypeOK, NEW op, Chased(op), HeapOK', TrailOK', RegsKept,
         S' \in Nat, Mode' \in {"READ", "WRITE"}, Fail' \in BOOLEAN
  PROVE  TypeOK'
<1> USE DEF Chased
<1>1. FramesOK' /\ ChoicesOK'
  BY KeptFrames, KeptChoices
<1>2. LoopsOK' /\ ControlOK'
  BY DEF TypeOK, LoopsOK, ControlOK
<1> QED BY <1>1, <1>2 DEF TypeOK

\* A failed match keeps the types.
LEMMA MismatchType ==
  ASSUME TypeOK, NEW op, Chased(op), Mismatch PROVE TypeOK'
<1>1. HeapOK' /\ TrailOK' /\ RegsKept
  BY SameRegs DEF Mismatch, TypeOK, HeapOK, TrailOK, heapVars, trailVars
<1>2. S' \in Nat /\ Mode' \in {"READ", "WRITE"} /\ Fail' \in BOOLEAN
  BY DEF Mismatch, TypeOK, LoopsOK, readVars
<1> QED BY <1>1, <1>2, ChasedType

\* Turning to read mode keeps the types.
LEMMA ReadFromType ==
  ASSUME TypeOK, NEW op, Chased(op), NEW at \in Nat, ReadFrom(at) PROVE TypeOK'
<1>1. HeapOK' /\ TrailOK' /\ RegsKept
  BY SameRegs DEF ReadFrom, TypeOK, HeapOK, TrailOK, heapVars, trailVars
<1>2. S' \in Nat /\ Mode' \in {"READ", "WRITE"} /\ Fail' \in BOOLEAN
  BY DEF ReadFrom, TypeOK, ControlOK
<1> QED BY <1>1, <1>2, ChasedType

\* The heap with cells pushed on it is still a heap.
LEMMA PushedType ==
  ASSUME HeapOK, NEW cs \in Seq(Cell) PROVE Pushed(cs) \in [Addr -> Cell]
  BY SizesAssumption DEF HeapOK, Pushed, Addr

\* GET_*, the reading UNIFY_* and deref keep the types.
LEMMA MatchType == ASSUME TypeOK, Match PROVE TypeOK'
<1> USE DEF NatArg1, RegArg1, RegArg2, UnifiesOne
<1>0. H \in Nat /\ HB \in Nat /\ HeapOK /\ FramesOK /\ TrailOK
  BY SizesAssumption DEF TypeOK, HeapOK, ChoicesOK
<1>1. CASE UnifyVariableRead
  <2>1. At("UNIFY_VARIABLE") /\ Mode = "READ"
    BY <1>1 DEF UnifyVariableRead, ReadStep
  <2>2. Heap[S] \in Cell
    BY <2>1, ReadCellType
  <2>3. RegsKept
    BY <1>1, <2>1, <2>2, AtFacts, SetRegsType DEF UnifyVariableRead
  <2>4. pdl' \in Seq(Cell)
    BY <1>1 DEF UnifyVariableRead, TypeOK, LoopsOK
  <2> QED BY <1>1, <2>3, <2>4, ReadStepType DEF UnifyVariableRead
<1>2. CASE UnifyVoidRead
  <2>1. Instr.Arg1 \in Nat
    BY <1>2, AtFacts DEF UnifyVoidRead, ReadStep
  <2>2. pdl' \in Seq(Cell) /\ RegsKept
    BY <1>0, <1>2, SameRegs DEF UnifyVoidRead, TypeOK, LoopsOK, regVars
  <2> QED BY <1>2, <2>1, <2>2, ReadStepType DEF UnifyVoidRead
<1>3. CASE UnifyRead
  <2>1. RegsKept
    BY <1>0, <1>3, SameRegs DEF UnifyRead
  <2>2. CASE ReadStep("UNIFY_VALUE", 1) /\ pdl' = <<GetReg(Instr.Arg1), Heap[S]>>
    <3>1. GetReg(Instr.Arg1) \in Cell /\ Heap[S] \in Cell
      BY <1>0, <2>2, AtFacts, GetRegType, ReadCellType DEF ReadStep
    <3> QED BY <2>1, <2>2, <3>1, ReadStepType
  <2>3. CASE ReadStep("UNIFY_CONSTANT", 1) /\ pdl' = <<CellOf(Instr.Arg1), Heap[S]>>
    <3>1. CellOf(Instr.Arg1) \in Cell /\ Heap[S] \in Cell
      BY <2>3, AtFacts, CellOfType, ReadCellType DEF ReadStep
    <3> QED BY <2>1, <2>3, <3>1, ReadStepType
  <2> QED BY <1>3, <2>2, <2>3 DEF UnifyRead
<1>4. CASE GetUnify
  <2>1. chase' \in Seq(Cell) /\ Len(chase') <= 1
    BY <1>4 DEF GetUnify, TypeOK, LoopsOK
  <2>2. InCode /\ ~Fail /\ chase' = <<>>
    BY <1>4 DEF GetUnify, At, Ready
  <2>3. pdl' \in Seq(Cell)
    <3>1. CASE At("GET_VALUE") /\ pdl' = <<GetReg(Instr.Arg1), GetReg(Instr.Arg2)>>
      <4>1. GetReg(Instr.Arg1) \in Cell /\ GetReg(Instr.Arg2) \in Cell
        BY <3>1, AtFacts, GetRegType
      <4> QED BY <3>1, <4>1
    <3>2. CASE At("GET_CONSTANT") /\ pdl' = <<CellOf(Instr.Arg1), GetReg(Instr.Arg2)>>
      <4>1. CellOf(Instr.Arg1) \in Cell /\ GetReg(Instr.Arg2) \in Cell
        BY <3>2, AtFacts, CellOfType, GetRegType
      <4> QED BY <3>2, <4>1
    <3> QED BY <1>4, <3>1, <3>2 DEF GetUnify
  <2> QED BY <1>4, <2>1, <2>2, <2>3, FetchOnlyType DEF GetUnify
<1>5. CASE StartChase
  <2>1. pdl' \in Seq(Cell) /\ pdl' = pdl
    BY <1>5 DEF StartChase, TypeOK, LoopsOK
  <2>2. InCode /\ ~Fail /\ Len(pdl) < 2
    BY <1>5 DEF StartChase, At, Ready
  <2>3. \E r \in Int : IsReg(r) /\ chase' = <<GetReg(r)>>
    BY <1>5, AtFacts DEF StartChase
  <2>4. chase' \in Seq(Cell) /\ Len(chase') <= 1
    BY <1>0, <2>3, GetRegType
  <2> QED BY <1>5, <2>1, <2>2, <2>4, FetchOnlyType DEF StartChase
<1>6. CASE ChaseStep
  <2>1. chase[1] \in Cell /\ chase[1].val \in Addr /\ chase # <<>>
    <3>0. Len(chase) = 1 /\ chase # <<>>
      BY <1>6 DEF ChaseStep, Chasing
    <3>1. chase[1] \in Cell /\ chase # <<>>
      BY <3>0 DEF TypeOK, LoopsOK
    <3>2. chase[1].val \in Nat /\ chase[1].val < HeapSize
      BY <1>6, <3>1 DEF ChaseStep, DerefInRange, Resolved, Cell
    <3> QED BY <3>1, <3>2, SizesAssumption DEF Addr
  <2>2. chase' \in Seq(Cell) /\ Len(chase') <= 1
    BY <1>0, <1>6, <2>1 DEF ChaseStep, HeapOK
  <2> QED BY <1>6, <2>1, <2>2, LoopStepType DEF ChaseStep, TypeOK, LoopsOK, ControlOK, status
<1>7. CASE GetStructure
  <2> DEFINE c == chase[1]
  <2>0. /\ Chased("GET_STRUCTURE") /\ c \in Cell /\ Pending.Arg1 \in Nat
    BY <1>7, ChasedFacts DEF GetStructure
  <2>1. CASE c.tag = TagREF
    <3>1. /\ CanBind(c, STR(H)) /\ H' = H + 1 /\ Room(1) /\ Mode' = "WRITE"
          /\ Bind(Pushed(<<FUN(Pending.Arg1)>>), c, STR(H))
          /\ UNCHANGED <<regVars, S, Fail>>
      BY <1>7, <2>1 DEF GetStructure, TagREF, TagSTR
    <3>2. Pushed(<<FUN(Pending.Arg1)>>) \in [Addr -> Cell] /\ STR(H) \in Cell
      <4>1. FUN(Pending.Arg1) \in Cell /\ STR(H) \in Cell
        BY <1>0, <2>0, PointerTypes
      <4>2. <<FUN(Pending.Arg1)>> \in Seq(Cell)
        BY <4>1
      <4> QED BY <1>0, <4>1, <4>2, PushedType
    <3>3. Heap' \in [Addr -> Cell] /\ TrailOK'
      BY <1>0, <2>0, <3>1, <3>2, BindType
    <3>4. HeapOK'
      BY <3>1, <3>3, <1>0, SizesAssumption DEF HeapOK, Room
    <3>5. RegsKept /\ S' \in Nat /\ Fail' \in BOOLEAN
      BY <1>0, <3>1, SameRegs DEF TypeOK, LoopsOK, ControlOK
    <3> QED BY <2>0, <3>1, <3>3, <3>4, <3>5, ChasedType
  <2>2. CASE c.tag = TagSTR
    <3>1. (ReadFrom(c.val + 1) \/ Mismatch) /\ c.val + 1 \in Nat
      BY <1>7, <2>0, <2>2 DEF GetStructure, TagREF, TagSTR, Cell
    <3> QED BY <2>0, <3>1, ReadFromType, MismatchType
  <2>3. CASE c.tag # TagREF /\ c.tag # TagSTR
    <3>1. Mismatch
      BY <1>7, <2>3 DEF GetStructure
    <3> QED BY <2>0, <3>1, MismatchType
  <2> QED BY <2>1, <2>2, <2>3
<1>8. CASE GetList
  <2> DEFINE c == chase[1]
  <2>0. /\ Chased("GET_LIST") /\ c \in Cell
    BY <1>8, ChasedFacts DEF GetList
  <2>1. CASE c.tag = TagREF
    <3>1. /\ CanBind(c, LIS(H)) /\ Mode' = "WRITE"
          /\ Bind(Heap, c, LIS(H))
          /\ UNCHANGED <<H, regVars, S, Fail>>
      BY <1>8, <2>1 DEF GetList, TagREF, TagLIS
    <3>3. Heap' \in [Addr -> Cell] /\ TrailOK'
      BY <1>0, <2>0, <3>1, BindType, PointerTypes DEF HeapOK
    <3>4. HeapOK'
      BY <3>1, <3>3, <1>0 DEF HeapOK
    <3>5. RegsKept /\ S' \in Nat /\ Fail' \in BOOLEAN
      BY <1>0, <3>1, SameRegs DEF TypeOK, LoopsOK, ControlOK
    <3> QED BY <2>0, <3>1, <3>3, <3>4, <3>5, ChasedType
  <2>2. CASE c.tag = TagLIS
    <3>1. ReadFrom(c.val) /\ c.val \in Nat
      BY <1>8, <2>0, <2>2 DEF GetList, TagREF, TagLIS, Cell
    <3> QED BY <2>0, <3>1, ReadFromType
  <2>3. CASE c.tag # TagREF /\ c.tag # TagLIS
    <3>1. Mismatch
      BY <1>8, <2>3 DEF GetList
    <3> QED BY <2>0, <3>1, MismatchType
  <2> QED BY <2>1, <2>2, <2>3
<1>9. CASE PutUnsafeValue
  <2> DEFINE c == chase[1]
  <2>0. /\ Chased("PUT_UNSAFE_VALUE") /\ c \in Cell /\ Pending.Arg2 \in Int
        /\ UNCHANGED <<readVars, Fail>>
    BY <1>9, ChasedFacts DEF PutUnsafeValue
  <2>1. S' \in Nat /\ Mode' \in {"READ", "WRITE"} /\ Fail' \in BOOLEAN
    BY <2>0 DEF TypeOK, LoopsOK, ControlOK, readVars
  <2>2. CASE IsREF(c) /\ c.val >= HB
    <3>1. /\ CanBind(c, REF(H)) /\ H' = H + 1 /\ Room(1)
          /\ Bind(Pushed(NewVars(1)), c, REF(H))
          /\ SetRegs({Pending.Arg2}, REF(H))
      BY <1>9, <2>2 DEF PutUnsafeValue
    <3>2. Pushed(NewVars(1)) \in [Addr -> Cell] /\ REF(H) \in Cell
      BY <1>0, NewVarsType, NewVarsOne, PushedType
    <3>3. Heap' \in [Addr -> Cell] /\ TrailOK'
      BY <1>0, <2>0, <3>1, <3>2, BindType
    <3>4. HeapOK'
      BY <3>1, <3>3, <1>0, SizesAssumption DEF HeapOK, Room
    <3>5. RegsKept
      BY <1>0, <2>0, <3>1, <3>2, SetRegsType
    <3> QED BY <2>0, <2>1, <3>3, <3>4, <3>5, ChasedType
  <2>3. CASE ~(IsREF(c) /\ c.val >= HB)
    <3>1. SetRegs({Pending.Arg2}, c) /\ UNCHANGED <<heapVars, trailVars>>
      BY <1>9, <2>3 DEF PutUnsafeValue
    <3>2. HeapOK' /\ TrailOK' /\ RegsKept
      BY <1>0, <2>0, <3>1, SetRegsType DEF HeapOK, TrailOK, heapVars, trailVars
    <3> QED BY <2>0, <2>1, <3>2, ChasedType
  <2> QED BY <2>2, <2>3
<1> QED BY <1>1, <1>2, <1>3, <1>4, <1>5, <1>6, <1>7, <1>8, <1>9 DEF Match

\* The two cells unify looks at, and what is under them.
LEMMA PdlFacts ==
  ASSUME TypeOK, Unifying
  PROVE  /\ pdl \in Seq(Cell) /\ Len(pdl) >= 2
         /\ D1 \in Cell /\ D2 \in Cell /\ Rest \in Seq(Cell)
         /\ chase \in Seq(Cell) /\ Len(chase) <= 1 /\ chase = <<>>
         /\ Fail \in BOOLEAN /\ HeapOK
<1>1. pdl \in Seq(Cell) /\ Len(pdl) >= 2
  BY DEF Unifying, TypeOK, LoopsOK
<1>2. D1 \in Cell /\ D2 \in Cell
  BY <1>1 DEF D1, D2
<1>3. Rest \in Seq(Cell)
  BY <1>1 DEF Rest
<1> QED BY <1>1, <1>2, <1>3 DEF TypeOK, LoopsOK, ControlOK

\* The functor table holds arities.
LEMMA IsProgramArity ==
  ASSUME NEW p, IsProgram(p) PROVE p.Arity \in Seq(Nat)
  BY DEF IsProgram

\* The argument pairs unify pushes are cells, if they are on the heap.
LEMMA CellPairsType ==
  ASSUME HeapOK, NEW a1 \in Int, NEW a2 \in Int, NEW n \in Nat,
         a1 >= -1, a2 >= -1, a1 + n < HeapSize, a2 + n < HeapSize
  PROVE  CellPairs(a1, a2, n) \in Seq(Cell)
<1>1. ASSUME NEW k \in 1 .. 2 * n
      PROVE  IF k % 2 = 1 THEN a1 + (k + 1) \div 2 \in Addr ELSE a2 + k \div 2 \in Addr
  <2>1. CASE k % 2 = 1
    <3>1. (k + 1) \div 2 \in 1 .. n
      BY <2>1
    <3> QED BY <2>1, <3>1, SizesAssumption DEF Addr
  <2>2. CASE k % 2 # 1
    <3>1. k \div 2 \in 1 .. n
      BY <2>2
    <3> QED BY <2>2, <3>1, SizesAssumption DEF Addr
  <2> QED BY <2>1, <2>2
<1>2. \A k \in 1 .. 2 * n :
        (IF k % 2 = 1 THEN Heap[a1 + (k + 1) \div 2] ELSE Heap[a2 + k \div 2]) \in Cell
  BY <1>1 DEF HeapOK
<1> QED BY <1>2 DEF CellPairs

\* The loop of unify keeps the types.
LEMMA UnifyType == ASSUME TypeOK, Unify PROVE TypeOK'
<1>0. Unifying
  BY DEF Unify, UnifyDeref, UnifySame, UnifyBind, UnifyArgs, UnifyFail, Comparing
<1>1. CASE UnifyDeref
  <2>1. /\ pdl \in Seq(Cell) /\ Len(pdl) >= 2 /\ D1 \in Cell /\ D2 \in Cell
        /\ chase' \in Seq(Cell) /\ Len(chase') <= 1 /\ chase' = <<>> /\ HeapOK
    BY <1>0, <1>1, PdlFacts DEF UnifyDeref
  <2>2. \A c \in Cell : ~Resolved(c) /\ DerefInRange(c) => Heap[c.val] \in Cell
    BY <2>1, SizesAssumption DEF Resolved, DerefInRange, HeapOK, Cell, Addr
  <2>3. \E k \in 1 .. Len(pdl), c \in Cell : pdl' = [pdl EXCEPT ![k] = c]
    BY <1>1, <2>1, <2>2 DEF UnifyDeref
  <2>4. pdl' \in Seq(Cell)
    BY <2>1, <2>3
  <2> QED BY <1>1, <2>1, <2>4, LoopStepType DEF UnifyDeref, TypeOK, ControlOK, status
<1>2. CASE UnifySame
  BY <1>0, <1>2, PdlFacts, LoopStepType DEF UnifySame, status
<1>3. CASE UnifyBind
  <2>1. /\ D1 \in Cell /\ D2 \in Cell /\ pdl' \in Seq(Cell) /\ chase = <<>>
        /\ Bind(Heap, D1, D2) /\ CanBind(D1, D2)
        /\ UNCHANGED <<H, regVars, frameVars, choiceVars, readVars, chase, P, status>>
    BY <1>0, <1>3, PdlFacts DEF UnifyBind
  <2>2. HeapOK' /\ TrailOK'
    BY <2>1, BindType, SizesAssumption DEF TypeOK, HeapOK, ChoicesOK
  <2>3. FramesOK' /\ ChoicesOK'
    BY <2>1, SameRegs, KeptFrames, KeptChoices DEF TypeOK
  <2>4. LoopsOK' /\ ControlOK'
    BY Zenon, <2>1 DEF TypeOK, LoopsOK, ControlOK, readVars, status
  <2> QED BY <2>2, <2>3, <2>4 DEF TypeOK
<1>4. CASE UnifyArgs
  <2>1. /\ D1 \in Cell /\ D2 \in Cell /\ Rest \in Seq(Cell) /\ HeapOK
        /\ chase' \in Seq(Cell) /\ Len(chase') <= 1 /\ chase' = <<>>
        /\ Fail' \in BOOLEAN
    BY Zenon, <1>0, <1>4, PdlFacts DEF UnifyArgs, status
  <2>2. CASE /\ BothSTR /\ STRInRange /\ SameFunctor /\ ArityInRange
             /\ pdl' = Rest \o CellPairs(D1.val, D2.val, prog.Arity[Heap[D1.val].val + 1])
    <3>1. D1.val \in Addr /\ D2.val \in Nat
      <4>1. D1.val \in Nat /\ D2.val \in Nat
        BY <2>1 DEF Cell
      <4>2. D1.val < HeapSize
        BY <2>2 DEF STRInRange
      <4> QED BY <4>1, <4>2, SizesAssumption DEF Addr
    <3>2. Heap[D1.val] \in Cell
      BY <2>1, <3>1 DEF HeapOK
    <3> DEFINE f == Heap[D1.val].val
    <3>3. f \in Nat /\ prog.Arity \in Seq(Nat)
      BY SMTT(30), <3>2, IsProgramArity DEF Cell, TypeOK, ControlOK
    <3>4. /\ f < Len(prog.Arity)
          /\ D1.val + prog.Arity[f + 1] < HeapSize
          /\ D2.val + prog.Arity[f + 1] < HeapSize
      BY <2>2 DEF ArityInRange
    <3> HIDE DEF f
    <3>5. prog.Arity[f + 1] \in Nat
      BY <3>3, <3>4
    <3>7. CellPairs(D1.val, D2.val, prog.Arity[f + 1]) \in Seq(Cell)
      BY SMTT(30), <2>1, <3>1, <3>4, <3>5, CellPairsType DEF Addr
    <3> USE DEF f
    <3>6. pdl' \in Seq(Cell)
      <4>1. \A q \in Seq(Cell) : Rest \o q \in Seq(Cell)
        BY <2>1
      <4>2. pdl' = Rest \o CellPairs(D1.val, D2.val, prog.Arity[f + 1])
        BY <2>2
      <4> QED BY <3>7, <4>1, <4>2
    <3> QED BY Zenon, <1>4, <2>1, <3>6, LoopStepType DEF UnifyArgs, status
  <2>3. CASE /\ BothLIS /\ PairInRange
             /\ pdl' = Rest \o CellPairs(D1.val - 1, D2.val - 1, 2)
    <3>1. CellPairs(D1.val - 1, D2.val - 1, 2) \in Seq(Cell)
      BY <2>1, <2>3, CellPairsType DEF PairInRange, Cell
    <3>2. pdl' \in Seq(Cell)
      BY <2>1, <2>3, <3>1
    <3> QED BY <1>4, <2>1, <3>2, LoopStepType DEF UnifyArgs, status
  <2> QED BY Zenon, <1>4, <2>2, <2>3 DEF UnifyArgs
<1>5. CASE UnifyFail
  <2>1. pdl' \in Seq(Cell) /\ Fail' \in BOOLEAN /\ chase' = <<>>
    BY <1>0, <1>5, PdlFacts DEF UnifyFail
  <2> QED BY <1>0, <1>5, <2>1, PdlFacts, LoopStepType DEF UnifyFail
<1> QED BY SMTT(30), <1>1, <1>2, <1>3, <1>4, <1>5 DEF Unify

\* What a loaded program consists of.
LEMMA ProgramFacts ==
  ASSUME TypeOK
  PROVE  /\ prog.Code \in Seq(Instruction) /\ prog.Arity \in Seq(Nat)
         /\ \A f \in DOMAIN prog.Labels : prog.Labels[f] \in Nat
         /\ prog.start \in Nat
  BY DEF TypeOK, ControlOK, IsProgram

\* Instructions that leave the heap, the trail and the registers alone.
LEMMA ControlStepType ==
  ASSUME TypeOK, chase = <<>>, FramesOK', ChoicesOK', P' \in Nat \cup {-1},
         Fail' \in BOOLEAN,
         UNCHANGED <<heapVars, trailVars, readVars, loopVars, panic, prog>>
  PROVE  TypeOK'
<1>1. HeapOK' /\ TrailOK'
  BY DEF TypeOK, HeapOK, TrailOK, heapVars, trailVars
<1>2. LoopsOK' /\ ControlOK'
  BY DEF TypeOK, LoopsOK, ControlOK, readVars, loopVars
<1> QED BY <1>1, <1>2 DEF TypeOK

\* procLabel leads to an instruction index or to failure.
LEMMA JumpType ==
  ASSUME TypeOK, NEW functor, Jump(functor), P + 1 \in Nat
  PROVE  P' \in Nat /\ Fail' \in BOOLEAN
  BY ProgramFacts DEF Jump, TypeOK, ControlOK

\* The environment a frame returns to.
LEMMA FrameFacts ==
  ASSUME FramesOK, E >= 0
  PROVE  /\ envFrames[E + 1].CE \in -1 .. Len(envFrames) - 1
         /\ envFrames[E + 1].CP \in Nat
<1>1. E + 1 \in 1 .. Len(envFrames)
  BY DEF FramesOK
<1>2. envFrames[E + 1] \in Frame
  BY <1>1 DEF FramesOK
<1>3. envFrames[E + 1].CE \in -1 .. E - 1
  BY <1>1 DEF FramesOK
<1> QED BY SMTT(30), <1>1, <1>2, <1>3 DEF Frame, FramesOK

\* A frame stack that stays fits any existing frame as the current one.
LEMMA SameStack ==
  ASSUME TypeOK, UNCHANGED <<regVars, choiceVars>>,
         E' \in -1 .. Len(envFrames) - 1, CP' \in Nat
  PROVE  FramesOK' /\ ChoicesOK'
<1>1. FramesOK'
  BY DEF TypeOK, FramesOK, regVars
<1>2. ChoicesOK'
  BY DEF TypeOK, ChoicesOK, regVars, choiceVars
<1> QED BY <1>1, <1>2

\* ALLOCATE to PROCEED keep the types.
LEMMA ControlType == ASSUME TypeOK, Control PROVE TypeOK'
<1> USE DEF NatArg1
<1>1. CASE Allocate
  <2>1. /\ At("ALLOCATE") /\ Instr.Arg1 \in Nat /\ Room(Instr.Arg1)
        /\ chase = <<>> /\ P' \in Nat /\ HeapOK
    BY <1>1, AtFacts DEF Allocate, At, InRange, Ready
  <2>2. NewVars(Instr.Arg1) \in Seq(Cell) /\ Len(NewVars(Instr.Arg1)) = Instr.Arg1
    BY <2>1, NewVarsType
  <2>3. HeapOK'
    BY <1>1, <2>1, <2>2, PushType DEF Allocate
  <2> DEFINE fr == [CE |-> E, CP |-> CP, Y |-> NewVars(Instr.Arg1)]
  <2>4. /\ fr \in Frame /\ fr.CE = E
        /\ envFrames' = Append(envFrames, fr) /\ E' = Len(envFrames)
        /\ UNCHANGED <<X, CP>>
    BY <1>1, <2>2 DEF Allocate, Frame, TypeOK, FramesOK
  <2> HIDE DEF fr
  <2>5. FramesOK'
    BY <2>4 DEF TypeOK, FramesOK
  <2>6. ChoicesOK'
    <3>1. Len(envFrames') = Len(envFrames) + 1 /\ Len(envFrames) \in Nat
      BY <2>4 DEF TypeOK, FramesOK
    <3>2. UNCHANGED choiceVars
      BY <1>1 DEF Allocate
    <3> QED BY <3>1, <3>2 DEF TypeOK, ChoicesOK, choiceVars
  <2>7. TrailOK' /\ LoopsOK' /\ ControlOK'
    BY <1>1, <2>1 DEF Allocate, TypeOK, TrailOK, LoopsOK, ControlOK,
       trailVars, readVars, loopVars, status
  <2> QED BY <2>3, <2>5, <2>6, <2>7 DEF TypeOK
<1>2. CASE Deallocate
  <2>1. At("DEALLOCATE") /\ E >= 0 /\ chase = <<>> /\ P' \in Nat
    BY <1>2, AtFacts DEF Deallocate, At, InRange, Ready
  <2>2. FramesOK' /\ ChoicesOK'
    BY <1>2, <2>1, FrameFacts, SameStack DEF Deallocate, TypeOK
  <2> QED BY <1>2, <2>1, <2>2, ControlStepType DEF Deallocate, status, TypeOK, ControlOK
<1>3. CASE Call
  <2>1. At("CALL") /\ P + 1 \in Nat /\ chase = <<>>
    BY <1>3, AtFacts DEF Call, At, Ready
  <2>2. P' \in Nat /\ Fail' \in BOOLEAN
    BY <1>3, <2>1, JumpType DEF Call
  <2>3. FramesOK' /\ ChoicesOK'
    BY <1>3, <2>1 DEF Call, TypeOK, FramesOK, ChoicesOK, regVars, choiceVars
  <2> QED BY <1>3, <2>1, <2>2, <2>3, ControlStepType DEF Call
<1>4. CASE Execute
  <2>1. At("EXECUTE") /\ P + 1 \in Nat /\ chase = <<>>
    BY <1>4, AtFacts DEF Execute, At, Ready
  <2>2. P' \in Nat /\ Fail' \in BOOLEAN
    BY <1>4, <2>1, JumpType DEF Execute
  <2>3. FramesOK' /\ ChoicesOK'
    <3>1. CASE E >= 0
      BY <1>4, <3>1, FrameFacts, SameStack DEF Execute, TypeOK
    <3>2. CASE ~(E >= 0)
      <4>1. UNCHANGED frameVars
        BY <1>4, <3>2 DEF Execute
      <4>2. E' \in -1 .. Len(envFrames) - 1 /\ CP' \in Nat
        BY <4>1 DEF TypeOK, FramesOK, frameVars
      <4> QED BY <1>4, <4>2, SameStack DEF Execute
    <3> QED BY <3>1, <3>2
  <2> QED BY <1>4, <2>1, <2>2, <2>3, ControlStepType DEF Execute
<1>5. CASE Proceed
  <2>1. At("PROCEED") /\ chase = <<>> /\ P' \in Nat
    BY <1>5 DEF Proceed, At, Ready, TypeOK, FramesOK
  <2>2. FramesOK' /\ ChoicesOK'
    BY <1>5 DEF Proceed, TypeOK, FramesOK, ChoicesOK, regVars, choiceVars, frameVars
  <2> QED BY <1>5, <2>1, <2>2, ControlStepType DEF Proceed, status, TypeOK, ControlOK
<1> QED BY <1>1, <1>2, <1>3, <1>4, <1>5 DEF Control

\* The record TRY_ME_ELSE and TRY build is a choice point.
LEMMA ChoicePointType ==
  ASSUME TypeOK, NEW n \in Nat, NEW next \in Nat, n <= NumXRegs
  PROVE  /\ ChoicePoint(n, next) \in ChoicePoints
         /\ ChoicePoint(n, next).CE = E
         /\ ChoicePoint(n, next).B0 = -1
         /\ ChoicePoint(n, next).N = n
         /\ Len(ChoicePoint(n, next).Args) = n
<1>1. \A k \in 1 .. n : X[k - 1] \in Cell
  BY SizesAssumption DEF TypeOK, FramesOK, XRegs
<1>2. /\ [k \in 1 .. n |-> X[k - 1]] \in Seq(Cell)
      /\ Len([k \in 1 .. n |-> X[k - 1]]) = n
  BY <1>1
<1> QED BY <1>2 DEF ChoicePoint, ChoicePoints, TypeOK, HeapOK, TrailOK, FramesOK, ChoicesOK

\* Pushing a choice point keeps the types.
LEMMA PushChoiceType ==
  ASSUME TypeOK, PushChoice, chase = <<>>, P' \in Nat,
         Instr.Arg1 \in Nat, Instr.Arg2 \in Nat, Instr.Arg2 <= NumXRegs
  PROVE  TypeOK'
<1> DEFINE cp == ChoicePoint(Instr.Arg2, Instr.Arg1)
<1>1. /\ cp \in ChoicePoints /\ cp.CE = E /\ cp.B0 = -1 /\ cp.N = Instr.Arg2
      /\ Len(cp.Args) = cp.N
  BY ChoicePointType
<1>2. /\ choicePoints' = Append(choicePoints, cp) /\ B' = Len(choicePoints)
      /\ HB' = H /\ UNCHANGED <<regVars, B0>>
  BY DEF PushChoice
<1> HIDE DEF cp
<1>3. ChoicesOK'
  <2>1. choicePoints \in Seq(ChoicePoints) /\ Len(choicePoints) \in Nat
    BY DEF TypeOK, ChoicesOK
  <2>2. /\ choicePoints' \in Seq(ChoicePoints)
        /\ Len(choicePoints') = Len(choicePoints) + 1
        /\ choicePoints'[Len(choicePoints) + 1] = cp
        /\ \A k \in 1 .. Len(choicePoints) : choicePoints'[k] = choicePoints[k]
    BY <1>1, <1>2, <2>1
  <2>3. \A k \in 1 .. Len(choicePoints') :
          \/ k \in 1 .. Len(choicePoints) /\ choicePoints'[k] = choicePoints[k]
          \/ choicePoints'[k] = cp
    BY <2>1, <2>2
  <2>4. cp.CE \in -1 .. Len(envFrames) - 1 /\ cp.N <= NumXRegs
    BY <1>1 DEF TypeOK, FramesOK
  <2>5. envFrames' = envFrames
    BY <1>2 DEF regVars
  <2>6. \A k \in 1 .. Len(choicePoints') :
          /\ choicePoints'[k].CE \in -1 .. Len(envFrames) - 1
          /\ choicePoints'[k].B0 = -1
          /\ choicePoints'[k].N <= NumXRegs
          /\ Len(choicePoints'[k].Args) = choicePoints'[k].N
    BY <1>1, <2>3, <2>4 DEF TypeOK, ChoicesOK
  <2>7. B' \in -1 .. Len(choicePoints') - 1 /\ HB' \in 0 .. HeapSize /\ B0' = -1
    BY <1>2, <2>1, <2>2 DEF TypeOK, HeapOK, ChoicesOK
  <2> QED BY <2>2, <2>5, <2>6, <2>7 DEF ChoicesOK
<1>4. FramesOK'
  BY DEF PushChoice, TypeOK, FramesOK, regVars, frameVars
<1> QED BY <1>3, <1>4, ControlStepType DEF PushChoice, status, TypeOK, ControlOK

\* The current choice point.
LEMMA CurrentChoice ==
  ASSUME TypeOK, B >= 0
  PROVE  /\ B + 1 \in 1 .. Len(choicePoints)
         /\ choicePoints \in Seq(ChoicePoints)
         /\ choicePoints[B + 1] \in ChoicePoints
         /\ choicePoints[B + 1].CE \in -1 .. Len(envFrames) - 1
         /\ choicePoints[B + 1].B0 = -1
         /\ choicePoints[B + 1].N <= NumXRegs
         /\ Len(choicePoints[B + 1].Args) = choicePoints[B + 1].N
<1>1. B + 1 \in 1 .. Len(choicePoints)
  BY DEF TypeOK, ChoicesOK
<1> QED BY <1>1 DEF TypeOK, ChoicesOK

\* Popping one keeps them.
LEMMA PopChoiceType ==
  ASSUME TypeOK, B >= 0, PopChoice, Len(envFrames') = Len(envFrames), B0' = -1
  PROVE  ChoicesOK'
<1>1. B + 1 \in 1 .. Len(choicePoints) /\ choicePoints \in Seq(ChoicePoints)
  BY CurrentChoice
<1>2. /\ choicePoints' \in Seq(ChoicePoints) /\ Len(choicePoints') = B
      /\ \A k \in 1 .. B : choicePoints'[k] = choicePoints[k]
  <2>1. choicePoints' = SubSeq(choicePoints, 1, B) /\ B \in 0 .. Len(choicePoints)
    BY <1>1 DEF PopChoice, TypeOK, ChoicesOK
  <2> QED BY <1>1, <2>1, SubSeqProperties
<1>3. HB' \in 0 .. HeapSize
  <2>1. CASE B = 0
    BY <2>1, SizesAssumption DEF PopChoice
  <2>2. CASE B # 0
    <3>1. B \in 1 .. Len(choicePoints)
      BY <1>1, <2>2 DEF TypeOK, ChoicesOK
    <3>2. choicePoints[B] \in ChoicePoints
      BY <1>1, <3>1
    <3> QED BY <2>2, <3>2 DEF PopChoice, ChoicePoints
  <2> QED BY <2>1, <2>2
<1>4. B' \in -1 .. Len(choicePoints') - 1
  BY <1>1, <1>2 DEF PopChoice
<1>5. \A k \in 1 .. Len(choicePoints') :
        k \in 1 .. Len(choicePoints) /\ choicePoints'[k] = choicePoints[k]
  BY <1>1, <1>2 DEF TypeOK, ChoicesOK
<1>6. \A k \in 1 .. Len(choicePoints') :
        /\ choicePoints'[k].CE \in -1 .. Len(envFrames) - 1
        /\ choicePoints'[k].B0 = -1
        /\ choicePoints'[k].N <= NumXRegs
        /\ Len(choicePoints'[k].Args) = choicePoints'[k].N
  BY <1>5 DEF TypeOK, ChoicesOK
<1> QED BY <1>2, <1>3, <1>4, <1>6 DEF ChoicesOK

\* restoreChoicePoint yields a heap, a trail, registers and a frame.
LEMMA RestoreType ==
  ASSUME TypeOK, B >= 0, Restore
  PROVE  /\ HeapOK' /\ TrailOK' /\ FramesOK'
         /\ Len(envFrames') = Len(envFrames) /\ B0' = -1
         /\ choicePoints[B + 1].H \in 0 .. HeapSize
         /\ choicePoints[B + 1].NextClause \in Nat
<1> DEFINE cp == choicePoints[B + 1]
<1>1. /\ cp \in ChoicePoints /\ cp.CE \in -1 .. Len(envFrames) - 1
      /\ cp.B0 = -1 /\ cp.N <= NumXRegs /\ Len(cp.Args) = cp.N
  BY CurrentChoice
<1>2. /\ X' = [r \in XRegs |-> IF r < cp.N THEN cp.Args[r + 1] ELSE X[r]]
      /\ E' = cp.CE /\ CP' = cp.CP /\ UnwindTrail(cp.TR) /\ H' = cp.H
      /\ B0' = cp.B0 /\ envFrames' = envFrames
  BY DEF Restore
<1> HIDE DEF cp
<1>3. /\ cp.N \in Nat /\ cp.CP \in Nat /\ cp.TR \in 0 .. TrailSize
      /\ cp.H \in 0 .. HeapSize /\ cp.NextClause \in Nat /\ cp.Args \in Seq(Cell)
  BY <1>1 DEF ChoicePoints
<1>4. X' \in [XRegs -> Cell]
  BY SMTT(30), <1>1, <1>2, <1>3, SizesAssumption DEF TypeOK, FramesOK, XRegs
<1>5. FramesOK'
  BY <1>1, <1>2, <1>3, <1>4 DEF TypeOK, FramesOK
<1>6. TrailOK'
  BY <1>2, <1>3 DEF UnwindTrail, TypeOK, TrailOK
<1>7. Heap' \in [Addr -> Cell]
  <2>1. \A a \in Addr : REF(a) \in Cell
    BY PointerTypes, SizesAssumption DEF Addr
  <2> QED BY <1>2, <2>1 DEF UnwindTrail, Unwound, TypeOK, HeapOK
<1> QED BY <1>1, <1>2, <1>3, <1>5, <1>6, <1>7 DEF HeapOK, cp

\* The choice point that RETRY_ME_ELSE and RETRY rewrite.
LEMMA NextClauseType ==
  ASSUME TypeOK, B >= 0, NEW next \in Nat,
         choicePoints' = [choicePoints EXCEPT ![B + 1].NextClause = next],
         B' = B, HB' \in 0 .. HeapSize, B0' = -1, Len(envFrames') = Len(envFrames)
  PROVE  ChoicesOK'
<1> DEFINE cp == [choicePoints[B + 1] EXCEPT !.NextClause = next]
<1>1. /\ B + 1 \in 1 .. Len(choicePoints) /\ choicePoints \in Seq(ChoicePoints)
      /\ choicePoints[B + 1] \in ChoicePoints
  BY CurrentChoice
<1>2. /\ cp \in ChoicePoints /\ cp.CE = choicePoints[B + 1].CE
      /\ cp.B0 = choicePoints[B + 1].B0 /\ cp.N = choicePoints[B + 1].N
      /\ cp.Args = choicePoints[B + 1].Args
  BY <1>1 DEF ChoicePoints
<1>3. choicePoints' = [choicePoints EXCEPT ![B + 1] = cp]
  OBVIOUS
<1> HIDE DEF cp
<1>4. /\ choicePoints' \in Seq(ChoicePoints)
      /\ Len(choicePoints') = Len(choicePoints)
      /\ \A k \in 1 .. Len(choicePoints) :
           choicePoints'[k] = IF k = B + 1 THEN cp ELSE choicePoints[k]
  BY SMTT(30), <1>1, <1>2, <1>3
<1>5. \A k \in 1 .. Len(choicePoints') :
        /\ choicePoints'[k].CE \in -1 .. Len(envFrames) - 1
        /\ choicePoints'[k].B0 = -1
        /\ choicePoints'[k].N <= NumXRegs
        /\ Len(choicePoints'[k].Args) = choicePoints'[k].N
  BY SMTT(30), <1>1, <1>2, <1>4 DEF TypeOK, ChoicesOK
<1> QED BY <1>4, <1>5 DEF TypeOK, ChoicesOK

\* Any step that resumes a choice point.
LEMMA RestoreStepType ==
  ASSUME TypeOK, B >= 0, Restore, ChoicesOK', P' \in Nat, Fail' \in BOOLEAN,
         chase = <<>>,
         UNCHANGED <<readVars, loopVars, panic, prog>>
  PROVE  TypeOK'
<1>1. HeapOK' /\ TrailOK' /\ FramesOK'
  BY RestoreType
<1>2. LoopsOK' /\ ControlOK'
  BY DEF TypeOK, LoopsOK, ControlOK, readVars, loopVars
<1> QED BY <1>1, <1>2 DEF TypeOK

\* Some entry of the trail is the topmost below HB, or none is: tidyTrail's loop
\* ends within the trail, above every entry below HB.
LEMMA TidyTRIs ==
  ASSUME TypeOK
  PROVE  TidyTR \in 0 .. TR /\ \A j \in TidyTR .. TR - 1 : ~Conditional(Trail[j])
<1> DEFINE Tidy(t) == \A j \in t .. TR - 1 : ~Conditional(Trail[j])
           T == {t \in 0 .. TR : Tidy(t)}
           Below == OpToRel(<, Nat)
<1>1. TR \in Nat
  BY SizesAssumption DEF TypeOK, TrailOK
<1>2. TR \in T /\ T \subseteq Nat
  BY <1>1
<1>3. PICK t \in T : \A y \in T : ~(<<y, t>> \in Below)
  <2>1. IsWellFoundedOn(Below, Nat)
    BY NatLessThanWellFounded
  <2> HIDE DEF T, Below
  <2> QED BY <1>2, <2>1, WFMin
<1>4. \A y \in T : ~(y < t)
  BY <1>2, <1>3 DEF OpToRel
<1>5. t > 0 => Conditional(Trail[t - 1])
  <2> SUFFICES ASSUME t > 0, ~Conditional(Trail[t - 1]) PROVE FALSE
    OBVIOUS
  <2>1. t \in 0 .. TR /\ Tidy(t)
    BY <1>3
  <2>2. t - 1 \in 0 .. TR
    BY <1>1, <2>1
  <2>3. Tidy(t - 1)
    <3> SUFFICES ASSUME NEW j \in t - 1 .. TR - 1 PROVE ~Conditional(Trail[j])
      OBVIOUS
    <3>1. j = t - 1 \/ j \in t .. TR - 1
      BY <1>1, <2>1
    <3> QED BY <2>1, <3>1
  <2>4. t - 1 \in T
    BY <2>2, <2>3
  <2> QED BY <1>1, <1>4, <2>1, <2>4
<1>6. \E u \in 0 .. TR : Tidy(u) /\ (u > 0 => Conditional(Trail[u - 1]))
  BY <1>3, <1>5
<1> QED BY <1>6 DEF TidyTR

\* Cutting back to any level leaves a choice point that is there, or none.
LEMMA CutToType ==
  ASSUME TypeOK, Ready, NEW level \in Int, level >= -1, CutTo(level) PROVE TypeOK'
<1>1. chase = <<>> /\ P' \in Nat
  BY DEF Ready, InCode, CutTo, TypeOK, ControlOK
<1>2. B' \in -1 .. Len(choicePoints) - 1
  BY DEF CutTo, TypeOK, ChoicesOK
<1>3. ChoicesOK'
  BY <1>2 DEF CutTo, TypeOK, ChoicesOK, regVars
<1>4. HeapOK' /\ TrailOK'
  BY TidyTRIs, SizesAssumption DEF CutTo, TypeOK, HeapOK, TrailOK, heapVars
<1>5. FramesOK'
  BY DEF CutTo, TypeOK, FramesOK, regVars, frameVars
<1>6. LoopsOK' /\ ControlOK'
  BY <1>1 DEF CutTo, TypeOK, LoopsOK, ControlOK, readVars, loopVars, status
<1> QED BY <1>3, <1>4, <1>5, <1>6 DEF TypeOK

\* The choice point instructions keep the types.
LEMMA ChoiceType ==
  ASSUME TypeOK, Choice PROVE TypeOK'
<1> USE DEF NatArg1, OnChoice
<1>1. CASE TryMeElse
  <2>1. /\ At("TRY_ME_ELSE") /\ PushChoice /\ P' \in Nat /\ chase = <<>>
        /\ Instr.Arg1 \in Nat /\ Instr.Arg2 \in Nat /\ Instr.Arg2 <= NumXRegs
    BY <1>1, AtFacts DEF TryMeElse, At, InRange, Ready, Instruction
  <2> QED BY <2>1, PushChoiceType
<1>2. CASE Try
  <2>1. /\ At("TRY") /\ PushChoice /\ P' \in Nat /\ chase = <<>>
        /\ Instr.Arg1 \in Nat /\ Instr.Arg2 \in Nat /\ Instr.Arg2 <= NumXRegs
    BY <1>2, AtFacts DEF Try, At, InRange, Ready, Instruction
  <2> QED BY <2>1, PushChoiceType
<1>3. CASE RetryMeElse
  <2>1. /\ At("RETRY_ME_ELSE") /\ B >= 0 /\ chase = <<>> /\ P' \in Nat
        /\ Instr.Arg1 \in Nat
    BY <1>3, AtFacts DEF RetryMeElse, At, InRange, Ready
  <2>2. envFrames' = envFrames
    BY <1>3 DEF RetryMeElse, regVars
  <2>3. ChoicesOK'
    BY <1>3, <2>1, <2>2, NextClauseType DEF RetryMeElse, TypeOK, ChoicesOK
  <2>4. FramesOK'
    BY <1>3 DEF RetryMeElse, TypeOK, FramesOK, regVars, frameVars
  <2> QED BY <1>3, <2>1, <2>3, <2>4, ControlStepType
      DEF RetryMeElse, status, TypeOK, ControlOK
<1>4. CASE TrustMe
  <2>1. At("TRUST_ME") /\ B >= 0 /\ chase = <<>> /\ P' \in Nat
    BY <1>4, AtFacts DEF TrustMe, At, InRange, Ready
  <2>2. envFrames' = envFrames /\ B0' = -1
    BY <1>4 DEF TrustMe, regVars, TypeOK, ChoicesOK
  <2>3. ChoicesOK'
    BY <1>4, <2>1, <2>2, PopChoiceType DEF TrustMe
  <2>4. FramesOK'
    BY <1>4 DEF TrustMe, TypeOK, FramesOK, regVars, frameVars
  <2> QED BY <1>4, <2>1, <2>3, <2>4, ControlStepType
      DEF TrustMe, status, TypeOK, ControlOK
<1>5. CASE Retry
  <2>1. /\ At("RETRY") /\ B >= 0 /\ chase = <<>> /\ P' \in Nat
        /\ Instr.Arg1 \in Nat
    BY <1>5, AtFacts DEF Retry, At, InRange, Ready
  <2>2. ChoicesOK'
    BY <1>5, <2>1, RestoreType, NextClauseType DEF Retry
  <2> QED BY <1>5, <2>1, <2>2, RestoreStepType DEF Retry, status, TypeOK, ControlOK
<1>6. CASE Trust
  <2>1. At("TRUST") /\ B >= 0 /\ chase = <<>> /\ P' \in Nat
    BY <1>6, AtFacts DEF Trust, At, InRange, Ready
  <2>2. ChoicesOK'
    BY <1>6, <2>1, RestoreType, PopChoiceType DEF Trust
  <2> QED BY <1>6, <2>1, <2>2, RestoreStepType DEF Trust, status, TypeOK, ControlOK
<1>7. CASE NeckCut
  <2>1. B0 = -1 /\ Ready
    BY <1>7 DEF NeckCut, At, TypeOK, ChoicesOK
  <2> QED BY <1>7, <2>1, CutToType DEF NeckCut
<1>8. CASE Cut
  <2>1. Ready /\ IsReg(Instr.Arg1)
    BY <1>8 DEF Cut, At, InRange, RegArg1
  <2>2. GetReg(Instr.Arg1) \in Cell
    BY <2>1, AtFacts, <1>8, GetRegType DEF Cut
  <2>3. /\ IntOf(GetReg(Instr.Arg1)) - 1 \in Int
        /\ IntOf(GetReg(Instr.Arg1)) - 1 >= -1
    BY <2>2 DEF IntOf, Cell
  <2> QED BY <1>8, <2>1, <2>3, CutToType DEF Cut
<1> QED BY <1>1, <1>2, <1>3, <1>4, <1>5, <1>6, <1>7, <1>8 DEF Choice

\* So does taking up the next clause of a choice point, in Run or in Next.
LEMMA AlternativeType ==
  ASSUME TypeOK, B >= 0, chase = <<>>, TakeAlternative PROVE TypeOK'
<1>1. P' \in Nat /\ Fail' \in BOOLEAN /\ HB' \in 0 .. HeapSize
  BY RestoreType DEF TakeAlternative
<1>2. Len(envFrames') = Len(envFrames) /\ B0' = -1
  BY RestoreType DEF TakeAlternative
<1>3. ChoicesOK'
  BY <1>1, <1>2 DEF TakeAlternative, TypeOK, ChoicesOK
<1> QED BY <1>1, <1>3, RestoreStepType DEF TakeAlternative

\* And backtracking in Run.
LEMMA BacktrackType == ASSUME TypeOK, Backtrack PROVE TypeOK'
<1>0. chase = <<>>
  BY DEF Backtrack, TypeOK, LoopsOK
<1>1. CASE B >= 0 /\ TakeAlternative
  BY <1>0, <1>1, AlternativeType
<1>2. CASE B < 0
  <2>0. ~(B >= 0)
    BY <1>2 DEF TypeOK, ChoicesOK
  <2>1. /\ P' = -1
        /\ UNCHANGED <<heapVars, trailVars, regVars, frameVars, choiceVars,
                       readVars, loopVars, Fail, panic, prog>>
    BY <2>0 DEF Backtrack, status
  <2>2. FramesOK' /\ ChoicesOK'
    BY <2>1, SameRegs, KeptFrames, KeptChoices DEF TypeOK
  <2> QED BY <1>0, <2>1, <2>2, ControlStepType DEF TypeOK, ControlOK
<1> QED BY <1>1, <1>2 DEF Backtrack

\* And so does a panic, which changes nothing else.
LEMMA PanicType == ASSUME TypeOK, Panic PROVE TypeOK'
<1>1. HeapOK' /\ TrailOK'
  BY DEF Panic, TypeOK, HeapOK, TrailOK, heapVars, trailVars
<1>2. FramesOK' /\ ChoicesOK'
  BY SameRegs, KeptFrames, KeptChoices DEF Panic, TypeOK
<1>3. LoopsOK' /\ ControlOK'
  BY DEF Panic, TypeOK, LoopsOK, ControlOK, readVars, loopVars
<1> QED BY <1>1, <1>2, <1>3 DEF TypeOK

\* NewWAM and Load establish the types.
LEMMA InitType == Init => TypeOK /\ prog \in Programs
<1> SUFFICES ASSUME Init PROVE TypeOK /\ prog \in Programs
  OBVIOUS
<1>0. IsProgram(prog)
  BY ProgramsAssumption DEF Init
<1>1. prog.start \in Nat /\ prog.Code \in Seq(Instruction)
  BY <1>0 DEF IsProgram
<1>2. REF(0) \in Cell
  BY PointerTypes
<1>3. HeapOK /\ TrailOK
  BY <1>2, SizesAssumption DEF Init, HeapOK, TrailOK
<1>4. FramesOK /\ ChoicesOK
  BY <1>1, <1>2, SizesAssumption DEF Init, FramesOK, ChoicesOK
<1>5. LoopsOK
  <2>1. chase = <<>> /\ pdl = <<>> /\ S = 0 /\ Mode = "READ"
    BY DEF Init
  <2> QED BY <2>1 DEF LoopsOK
<1>6. ControlOK
  BY <1>0, <1>1 DEF Init, ControlOK
<1> QED BY <1>3, <1>4, <1>5, <1>6 DEF TypeOK, Init

\* No step changes the loaded program.
LEMMA ProgramStays == ASSUME Next PROVE prog' = prog
<1>1. CASE Build
  BY <1>1 DEF Build, PutStructure, SetVariable, SetValue, SetConstant, SetList, SetVoid,
     PutVariable, PutValue, PutConstant, PutList, GetVariable, GetLevel, UnifyWrite,
     DataStep, status
<1>2. CASE Match
  BY <1>2 DEF Match, UnifyVariableRead, UnifyVoidRead, UnifyRead, GetUnify, StartChase,
     ChaseStep, GetStructure, GetList, PutUnsafeValue, ReadStep, Chased, status
<1>3. CASE Unify
  BY <1>3 DEF Unify, UnifyDeref, UnifySame, UnifyBind, UnifyArgs, UnifyFail, status
<1>4. CASE Control
  BY <1>4 DEF Control, Allocate, Deallocate, Call, Execute, Proceed, status
<1>5. CASE Choice
  BY <1>5 DEF Choice, TryMeElse, Try, PushChoice, RetryMeElse, TrustMe, Retry, Trust,
     NeckCut, Cut, CutTo, status
<1>6. CASE Backtrack \/ Panic
  BY <1>6 DEF Backtrack, TakeAlternative, Panic, status
<1> QED BY <1>1, <1>2, <1>3, <1>4, <1>5, <1>6 DEF Next

\* Every step keeps the types: the induction step.
LEMMA StepType ==
  ASSUME TypeOK, prog \in Programs, [Next]_vars
  PROVE  TypeOK' /\ prog' \in Programs
<1>1. CASE UNCHANGED vars
  BY <1>1 DEF vars, TypeOK, HeapOK, TrailOK, FramesOK, ChoicesOK, LoopsOK, ControlOK,
     heapVars, trailVars, regVars, frameVars, choiceVars, readVars, loopVars, status
<1>2. CASE Next
  <2>1. TypeOK'
    BY <1>2, BuildType, MatchType, UnifyType, ControlType, ChoiceType,
       BacktrackType, PanicType DEF Next
  <2> QED BY <1>2, <2>1, ProgramStays
<1> QED BY <1>1, <1>2

\* Whatever code the machine runs, its registers, stacks and indices stay well
\* formed.
THEOREM TypeCorrect == Spec => []TypeOK
<1> DEFINE Typed == TypeOK /\ prog \in Programs
<1>1. Init => Typed
  BY InitType
<1>2. Typed /\ [Next]_vars => Typed'
  BY StepType
<1>3. Typed => TypeOK
  OBVIOUS
<1> QED BY <1>1, <1>2, <1>3, PTL DEF Spec
=============================================================================
