-------------------------- MODULE DisciplineProofs --------------------------
(***************************************************************************)
(* Code that keeps to the discipline completes what it builds before it    *)
(* calls, and never reads a register that refers to nothing, in particular *)
(* not one that backtracking left above the heap top; it makes Go panic    *)
(* for lack of space only; and dereferencing leads to older cells.  The    *)
(* notes are shown to stay true, one group of instructions at a time.      *)
(***************************************************************************)
EXTENDS DisciplineCode

-----------------------------------------------------------------------------
(* Matching in READ mode, and what starts unify. *)

\* The steps of matching are steady.
LEMMA MatchSteady ==
  ASSUME NEW at, Going(at), Match PROVE Steady
<1>1. WorkStep
  BY MatchWorks, NestingIs DEF Going
<1> QED BY <1>1 DEF Steady, Match, UnifyVariableRead, UnifyVoidRead, UnifyRead, GetUnify, ReadStep,
     StartChase, ChaseStep, GetStructure, GetList, PutUnsafeValue, Chased, frameVars, choiceVars,
     status

\* What a pair holds.
LEMMA PairHolds ==
  ASSUME NEW a, NEW b, NEW k \in 1 .. Len(<<a, b>>) PROVE <<a, b>>[k] \in {a, b}
<1>1. k = 1 \/ k = 2
  OBVIOUS
<1> QED BY <1>1

\* In READ mode a UNIFY_* consumes cells that are there.
LEMMA Reads ==
  ASSUME NEW at, Going(at), TypeOK', Match, NEW op \in Unifies, NEW width,
         ReadStep(op, width), width = Filling(Instr),
         NEW c \in Cell, SetRegs(Given(Instr), c),
         Given(Instr) # {} => c = Heap[S],
         pdl' = pdl \/ (pdl' = <<c, Heap[S]>> /\ LandsIn(prog, Heap, H, H, c)),
         width = 1 \/ (Given(Instr) = {} /\ pdl' = pdl)
  PROVE  Kept(at)'
<1>0. PICK n, m : n = at[P] /\ m = at[P + 1]
  OBVIOUS
<1>1. op \notin Transfers /\ op \notin Opens
  BY DEF Transfers, Opens, Unifies
<1>2. Fetches(at, op)
  BY <1>1, FetchedNotes DEF ReadStep
<1>3. /\ Instr.Op = op /\ BlockAfter(prog, Instr, n, m) /\ RegsAfter(Instr, n, m) /\ IsNote(n)
      /\ IsNote(m) /\ DataHolds(n) /\ InRange(Instr) /\ Instr \in Instruction
      /\ chase = <<>> /\ Len(pdl) < 2 /\ Here = P /\ P < Len(prog.Code) /\ Instr = prog.Code[P + 1]
  BY <1>0, <1>2 DEF Fetches
<1>4. /\ TypeOK /\ H \in Nat /\ S \in Nat /\ n.need \in Nat /\ m.need \in Nat
      /\ UNCHANGED <<Heap, H, Mode, prog, chase>> /\ Mode = "READ" /\ S' = S + width /\ P' = P + 1
      /\ ~Fail /\ Fail' = Fail
  BY <1>3, Ranges DEF Going, ReadStep, status, heapVars, IsNote, TypeOK, LoopsOK
<1>5. /\ n.block = "unify" /\ m.need = n.need - width
      /\ op \notin Sets
  BY <1>3 DEF BlockAfter, Sets, Unifies
<1>6. width \in Nat /\ width <= n.need
  <2>1. width \in Nat
    BY SMTT(30), <1>3 DEF Filling, Instruction, NatArg1
  <2> QED BY <1>4, <1>5, <2>1
<1>7. Missing(n) = 0 /\ Missing(m)' = 0
  BY <1>3, <1>4, MissingAfter
<1>8. Closed(prog, Heap, H, H) /\ S + n.need <= H
  BY <1>3, <1>4, <1>5, <1>7 DEF DataHolds
<1>9. width = 1 => Heap[S] \in Cell /\ LandsIn(prog, Heap, H, H, Heap[S])
  <2> SUFFICES ASSUME width = 1 PROVE S \in 0 .. H - 1 /\ Heap[S] \in Cell
    BY <1>8 DEF Closed
  <2>1. S \in 0 .. H - 1
    BY <1>4, <1>6, <1>8
  <2>2. S \in Addr
    BY <1>4, <2>1, Ranges DEF Addr
  <2> QED BY <1>4, <2>1, <2>2, Ranges
<1>10. Closed(prog, Heap', H', H' + Missing(m)')
  BY <1>4, <1>7, <1>8
<1>11. m.block = "unify" /\ Mode' = "READ" => S' + m.need <= H'
  BY <1>4, <1>5, <1>6, <1>8
<1>12. n.open = {}
  BY <1>3, <1>5 DEF IsNote
<1>13. Opened(Instr) = {} /\ \A r \in Given(Instr) : IsReg(r)
  BY <1>3 DEF Opened, Given, InRange, RegArg1, Unifies
<1>14. Given(Instr) \cup Opened(Instr) = Given(Instr)
  BY <1>13
<1>15. Given(Instr) # {} => LandsIn(prog, Heap', H', H', c)
  BY <1>4, <1>9
<1>16. Len(pdl') >= 2 => /\ Missing(m)' = 0
                         /\ \A k \in 1 .. Len(pdl') : LandsIn(prog, Heap', H', H', pdl'[k])
  <2>1. CASE pdl' = pdl
    BY <1>3, <1>4, <2>1 DEF TypeOK, LoopsOK
  <2>2. CASE pdl' = <<c, Heap[S]>> /\ width = 1 /\ LandsIn(prog, Heap, H, H, c)
    <3>1. \A k \in 1 .. Len(pdl') : pdl'[k] \in {c, Heap[S]}
      BY <2>2, PairHolds
    <3> QED BY <1>4, <1>7, <1>9, <2>2, <3>1
  <2> QED BY <2>1, <2>2
<1>17. Here' = Here + 1 /\ chase' = <<>> /\ Fail' = FALSE
  BY <1>3, <1>4 DEF Here, TypeOK, ControlOK
<1>18. Steady
  BY MatchSteady
<1>19. /\ n = at[Here] /\ m = at[Here + 1] /\ Instr = prog.Code[Here + 1]
       /\ Here < Len(prog.Code) /\ Instr.Op \notin Transfers
  BY <1>0, <1>1, <1>3
<1>20. n.open # {} => H + n.need <= H' + m.need
  BY <1>12
<1> QED
  BY ZenonT(60), <1>10, <1>11, <1>13, <1>14, <1>15, <1>16, <1>17, <1>18, <1>19, <1>20, Does

\* GET_VALUE and GET_CONSTANT start unify.
LEMMA GetUnifyKept ==
  ASSUME NEW at, Going(at), TypeOK', GetUnify PROVE Kept(at)'
<1>0. PICK n, m, c : n = at[P] /\ m = at[P + 1] /\ c = CellOf(Instr.Arg1)
  OBVIOUS
<1>1. PICK op \in {"GET_VALUE", "GET_CONSTANT"} :
        /\ At(op)
        /\ op = "GET_VALUE" => pdl' = <<GetReg(Instr.Arg1), GetReg(Instr.Arg2)>>
        /\ op = "GET_CONSTANT" => pdl' = <<c, GetReg(Instr.Arg2)>>
  BY <1>0 DEF GetUnify
<1>2. op \notin Transfers /\ op \notin Opens \cup Sets \cup Unifies
  BY DEF Transfers, Opens, Sets, Unifies
<1>3. Fetches(at, op)
  BY <1>1, <1>2, FetchedNotes
<1>4. /\ Instr.Op = op /\ BlockAfter(prog, Instr, n, m) /\ IsNote(n) /\ IsNote(m) /\ DataHolds(n)
      /\ chase = <<>> /\ Here = P /\ P < Len(prog.Code) /\ Instr = prog.Code[P + 1]
      /\ \A r \in ReadRegs(Instr) : GetReg(r) \in Cell /\ LandsIn(prog, Heap, H, H, GetReg(r))
  BY <1>0, <1>3 DEF Fetches
<1>5. /\ n.need = 0 /\ m.need = 0 /\ m.block = n.block /\ Missing(n) = 0 /\ Missing(m)' = 0
  <2>1. n.need = 0 /\ m.need = 0 /\ m.block = n.block
    BY <1>2, <1>4 DEF BlockAfter
  <2>2. PICK i : i = Instr
    OBVIOUS
  <2>3. BlockAfter(prog, i, n, m) /\ i.Op \notin Opens \cup Sets \cup Unifies
    BY <1>2, <1>4, <2>2
  <2> QED BY <2>1, <2>3, MissingAfter
<1>6. /\ TypeOK /\ H \in Nat /\ UNCHANGED <<Heap, H, Mode, S, prog, chase>> /\ P' = P + 1
      /\ Fail' = FALSE /\ UNCHANGED regVars
  BY Ranges DEF Going, GetUnify, status, heapVars, readVars, TypeOK, ControlOK
<1>7. /\ Closed(prog, Heap', H', H' + Missing(m)')
      /\ m.block = "unify" /\ Mode' = "READ" => S' + m.need <= H'
      /\ n.open # {} => H + n.need <= H' + m.need
  BY <1>4, <1>5, <1>6 DEF DataHolds
<1>8. Given(Instr) \cup Opened(Instr) = {} /\ SetRegs({}, REF(0)) /\ REF(0) \in Cell
  <2>1. Given(Instr) = {} /\ Opened(Instr) = {}
    BY <1>4 DEF Given, Opened
  <2> QED BY <1>6, <2>1, NoneWritten DEF REF, Cell, TagREF
<1>9. \A k \in 1 .. Len(pdl') : LandsIn(prog, Heap', H', H', pdl'[k])
  <2>1. CASE op = "GET_VALUE"
    <3>1. ReadRegs(Instr) = {Instr.Arg1, Instr.Arg2}
      BY <1>4, <2>1 DEF ReadRegs
    <3>2. \A k \in 1 .. Len(pdl') : pdl'[k] \in {GetReg(Instr.Arg1), GetReg(Instr.Arg2)}
      BY <1>1, <2>1, PairHolds
    <3>3. \A c1 \in {GetReg(Instr.Arg1), GetReg(Instr.Arg2)} : LandsIn(prog, Heap, H, H, c1)
      BY <1>4, <3>1
    <3> QED BY <1>6, <3>2, <3>3
  <2>2. CASE op = "GET_CONSTANT"
    <3>1. Instr.Arg2 \in ReadRegs(Instr)
      BY <1>4, <2>2 DEF ReadRegs
    <3>2. \A k \in 1 .. Len(pdl') : pdl'[k] \in {c, GetReg(Instr.Arg2)}
      BY <1>1, <2>2, PairHolds
    <3>3. LandsIn(prog, Heap, H, H, c)
      BY <1>0, <1>3, <2>2, OperandLands DEF Fetches
    <3> QED BY <1>4, <1>6, <3>1, <3>2, <3>3
  <2> QED BY <2>1, <2>2
<1>10. Here' = Here + 1 /\ chase' = <<>>
  BY <1>4, <1>6 DEF Here
<1>11. Steady
  BY MatchSteady DEF Match
<1>12. /\ n = at[Here] /\ m = at[Here + 1] /\ Instr = prog.Code[Here + 1]
       /\ Here < Len(prog.Code) /\ Instr.Op \notin Transfers
  BY <1>0, <1>2, <1>4
<1>13. Given(Instr) = {} /\ Opened(Instr) = {}
  BY <1>8
<1> QED
  BY ZenonT(60), <1>5, <1>6, <1>7, <1>8, <1>9, <1>10, <1>11, <1>12, <1>13, Does

-----------------------------------------------------------------------------
(* Dereferencing, and the loop of unify. *)

\* A step inside an instruction, which leaves the registers alone.
LEMMA StaysOn ==
  ASSUME NEW at, Going(at), TypeOK', Steady, UNCHANGED <<regVars, readVars, H>>, Fail' = FALSE,
         Here' = Here, ~IsRetry(prog, P') \/ P' = P, NEW n, n = at[Here],
         Closed(prog, Heap', H', H' + Missing(n)), LoopsHold(n)'
  PROVE  Kept(at)'
<1>1. /\ TypeOK /\ Certified(prog, at) /\ Here \in DOMAIN at /\ FrameHolds(at, n)
      /\ DataHolds(n) /\ prog' = prog /\ E' = E /\ KeepsFunctors
      /\ UNCHANGED <<H, S, Mode>>
  BY WorkKeepsFunctors DEF Going, Kept, Current, Steady, readVars
<1>2. IsNote(n) /\ H \in Nat /\ n.need \in Nat
  BY <1>1, NotesFacts, Ranges DEF IsNote
<1>3. SetRegs({}, REF(0)) /\ REF(0) \in Cell
  BY <1>1, NoneWritten DEF REF, Cell, TagREF
<1>4. Missing(n)' = Missing(n)
  BY <1>1 DEF Missing
<1>5. DataHolds(n)'
  <2>1. n.env => E >= 0
    BY <1>1 DEF FrameHolds
  <2>2. n.block = "unify" /\ Mode' = "READ" => S' + n.need <= H'
    BY <1>1 DEF DataHolds
  <2>3. \A r \in n.dx : r \notin {} /\ r \in n.dx
    OBVIOUS
  <2>4. \A r \in n.open : r \notin {} /\ r \in n.open /\ H + n.need <= H' + n.need
    BY <1>1, <1>2
  <2> QED BY <1>1, <1>2, <1>3, <1>4, <2>1, <2>2, <2>3, <2>4, DataAfter
<1>6. Writes(n)
  <2>1. /\ envFrames' = envFrames
    BY DEF regVars
  <2> QED BY <2>1 DEF Writes
<1> QED BY <1>1, <1>5, <1>6, GoesOn

\* The cell a variable refers to lands, when the variable does.
LEMMA NextLands ==
  ASSUME TypeOK, NEW top, Closed(prog, Heap, H, top), NEW c \in Cell,
         LandsIn(prog, Heap, H, H, c), IsREF(c)
  PROVE  c.val \in 0 .. H - 1 /\ Heap[c.val] \in Cell /\ LandsIn(prog, Heap, H, top, Heap[c.val])
<1>1. c.val \in Nat /\ c.val < H /\ H \in Nat
  BY Ranges DEF Cell, IsREF, LandsIn
<1>2. c.val \in 0 .. H - 1
  BY <1>1
<1>3. c.val \in Addr
  BY <1>1, Ranges DEF Addr
<1> QED BY <1>2, <1>3, Ranges DEF Closed

\* The instructions that begin by dereferencing a register.
LEMMA StartChaseKept ==
  ASSUME NEW at, Going(at), TypeOK', StartChase PROVE Kept(at)'
<1>0. PICK n : n = at[P]
  OBVIOUS
<1>1. PICK op \in {"GET_STRUCTURE", "GET_LIST", "PUT_UNSAFE_VALUE"} :
        /\ At(op)
        /\ op = "GET_STRUCTURE" => chase' = <<GetReg(Instr.Arg2)>>
        /\ op # "GET_STRUCTURE" => chase' = <<GetReg(Instr.Arg1)>>
  BY DEF StartChase
<1>2. op \notin Transfers
  BY DEF Transfers
<1>3. Fetches(at, op)
  BY <1>1, <1>2, FetchedNotes
<1>4. /\ Instr.Op = op /\ DataHolds(n) /\ ~IsRetry(prog, P + 1) /\ Here = P /\ Len(pdl) < 2
      /\ P \in Nat
      /\ \A r \in ReadRegs(Instr) : GetReg(r) \in Cell /\ LandsIn(prog, Heap, H, H, GetReg(r))
  BY <1>0, <1>3 DEF Fetches
<1>5. PICK r \in ReadRegs(Instr) : chase' = <<GetReg(r)>>
  BY <1>1, <1>4 DEF ReadRegs
<1>6. /\ UNCHANGED <<regVars, readVars, H, Heap, pdl, prog, Mode, E>> /\ P' = P + 1 /\ Fail' = FALSE
  BY DEF StartChase, heapVars, readVars, frameVars, status, Going, TypeOK, ControlOK
<1>7. Here' = P
  BY <1>4, <1>5, <1>6 DEF Here
<1>8. Closed(prog, Heap', H', H' + Missing(n))
  BY <1>4, <1>6 DEF DataHolds
<1>9. LoopsHold(n)'
  <2>0. Missing(n)' = 0
    <3>1. BlockAfter(prog, Instr, n, at[P + 1])
      BY <1>0, <1>3 DEF Fetches
    <3>2. Missing(n) = 0
      BY <1>4, <3>1, MissingAfter DEF Opens, Sets, Unifies
    <3> QED BY <1>6, <3>2 DEF Missing
  <2>1. chase'[1] = GetReg(r)
    BY <1>5
  <2>2. ~(Len(pdl') >= 2)
    BY <1>4, <1>6 DEF Going, TypeOK, LoopsOK
  <2>3. \A r2 \in Given(Pending') : IsReg(r2)'
    <3>1. Pending' = Instr /\ InRange(Instr)
      BY <1>3, <1>6 DEF Pending, Instr, Fetches
    <3>2. Given(Instr) \subseteq {Instr.Arg2} /\ (Given(Instr) # {} => op = "PUT_UNSAFE_VALUE")
      BY <1>4 DEF Given
    <3>3. op = "PUT_UNSAFE_VALUE" => IsReg(Instr.Arg2)
      BY <1>4, <3>1 DEF InRange, RegArg2
    <3>4. \A r2 : IsReg(r2) => IsReg(r2)'
      BY <1>6 DEF IsReg, regVars
    <3> QED BY <3>1, <3>2, <3>3, <3>4
  <2> QED BY <1>4, <1>6, <2>0, <2>1, <2>2, <2>3 DEF LoopsHold
<1>10. Steady
  BY MatchSteady DEF Match
<1> QED BY <1>0, <1>4, <1>6, <1>7, <1>8, <1>9, <1>10, StaysOn

\* What is known while an instruction dereferences.
Chases(at, i, n, m, c) ==
  /\ Here = P - 1 /\ Here \in DOMAIN at /\ Here + 1 \in DOMAIN at /\ Here < Len(prog.Code)
  /\ P \in Nat /\ i = Pending /\ i = prog.Code[Here + 1] /\ i \in Instruction
  /\ n = at[Here] /\ m = at[Here + 1] /\ Len(pdl) < 2 /\ chase = <<c>> /\ c \in Cell
  /\ DataHolds(n) /\ IsNote(n) /\ IsNote(m) /\ FrameHolds(at, n)
  /\ LandsIn(prog, Heap, H, H, c) /\ \A r \in Given(i) : IsReg(r)
  /\ i.Op \notin Transfers => /\ Legal(prog, i) /\ BlockAfter(prog, i, n, m)
                              /\ RegsAfter(i, n, m)

\* It is all known.
LEMMA ChasingNotes ==
  ASSUME NEW at, Going(at), Chasing, Pending.Op \notin Transfers
  PROVE  \E i, n, m, c : Chases(at, i, n, m, c)
<1>1. /\ TypeOK /\ Certified(prog, at) /\ IsProgram(prog)
  BY DEF Going, TypeOK, ControlOK
<1>2. PICK c \in Cell : chase = <<c>>
  <2>1. chase \in Seq(Cell) /\ Len(chase) = 1
    BY <1>1 DEF Chasing, TypeOK, LoopsOK
  <2>2. chase[1] \in Cell /\ chase = <<chase[1]>>
    BY <2>1
  <2> QED BY <2>2
<1>3. chase # <<>> /\ chase[1] = c
  BY <1>2
<1>4. /\ P \in 1 .. Len(prog.Code) /\ Len(pdl) < 2 /\ Here = P - 1
  BY <1>1, <1>3 DEF TypeOK, LoopsOK, Here
<1>5. /\ Here \in DOMAIN at /\ FrameHolds(at, at[Here]) /\ DataHolds(at[Here]) /\ LoopsHold(at[Here])
  BY DEF Going, Kept, Current
<1>6. /\ Len(prog.Code) \in Nat /\ P \in Nat /\ Here < Len(prog.Code) /\ Here + 1 = P
      /\ Pending = prog.Code[Here + 1] /\ Pending \in Instruction
  <2>1. Len(prog.Code) \in Nat
    BY <1>1 DEF IsProgram
  <2> QED BY <1>1, <1>4, <2>1 DEF Pending, IsProgram
<1>7. /\ Here + 1 \in DOMAIN at /\ IsNote(at[Here]) /\ IsNote(at[Here + 1])
      /\ Legal(prog, Pending) /\ BlockAfter(prog, Pending, at[Here], at[Here + 1])
      /\ RegsAfter(Pending, at[Here], at[Here + 1])
  BY <1>1, <1>5, <1>6, NotesAfter
<1>8. LandsIn(prog, Heap, H, H, c) /\ \A r \in Given(Pending) : IsReg(r)
  BY <1>3, <1>5 DEF LoopsHold
<1>9. Chases(at, Pending, at[Here], at[Here + 1], c)
  BY <1>2, <1>4, <1>5, <1>6, <1>7, <1>8 DEF Chases
<1> QED BY <1>9

\* deref follows references that land.
LEMMA ChaseStepKept ==
  ASSUME NEW at, Going(at), TypeOK', ChaseStep PROVE Kept(at)'
<1>1. /\ TypeOK /\ Certified(prog, at) /\ chase \in Seq(Cell) /\ Len(chase) = 1
      /\ Here \in DOMAIN at /\ DataHolds(at[Here]) /\ LoopsHold(at[Here])
      /\ ~Resolved(chase[1]) /\ chase' = <<Heap[chase[1].val]>>
      /\ UNCHANGED <<regVars, readVars, H, Heap, pdl, prog, P, Mode, E>> /\ Fail' = FALSE
  BY DEF Going, Kept, Current, ChaseStep, Chasing, TypeOK, LoopsOK, ControlOK, heapVars, readVars,
     frameVars, status
<1>2. PICK n : n = at[Here]
  OBVIOUS
<1>3. chase[1] \in Cell /\ IsREF(chase[1]) /\ chase # <<>> /\ chase' # <<>>
  BY <1>1 DEF Resolved
<1>4. Here' = Here
  BY <1>1, <1>3 DEF Here
<1>5. Closed(prog, Heap, H, H + Missing(n)) /\ LandsIn(prog, Heap, H, H, chase[1])
  BY <1>1, <1>2, <1>3 DEF DataHolds, LoopsHold
<1>6. Len(pdl) < 2 /\ ~(Len(pdl) >= 2)
  BY <1>1, <1>3 DEF TypeOK, LoopsOK
<1>7. Missing(n) = 0 /\ Missing(n)' = 0
  BY <1>1, <1>2, <1>3 DEF LoopsHold, Missing
<1>8. LandsIn(prog, Heap, H, H, Heap[chase[1].val])
  <2>1. H \in Nat /\ H + 0 = H
    BY <1>1, Ranges
  <2>2. Closed(prog, Heap, H, H)
    BY <1>5, <1>7, <2>1
  <2> QED BY <1>1, <1>3, <1>5, <2>2, NextLands
<1>9. LoopsHold(n)'
  <2>1. \A r \in Given(Pending) : IsReg(r)
    BY <1>1, <1>2, <1>3 DEF LoopsHold
  <2>2. Pending' = Pending /\ \A r : IsReg(r) => IsReg(r)'
    BY <1>1 DEF Pending, IsReg, regVars
  <2> QED BY <1>1, <1>6, <1>7, <1>8, <2>1, <2>2 DEF LoopsHold
<1>10. Steady
  BY MatchSteady DEF Match
<1> QED BY <1>1, <1>2, <1>4, <1>5, <1>9, <1>10, StaysOn

-----------------------------------------------------------------------------
(* The rest of matching. *)

\* UNIFY_* in READ mode.
LEMMA ReadKept ==
  ASSUME NEW at, Going(at), TypeOK', UnifyVariableRead \/ UnifyVoidRead \/ UnifyRead
  PROVE  Kept(at)'
<1>0. Match /\ TypeOK
  BY DEF Match, Going
<1>1. CASE UnifyVariableRead
  <2>1. /\ ReadStep("UNIFY_VARIABLE", 1) /\ SetRegs({Instr.Arg1}, Heap[S]) /\ pdl' = pdl
        /\ At("UNIFY_VARIABLE") /\ Instr.Op = "UNIFY_VARIABLE" /\ Mode = "READ"
    BY <1>1 DEF UnifyVariableRead, ReadStep, At
  <2>2. Heap[S] \in Cell
    BY <1>0, <2>1, ReadCellType DEF UnifiesOne
  <2>3. Given(Instr) = {Instr.Arg1} /\ Filling(Instr) = 1 /\ "UNIFY_VARIABLE" \in Unifies
    BY <2>1 DEF Given, Filling, Unifies
  <2>4. SetRegs(Given(Instr), Heap[S]) /\ 1 = Filling(Instr)
    BY <2>1, <2>3
  <2>5. PICK op, c : op = "UNIFY_VARIABLE" /\ c = Heap[S]
    OBVIOUS
  <2>6. op \in Unifies /\ ReadStep(op, 1) /\ c \in Cell /\ SetRegs(Given(Instr), c)
    BY <2>1, <2>2, <2>3, <2>4, <2>5
  <2> QED BY <1>0, <2>1, <2>4, <2>5, <2>6, Reads
<1>2. CASE UnifyVoidRead
  <2>1. /\ ReadStep("UNIFY_VOID", Instr.Arg1) /\ UNCHANGED <<regVars, pdl>>
        /\ Instr.Op = "UNIFY_VOID"
    BY <1>2 DEF UnifyVoidRead, ReadStep, At
  <2>2. Given(Instr) = {} /\ Filling(Instr) = Instr.Arg1 /\ "UNIFY_VOID" \in Unifies
    BY <2>1 DEF Given, Filling, Unifies
  <2>3. SetRegs(Given(Instr), REF(0)) /\ REF(0) \in Cell
    BY <1>0, <2>1, <2>2, NoneWritten DEF REF, Cell, TagREF
  <2>4. pdl' = pdl /\ Instr.Arg1 = Filling(Instr)
    BY <2>1, <2>2
  <2>5. PICK op, c, width : op = "UNIFY_VOID" /\ c = REF(0) /\ width = Instr.Arg1
    OBVIOUS
  <2>6. op \in Unifies /\ ReadStep(op, width) /\ c \in Cell /\ SetRegs(Given(Instr), c)
    BY <2>1, <2>2, <2>3, <2>5
  <2> QED BY <1>0, <2>2, <2>4, <2>5, <2>6, Reads
<1>3. ASSUME NEW op \in {"UNIFY_VALUE", "UNIFY_CONSTANT"}, ReadStep(op, 1), NEW c \in Cell,
             pdl' = <<c, Heap[S]>>, LandsIn(prog, Heap, H, H, c), UNCHANGED regVars
      PROVE  Kept(at)'
  <2>1. Instr.Op = op
    BY <1>3 DEF ReadStep, At
  <2>2. Given(Instr) = {} /\ Filling(Instr) = 1 /\ op \in Unifies
    BY <2>1 DEF Given, Filling, Unifies, Sets
  <2>3. SetRegs(Given(Instr), c)
    BY <1>0, <1>3, <2>2, NoneWritten
  <2> QED BY <1>0, <1>3, <2>2, <2>3, Reads
<1>4. CASE UnifyRead
  <2>0. UNCHANGED regVars
    BY <1>4 DEF UnifyRead
  <2>1. CASE ReadStep("UNIFY_VALUE", 1) /\ pdl' = <<GetReg(Instr.Arg1), Heap[S]>>
    <3>1. Fetches(at, "UNIFY_VALUE")
      BY <2>1, FetchedNotes DEF Transfers, ReadStep
    <3>2. Instr.Arg1 \in ReadRegs(Instr)
      BY <3>1 DEF Fetches, ReadRegs
    <3>3. GetReg(Instr.Arg1) \in Cell /\ LandsIn(prog, Heap, H, H, GetReg(Instr.Arg1))
      BY <3>1, <3>2 DEF Fetches
    <3> QED BY <1>3, <2>0, <2>1, <3>3
  <2>2. CASE ReadStep("UNIFY_CONSTANT", 1) /\ pdl' = <<CellOf(Instr.Arg1), Heap[S]>>
    <3>1. Fetches(at, "UNIFY_CONSTANT")
      BY <2>2, FetchedNotes DEF Transfers, ReadStep
    <3>2. CellOf(Instr.Arg1) \in Cell /\ LandsIn(prog, Heap, H, H, CellOf(Instr.Arg1))
      BY <3>1, OperandLands DEF Fetches
    <3> QED BY <1>3, <2>0, <2>2, <3>2
  <2> QED BY <1>4, <2>1, <2>2 DEF UnifyRead
<1> QED BY <1>1, <1>2, <1>4

\* What is known when the operand has been dereferenced.
LEMMA ChasedNotes ==
  ASSUME NEW at, Going(at), NEW op, op \notin Transfers, Chased(op), Match
  PROVE  \E i, n, m, c :
           /\ Chases(at, i, n, m, c)
           /\ i.Op = op /\ chase[1] = c /\ chase' = <<>> /\ P' = P /\ Here' = Here + 1
           /\ pdl' = pdl /\ Steady /\ TypeOK /\ prog' = prog /\ KeepsFunctors
           /\ Legal(prog, i) /\ BlockAfter(prog, i, n, m) /\ RegsAfter(i, n, m)
           /\ H \in Nat /\ H' \in Nat /\ H <= H' /\ n.need \in Nat /\ m.need \in Nat
<1>1. Chasing /\ Pending.Op = op /\ chase' = <<>> /\ UNCHANGED <<P, pdl, prog>>
  BY DEF Chased
<1>2. PICK i, n, m, c : Chases(at, i, n, m, c)
  BY <1>1, ChasingNotes
<1>3. i.Op = op /\ chase[1] = c /\ Here = P - 1 /\ P \in Nat /\ IsNote(n) /\ IsNote(m)
      /\ Legal(prog, i) /\ BlockAfter(prog, i, n, m) /\ RegsAfter(i, n, m)
  BY <1>1, <1>2 DEF Chases
<1>4. Here' = Here + 1
  BY <1>1, <1>3 DEF Here
<1>5. Steady /\ TypeOK /\ KeepsFunctors
  BY MatchSteady, WorkKeepsFunctors DEF Steady, Going
<1>6. H \in Nat /\ H' \in Nat /\ H <= H' /\ n.need \in Nat /\ m.need \in Nat
  BY <1>3, <1>5, Ranges DEF IsNote, KeepsFunctors
<1> QED BY <1>1, <1>2, <1>3, <1>4, <1>5, <1>6

\* A block was found, or is to be written.
LEMMA Matches ==
  ASSUME NEW at, Going(at), TypeOK', Match, NEW op \in {"GET_STRUCTURE", "GET_LIST"}, Chased(op),
         UNCHANGED regVars, Fail' = FALSE, NEW m, m = at[P],
         Closed(prog, Heap', H', H' + Missing(m)'),
         m.block = "unify" /\ Mode' = "READ" => S' + m.need <= H'
  PROVE  Kept(at)'
<1>1. op \notin Transfers
  BY DEF Transfers
<1>2. PICK i, n, m2, c :
           /\ Chases(at, i, n, m2, c)
           /\ i.Op = op /\ chase[1] = c /\ chase' = <<>> /\ P' = P /\ Here' = Here + 1
           /\ pdl' = pdl /\ Steady /\ TypeOK /\ prog' = prog /\ KeepsFunctors
           /\ Legal(prog, i) /\ BlockAfter(prog, i, n, m2) /\ RegsAfter(i, n, m2)
           /\ H \in Nat /\ H' \in Nat /\ H <= H' /\ n.need \in Nat /\ m2.need \in Nat
  BY <1>1, ChasedNotes
<1>3. m2 = m /\ i = prog.Code[Here + 1] /\ n = at[Here] /\ m = at[Here + 1]
      /\ Here < Len(prog.Code) /\ Len(pdl) < 2
  BY <1>2 DEF Chases
<1>4. Given(i) = {} /\ Opened(i) = {} /\ i.Op \notin Transfers /\ op \in Opens
  BY <1>1, <1>2 DEF Given, Opened, Opens
<1>5. Given(i) \cup Opened(i) = {} /\ SetRegs({}, REF(0)) /\ REF(0) \in Cell
  BY <1>2, <1>4, NoneWritten DEF REF, Cell, TagREF
<1>6. n.open # {} => H + n.need <= H' + m.need
  <2>1. n.need = 0
    BY <1>2, <1>4 DEF BlockAfter
  <2> QED BY <1>2, <1>3, <2>1
<1>7. ~(Len(pdl') >= 2)
  BY <1>2, <1>3 DEF Going, TypeOK, LoopsOK
<1> QED BY <1>2, <1>3, <1>4, <1>5, <1>6, <1>7, Does

\* Or nothing that matches.
LEMMA MismatchKept ==
  ASSUME NEW at, Going(at), TypeOK', Match, NEW op \in {"GET_STRUCTURE", "GET_LIST"}, Chased(op),
         Mismatch
  PROVE  Kept(at)'
<1>1. op \notin Transfers
  BY DEF Transfers
<1>2. Steady /\ chase' = <<>> /\ pdl' = pdl /\ UNCHANGED regVars /\ Fail'
  BY MatchSteady DEF Chased, Mismatch
<1>3. Len(pdl) < 2
  <2>1. chase # <<>>
    BY DEF Chased, Chasing
  <2> QED BY <2>1 DEF Going, TypeOK, LoopsOK
<1> QED BY <1>2, <1>3, GivesUp

\* GET_STRUCTURE.
LEMMA GetStructureKept ==
  ASSUME NEW at, Going(at), TypeOK', GetStructure PROVE Kept(at)'
<1> DEFINE op == "GET_STRUCTURE"
<1>0. Match /\ Chased(op) /\ op \notin Transfers /\ op \in {"GET_STRUCTURE", "GET_LIST"}
      /\ op \in Opens
  BY DEF Match, GetStructure, Transfers, Opens
<1>1. PICK i, n, m, c :
           /\ Chases(at, i, n, m, c)
           /\ i.Op = op /\ chase[1] = c /\ chase' = <<>> /\ P' = P /\ Here' = Here + 1
           /\ pdl' = pdl /\ Steady /\ TypeOK /\ prog' = prog /\ KeepsFunctors
           /\ Legal(prog, i) /\ BlockAfter(prog, i, n, m) /\ RegsAfter(i, n, m)
           /\ H \in Nat /\ H' \in Nat /\ H <= H' /\ n.need \in Nat /\ m.need \in Nat
  BY <1>0, ChasedNotes
<1>2. /\ Here + 1 = P /\ m = at[P] /\ i = Pending /\ i \in Instruction /\ DataHolds(n)
      /\ c \in Cell /\ c.val \in Nat /\ LandsIn(prog, Heap, H, H, c) /\ ~Fail /\ Fail \in BOOLEAN
  BY <1>1 DEF Chases, Going, Cell, TypeOK, ControlOK
<1>3. /\ i.Arg1 \in Nat /\ i.Arg1 < Len(prog.Arity) /\ n.need = 0
      /\ m.need = prog.Arity[i.Arg1 + 1]
  BY <1>0, <1>1, <1>2 DEF Instruction, NatArg1, Legal, BlockAfter, BlockSize
<1>4. Missing(n) = 0 /\ Missing(m)' = IF Mode' = "WRITE" THEN m.need ELSE 0
  BY <1>1, <1>0, MissingAfter
<1>5. Closed(prog, Heap, H, H)
  BY <1>1, <1>2, <1>4 DEF DataHolds
<1>6. CASE c.tag = TagREF
  <2>1. /\ H' = H + 1 /\ Bind(Pushed(<<FUN(i.Arg1)>>), c, STR(H)) /\ Mode' = "WRITE"
        /\ UNCHANGED <<regVars, S, Fail>>
    BY <1>1, <1>2, <1>6 DEF GetStructure, TagREF, TagSTR
  <2>2. BoundAddr(c, STR(H)) = c.val /\ BoundTo(c, STR(H)) = STR(H) /\ c.val < H
    BY <1>2, <1>6 DEF BoundAddr, BoundTo, BindsFirst, IsREF, STR, TagREF, TagSTR, LandsIn
  <2>3. Heap' = [Pushed(<<FUN(i.Arg1)>>) EXCEPT ![c.val] = STR(H)]
    BY <2>1, <2>2 DEF Bind
  <2>4. H' <= HeapSize /\ HeapSize \in Nat
    BY SizesAssumption DEF TypeOK, HeapOK
  <2>5. /\ Heap'[c.val] = STR(H) /\ Heap'[H] = FUN(i.Arg1)
        /\ \A a \in 0 .. H - 1 : a # c.val => Heap'[a] = Heap[a]
    <3>1. \A a \in 0 .. H : a \in Addr
      BY <1>1, <2>1, <2>4 DEF Addr
    <3>2. Pushed(<<FUN(i.Arg1)>>)[H] = FUN(i.Arg1)
      BY <1>1, <3>1 DEF Pushed
    <3>3. \A a \in 0 .. H - 1 : Pushed(<<FUN(i.Arg1)>>)[a] = Heap[a]
      BY <1>1, <3>1 DEF Pushed
    <3>4. DOMAIN Pushed(<<FUN(i.Arg1)>>) = Addr /\ c.val \in Addr /\ H \in Addr /\ c.val # H
      BY <1>1, <1>2, <2>2, <3>1 DEF Pushed
    <3>5. \A a \in Addr : Heap'[a] = IF a = c.val THEN STR(H) ELSE Pushed(<<FUN(i.Arg1)>>)[a]
      BY <2>3, <3>4
    <3>6. \A a \in 0 .. H - 1 : a \in Addr
      BY <1>1, <3>1
    <3> QED BY <3>2, <3>3, <3>4, <3>5, <3>6
  <2>6. LandsIn(prog, Heap', H', H' + m.need, STR(H)) /\ \A a : MayHold(a, STR(H))
    <3>1. STR(H).tag = TagSTR /\ STR(H).val = H /\ Heap'[H].tag = TagFUN /\ Heap'[H].val = i.Arg1
      BY <2>5 DEF STR, FUN
    <3>2. H < H' /\ H + prog.Arity[i.Arg1 + 1] < H' + m.need
      BY <1>1, <1>3, <2>1
    <3>3. TagSTR # TagREF /\ TagSTR # TagLIS
      BY DEF TagSTR, TagREF, TagLIS
    <3> QED BY <1>3, <3>1, <3>2, <3>3 DEF LandsIn, MayHold
  <2>7. LandsIn(prog, Heap', H', H' + m.need, FUN(i.Arg1)) /\ \A a : MayHold(a, FUN(i.Arg1))
    BY ConstantsLand DEF FUN
  <2>8. Closed(prog, Heap', H', H' + m.need)
    <3>1. ASSUME NEW a \in 0 .. H' - 1
          PROVE  \/ a < H /\ Heap'[a] = Heap[a]
                 \/ LandsIn(prog, Heap', H', H' + m.need, Heap'[a]) /\ MayHold(a, Heap'[a])
      <4>1. a = H \/ a = c.val \/ (a \in 0 .. H - 1 /\ a < H /\ a # c.val)
        BY <1>1, <2>1
      <4> QED BY <2>5, <2>6, <2>7, <4>1
    <3>2. H' + m.need \in Nat /\ H <= H' + m.need
      BY <1>1
    <3> QED BY <1>1, <1>5, <3>1, <3>2, StillClosed
  <2>9. /\ Closed(prog, Heap', H', H' + Missing(m)') /\ Fail' = FALSE
        /\ ~(m.block = "unify" /\ Mode' = "READ")
    BY <1>2, <1>4, <2>1, <2>8
  <2> QED BY <1>0, <1>2, <2>1, <2>9, Matches
<1>7. ASSUME c.tag = TagSTR, Heap[c.val].val = i.Arg1, ReadFrom(c.val + 1) PROVE Kept(at)'
  <2>1. UNCHANGED <<Heap, H, regVars>> /\ S' = c.val + 1 /\ Mode' = "READ" /\ Fail' = FALSE
    BY <1>2, <1>7 DEF ReadFrom, heapVars
  <2>2. c.val + m.need < H /\ S' + m.need <= H'
    BY <1>1, <1>2, <1>3, <1>7, <2>1 DEF LandsIn
  <2>3. Missing(m)' = 0 /\ H' + 0 = H /\ H' = H /\ Heap' = Heap
    BY <1>1, <1>4, <2>1
  <2>4. Closed(prog, Heap', H', H' + Missing(m)')
    BY <1>5, <2>3
  <2> QED BY <1>0, <1>2, <2>1, <2>2, <2>4, Matches
<1>8. CASE c.tag # TagREF
  <2>1. Mismatch \/ (c.tag = TagSTR /\ Heap[c.val].val = i.Arg1 /\ ReadFrom(c.val + 1))
    BY <1>1, <1>2, <1>8 DEF GetStructure, TagREF, TagSTR
  <2> QED BY <1>0, <1>7, <2>1, MismatchKept
<1> QED BY <1>6, <1>8

\* GET_LIST.
LEMMA GetListKept ==
  ASSUME NEW at, Going(at), TypeOK', GetList PROVE Kept(at)'
<1> DEFINE op == "GET_LIST"
<1>0. Match /\ Chased(op) /\ op \notin Transfers /\ op \in {"GET_STRUCTURE", "GET_LIST"}
      /\ op \in Opens
  BY DEF Match, GetList, Transfers, Opens
<1>1. PICK i, n, m, c :
           /\ Chases(at, i, n, m, c)
           /\ i.Op = op /\ chase[1] = c /\ chase' = <<>> /\ P' = P /\ Here' = Here + 1
           /\ pdl' = pdl /\ Steady /\ TypeOK /\ prog' = prog /\ KeepsFunctors
           /\ Legal(prog, i) /\ BlockAfter(prog, i, n, m) /\ RegsAfter(i, n, m)
           /\ H \in Nat /\ H' \in Nat /\ H <= H' /\ n.need \in Nat /\ m.need \in Nat
  BY <1>0, ChasedNotes
<1>2. /\ Here + 1 = P /\ m = at[P] /\ i = Pending /\ DataHolds(n)
      /\ c \in Cell /\ c.val \in Nat /\ LandsIn(prog, Heap, H, H, c) /\ ~Fail /\ Fail \in BOOLEAN
  BY <1>1 DEF Chases, Going, Cell, TypeOK, ControlOK
<1>3. n.need = 0 /\ m.need = 2
  BY <1>0, <1>1, <1>2 DEF BlockAfter, BlockSize
<1>4. Missing(n) = 0 /\ Missing(m)' = IF Mode' = "WRITE" THEN m.need ELSE 0
  BY <1>1, <1>0, MissingAfter
<1>5. Closed(prog, Heap, H, H)
  BY <1>1, <1>2, <1>4 DEF DataHolds
<1>6. CASE c.tag = TagREF
  <2>1. H' = H /\ Bind(Heap, c, LIS(H)) /\ Mode' = "WRITE" /\ UNCHANGED <<regVars, S, Fail>>
    BY <1>1, <1>2, <1>6 DEF GetList, TagREF, TagLIS
  <2>2. BoundAddr(c, LIS(H)) = c.val /\ BoundTo(c, LIS(H)) = LIS(H) /\ c.val < H
    BY <1>2, <1>6 DEF BoundAddr, BoundTo, BindsFirst, IsREF, LIS, TagREF, TagLIS, LandsIn
  <2>3. Heap' = [Heap EXCEPT ![c.val] = LIS(H)]
    BY <2>1, <2>2 DEF Bind
  <2>4. \A a \in 0 .. H - 1 : Heap'[a] = IF a = c.val THEN LIS(H) ELSE Heap[a]
    <3>1. DOMAIN Heap = Addr
      BY <1>1 DEF TypeOK, HeapOK
    <3>2. \A a \in 0 .. H - 1 : a \in Addr
      BY <1>1, Ranges DEF Addr
    <3> QED BY <2>3, <3>1, <3>2
  <2>5. LandsIn(prog, Heap', H', H' + m.need, LIS(H)) /\ \A a : MayHold(a, LIS(H))
    <3>1. LIS(H).tag = TagLIS /\ LIS(H).val = H /\ TagLIS # TagREF /\ TagLIS # TagSTR
      BY DEF LIS, TagSTR, TagREF, TagLIS
    <3>2. H + 1 < H' + m.need
      BY <1>1, <1>3, <2>1
    <3> QED BY <3>1, <3>2 DEF LandsIn, MayHold
  <2>6. Closed(prog, Heap', H', H' + m.need)
    <3>1. ASSUME NEW a \in 0 .. H' - 1
          PROVE  \/ a < H /\ Heap'[a] = Heap[a]
                 \/ LandsIn(prog, Heap', H', H' + m.need, Heap'[a]) /\ MayHold(a, Heap'[a])
      <4>1. a \in 0 .. H - 1 /\ a < H
        BY <1>1, <2>1
      <4> QED BY <2>4, <2>5, <4>1
    <3>2. H' + m.need \in Nat /\ H <= H' + m.need
      BY <1>1
    <3> QED BY <1>1, <1>5, <3>1, <3>2, StillClosed
  <2>7. /\ Closed(prog, Heap', H', H' + Missing(m)') /\ Fail' = FALSE
        /\ ~(m.block = "unify" /\ Mode' = "READ")
    BY <1>2, <1>4, <2>1, <2>6
  <2> QED BY <1>0, <1>2, <2>1, <2>7, Matches
<1>7. ASSUME c.tag = TagLIS, ReadFrom(c.val) PROVE Kept(at)'
  <2>1. UNCHANGED <<Heap, H, regVars>> /\ S' = c.val /\ Mode' = "READ" /\ Fail' = FALSE
    BY <1>2, <1>7 DEF ReadFrom, heapVars
  <2>2. c.val + 1 < H
    BY <1>2, <1>7 DEF LandsIn
  <2>3. S' + m.need <= H'
    BY <1>1, <1>2, <1>3, <2>1, <2>2
  <2>4. Missing(m)' = 0 /\ H' + 0 = H /\ H' = H /\ Heap' = Heap
    BY <1>1, <1>4, <2>1
  <2>5. Closed(prog, Heap', H', H' + Missing(m)')
    BY <1>5, <2>4
  <2> QED BY <1>0, <1>2, <2>1, <2>3, <2>5, Matches
<1>8. CASE c.tag # TagREF
  <2>1. Mismatch \/ (c.tag = TagLIS /\ ReadFrom(c.val))
    BY <1>1, <1>2, <1>8 DEF GetList, TagREF, TagLIS
  <2> QED BY <1>0, <1>7, <2>1, MismatchKept
<1> QED BY <1>6, <1>8

\* PUT_UNSAFE_VALUE.
LEMMA PutUnsafeKept ==
  ASSUME NEW at, Going(at), TypeOK', PutUnsafeValue PROVE Kept(at)'
<1> DEFINE op == "PUT_UNSAFE_VALUE"
<1>0. Match /\ Chased(op) /\ op \notin Transfers /\ op \notin Opens \cup Sets \cup Unifies
  BY DEF Match, PutUnsafeValue, Transfers, Opens, Sets, Unifies
<1>1. PICK i, n, m, c :
           /\ Chases(at, i, n, m, c)
           /\ i.Op = op /\ chase[1] = c /\ chase' = <<>> /\ P' = P /\ Here' = Here + 1
           /\ pdl' = pdl /\ Steady /\ TypeOK /\ prog' = prog /\ KeepsFunctors
           /\ Legal(prog, i) /\ BlockAfter(prog, i, n, m) /\ RegsAfter(i, n, m)
           /\ H \in Nat /\ H' \in Nat /\ H <= H' /\ n.need \in Nat /\ m.need \in Nat
  BY <1>0, ChasedNotes
<1>2. /\ i = Pending /\ i = prog.Code[Here + 1] /\ n = at[Here] /\ m = at[Here + 1]
      /\ Here < Len(prog.Code) /\ Len(pdl) < 2 /\ DataHolds(n)
      /\ c \in Cell /\ c.val \in Nat /\ LandsIn(prog, Heap, H, H, c)
      /\ \A r \in Given(i) : IsReg(r)
  BY <1>1 DEF Chases, Cell
<1>3. /\ n.need = 0 /\ m.need = 0 /\ m.block = n.block /\ Missing(n) = 0 /\ Missing(m)' = 0
  BY <1>0, <1>1, MissingAfter DEF BlockAfter
<1>4. Closed(prog, Heap, H, H) /\ (n.block = "unify" /\ Mode = "READ" => S + 0 <= H)
  BY <1>1, <1>2, <1>3 DEF DataHolds
<1>5. Given(i) = {i.Arg2} /\ Opened(i) = {} /\ Given(i) \cup Opened(i) = {i.Arg2}
  BY <1>1 DEF Given, Opened
<1>6. UNCHANGED <<S, Mode, Fail>> /\ S \in Nat /\ Fail' = FALSE
  BY <1>1 DEF PutUnsafeValue, readVars, TypeOK, LoopsOK, Going, ControlOK
<1>7. /\ m.block = "unify" /\ Mode' = "READ" => S' + m.need <= H'
      /\ n.open # {} => H + n.need <= H' + m.need
      /\ ~(Len(pdl') >= 2)
  <2>1. m.block = "unify" /\ Mode' = "READ" => S' + m.need <= H'
    <3>1. n.block = "unify" /\ Mode = "READ" => S <= H
      BY <1>1, <1>4, <1>6
    <3> QED BY <1>1, <1>3, <1>6, <3>1
  <2>2. H + n.need <= H' + m.need
    BY <1>1, <1>3
  <2>3. Len(pdl') \in Nat /\ Len(pdl') < 2
    BY <1>1, <1>2 DEF TypeOK, LoopsOK
  <2> QED BY <2>1, <2>2, <2>3
<1>8. ASSUME NEW d \in Cell, SetRegs({i.Arg2}, d), LandsIn(prog, Heap', H', H', d),
             Closed(prog, Heap', H', H')
      PROVE  Kept(at)'
  <2>1. H' + Missing(m)' = H'
    BY <1>1, <1>3
  <2>2. Closed(prog, Heap', H', H' + Missing(m)')
    BY <1>8, <2>1
  <2>3. i.Op \notin Transfers /\ SetRegs(Given(i) \cup Opened(i), d)
        /\ \A r \in Given(i) \cup Opened(i) : IsReg(r)
    BY <1>0, <1>1, <1>2, <1>5, <1>8
  <2> QED BY <1>1, <1>2, <1>5, <1>6, <1>7, <1>8, <2>2, <2>3, Does
<1>9. CASE IsREF(c) /\ c.val >= HB
  <2>1. /\ H' = H + 1 /\ Bind(Pushed(NewVars(1)), c, REF(H)) /\ SetRegs({i.Arg2}, REF(H))
    BY <1>1, <1>2, <1>9 DEF PutUnsafeValue
  <2>2. BoundAddr(c, REF(H)) = H /\ BoundTo(c, REF(H)) = c /\ c.val < H
    <3>1. c.val < H
      BY <1>2, <1>9 DEF LandsIn, IsREF
    <3>2. ~BindsFirst(c, REF(H))
      BY <1>1, <1>2, <3>1 DEF BindsFirst, REF, IsREF
    <3> QED BY <3>1, <3>2 DEF BoundAddr, BoundTo, REF
  <2>3. Heap' = [Pushed(NewVars(1)) EXCEPT ![H] = c]
    BY <2>1, <2>2 DEF Bind
  <2>4. H' <= HeapSize /\ HeapSize \in Nat
    BY SizesAssumption DEF TypeOK, HeapOK
  <2>5. Heap'[H] = c /\ \A a \in 0 .. H - 1 : Heap'[a] = Heap[a]
    <3>1. \A a \in 0 .. H : a \in Addr
      BY <1>1, <2>1, <2>4 DEF Addr
    <3>2. \A a \in 0 .. H - 1 : Pushed(NewVars(1))[a] = Heap[a]
      BY <1>1, <3>1 DEF Pushed
    <3>3. DOMAIN Pushed(NewVars(1)) = Addr /\ H \in Addr /\ \A a \in 0 .. H - 1 : a \in Addr
      BY <1>1, <3>1 DEF Pushed
    <3>4. \A a \in Addr : Heap'[a] = IF a = H THEN c ELSE Pushed(NewVars(1))[a]
      BY <2>3, <3>3
    <3>5. \A a \in 0 .. H - 1 : a # H
      BY <1>1
    <3> QED BY <3>2, <3>3, <3>4, <3>5
  <2>6. LandsIn(prog, Heap', H', H', c) /\ MayHold(H, c)
    <3>1. LandsIn(prog, Heap', H', H', c)
      BY <1>1, <1>2, StillLands
    <3> QED BY <1>1, <1>2, <2>2, <3>1 DEF MayHold
  <2>7. Closed(prog, Heap', H', H')
    <3>1. ASSUME NEW a \in 0 .. H' - 1
          PROVE  \/ a < H /\ Heap'[a] = Heap[a]
                 \/ LandsIn(prog, Heap', H', H', Heap'[a]) /\ MayHold(a, Heap'[a])
      <4>1. a = H \/ (a \in 0 .. H - 1 /\ a < H)
        BY <1>1, <2>1
      <4> QED BY <2>5, <2>6, <4>1
    <3> QED BY <1>1, <1>4, <3>1, StillClosed
  <2>8. LandsIn(prog, Heap', H', H', REF(H)) /\ REF(H) \in Cell
    <3>1. H < H'
      BY <1>1, <2>1
    <3> QED BY <1>1, <3>1, VariablesLand, PointerTypes
  <2> QED BY <1>8, <2>1, <2>7, <2>8
<1>10. CASE ~(IsREF(c) /\ c.val >= HB)
  <2>1. SetRegs({i.Arg2}, c) /\ Heap' = Heap /\ H' = H
    BY <1>1, <1>2, <1>10 DEF PutUnsafeValue, heapVars
  <2>2. LandsIn(prog, Heap', H', H', c) /\ Closed(prog, Heap', H', H')
    BY <1>2, <1>4, <2>1
  <2> QED BY <1>2, <1>8, <2>1, <2>2
<1> QED BY <1>9, <1>10

\* The instructions that match keep the invariant.
LEMMA MatchKept ==
  ASSUME NEW at, Going(at), TypeOK', Match PROVE Kept(at)'
  BY ReadKept, GetUnifyKept, StartChaseKept, ChaseStepKept, GetStructureKept, GetListKept,
     PutUnsafeKept DEF Match

-----------------------------------------------------------------------------
(* Unification. *)

\* What is known while unify runs.
LEMMA UnifyingNotes ==
  ASSUME NEW at, Going(at), Unifying
  PROVE  /\ Here \in DOMAIN at /\ chase = <<>> /\ TypeOK /\ Missing(at[Here]) = 0
         /\ Closed(prog, Heap, H, H) /\ pdl \in Seq(Cell) /\ Len(pdl) >= 2
         /\ \A k \in 1 .. Len(pdl) : pdl[k] \in Cell /\ LandsIn(prog, Heap, H, H, pdl[k])
         /\ D1 \in Cell /\ D2 \in Cell
         /\ LandsIn(prog, Heap, H, H, D1) /\ LandsIn(prog, Heap, H, H, D2)
         /\ Rest \in Seq(Cell) /\ Len(Rest) = Len(pdl) - 2 /\ H \in Nat
         /\ \A k \in 1 .. Len(Rest) : LandsIn(prog, Heap, H, H, Rest[k])
<1>1. /\ TypeOK /\ pdl \in Seq(Cell) /\ Len(pdl) >= 2 /\ H \in Nat
  BY Ranges DEF Going, Unifying, TypeOK, LoopsOK
<1>2. chase = <<>> /\ D1 \in Cell /\ D2 \in Cell /\ Rest \in Seq(Cell)
  BY <1>1, PdlFacts
<1>3. Here \in DOMAIN at /\ DataHolds(at[Here]) /\ LoopsHold(at[Here])
  BY DEF Going, Kept, Current
<1>4. /\ Missing(at[Here]) = 0
      /\ \A k \in 1 .. Len(pdl) : pdl[k] \in Cell /\ LandsIn(prog, Heap, H, H, pdl[k])
  BY <1>1, <1>3 DEF LoopsHold
<1>5. Closed(prog, Heap, H, H)
  BY <1>1, <1>3, <1>4 DEF DataHolds
<1>6. LandsIn(prog, Heap, H, H, D1) /\ LandsIn(prog, Heap, H, H, D2)
  <2>1. Len(pdl) - 1 \in 1 .. Len(pdl) /\ Len(pdl) \in 1 .. Len(pdl)
    BY <1>1
  <2> QED BY <1>4, <2>1 DEF D1, D2
<1>7. Len(Rest) = Len(pdl) - 2 /\ \A k \in 1 .. Len(Rest) : Rest[k] = pdl[k] /\ k \in 1 .. Len(pdl)
  <2>0. Len(pdl) - 2 \in Nat /\ Len(pdl) - 2 <= Len(pdl)
    BY <1>1
  <2>1. PICK n \in Nat : n = Len(pdl) - 2 /\ n <= Len(pdl) /\ Rest = SubSeq(pdl, 1, n)
    BY <2>0 DEF Rest
  <2>2. Len(Rest) = n /\ \A k \in 1 .. n : Rest[k] = pdl[k]
    BY <1>1, <2>1
  <2> QED BY <1>1, <2>1, <2>2
<1> QED BY <1>1, <1>2, <1>3, <1>4, <1>5, <1>6, <1>7

\* Unify goes on, or has succeeded.
LEMMA UnifyStays ==
  ASSUME NEW at, Going(at), TypeOK', Unify, Unifying, UNCHANGED <<regVars, readVars, H, chase, P>>,
         Fail' = FALSE, Closed(prog, Heap', H', H'),
         \A k \in 1 .. Len(pdl') : LandsIn(prog, Heap', H', H', pdl'[k])
  PROVE  Kept(at)'
<1>1. PICK n : n = at[Here]
  OBVIOUS
<1>2. chase = <<>> /\ Missing(n) = 0 /\ TypeOK /\ H \in Nat
  BY <1>1, UnifyingNotes
<1>3. Steady
  <2>1. WorkStep
    BY UnifyWorks DEF Going
  <2> QED BY <2>1 DEF Steady, Unify, UnifyDeref, UnifySame, UnifyBind, UnifyArgs, UnifyFail,
        frameVars, choiceVars, status
<1>4. Here' = Here
  BY DEF Here
<1>5. Missing(n)' = 0 /\ prog' = prog
  BY <1>2, <1>3 DEF Missing, readVars, Steady
<1>6. LoopsHold(n)'
  BY <1>2, <1>5 DEF LoopsHold
<1>7. H' + Missing(n) = H'
  BY <1>2
<1>8. Closed(prog, Heap', H', H' + Missing(n))
  BY <1>7
<1> QED BY <1>1, <1>3, <1>4, <1>6, <1>8, StaysOn

\* A reference that is followed leads to a cell that lands.
LEMMA DerefKept ==
  ASSUME NEW at, Going(at), TypeOK', UnifyDeref PROVE Kept(at)'
<1>1. Unify /\ Unifying /\ UNCHANGED <<regVars, readVars, H, chase, P, Heap>> /\ Fail' = FALSE
  BY DEF Unify, UnifyDeref, heapVars, status, Going, TypeOK, ControlOK
<1>2. /\ TypeOK /\ Closed(prog, Heap, H, H) /\ pdl \in Seq(Cell) /\ Len(pdl) >= 2
      /\ \A k \in 1 .. Len(pdl) : LandsIn(prog, Heap, H, H, pdl[k])
      /\ D1 \in Cell /\ D2 \in Cell
      /\ LandsIn(prog, Heap, H, H, D1) /\ LandsIn(prog, Heap, H, H, D2) /\ H \in Nat
  BY <1>1, UnifyingNotes
<1>3. PICK j \in 1 .. Len(pdl), c \in {D1, D2} :
        pdl' = [pdl EXCEPT ![j] = Heap[c.val]] /\ IsREF(c)
  <2>1. Len(pdl) - 1 \in 1 .. Len(pdl) /\ Len(pdl) \in 1 .. Len(pdl)
    BY <1>2
  <2>2. CASE ~Resolved(D1) /\ pdl' = [pdl EXCEPT ![Len(pdl) - 1] = Heap[D1.val]]
    BY <2>1, <2>2 DEF Resolved
  <2>3. CASE ~Resolved(D2) /\ pdl' = [pdl EXCEPT ![Len(pdl)] = Heap[D2.val]]
    BY <2>1, <2>3 DEF Resolved
  <2> QED BY <2>2, <2>3 DEF UnifyDeref
<1>4. LandsIn(prog, Heap, H, H, Heap[c.val])
  BY <1>2, <1>3, NextLands
<1>5. \A k \in 1 .. Len(pdl') : LandsIn(prog, Heap', H', H', pdl'[k])
  <2>1. \A k \in 1 .. Len(pdl') : k \in 1 .. Len(pdl) /\ (pdl'[k] = Heap[c.val] \/ pdl'[k] = pdl[k])
    BY <1>2, <1>3
  <2>2. prog' = prog
    BY DEF UnifyDeref, status
  <2> QED BY <1>1, <1>2, <1>4, <2>1, <2>2
<1> QED BY <1>1, <1>2, <1>5, UnifyStays

\* Equal cells, or a variable, and a cell.
LEMMA PairKept ==
  ASSUME NEW at, Going(at), TypeOK', UnifySame \/ UnifyBind PROVE Kept(at)'
<1>1. /\ Unify /\ Unifying /\ UNCHANGED <<regVars, readVars, H, chase, P>> /\ Fail' = FALSE
      /\ pdl' = Rest
  BY DEF Unify, UnifySame, UnifyBind, Comparing, heapVars, status, Going, TypeOK, ControlOK
<1>2. /\ TypeOK /\ Closed(prog, Heap, H, H) /\ H \in Nat /\ H' = H
      /\ \A k \in 1 .. Len(Rest) : LandsIn(prog, Heap, H, H, Rest[k]) /\ Rest[k] \in Cell
      /\ D1 \in Cell /\ D2 \in Cell
      /\ LandsIn(prog, Heap, H, H, D1) /\ LandsIn(prog, Heap, H, H, D2)
  BY <1>1, UnifyingNotes
<1>3. CASE UnifySame
  <2>1. Heap' = Heap
    BY <1>3 DEF UnifySame, heapVars
  <2> QED BY <1>1, <1>2, <2>1, UnifyStays
<1>4. CASE UnifyBind
  <2>1. PICK addr, to : addr = BoundAddr(D1, D2) /\ to = BoundTo(D1, D2)
    OBVIOUS
  <2>2. /\ addr \in Nat /\ addr < H /\ to \in Cell /\ LandsIn(prog, Heap, H, H, to)
        /\ MayHold(addr, to)
    <3>1. IsREF(D1) \/ IsREF(D2)
      BY <1>4 DEF UnifyBind
    <3>2. D1.val \in Nat /\ D2.val \in Nat
      BY <1>2 DEF Cell
    <3>3. IsREF(D1) => D1.val < H
      BY <1>2 DEF LandsIn, IsREF
    <3>4. IsREF(D2) => D2.val < H
      BY <1>2 DEF LandsIn, IsREF
    <3>5. CASE BindsFirst(D1, D2)
      <4>1. addr = D1.val /\ to = D2
        BY <2>1, <3>5 DEF BoundAddr, BoundTo
      <4>2. IsREF(D1) /\ (~IsREF(D2) \/ D2.val < D1.val)
        BY <3>5 DEF BindsFirst
      <4> QED BY <1>2, <3>2, <3>3, <4>1, <4>2 DEF MayHold, IsREF
    <3>6. CASE ~BindsFirst(D1, D2)
      <4>1. addr = D2.val /\ to = D1
        BY <2>1, <3>6 DEF BoundAddr, BoundTo
      <4>2. IsREF(D2) /\ (IsREF(D1) => D1.val <= D2.val)
        BY <3>1, <3>2, <3>6 DEF BindsFirst
      <4> QED BY <1>2, <3>2, <3>4, <4>1, <4>2 DEF MayHold, IsREF
    <3> QED BY <3>5, <3>6
  <2>3. \A a \in 0 .. H - 1 : Heap'[a] = IF a = addr THEN to ELSE Heap[a]
    <3>1. Heap' = [Heap EXCEPT ![addr] = to]
      BY <1>4, <2>1 DEF UnifyBind, Bind
    <3>2. DOMAIN Heap = Addr
      BY <1>2 DEF TypeOK, HeapOK
    <3>3. \A a \in 0 .. H - 1 : a \in Addr
      BY <1>2, Ranges DEF Addr
    <3> QED BY <3>1, <3>2, <3>3
  <2>4. KeepsFunctors /\ prog' = prog
    <3>1. WorkStep
      BY <1>1, UnifyWorks DEF Going
    <3> QED BY <1>2, <1>4, <3>1, WorkKeepsFunctors DEF UnifyBind, status
  <2>5. \A c \in Cell : LandsIn(prog, Heap, H, H, c) => LandsIn(prog, Heap', H', H', c)
    BY <1>2, <2>4, StillLands
  <2>6. Closed(prog, Heap', H', H')
    <3>1. ASSUME NEW a \in 0 .. H' - 1
          PROVE  \/ a < H /\ Heap'[a] = Heap[a]
                 \/ LandsIn(prog, Heap', H', H', Heap'[a]) /\ MayHold(a, Heap'[a])
      <4>1. a \in 0 .. H - 1 /\ a < H
        BY <1>2
      <4> QED BY <2>2, <2>3, <2>5, <4>1
    <3> QED BY <1>2, <2>4, <3>1, StillClosed
  <2>7. \A k \in 1 .. Len(pdl') : LandsIn(prog, Heap', H', H', pdl'[k])
    BY <1>1, <1>2, <2>5
  <2> QED BY <1>1, <2>6, <2>7, UnifyStays
<1> QED BY <1>3, <1>4

\* The arguments of blocks that are there land.
LEMMA PairsLand ==
  ASSUME TypeOK, Closed(prog, Heap, H, H), NEW a1 \in Int, NEW a2 \in Int, NEW n \in Nat,
         a1 >= -1, a2 >= -1, a1 + n < H, a2 + n < H
  PROVE  /\ Len(CellPairs(a1, a2, n)) = 2 * n /\ CellPairs(a1, a2, n) \in Seq(Cell)
         /\ \A k \in 1 .. 2 * n : LandsIn(prog, Heap, H, H, CellPairs(a1, a2, n)[k])
<1>0. H \in Nat /\ H <= HeapSize /\ HeapSize \in Nat /\ HeapOK
  BY Ranges DEF TypeOK
<1>1. ASSUME NEW k \in 1 .. 2 * n
      PROVE  IF k % 2 = 1 THEN a1 + (k + 1) \div 2 \in 0 .. H - 1 ELSE a2 + k \div 2 \in 0 .. H - 1
  <2>1. CASE k % 2 = 1
    <3>1. (k + 1) \div 2 \in 1 .. n
      BY <2>1
    <3> QED BY <1>0, <2>1, <3>1
  <2>2. CASE k % 2 # 1
    <3>1. k \div 2 \in 1 .. n
      BY <2>2
    <3> QED BY <1>0, <2>2, <3>1
  <2> QED BY <2>1, <2>2
<1>2. CellPairs(a1, a2, n) \in Seq(Cell)
  BY <1>0, CellPairsType
<1>3. Len(CellPairs(a1, a2, n)) = 2 * n
  BY DEF CellPairs
<1>4. ASSUME NEW k \in 1 .. 2 * n PROVE LandsIn(prog, Heap, H, H, CellPairs(a1, a2, n)[k])
  <2>1. CellPairs(a1, a2, n)[k] =
          IF k % 2 = 1 THEN Heap[a1 + (k + 1) \div 2] ELSE Heap[a2 + k \div 2]
    BY DEF CellPairs
  <2> QED BY <1>1, <2>1 DEF Closed
<1> QED BY <1>2, <1>3, <1>4

\* Two structures with the same functor, or two lists.
LEMMA ArgsKept ==
  ASSUME NEW at, Going(at), TypeOK', UnifyArgs PROVE Kept(at)'
<1>1. /\ Unify /\ Unifying /\ UNCHANGED <<regVars, readVars, H, chase, P, Heap>> /\ Fail' = FALSE
      /\ prog' = prog
  BY DEF Unify, UnifyArgs, Comparing, heapVars, status, Going, TypeOK, ControlOK
<1>2. /\ TypeOK /\ Closed(prog, Heap, H, H) /\ H \in Nat
      /\ Rest \in Seq(Cell) /\ \A k \in 1 .. Len(Rest) : LandsIn(prog, Heap, H, H, Rest[k])
      /\ D1 \in Cell /\ D2 \in Cell /\ D1.val \in Nat /\ D2.val \in Nat
      /\ LandsIn(prog, Heap, H, H, D1) /\ LandsIn(prog, Heap, H, H, D2)
  BY <1>1, UnifyingNotes DEF Cell
<1>3. PICK a1 \in Int, a2 \in Int, n \in Nat :
        /\ a1 >= -1 /\ a2 >= -1 /\ a1 + n < H /\ a2 + n < H
        /\ pdl' = Rest \o CellPairs(a1, a2, n)
  <2>1. CASE BothSTR /\ SameFunctor /\ ArityInRange
             /\ pdl' = Rest \o CellPairs(D1.val, D2.val, prog.Arity[Heap[D1.val].val + 1])
    <3>1. /\ D1.val < H /\ D2.val < H /\ Heap[D2.val] = Heap[D1.val]
          /\ Heap[D1.val].val < Len(prog.Arity)
          /\ D1.val + prog.Arity[Heap[D1.val].val + 1] < H
          /\ D2.val + prog.Arity[Heap[D1.val].val + 1] < H
      BY <1>2, <2>1 DEF BothSTR, SameFunctor, LandsIn
    <3>2. prog.Arity[Heap[D1.val].val + 1] \in Nat
      <4>1. D1.val \in Addr
        BY <1>2, <3>1, Ranges DEF Addr
      <4>2. Heap[D1.val].val \in Nat
        BY <1>2, <4>1, Ranges DEF Cell
      <4>3. prog.Arity \in Seq(Nat)
        BY <1>2, ProgramFacts
      <4> QED BY <3>1, <4>2, <4>3
    <3>3. D1.val \in Int /\ D2.val \in Int /\ D1.val >= -1 /\ D2.val >= -1
      BY <1>2
    <3> QED BY <2>1, <3>1, <3>2, <3>3
  <2>2. CASE BothLIS /\ pdl' = Rest \o CellPairs(D1.val - 1, D2.val - 1, 2)
    <3>1. D1.val + 1 < H /\ D2.val + 1 < H
      BY <1>2, <2>2 DEF BothLIS, LandsIn
    <3>2. /\ D1.val - 1 \in Int /\ D2.val - 1 \in Int /\ D1.val - 1 >= -1 /\ D2.val - 1 >= -1
          /\ D1.val - 1 + 2 < H /\ D2.val - 1 + 2 < H /\ 2 \in Nat
      <4>1. PICK x, y : x = D1.val /\ y = D2.val /\ x \in Nat /\ y \in Nat
        BY <1>2
      <4>2. H \in Nat
        BY <1>2, Ranges
      <4> QED BY <3>1, <4>1, <4>2
    <3> QED BY <2>2, <3>2
  <2> QED BY <2>1, <2>2 DEF UnifyArgs
<1>4. PICK more : more = CellPairs(a1, a2, n)
  OBVIOUS
<1>5. /\ Len(more) = 2 * n /\ more \in Seq(Cell)
      /\ \A k \in 1 .. 2 * n : LandsIn(prog, Heap, H, H, more[k])
  BY <1>2, <1>3, <1>4, PairsLand
<1>6. \A k \in 1 .. Len(pdl') : LandsIn(prog, Heap', H', H', pdl'[k])
  <2>1. /\ pdl' = Rest \o more /\ Len(pdl') = Len(Rest) + 2 * n
        /\ Len(Rest) \in Nat
    BY <1>2, <1>3, <1>4, <1>5
  <2>2. ASSUME NEW k \in 1 .. Len(pdl')
        PROVE  \/ k \in 1 .. Len(Rest) /\ pdl'[k] = Rest[k]
               \/ k - Len(Rest) \in 1 .. 2 * n /\ pdl'[k] = more[k - Len(Rest)]
    BY <1>2, <1>5, <2>1
  <2> QED BY <1>1, <1>2, <1>5, <2>2
<1> QED BY <1>1, <1>2, <1>6, UnifyStays

\* The steps of unify keep the invariant.
LEMMA UnifyKept ==
  ASSUME NEW at, Going(at), TypeOK', Unify PROVE Kept(at)'
<1>1. CASE UnifyFail
  <2>1. WorkStep
    BY UnifyWorks DEF Going
  <2>2. Unifying
    BY <1>1 DEF UnifyFail, Comparing
  <2>3. chase = <<>>
    BY <2>2, UnifyingNotes
  <2>4. Steady /\ UNCHANGED regVars /\ Fail' /\ chase' = <<>> /\ Len(pdl') < 2
    BY <1>1, <2>1, <2>3 DEF Steady, UnifyFail, frameVars, choiceVars
  <2> QED BY <2>4, GivesUp
<1> QED BY <1>1, DerefKept, PairKept, ArgsKept DEF Unify

-----------------------------------------------------------------------------
(* Control: arriving somewhere else. *)

\* The invariant when control has arrived at code whose note is m.
LEMMA Arrives ==
  ASSUME NEW at, Certified(prog, at), TypeOK', prog' = prog, ChoicesHold(at)',
         chase' = <<>>, Len(pdl') < 2, Fail' = FALSE,
         P' \in DOMAIN at, NEW m, m = at[P'], m.need = 0, FrameHolds(at, m)',
         Closed(prog, Heap', H', H'),
         \A r \in m.dx : r \in XRegs /\ LandsIn(prog, Heap', H', H', X'[r]),
         \A s \in m.slots : /\ s \in 1 .. Len(envFrames'[E' + 1].Y)
                            /\ s \in m.dy =>
                                 LandsIn(prog, Heap', H', H', envFrames'[E' + 1].Y[s]),
         Returns(prog, at, Awaits(at)'),
         SlotsHold(prog, at, envFrames', Awaits(at)', Heap', H'),
         Agree(at, Goes(at)', Goes(at)'),
         \A k \in 1 .. B' + 1 : Agree(at, SavedWaits(at, k)', Goes(at)'),
         IsRetry(prog, P') => B' >= 0 /\ choicePoints'[B' + 1].NextClause = P'
  PROVE  Kept(at)'
<1>1. Here' = P'
  BY DEF Here
<1>2. IsNote(m) /\ H' \in Nat
  BY NotesFacts DEF TypeOK, HeapOK
<1>3. m.block = "none" /\ m.open = {} /\ Missing(m)' = 0 /\ H' + Missing(m)' = H'
  <2>1. m.block = "none" /\ m.open = {}
    BY <1>2 DEF IsNote
  <2>2. Missing(m)' = 0
    BY <2>1 DEF Missing
  <2>3. H' + 0 = H'
    <3>1. PICK h \in Nat : h = H'
      BY <1>2
    <3>2. h + 0 = h
      OBVIOUS
    <3> QED BY <3>1, <3>2
  <2> QED BY <2>1, <2>2, <2>3
<1>4. DataHolds(m)'
  BY <1>3 DEF DataHolds
<1>5. LoopsHold(m)'
  <2>1. ~(Len(pdl') >= 2)
    BY DEF TypeOK, LoopsOK
  <2> QED BY <2>1 DEF LoopsHold
<1>6. Current(at)'
  <2>1. Agree(at, Goes(at), Goes(at))'
    OBVIOUS
  <2>2. Returns(prog, at, Awaits(at))' /\ SlotsHold(prog, at, envFrames, Awaits(at), Heap, H)'
    OBVIOUS
  <2> QED BY <1>1, <1>4, <1>5, <2>1, <2>2 DEF Current
<1>7. Spares(at)'
  BY DEF Spares
<1> QED BY <1>6, <1>7 DEF Kept

\* What is known of any instruction that is fetched and fills no block.
Transferring(at, op) ==
  LET i == Instr
      n == at[P]
  IN  /\ chase = <<>> /\ Len(pdl) < 2 /\ Here = P /\ P \in DOMAIN at /\ P \in Nat
      /\ P < Len(prog.Code) /\ IsProgram(prog) /\ TypeOK /\ Certified(prog, at)
      /\ i.Op = op /\ i = prog.Code[P + 1] /\ i \in Instruction /\ InRange(i)
      /\ Legal(prog, i) /\ UsesRegs(i, n) /\ Controls(prog, at, P) /\ IsNote(n)
      /\ n.need = 0 /\ FrameHolds(at, n) /\ DataHolds(n) /\ Closed(prog, Heap, H, H) /\ H \in Nat
      /\ Returns(prog, at, Awaits(at)) /\ SlotsHold(prog, at, envFrames, Awaits(at), Heap, H)
      /\ Agree(at, Goes(at), Goes(at)) /\ Spares(at)
      /\ IsRetry(prog, P) => B >= 0 /\ choicePoints[B + 1].NextClause = P
      /\ \A r \in ReadRegs(i) : /\ r \in Int /\ IsReg(r) /\ GetReg(r) \in Cell
                                /\ LandsIn(prog, Heap, H, H, GetReg(r))

\* It is all known.
LEMMA TransferNotes ==
  ASSUME NEW at, Going(at), NEW op, op \notin Sets \cup Unifies, At(op)
  PROVE  Transferring(at, op)
<1>1. /\ chase = <<>> /\ Len(pdl) < 2 /\ InCode /\ Instr.Op = op /\ InRange(Instr)
      /\ TypeOK /\ Certified(prog, at) /\ IsProgram(prog) /\ H \in Nat
  BY Ranges DEF At, Ready, Going, TypeOK, ControlOK
<1>2. Here = P /\ P \in Nat /\ P < Len(prog.Code) /\ Instr = prog.Code[P + 1] /\ Instr \in Instruction
  BY <1>1, Fetched DEF Here, InCode, Instr, TypeOK, ControlOK
<1>3. /\ P \in DOMAIN at /\ FrameHolds(at, at[P]) /\ DataHolds(at[P])
      /\ Returns(prog, at, Awaits(at)) /\ SlotsHold(prog, at, envFrames, Awaits(at), Heap, H)
      /\ Agree(at, Goes(at), Goes(at)) /\ Spares(at)
      /\ IsRetry(prog, P) => B >= 0 /\ choicePoints[B + 1].NextClause = P
  BY <1>2 DEF Going, Kept, Current
<1>4. IsNote(at[P])
  BY <1>1, <1>3, NotesFacts
<1>5. /\ Legal(prog, Instr) /\ FillsBlock(Instr, at[P]) /\ UsesRegs(Instr, at[P])
      /\ Controls(prog, at, P)
  <2>1. Len(prog.Code) \in Nat /\ P # Len(prog.Code)
    BY <1>1, <1>2 DEF IsProgram
  <2>2. Allowed(prog, at, P)
    BY <1>1, <1>3, <2>1 DEF Certified
  <2> QED BY <1>2, <2>2 DEF Allowed
<1>6. at[P].need = 0
  BY <1>1, <1>5 DEF FillsBlock
<1>7. Closed(prog, Heap, H, H)
  <2>1. Missing(at[P]) = 0 /\ H + 0 = H
    BY <1>1, <1>6 DEF Missing
  <2> QED BY <1>3, <2>1 DEF DataHolds
<1>8. \A r \in ReadRegs(Instr) : /\ r \in Int /\ IsReg(r) /\ GetReg(r) \in Cell
                                 /\ LandsIn(prog, Heap, H, H, GetReg(r))
  <2>1. at[P].env => E >= 0
    BY <1>3 DEF FrameHolds
  <2> QED BY <1>1, <1>3, <1>4, <1>5, <2>1, KnownLands DEF UsesRegs
<1> QED BY <1>1, <1>2, <1>3, <1>4, <1>5, <1>6, <1>7, <1>8 DEF Transferring

\* A step that leaves the frames that are there alone.
OlderStay ==
  /\ Len(envFrames') >= Len(envFrames)
  /\ \A k \in 1 .. Len(envFrames) : envFrames'[k] = envFrames[k]

\* A step that leaves older frames alone leaves choice points as they are.
LEMMA ControlChoices ==
  ASSUME NEW at, Going(at), TypeOK', WorkStep, OlderStay,
         UNCHANGED <<choicePoints, B, prog>>
  PROVE  /\ ChoicesHold(at)'
         /\ \A k \in 1 .. B + 1 : SavedWaits(at, k)' = SavedWaits(at, k)
<1>1. /\ TypeOK /\ Certified(prog, at) /\ ChoicesHold(at) /\ ChoicesNest
      /\ B \in Int /\ B + 1 = Len(choicePoints) /\ Len(choicePoints) \in Nat
  BY Ranges DEF Going, Kept, ChoicesNest
<1>2. FramesStay
  BY DEF FramesStay, OlderStay
<1>3. SameSnapshots(B + 1)
  BY <1>1, WorkSnapshots
<1>4. SameMarks(B + 1)
  BY <1>1 DEF SameMarks
<1>5. ASSUME NEW k \in 1 .. B + 1 PROVE SlotsStay(at, SavedWaits(at, k))
  <2> SUFFICES ASSUME NEW w \in SavedWaits(at, k), NEW s \in at[w[2]].slots
               PROVE  envFrames'[w[1] + 1] = envFrames[w[1] + 1]
    BY DEF SlotsStay
  <2>1. choicePoints[k].CE \in -1 .. Len(envFrames) - 1
    BY <1>1, Stacked
  <2>2. Returns(prog, at, SavedWaits(at, k))
    BY <1>1 DEF ChoicesHold, SavedHolds
  <2>3. w[1] + 1 \in 1 .. Len(envFrames)
    BY <1>1, <2>1, <2>2, WaitedFrame DEF SavedWaits
  <2> QED BY <2>3 DEF OlderStay
<1>6. \A k \in 1 .. B + 1 : Begins(at, choicePoints'[k].NextClause, 0 .. choicePoints[k].N - 1)
  BY <1>1 DEF ChoicesHold, SavedHolds
<1>7. B' + 1 = B + 1
  OBVIOUS
<1>8. ChoicesHold(at)' /\ \A k \in 1 .. B' + 1 : SavedWaits(at, k)' = SavedWaits(at, k)
  BY <1>1, <1>2, <1>3, <1>4, <1>5, <1>6, ChoicesStay
<1> QED BY <1>7, <1>8

\* What is waited for is unchanged when frames are added.
LEMMA AddedWaits ==
  ASSUME TypeOK, OlderStay, NEW q, NEW e \in -1 .. Len(envFrames) - 1, NEW c
  PROVE  Waits(q, envFrames', e, c) = Waits(q, envFrames, e, c)
<1>1. Len(envFrames) \in Nat /\ e \in Int
  BY Stacked
<1>2. \A k \in 1 .. e + 1 : k \in 1 .. Len(envFrames)
  BY <1>1
<1>3. \A k \in 1 .. e + 1 : /\ envFrames'[k].CE = envFrames[k].CE
                            /\ envFrames'[k].CP = envFrames[k].CP
  BY <1>2 DEF OlderStay
<1> QED BY <1>1, <1>3, WaitsSame

\* Where control goes on, the notes being what they are.
LEMMA Going3 ==
  ASSUME NEW at, Going(at), TypeOK', NEW op, At(op), op \notin Sets \cup Unifies,
         WorkStep, OlderStay, UNCHANGED <<choicePoints, B, prog, loopVars>>,
         Fail' = FALSE, P' \in DOMAIN at, NEW m, m = at[P'], m.need = 0, ~IsRetry(prog, P'),
         FrameHolds(at, m)',
         Closed(prog, Heap', H', H'),
         \A r \in m.dx : r \in XRegs /\ LandsIn(prog, Heap', H', H', X'[r]),
         \A s \in m.slots : /\ s \in 1 .. Len(envFrames'[E' + 1].Y)
                            /\ s \in m.dy =>
                                 LandsIn(prog, Heap', H', H', envFrames'[E' + 1].Y[s]),
         Returns(prog, at, Awaits(at)'),
         SlotsHold(prog, at, envFrames', Awaits(at)', Heap', H'),
         \A v \in Goes(at)' :
           \/ \E w \in Goes(at) : w[1] = v[1] /\ at[w[2]].dy = at[v[2]].dy
           \/ at[v[2]].dy = {} /\ v[1] = -1 /\ QueryFrame(prog, at) = -1 /\ Goes(at)' = {v}
           \/ v[1] = Len(envFrames) /\ \A w \in Goes(at)' : w = v \/ w[1] < Len(envFrames)
  PROVE  Kept(at)'
<1>1. Transferring(at, op)
  BY TransferNotes
<1>2. /\ chase = <<>> /\ Len(pdl) < 2 /\ TypeOK /\ Certified(prog, at)
      /\ Agree(at, Goes(at), Goes(at)) /\ Spares(at)
      /\ chase' = <<>> /\ pdl' = pdl
  BY <1>1 DEF Transferring, loopVars
<1>3. ChoicesHold(at)' /\ \A k \in 1 .. B + 1 : SavedWaits(at, k)' = SavedWaits(at, k)
  BY ControlChoices
<1>4. Agree(at, Goes(at)', Goes(at)')
  <2> SUFFICES ASSUME NEW v \in Goes(at)', NEW u \in Goes(at)', v[1] = u[1]
               PROVE  at[v[2]].dy \subseteq at[u[2]].dy
    BY DEF Agree
  <2>1. CASE v = u
    BY <2>1
  <2>2. CASE v # u
    <3>1. /\ ~(v[1] = Len(envFrames) /\ \A w \in Goes(at)' : w = v \/ w[1] < Len(envFrames))
          /\ ~(u[1] = Len(envFrames) /\ \A w \in Goes(at)' : w = u \/ w[1] < Len(envFrames))
      <4>1. Len(envFrames) \in Nat
        BY <1>2, Stacked
      <4> QED BY <2>2, <4>1
    <3>2. \E w \in Goes(at) : w[1] = v[1] /\ at[w[2]].dy = at[v[2]].dy
      BY <2>2, <3>1
    <3>3. \E w \in Goes(at) : w[1] = u[1] /\ at[w[2]].dy = at[u[2]].dy
      BY <2>2, <3>1
    <3> QED BY <1>2, <3>2, <3>3 DEF Agree
  <2> QED BY <2>1, <2>2
<1>5. ASSUME NEW k \in 1 .. B + 1 PROVE Agree(at, SavedWaits(at, k)', Goes(at)')
  <2> SUFFICES ASSUME NEW u \in SavedWaits(at, k), NEW v \in Goes(at)', u[1] = v[1]
               PROVE  at[u[2]].dy \subseteq at[v[2]].dy
    BY <1>3 DEF Agree
  <2>1. Agree(at, SavedWaits(at, k), Goes(at))
    BY <1>2 DEF Spares
  <2>2. /\ choicePoints[k].CE \in -1 .. Len(envFrames) - 1 /\ Len(envFrames) \in Nat
        /\ Returns(prog, at, SavedWaits(at, k))
        /\ QueryFrame(prog, at) \in {-1, 0}
    <3>1. k \in 1 .. Len(choicePoints)
      BY DEF Going, ChoicesNest
    <3> QED BY <1>2, <3>1, Stacked, QueryFrameIs DEF Going, Kept, ChoicesHold, SavedHolds
  <2>3. CASE \E w \in Goes(at) : w[1] = v[1] /\ at[w[2]].dy = at[v[2]].dy
    BY <2>1, <2>3 DEF Agree
  <2>4. at[u[2]].dy # {} => u[1] \in 0 .. choicePoints[k].CE /\ u[1] + 1 \in 1 .. Len(envFrames)
    <3>1. at[u[2]].dy # {} => at[u[2]].slots # {}
      BY <1>2, <2>2, NotesFacts DEF Returns, IsNote
    <3> QED BY <1>2, <2>2, <3>1, WaitedFrame DEF SavedWaits
  <2>5. v[1] = -1 \/ v[1] = Len(envFrames) => at[u[2]].dy = {}
    BY <2>2, <2>4
  <2> QED BY <2>3, <2>5
<1>6. B' = B /\ Len(pdl') < 2
  BY <1>2
<1> QED BY <1>2, <1>3, <1>4, <1>5, <1>6, Arrives

\* CALL and EXECUTE of a predicate that is missing.
LEMMA FailsAway ==
  ASSUME NEW at, Going(at), TypeOK', NEW op, At(op), WorkStep, OlderStay,
         UNCHANGED <<choicePoints, B, prog, loopVars>>, Fail' = TRUE
  PROVE  Kept(at)'
<1>1. chase' = <<>> /\ Len(pdl') < 2
  BY DEF At, Ready, loopVars
<1>2. ChoicesHold(at)'
  BY ControlChoices
<1> QED BY <1>1, <1>2 DEF Kept

\* The frame of the caller is newer than the query's.
LEMMA OwnWaits ==
  ASSUME TypeOK, NEW at, E >= 0, E # QueryFrame(prog, at), NEW c
  PROVE  Waits(QueryFrame(prog, at), envFrames, E, c) =
           {<<E, c>>} \cup Waits(QueryFrame(prog, at), envFrames, envFrames[E + 1].CE,
                                 envFrames[E + 1].CP)
<1>1. E \in Nat /\ IsStack(envFrames, E + 1) /\ QueryFrame(prog, at) \in {-1, 0}
  <2>1. /\ Len(envFrames) \in Nat /\ IsStack(envFrames, Len(envFrames))
        /\ E \in -1 .. Len(envFrames) - 1 /\ E \in Int
    BY Stacked
  <2>2. E \in Nat /\ E + 1 \in Int /\ E + 1 <= Len(envFrames)
    BY <2>1
  <2> QED BY <2>1, <2>2, Shorter, QueryFrameIs
<1>2. PICK q \in {-1, 0} : q = QueryFrame(prog, at)
  BY <1>1
<1>3. PICK e \in Nat : e = E
  BY <1>1
<1>4. e # q /\ IsStack(envFrames, e + 1)
  BY <1>1, <1>2, <1>3
<1>5. Waits(q, envFrames, e, c) =
        {<<e, c>>} \cup Waits(q, envFrames, envFrames[e + 1].CE, envFrames[e + 1].CP)
  BY <1>4, WaitsUnfold
<1> QED BY <1>2, <1>3, <1>5

\* PROCEED.
LEMMA ProceedKept ==
  ASSUME NEW at, Going(at), TypeOK', Proceed PROVE Kept(at)'
<1> DEFINE op == "PROCEED"
           q == QueryFrame(prog, at)
<1>1. At(op) /\ op \notin Sets \cup Unifies
  BY DEF Proceed, Sets, Unifies
<1>2. Transferring(at, op)
  BY <1>1, TransferNotes
<1>3. /\ TypeOK /\ Here = P /\ ~at[P].env /\ ~at[P].top /\ Closed(prog, Heap, H, H)
      /\ Returns(prog, at, Awaits(at)) /\ SlotsHold(prog, at, envFrames, Awaits(at), Heap, H)
      /\ chase = <<>> /\ Certified(prog, at)
  BY <1>2 DEF Transferring, Controls
<1>4. /\ UNCHANGED <<Heap, H, X, envFrames, E, CP, choicePoints, B, prog, loopVars>>
      /\ P' = CP /\ Fail' = FALSE /\ chase' = <<>>
  BY <1>3 DEF Proceed, heapVars, regVars, frameVars, choiceVars, status, Going, TypeOK, ControlOK,
              loopVars
<1>5. Awaits(at) = Waits(q, envFrames, E, CP) /\ Goes(at) = Awaits(at)
  BY <1>3 DEF Awaits, Awaited, Goes, Active
<1>6. <<E, CP>> \in Awaits(at)
  BY <1>5 DEF Waits
<1>7. PICK m : m = at[P']
  OBVIOUS
<1>8. /\ P' \in DOMAIN at /\ m.need = 0 /\ m.dx = {} /\ ~IsRetry(prog, P')
      /\ IF m.top THEN E = q /\ m.env = at[Len(prog.Code)].env ELSE E > q /\ m.env
  BY <1>3, <1>4, <1>6, <1>7 DEF Returns
<1>9. q \in {-1, 0} /\ q \in Int /\ E \in Int
  BY <1>3, QueryFrameIs, Stacked
<1>10. IsNote(m) /\ m.top \in BOOLEAN /\ m.env \in BOOLEAN
  BY <1>3, <1>7, <1>8, NotesFacts DEF IsNote
<1>11. FrameHolds(at, m)'
  <2>1. q = IF at[Len(prog.Code)].env THEN 0 ELSE -1
    BY DEF QueryFrame
  <2>2. CASE m.top
    <3>1. E = q /\ m.env = at[Len(prog.Code)].env
      BY <1>8, <2>2
    <3> QED BY <1>4, <2>1, <2>2, <3>1 DEF FrameHolds
  <2>3. CASE ~m.top
    <3>1. E > q /\ E >= 0
      BY <1>8, <1>9, <2>3
    <3> QED BY <1>4, <2>3, <3>1 DEF FrameHolds
  <2> QED BY <2>2, <2>3
<1>12. \A s \in m.slots : /\ s \in 1 .. Len(envFrames'[E' + 1].Y)
                          /\ s \in m.dy => LandsIn(prog, Heap', H', H', envFrames'[E' + 1].Y[s])
  BY <1>3, <1>4, <1>6, <1>7 DEF SlotsHold
<1>13. Here' = CP
  BY <1>4 DEF Here
<1>14. Awaits(at)' = Awaited(q, m, envFrames, E, CP)
       /\ Goes(at)' = Active(q, m, CP, envFrames, E, CP)
  BY <1>4, <1>7, <1>13 DEF Awaits, Goes
<1>15. Awaits(at)' \subseteq Awaits(at) /\ Goes(at)' \subseteq Goes(at)
  <2>1. CASE m.top
    BY <1>5, <1>6, <1>14, <2>1 DEF Awaited, Active
  <2>2. CASE ~m.top
    <3>1. E >= 0 /\ E # q /\ m.env
      BY <1>8, <1>9, <2>2
    <3>2. Awaits(at) = {<<E, CP>>} \cup Waits(q, envFrames, envFrames[E + 1].CE,
                                              envFrames[E + 1].CP)
      BY <1>3, <1>5, <3>1, OwnWaits
    <3> QED BY <1>5, <1>14, <2>2, <3>1, <3>2 DEF Awaited, Active
  <2> QED BY <2>1, <2>2
<1>16. Returns(prog, at, Awaits(at)') /\ SlotsHold(prog, at, envFrames', Awaits(at)', Heap', H')
  BY <1>3, <1>4, <1>15 DEF Returns, SlotsHold
<1>17. WorkStep /\ OlderStay
  <2>1. UNCHANGED <<heapVars, trailVars, choicePoints, B, HB>>
    BY DEF Proceed, choiceVars
  <2> QED BY <1>3, <1>4, <2>1, StillGrows, Stacked DEF WorkStep, OlderStay
<1>18. \A v \in Goes(at)' : \E w \in Goes(at) : w[1] = v[1] /\ at[w[2]].dy = at[v[2]].dy
  BY <1>15
<1>19. Closed(prog, Heap', H', H') /\ \A r \in m.dx : FALSE
  BY <1>3, <1>4, <1>8
<1> QED BY <1>1, <1>4, <1>7, <1>8, <1>11, <1>12, <1>16, <1>17, <1>18, <1>19, Going3

\* The note of the clause a call or EXECUTE enters, and its arguments.
LEMMA Entered ==
  ASSUME NEW at, NEW op \in {"CALL", "EXECUTE"}, Transferring(at, op),
         NEW to, Instr.Arg1 \in DOMAIN prog.Labels, to = prog.Labels[Instr.Arg1],
         NEW m, m = at[to]
  PROVE  /\ to \in DOMAIN at /\ ~IsRetry(prog, to)
         /\ m.need = 0 /\ ~m.env /\ ~m.top /\ m.slots = {} /\ m.dy = {}
         /\ \A r \in m.dx : r \in XRegs /\ LandsIn(prog, Heap, H, H, X[r])
<1>1. /\ Instr.Op = op /\ Instr = prog.Code[P + 1] /\ Instr \in Instruction
      /\ Controls(prog, at, P)
      /\ \A r \in ReadRegs(Instr) : /\ r \in Int /\ IsReg(r)
                                    /\ LandsIn(prog, Heap, H, H, GetReg(r))
  BY DEF Transferring
<1>2. Begins(at, to, 0 .. Instr.Arg2 - 1) /\ ~IsRetry(prog, to)
  BY <1>1 DEF Controls
<1>3. to \in DOMAIN at /\ m.dx \subseteq 0 .. Instr.Arg2 - 1 /\ m = Noted(m.dx)
  BY <1>2 DEF Begins
<1>4. m.need = 0 /\ ~m.env /\ ~m.top /\ m.slots = {} /\ m.dy = {}
  BY <1>3 DEF Noted
<1>5. ReadRegs(Instr) = 0 .. Instr.Arg2 - 1
  BY <1>1 DEF ReadRegs
<1>6. ASSUME NEW r \in m.dx PROVE r \in XRegs /\ LandsIn(prog, Heap, H, H, X[r])
  <2>1. r \in ReadRegs(Instr) /\ r \in Int /\ r >= 0
    BY <1>3, <1>5
  <2>2. IsReg(r) /\ LandsIn(prog, Heap, H, H, GetReg(r))
    BY <1>1, <2>1
  <2> QED BY <2>1, <2>2 DEF IsReg, GetReg
<1> QED BY <1>2, <1>3, <1>4, <1>6

\* EXECUTE.
LEMMA ExecuteKept ==
  ASSUME NEW at, Going(at), TypeOK', Execute PROVE Kept(at)'
<1> DEFINE q == QueryFrame(prog, at)
<1>0. PICK op \in {"CALL", "EXECUTE"} : op = "EXECUTE"
  OBVIOUS
<1>1. At(op) /\ op \notin Sets \cup Unifies
  BY <1>0 DEF Execute, Sets, Unifies
<1>2. Transferring(at, op)
  BY <1>1, TransferNotes
<1>3. /\ TypeOK /\ Here = P /\ at[P].env /\ ~at[P].top /\ Closed(prog, Heap, H, H)
      /\ Returns(prog, at, Awaits(at)) /\ SlotsHold(prog, at, envFrames, Awaits(at), Heap, H)
      /\ chase = <<>> /\ Certified(prog, at) /\ FrameHolds(at, at[P])
  BY <1>0, <1>2 DEF Transferring, Controls
<1>4. /\ UNCHANGED <<Heap, H, X, envFrames, choicePoints, B, HB, prog, loopVars, heapVars, trailVars>>
      /\ chase' = <<>>
  BY <1>3 DEF Execute, heapVars, regVars, choiceVars, loopVars
<1>5. WorkStep /\ OlderStay
  BY <1>3, <1>4, StillGrows, Stacked DEF WorkStep, OlderStay
<1>6. CASE Instr.Arg1 \notin DOMAIN prog.Labels
  <2>1. Fail' = TRUE
    BY <1>6 DEF Execute, Jump
  <2> QED BY <1>1, <1>4, <1>5, <2>1, FailsAway
<1>7. CASE Instr.Arg1 \in DOMAIN prog.Labels
  <2>1. P' = prog.Labels[Instr.Arg1] /\ Fail' = FALSE
    BY <1>7 DEF Execute, Jump, Going, TypeOK, ControlOK
  <2>2. E >= 0 /\ E' = envFrames[E + 1].CE /\ CP' = envFrames[E + 1].CP
    BY <1>3 DEF FrameHolds, Execute
  <2>3. PICK m : m = at[P']
    OBVIOUS
  <2>4. /\ P' \in DOMAIN at /\ ~IsRetry(prog, P')
        /\ m.need = 0 /\ ~m.env /\ ~m.top /\ m.slots = {} /\ m.dy = {}
        /\ \A r \in m.dx : r \in XRegs /\ LandsIn(prog, Heap, H, H, X[r])
    BY <1>2, <1>7, <2>1, <2>3, Entered
  <2>5. Here' = P'
    BY <1>4 DEF Here
  <2>6. /\ Awaits(at)' = Awaited(q, m, envFrames, E', CP')
        /\ Goes(at)' = Active(q, m, P', envFrames, E', CP')
    BY <1>4, <2>3, <2>5 DEF Awaits, Goes, QueryFrame
  <2>7. Awaits(at)' = Awaits(at) /\ Goes(at)' = Awaits(at) /\ Awaits(at) \subseteq Goes(at)
    BY <1>3, <2>2, <2>4, <2>6 DEF Awaits, Goes, Awaited, Active
  <2>8. Returns(prog, at, Awaits(at)') /\ SlotsHold(prog, at, envFrames', Awaits(at)', Heap', H')
    BY <1>3, <1>4, <2>7
  <2>9. FrameHolds(at, m)'
    BY <2>4 DEF FrameHolds
  <2>10. \A v \in Goes(at)' : \E w \in Goes(at) : w[1] = v[1] /\ at[w[2]].dy = at[v[2]].dy
    BY <2>7
  <2>11. /\ Closed(prog, Heap', H', H')
         /\ \A r \in m.dx : r \in XRegs /\ LandsIn(prog, Heap', H', H', X'[r])
         /\ \A s \in m.slots : FALSE
    BY <1>3, <1>4, <2>4
  <2> QED BY <1>1, <1>4, <1>5, <2>1, <2>3, <2>4, <2>8, <2>9, <2>10, <2>11, Going3
<1> QED BY <1>6, <1>7

\* The note of the instruction after a call or an ALLOCATE.
LEMMA NextNote ==
  ASSUME NEW at, NEW op \in {"CALL", "ALLOCATE"}, Transferring(at, op)
  PROVE  /\ P + 1 \in DOMAIN at /\ ~IsRetry(prog, P + 1) /\ at[P + 1].need = 0
         /\ at[P + 1].dx \subseteq at[P].dx /\ at[P + 1].dy = at[P].dy
         /\ at[P + 1].top = at[P].top
         /\ op = "CALL" => /\ at[P + 1].dx = {} /\ at[P + 1].env = at[P].env
                           /\ at[P + 1].slots = at[P].slots
         /\ op = "ALLOCATE" => at[P + 1].env = TRUE /\ at[P + 1].slots = 1 .. Instr.Arg1
<1>0. PICK n, m : n = at[P] /\ m = at[P + 1]
  OBVIOUS
<1>1. /\ Instr.Op = op /\ Instr = prog.Code[P + 1] /\ Controls(prog, at, P)
      /\ IsNote(n) /\ n.need = 0
  BY <1>0 DEF Transferring
<1>2. Continues(prog, at, P + 1, After(prog, Instr, n))
  <2>1. Continues(prog, at, P + 1, After(prog, Instr, at[P]))
    BY <1>1 DEF Controls
  <2> QED BY <1>0, <2>1
<1>3. op \notin Opens /\ op \notin Sets \cup Unifies
  BY DEF Opens, Sets, Unifies
<1>4. CASE op = "CALL"
  <2>1. PICK a : a = [n EXCEPT !.dx = {}]
    OBVIOUS
  <2>2. After(prog, Instr, n) = a
    BY <1>1, <1>3, <1>4, <2>1 DEF After
  <2>3. a = [need |-> 0, block |-> n.block, open |-> n.open, dx |-> {},
             env |-> n.env, slots |-> n.slots, dy |-> n.dy, top |-> n.top]
    BY <1>1, <2>1 DEF IsNote
  <2>4. P + 1 \in DOMAIN at /\ ~IsRetry(prog, P + 1) /\ m.dx \subseteq a.dx
        /\ m = [a EXCEPT !.dx = m.dx]
    BY <1>0, <1>2, <2>2 DEF Continues
  <2>5. m.dx = {}
    BY <2>3, <2>4
  <2>6. m = a
    BY <2>3, <2>4, <2>5
  <2> QED BY <1>0, <1>4, <2>3, <2>4, <2>6
<1>5. CASE op = "ALLOCATE"
  <2>1. PICK a : a = [n EXCEPT !.env = TRUE, !.slots = 1 .. Instr.Arg1]
    OBVIOUS
  <2>2. After(prog, Instr, n) = a
    BY <1>1, <1>3, <1>5, <2>1 DEF After
  <2>3. a = [need |-> 0, block |-> n.block, open |-> n.open, dx |-> n.dx,
             env |-> TRUE, slots |-> 1 .. Instr.Arg1, dy |-> n.dy, top |-> n.top]
    BY <1>1, <2>1 DEF IsNote
  <2>4. P + 1 \in DOMAIN at /\ ~IsRetry(prog, P + 1) /\ m.dx \subseteq a.dx
        /\ m = [a EXCEPT !.dx = m.dx]
    BY <1>0, <1>2, <2>2 DEF Continues
  <2>5. /\ m.need = 0 /\ m.env = TRUE /\ m.slots = 1 .. Instr.Arg1 /\ m.dy = n.dy /\ m.top = n.top
        /\ m.dx \subseteq n.dx
    BY <2>3, <2>4
  <2> QED BY <1>0, <1>5, <2>4, <2>5
<1> QED BY <1>4, <1>5

\* CALL.
LEMMA CallKept ==
  ASSUME NEW at, Going(at), TypeOK', Call PROVE Kept(at)'
<1>0. PICK op \in {"CALL", "EXECUTE", "ALLOCATE"} : op = "CALL"
  OBVIOUS
<1>1. At(op) /\ op \notin Sets \cup Unifies
  BY <1>0 DEF Call, Sets, Unifies
<1>2. Transferring(at, op)
  BY <1>1, TransferNotes
<1>q. PICK q : q = QueryFrame(prog, at)
  OBVIOUS
<1>n. PICK n, k : n = at[P] /\ k = at[P + 1]
  OBVIOUS
<1>3. /\ TypeOK /\ Here = P /\ n.env = (n.top => at[Len(prog.Code)].env)
      /\ Closed(prog, Heap, H, H) /\ IsNote(n) /\ DataHolds(n) /\ P \in Nat
      /\ Returns(prog, at, Awaits(at)) /\ SlotsHold(prog, at, envFrames, Awaits(at), Heap, H)
      /\ chase = <<>> /\ Certified(prog, at) /\ FrameHolds(at, n)
  BY <1>0, <1>2, <1>n DEF Transferring, Controls
<1>b. /\ n.top \in BOOLEAN /\ n.env \in BOOLEAN
      /\ at[Len(prog.Code)].env \in BOOLEAN
  <2>1. IsNote(at[Len(prog.Code)])
    BY <1>3, NotesFacts DEF Certified
  <2> QED BY <1>3, <2>1 DEF IsNote
<1>c. /\ n.top => n.env = at[Len(prog.Code)].env
      /\ ~n.top => n.env
  BY <1>3, <1>b
<1>4. /\ UNCHANGED <<Heap, H, X, E, envFrames, choicePoints, B, HB, prog, loopVars, heapVars,
                     trailVars>>
      /\ chase' = <<>> /\ CP' = P + 1
  BY <1>3 DEF Call, heapVars, regVars, choiceVars, loopVars
<1>5. WorkStep /\ OlderStay
  BY <1>3, <1>4, StillGrows, Stacked DEF WorkStep, OlderStay
<1>6. CASE Instr.Arg1 \notin DOMAIN prog.Labels
  <2>1. Fail' = TRUE
    BY <1>6 DEF Call, Jump
  <2> QED BY <1>1, <1>4, <1>5, <2>1, FailsAway
<1>7. CASE Instr.Arg1 \in DOMAIN prog.Labels
  <2>1. P' = prog.Labels[Instr.Arg1] /\ Fail' = FALSE
    BY <1>7 DEF Call, Jump, Going, TypeOK, ControlOK
  <2>2. /\ P + 1 \in DOMAIN at /\ ~IsRetry(prog, P + 1)
        /\ k.need = 0 /\ k.dx = {} /\ k.slots = n.slots /\ k.dy = n.dy /\ k.top = n.top
        /\ k.env = n.env
    BY <1>0, <1>2, <1>n, NextNote
  <2>3. PICK m : m = at[P']
    OBVIOUS
  <2>4. /\ P' \in DOMAIN at /\ ~IsRetry(prog, P')
        /\ m.need = 0 /\ ~m.env /\ ~m.top /\ m.slots = {} /\ m.dy = {}
        /\ \A r \in m.dx : r \in XRegs /\ LandsIn(prog, Heap, H, H, X[r])
    BY <1>0, <1>2, <1>7, <2>1, <2>3, Entered
  <2>5. Here' = P'
    BY <1>4 DEF Here
  <2>6. /\ Awaits(at)' = Waits(q, envFrames, E, P + 1)
        /\ Goes(at)' = Awaits(at)'
    <3>1. /\ Awaits(at)' = Awaited(q, m, envFrames, E, P + 1)
          /\ Goes(at)' = Active(q, m, P', envFrames, E, P + 1)
      BY <1>4, <1>q, <2>3, <2>5 DEF Awaits, Goes, QueryFrame
    <3> QED BY <2>4, <3>1 DEF Awaited, Active
  <2>7. q \in {-1, 0} /\ E \in Int /\ (q = IF at[Len(prog.Code)].env THEN 0 ELSE -1)
    BY <1>3, <1>q, QueryFrameIs, Stacked DEF QueryFrame
  <2>8. \A s \in n.slots : /\ s \in 1 .. Len(envFrames[E + 1].Y)
                           /\ s \in n.dy => LandsIn(prog, Heap, H, H, envFrames[E + 1].Y[s])
    BY <1>3 DEF DataHolds
  <2>9. PICK own : own = <<E, P + 1>>
    OBVIOUS
  <2>10. own[1] = E /\ own[2] = P + 1 /\ at[own[2]] = k
    BY <1>n, <2>9
  <2>14. FrameHolds(at, m)'
    BY <2>4 DEF FrameHolds
  <2>15. /\ Closed(prog, Heap', H', H')
         /\ \A r \in m.dx : r \in XRegs /\ LandsIn(prog, Heap', H', H', X'[r])
         /\ \A s \in m.slots : FALSE
    BY <1>3, <1>4, <2>4
  <2>11. CASE n.top
    <3>1. E = q /\ n.env = at[Len(prog.Code)].env
      BY <1>3, <1>c, <2>7, <2>11 DEF FrameHolds
    <3>2. q = 0 => IsStack(envFrames, 1)
      <4> SUFFICES ASSUME q = 0 PROVE IsStack(envFrames, 1)
        OBVIOUS
      <4>1. Len(envFrames) \in Nat /\ 1 <= Len(envFrames) /\ IsStack(envFrames, Len(envFrames))
        BY <1>3, <3>1, Stacked
      <4> QED BY <4>1, Shorter
    <3>3. Awaits(at)' = {own}
      <4>1. Waits(q, envFrames, q, P + 1) = {<<q, P + 1>>}
        <5>1. PICK c : c = P + 1
          OBVIOUS
        <5>2. Waits(q, envFrames, q, c) = {<<q, c>>}
          BY <2>7, <3>2, WaitsForOne
        <5> QED BY <5>1, <5>2
      <4> QED BY <2>6, <2>9, <3>1, <4>1
    <3>4. Returns(prog, at, Awaits(at)')
      BY <1>q, <2>2, <2>10, <2>11, <3>1, <3>3 DEF Returns
    <3>5. SlotsHold(prog, at, envFrames', Awaits(at)', Heap', H')
      BY <1>4, <2>2, <2>8, <2>10, <3>3 DEF SlotsHold
    <3>6. \A v \in Goes(at)' :
            \/ \E w \in Goes(at) : w[1] = v[1] /\ at[w[2]].dy = at[v[2]].dy
            \/ at[v[2]].dy = {} /\ v[1] = -1 /\ QueryFrame(prog, at) = -1 /\ Goes(at)' = {v}
      <4>1. CASE n.env
        <5>1. <<E, P>> \in Goes(at)
          BY <1>3, <1>n, <4>1 DEF Goes, Active
        <5>2. PICK w \in Goes(at) : w = <<E, P>>
          BY <5>1
        <5>3. w[1] = own[1] /\ at[w[2]].dy = at[own[2]].dy
          BY <1>n, <2>2, <2>10, <5>2
        <5> QED BY <2>6, <3>3, <5>3
      <4>2. CASE ~n.env
        <5>1. n.dy = {} /\ q = -1
          BY <1>3, <2>7, <3>1, <4>2 DEF IsNote
        <5> QED BY <1>q, <2>2, <2>6, <2>10, <3>1, <3>3, <5>1
      <4> QED BY <4>1, <4>2
    <3> QED BY <1>1, <1>4, <1>5, <2>1, <2>3, <2>4, <2>14, <2>15, <3>4, <3>5, <3>6, Going3
  <2>12. CASE ~n.top
    <3>1. n.env /\ E > q /\ E >= 0 /\ E # q
      BY <1>3, <1>c, <1>q, <2>7, <2>12 DEF FrameHolds
    <3>2. Awaits(at) = Waits(q, envFrames, envFrames[E + 1].CE, envFrames[E + 1].CP)
      BY <1>3, <1>n, <1>q, <2>12, <3>1 DEF Awaits, Awaited
    <3>3. Awaits(at)' = {own} \cup Awaits(at)
      <4>1. PICK c : c = P + 1
        OBVIOUS
      <4>2. Waits(q, envFrames, E, c) =
              {<<E, c>>} \cup Waits(q, envFrames, envFrames[E + 1].CE, envFrames[E + 1].CP)
        BY <1>3, <1>q, <3>1, OwnWaits
      <4> QED BY <2>6, <2>9, <3>2, <4>1, <4>2
    <3>4. Returns(prog, at, Awaits(at)')
      BY <1>3, <1>q, <2>2, <2>10, <2>12, <3>1, <3>3 DEF Returns
    <3>5. SlotsHold(prog, at, envFrames', Awaits(at)', Heap', H')
      BY <1>3, <1>4, <2>2, <2>8, <2>10, <3>3 DEF SlotsHold
    <3>6. \A v \in Goes(at)' : \E w \in Goes(at) : w[1] = v[1] /\ at[w[2]].dy = at[v[2]].dy
      <4>1. <<E, P>> \in Goes(at) /\ Awaits(at) \subseteq Goes(at)
        BY <1>3, <1>n, <3>1 DEF Goes, Active, Awaits
      <4>2. PICK w \in Goes(at) : w = <<E, P>>
        BY <4>1
      <4>3. w[1] = own[1] /\ at[w[2]].dy = at[own[2]].dy
        BY <1>n, <2>2, <2>10, <4>2
      <4> QED BY <2>6, <3>3, <4>1, <4>3
    <3> QED BY <1>1, <1>4, <1>5, <2>1, <2>3, <2>4, <2>14, <2>15, <3>4, <3>5, <3>6, Going3
  <2> QED BY <2>11, <2>12
<1> QED BY <1>6, <1>7

\* ALLOCATE.
LEMMA AllocateKept ==
  ASSUME NEW at, Going(at), TypeOK', Allocate PROVE Kept(at)'
<1>0. PICK op \in {"CALL", "ALLOCATE"} : op = "ALLOCATE"
  OBVIOUS
<1>1. At(op) /\ op \notin Sets \cup Unifies
  BY <1>0 DEF Allocate, Sets, Unifies
<1>2. Transferring(at, op)
  BY <1>1, TransferNotes
<1>q. PICK q : q = QueryFrame(prog, at)
  OBVIOUS
<1>n. PICK n, m : n = at[P] /\ m = at[P + 1]
  OBVIOUS
<1>3. /\ TypeOK /\ Here = P /\ ~n.env /\ (n.top => at[Len(prog.Code)].env)
      /\ Closed(prog, Heap, H, H) /\ IsNote(n) /\ DataHolds(n) /\ P \in Nat /\ H \in Nat
      /\ Returns(prog, at, Awaits(at)) /\ SlotsHold(prog, at, envFrames, Awaits(at), Heap, H)
      /\ chase = <<>> /\ Certified(prog, at) /\ FrameHolds(at, n)
      /\ Instr \in Instruction /\ Instr.Op = "ALLOCATE"
  BY <1>0, <1>2, <1>n DEF Transferring, Controls
<1>4. /\ UNCHANGED <<X, CP, choicePoints, B, HB, prog, loopVars, trailVars>>
      /\ chase' = <<>> /\ P' = P + 1 /\ E' = Len(envFrames) /\ Push(NewVars(Instr.Arg1))
      /\ envFrames' = Append(envFrames, [CE |-> E, CP |-> CP, Y |-> NewVars(Instr.Arg1)])
      /\ Fail' = FALSE
  BY <1>3 DEF Allocate, choiceVars, loopVars, status, Going
<1>5. /\ P + 1 \in DOMAIN at /\ ~IsRetry(prog, P + 1)
      /\ m.need = 0 /\ m.dx \subseteq n.dx /\ m.slots = 1 .. Instr.Arg1 /\ m.dy = n.dy
      /\ m.top = n.top /\ m.env = TRUE
  BY <1>0, <1>2, <1>n, NextNote
<1>6. m.dy = {}
  BY <1>3, <1>5 DEF IsNote
<1>7. PICK k \in Nat : k = Instr.Arg1
  BY <1>3 DEF Instruction, NatArg1
<1>8. /\ NewVars(k) \in Seq(Cell) /\ Len(NewVars(k)) = k /\ H' = H + k /\ H' \in Nat
      /\ Push(NewVars(k))
  <2>1. NewVars(k) \in Seq(Cell) /\ Len(NewVars(k)) = k
    <3>1. \A j \in 1 .. k : REF(H + j - 1) \in Cell
      BY <1>3 DEF REF, Cell, TagREF
    <3> QED BY <3>1 DEF NewVars
  <2> QED BY <1>3, <1>4, <1>7, <2>1 DEF Push
<1>9. \A j \in 1 .. k : /\ LandsIn(prog, Heap', H', H', NewVars(k)[j])
                        /\ MayHold(H + j - 1, NewVars(k)[j])
  BY <1>3, <1>8, NewVarsLand
<1>10. KeepsFunctors /\ Closed(prog, Heap', H', H')
  <2>1. PICK top \in Nat : top = H'
    BY <1>8
  <2>2. H <= top
    BY <1>3, <1>8, <2>1
  <2> QED BY <1>3, <1>4, <1>8, <1>9, <2>1, <2>2, PushCloses
<1>11. WorkStep
  BY <1>3, <1>4, <1>8, PushGrows DEF WorkStep
<1>12. /\ Len(envFrames) \in Nat /\ Len(envFrames') = Len(envFrames) + 1
       /\ E \in -1 .. Len(envFrames) - 1 /\ E \in Int /\ OlderStay
       /\ envFrames'[E' + 1].CE = E /\ envFrames'[E' + 1].CP = CP
       /\ q \in {-1, 0} /\ (q = IF at[Len(prog.Code)].env THEN 0 ELSE -1)
  <2>1. envFrames \in Seq(Frame)
    BY <1>3 DEF TypeOK, FramesOK
  <2> QED BY <1>3, <1>4, <1>q, <2>1, Stacked, QueryFrameIs DEF OlderStay, QueryFrame
<1>13. PICK e, f : e = E' /\ f = envFrames'
  OBVIOUS
<1>14. ~n.top => Awaits(at) = Waits(q, envFrames, E, CP)
  BY <1>3, <1>n, <1>q DEF Awaits, Awaited
<1>15. Awaits(at)' = Awaits(at) /\ Goes(at)' = {<<Len(envFrames), P + 1>>} \cup Awaits(at)
  <2>1. Here' = P + 1
    BY <1>4 DEF Here
  <2>2. /\ Awaits(at)' = Awaited(q, m, f, e, CP)
        /\ Goes(at)' = Active(q, m, P + 1, f, e, CP)
    BY <1>4, <1>n, <1>q, <1>13, <2>1 DEF Awaits, Goes, QueryFrame
  <2>3. f[e + 1].CE = E /\ f[e + 1].CP = CP /\ e = Len(envFrames)
    BY <1>4, <1>12, <1>13
  <2>4. Awaited(q, m, f, e, CP) = Awaits(at)
    <3>1. CASE n.top
      BY <1>3, <1>5, <1>n, <3>1 DEF Awaits, Awaited
    <3>2. CASE ~n.top
      <4>1. Waits(q, f, E, CP) = Waits(q, envFrames, E, CP)
        BY <1>3, <1>12, <1>13, AddedWaits
      <4> QED BY <1>5, <1>14, <2>3, <3>2, <4>1 DEF Awaited
    <3> QED BY <3>1, <3>2
  <2> QED BY <1>5, <2>2, <2>3, <2>4 DEF Active
<1>16. \A w \in Awaits(at) : w[1] \in -1 .. Len(envFrames) - 1
  <2> SUFFICES ASSUME NEW w \in Awaits(at) PROVE w[1] \in -1 .. Len(envFrames) - 1
    OBVIOUS
  <2>1. ~n.top
    BY <1>3, <1>n DEF Awaits, Awaited
  <2>2. CASE w = <<E, CP>>
    BY <1>12, <2>2
  <2>3. CASE w # <<E, CP>>
    <3>1. PICK d \in Int : d = E /\ d >= -1 /\ d + 1 <= Len(envFrames)
      BY <1>12
    <3>2. IsStack(envFrames, d + 1)
      BY <1>3, <1>12, <3>1, Stacked, Shorter
    <3>3. w[1] \in -1 .. d - 1
      BY <1>14, <2>1, <2>3, <3>1, <3>2, WaitsOlder
    <3> QED BY <1>12, <3>1, <3>3
  <2> QED BY <2>2, <2>3
<1>17. FrameHolds(at, m)'
  <2>1. m.top => Len(envFrames) = 0
    BY <1>3, <1>5 DEF FrameHolds
  <2>2. ~m.top => Len(envFrames) > q
    <3> SUFFICES ASSUME ~m.top PROVE Len(envFrames) > q
      OBVIOUS
    <3>1. <<E, CP>> \in Awaits(at)
      BY <1>5, <1>14 DEF Waits
    <3>2. PICK w \in Awaits(at) : w = <<E, CP>>
      BY <3>1
    <3>3. E = q \/ E > q
      BY <1>3, <1>q, <3>2 DEF Returns
    <3> QED BY <1>12, <3>3
  <2>3. QueryFrame(prog, at)' = q
    BY <1>4, <1>q DEF QueryFrame
  <2> QED BY <1>4, <1>5, <1>12, <2>1, <2>2, <2>3 DEF FrameHolds
<1>18. ASSUME NEW r \in m.dx
       PROVE  r \in XRegs /\ LandsIn(prog, Heap', H', H', X'[r])
  <2>1. r \in XRegs /\ LandsIn(prog, Heap, H, H, X[r])
    BY <1>3, <1>5 DEF DataHolds
  <2>2. X[r] \in Cell
    BY <1>3, <2>1 DEF TypeOK, FramesOK
  <2>3. PICK top \in Nat : top = H'
    BY <1>8
  <2>4. H <= top
    BY <1>3, <1>8, <2>3
  <2>5. LandsIn(prog, Heap', H', top, X[r])
    BY <1>3, <1>10, <2>1, <2>2, <2>4, StillLands
  <2> QED BY <1>4, <2>1, <2>3, <2>5
<1>19. SlotsHold(prog, at, envFrames', Awaits(at)', Heap', H')
  <2> SUFFICES ASSUME NEW w \in Awaits(at), NEW s \in at[w[2]].slots
               PROVE  /\ s \in 1 .. Len(envFrames'[w[1] + 1].Y)
                      /\ s \in at[w[2]].dy =>
                           LandsIn(prog, Heap', H', H', envFrames'[w[1] + 1].Y[s])
    BY <1>15 DEF SlotsHold
  <2>1. ~n.top
    BY <1>3, <1>n DEF Awaits, Awaited
  <2>2. w[1] + 1 \in 1 .. Len(envFrames)
    <3>1. PICK d \in -1 .. Len(envFrames) - 1 : d = E
      BY <1>12
    <3>2. /\ Returns(prog, at, Waits(q, envFrames, d, CP)) /\ w \in Waits(q, envFrames, d, CP)
          /\ at[w[2]].slots # {}
      BY <1>3, <1>14, <2>1, <3>1
    <3> QED BY <1>3, <3>2, WaitedFrame
  <2>3. envFrames'[w[1] + 1] = envFrames[w[1] + 1]
    BY <1>12, <2>2 DEF OlderStay
  <2>4. PICK Y : Y = envFrames[w[1] + 1].Y
    OBVIOUS
  <2>5. s \in 1 .. Len(Y) /\ (s \in at[w[2]].dy => LandsIn(prog, Heap, H, H, Y[s]))
    BY <1>3, <2>4 DEF SlotsHold
  <2>6. Y \in Seq(Cell) /\ Y[s] \in Cell
    BY <1>3, <2>2, <2>4, <2>5, Stacked
  <2>7. PICK top \in Nat : top = H'
    BY <1>8
  <2>8. H <= top
    BY <1>3, <1>8, <2>7
  <2>9. s \in at[w[2]].dy => LandsIn(prog, Heap', H', top, Y[s])
    BY <1>3, <1>10, <2>5, <2>6, <2>8, StillLands
  <2> QED BY <2>3, <2>4, <2>5, <2>7, <2>9
<1>20. \A v \in Goes(at)' :
         \/ \E w \in Goes(at) : w[1] = v[1] /\ at[w[2]].dy = at[v[2]].dy
         \/ v[1] = Len(envFrames) /\ \A w \in Goes(at)' : w = v \/ w[1] < Len(envFrames)
  <2>1. Awaits(at) \subseteq Goes(at)
    BY DEF Awaits, Goes, Active
  <2>2. PICK own : own = <<Len(envFrames), P + 1>>
    OBVIOUS
  <2>3. own[1] = Len(envFrames) /\ \A w \in Awaits(at) : w[1] < Len(envFrames)
    BY <1>12, <1>16, <2>2
  <2> QED BY <1>15, <2>1, <2>2, <2>3
<1>21. Returns(prog, at, Awaits(at)') /\ m = at[P'] /\ P' \in DOMAIN at /\ ~IsRetry(prog, P')
  BY <1>3, <1>4, <1>5, <1>15, <1>n
<1>22. \A s \in m.slots : /\ s \in 1 .. Len(envFrames'[E' + 1].Y)
                          /\ s \in m.dy => LandsIn(prog, Heap', H', H', envFrames'[E' + 1].Y[s])
  <2>1. envFrames'[E' + 1].Y = NewVars(k)
    <3>1. envFrames \in Seq(Frame)
      BY <1>3 DEF TypeOK, FramesOK
    <3> QED BY <1>4, <1>7, <1>12, <3>1
  <2> QED BY <1>5, <1>6, <1>7, <1>8, <2>1
<1> QED BY <1>1, <1>4, <1>5, <1>10, <1>11, <1>12, <1>17, <1>18, <1>19, <1>20, <1>21, <1>22, Going3

\* A step of control.
LEMMA ControlKept ==
  ASSUME NEW at, Going(at), TypeOK', Control PROVE Kept(at)'
<1>1. ~Deallocate
  <2> SUFFICES ASSUME Deallocate PROVE FALSE
    OBVIOUS
  <2>1. PICK op : op = "DEALLOCATE"
    OBVIOUS
  <2>2. op \notin Sets \cup Unifies /\ At(op)
    BY <2>1 DEF Sets, Unifies, Deallocate
  <2>3. Transferring(at, op)
    BY <2>2, TransferNotes
  <2> QED BY <2>1, <2>3 DEF Transferring, Legal
<1> QED BY <1>1, AllocateKept, CallKept, ExecuteKept, ProceedKept DEF Control

-----------------------------------------------------------------------------
(* Choice points, and going back to them. *)

\* The choice instructions of the first level.
FirstLevel == {"TRY_ME_ELSE", "RETRY_ME_ELSE", "TRUST_ME"}

\* What is known of one.
Choosing(at) ==
  LET n == at[P]
      m == at[P + 1]
  IN  /\ chase = <<>> /\ Len(pdl) < 2 /\ Here = P /\ TypeOK /\ P \in DOMAIN at /\ P \in Nat
      /\ P + 1 \in DOMAIN at /\ ~IsRetry(prog, P + 1) /\ Certified(prog, at)
      /\ Instr = prog.Code[P + 1] /\ P < Len(prog.Code) /\ IsNote(n)
      /\ InRange(Instr) /\ Controls(prog, at, P) /\ Instr \in Instruction
      /\ m.need = 0 /\ m.env = n.env /\ m.top = n.top /\ m.slots = n.slots /\ m.dy = n.dy
      /\ m.dx \subseteq n.dx
      /\ FrameHolds(at, n) /\ DataHolds(n) /\ Closed(prog, Heap, H, H) /\ H \in Nat
      /\ Returns(prog, at, Awaits(at)) /\ SlotsHold(prog, at, envFrames, Awaits(at), Heap, H)
      /\ Agree(at, Goes(at), Goes(at)) /\ Spares(at)
      /\ ChoicesHold(at) /\ ChoicesNest /\ B \in Int /\ B + 1 = Len(choicePoints)
      /\ IsRetry(prog, P) => B >= 0 /\ choicePoints[B + 1].NextClause = P

\* It is all known.
LEMMA ChoosingNotes ==
  ASSUME NEW at, Going(at), NEW op \in FirstLevel, At(op)
  PROVE  Choosing(at) /\ Instr.Op = op
<1>1. op \notin Transfers /\ op \notin Sets \cup Unifies /\ op \notin Opens
  BY DEF FirstLevel, Transfers, Sets, Unifies, Opens
<1>2. Fetches(at, op) /\ Transferring(at, op)
  BY <1>1, FetchedNotes, TransferNotes
<1>3. PICK n, m, i : n = at[P] /\ m = at[P + 1] /\ i = Instr
  OBVIOUS
<1>4. /\ BlockAfter(prog, i, n, m) /\ RegsAfter(i, n, m) /\ IsNote(n) /\ i.Op = op
  BY <1>2, <1>3 DEF Fetches
<1>5. n.need = 0 /\ m.need = 0 /\ n.open = {}
  BY <1>1, <1>4 DEF BlockAfter, IsNote
<1>6. Given(i) = {} /\ Opened(i) = {}
  BY <1>4 DEF FirstLevel, Given, Opened
<1>7. m.env = n.env /\ m.top = n.top /\ m.slots = n.slots /\ m.dy = n.dy
      /\ m.dx \subseteq n.dx
  BY <1>4, <1>5, <1>6 DEF RegsAfter
<1>8. ChoicesHold(at) /\ ChoicesNest /\ B \in Int /\ B + 1 = Len(choicePoints)
  <2>1. ChoicesHold(at)
    BY DEF Going, Kept
  <2>2. ChoicesNest /\ B = Len(choicePoints) - 1
    BY DEF Going, Kept, ChoicesNest
  <2>3. Len(choicePoints) \in Nat
    BY Ranges
  <2> QED BY <2>1, <2>2, <2>3
<1>9. P + 1 \in DOMAIN at /\ ~IsRetry(prog, P + 1)
  BY <1>2 DEF Fetches
<1> QED BY <1>2, <1>3, <1>4, <1>5, <1>7, <1>8, <1>9 DEF Choosing, Transferring

\* Control goes on with the next instruction, and the data is the same.
LEMMA ChoiceGoesOn ==
  ASSUME NEW at, Going(at), TypeOK', NEW op \in FirstLevel, At(op),
         UNCHANGED <<heapVars, regVars, frameVars, loopVars, status>>, P' = P + 1,
         ChoicesHold(at)',
         \A k \in 1 .. B' + 1 : Agree(at, SavedWaits(at, k)', Goes(at))
  PROVE  Kept(at)'
<1>1. Choosing(at)
  BY ChoosingNotes
<1>2. PICK n, m : n = at[P] /\ m = at[P + 1]
  OBVIOUS
<1>q. PICK q : q = QueryFrame(prog, at)
  OBVIOUS
<1>3. /\ chase = <<>> /\ Len(pdl) < 2 /\ Here = P /\ TypeOK
      /\ P + 1 \in DOMAIN at /\ ~IsRetry(prog, P + 1) /\ Certified(prog, at)
      /\ m.need = 0 /\ m.env = n.env /\ m.top = n.top /\ m.slots = n.slots /\ m.dy = n.dy
      /\ m.dx \subseteq n.dx
      /\ FrameHolds(at, n) /\ DataHolds(n) /\ Closed(prog, Heap, H, H) /\ H \in Nat
      /\ Returns(prog, at, Awaits(at)) /\ SlotsHold(prog, at, envFrames, Awaits(at), Heap, H)
      /\ Agree(at, Goes(at), Goes(at))
  BY <1>1, <1>2 DEF Choosing
<1>4. /\ UNCHANGED <<Heap, H, X, envFrames, E, CP, prog>> /\ chase' = <<>> /\ Len(pdl') < 2
      /\ Fail' = FALSE
  BY <1>3 DEF heapVars, regVars, frameVars, loopVars, status, Going
<1>5. FrameHolds(at, m)'
  BY <1>3, <1>4 DEF FrameHolds, QueryFrame
<1>6. Here' = P + 1
  BY <1>4 DEF Here
<1>7. /\ Awaits(at)' = Awaited(q, m, envFrames, E, CP)
      /\ Goes(at)' = Active(q, m, P + 1, envFrames, E, CP)
  BY <1>2, <1>4, <1>6, <1>q DEF Awaits, Goes, QueryFrame
<1>8. /\ Awaits(at) = Awaited(q, n, envFrames, E, CP)
      /\ Goes(at) = Active(q, n, P, envFrames, E, CP)
  BY <1>2, <1>3, <1>q DEF Awaits, Goes
<1>9. Awaits(at)' = Awaits(at)
  BY <1>3, <1>7, <1>8 DEF Awaited
<1>10. \A v \in Goes(at)' : \E w \in Goes(at) : w[1] = v[1] /\ at[w[2]].dy = at[v[2]].dy
  <2>1. CASE n.env
    <3>1. Goes(at)' = {<<E, P + 1>>} \cup Awaits(at) /\ Goes(at) = {<<E, P>>} \cup Awaits(at)
      BY <1>3, <1>7, <1>8, <1>9, <2>1 DEF Active
    <3>2. PICK v, w : v = <<E, P + 1>> /\ w = <<E, P>>
      OBVIOUS
    <3>3. v[1] = w[1] /\ at[w[2]].dy = at[v[2]].dy
      BY <1>2, <1>3, <3>2
    <3> QED BY <3>1, <3>2, <3>3
  <2>2. CASE ~n.env
    BY <1>3, <1>7, <1>8, <1>9, <2>2 DEF Active
  <2> QED BY <2>1, <2>2
<1>11. Agree(at, Goes(at)', Goes(at)')
  BY <1>3, <1>10 DEF Agree
<1>12. \A k \in 1 .. B' + 1 : Agree(at, SavedWaits(at, k)', Goes(at)')
  BY <1>10 DEF Agree
<1>13. \A r \in m.dx : r \in XRegs /\ LandsIn(prog, Heap', H', H', X'[r])
  BY <1>3, <1>4 DEF DataHolds
<1>14. \A s \in m.slots : /\ s \in 1 .. Len(envFrames'[E' + 1].Y)
                          /\ s \in m.dy => LandsIn(prog, Heap', H', H', envFrames'[E' + 1].Y[s])
  BY <1>3, <1>4 DEF DataHolds
<1>15. Returns(prog, at, Awaits(at)') /\ SlotsHold(prog, at, envFrames', Awaits(at)', Heap', H')
  BY <1>3, <1>4, <1>9
<1>16. P' \in DOMAIN at /\ m = at[P'] /\ ~IsRetry(prog, P') /\ Closed(prog, Heap', H', H')
  BY <1>2, <1>3, <1>4
<1> QED BY <1>3, <1>4, <1>5, <1>11, <1>12, <1>13, <1>14, <1>15, <1>16, Arrives

\* What refers to the heap refers to the live cells.
LEMMA StoreLands ==
  ASSUME TypeOK, NEW c \in Cell, LandsIn(prog, Heap, H, H, c) PROVE LandsIn(prog, Store, H, H, c)
<1>1. prog.Arity \in Seq(Nat) /\ H \in Nat /\ \A a \in 0 .. H - 1 : Heap[a] \in Cell
  BY Ranges DEF TypeOK, ControlOK, IsProgram, Addr
<1>2. \A a \in 0 .. H - 1 : Heap[a].tag = TagFUN => Store[a] = Heap[a]
  BY DEF Store
<1>3. H <= H
  BY <1>1
<1> QED BY <1>1, <1>2, <1>3, LandsLonger

\* What control will return to is there, and holds terms.
LEMMA AwaitedCells ==
  ASSUME NEW at, TypeOK, Certified(prog, at), NEW e \in -1 .. Len(envFrames) - 1, NEW c,
         NEW q, Returns(prog, at, Waits(q, envFrames, e, c)),
         NEW w \in Waits(q, envFrames, e, c), NEW s \in at[w[2]].slots,
         s \in 1 .. Len(envFrames[w[1] + 1].Y)
  PROVE  w[1] + 1 \in 1 .. Len(envFrames) /\ envFrames[w[1] + 1].Y[s] \in Cell
<1>1. w[1] + 1 \in 1 .. Len(envFrames)
  <2>1. at[w[2]].slots # {}
    OBVIOUS
  <2> QED BY <2>1, WaitedFrame
<1>2. PICK Y : Y = envFrames[w[1] + 1].Y
  OBVIOUS
<1>3. Y \in Seq(Cell) /\ s \in 1 .. Len(Y)
  BY <1>1, <1>2, Stacked
<1>4. Y[s] \in Cell
  BY <1>3
<1> QED BY <1>1, <1>2, <1>4

\* TRY_ME_ELSE.
LEMMA TryMeElseKept ==
  ASSUME NEW at, Going(at), TypeOK', TryMeElse PROVE Kept(at)'
<1>0. PICK op \in FirstLevel : op = "TRY_ME_ELSE"
  BY DEF FirstLevel
<1>1. At(op) /\ Choosing(at) /\ Instr.Op = "TRY_ME_ELSE"
  BY <1>0, ChoosingNotes DEF TryMeElse
<1>2. PICK n, N : n = at[P] /\ N = Len(choicePoints)
  OBVIOUS
<1>q. PICK q : q = QueryFrame(prog, at)
  OBVIOUS
<1>3. /\ Here = P /\ TypeOK /\ Certified(prog, at) /\ IsNote(n)
      /\ InRange(Instr) /\ Controls(prog, at, P) /\ Instr \in Instruction
      /\ Instr = prog.Code[P + 1] /\ DataHolds(n) /\ Closed(prog, Heap, H, H) /\ H \in Nat
      /\ Returns(prog, at, Awaits(at)) /\ SlotsHold(prog, at, envFrames, Awaits(at), Heap, H)
      /\ Agree(at, Goes(at), Goes(at)) /\ Spares(at)
      /\ ChoicesHold(at) /\ B \in Int /\ N = B + 1 /\ N \in Nat
  BY <1>1, <1>2, Ranges DEF Choosing
<1>4. PICK k \in Nat : k = Instr.Arg2 /\ k <= NumXRegs
  BY <1>1, <1>3 DEF Instruction, InRange
<1>5. /\ ~n.env /\ ~n.top /\ 0 .. k - 1 \subseteq n.dx
      /\ Begins(at, Instr.Arg1, 0 .. k - 1)
  BY <1>1, <1>2, <1>3, <1>4 DEF Controls
<1>6. PICK cp : cp = ChoicePoint(Instr.Arg2, Instr.Arg1)
  OBVIOUS
<1>7. /\ cp.H = H /\ cp.TR = TR /\ cp.N = k /\ cp.CE = E /\ cp.CP = CP
      /\ cp.NextClause = Instr.Arg1 /\ cp.Args = [j \in 1 .. k |-> X[j - 1]]
  BY <1>4, <1>6 DEF ChoicePoint
<1>8. /\ choicePoints' = Append(choicePoints, cp) /\ B' = N /\ P' = P + 1
      /\ UNCHANGED <<Heap, H, Trail, TR, X, envFrames, E, CP, prog>>
      /\ UNCHANGED <<heapVars, regVars, frameVars, loopVars, status>>
  BY <1>2, <1>6 DEF TryMeElse, PushChoice, heapVars, trailVars, regVars, frameVars, status
<1>9. /\ choicePoints'[N + 1] = cp
      /\ \A j \in 1 .. N : choicePoints'[j] = choicePoints[j]
  <2>1. choicePoints \in Seq(ChoicePoints)
    BY <1>3 DEF TypeOK, ChoicesOK
  <2> QED BY <1>2, <1>8, <2>1
<1>10. Awaits(at) = Waits(q, envFrames, E, CP) /\ Goes(at) = Awaits(at)
  BY <1>2, <1>3, <1>5, <1>q DEF Awaits, Awaited, Goes, Active
<1>11. ASSUME NEW j \in 1 .. N
       PROVE  SavedHolds(at, j)' /\ SavedWaits(at, j)' = SavedWaits(at, j)
  <2>1. PICK old : old = choicePoints[j] /\ old = choicePoints'[j]
    BY <1>9
  <2>2. SavedWaits(at, j)' = SavedWaits(at, j)
    BY <1>8, <2>1 DEF SavedWaits, QueryFrame
  <2>3. Undone(old)' = Undone(old)
    BY <1>8 DEF Undone
  <2>4. SavedHolds(at, j)
    BY <1>3 DEF ChoicesHold
  <2> QED BY <1>8, <2>1, <2>2, <2>3, <2>4 DEF SavedHolds
<1>12. SavedWaits(at, N + 1)' = Awaits(at)
  BY <1>7, <1>8, <1>9, <1>10, <1>q DEF SavedWaits, QueryFrame
<1>13. SavedHolds(at, N + 1)'
  <2>1. Undone(cp)' = Store
    BY SMTT(30), <1>3, <1>7, <1>8, Ranges DEF Undone, Store
  <2>2. Closed(prog, Store, H, H)
    <3> SUFFICES ASSUME NEW a \in 0 .. H - 1
                 PROVE  LandsIn(prog, Store, H, H, Store[a]) /\ MayHold(a, Store[a])
      BY DEF Closed
    <3>1. Store[a] = Heap[a] /\ Heap[a] \in Cell
      BY <1>3, Ranges DEF Store, Addr
    <3>2. LandsIn(prog, Heap, H, H, Heap[a]) /\ MayHold(a, Heap[a])
      BY <1>3 DEF Closed
    <3> QED BY <1>3, <3>1, <3>2, StoreLands
  <2>3. ASSUME NEW j \in 1 .. k PROVE LandsIn(prog, Store, H, H, cp.Args[j])
    <3>1. PICK r : r = j - 1 /\ r \in n.dx
      BY <1>5
    <3>2. r \in XRegs /\ LandsIn(prog, Heap, H, H, X[r])
      BY <1>3, <3>1 DEF DataHolds
    <3>3. X[r] \in Cell
      BY <1>3, <3>2 DEF TypeOK, FramesOK
    <3> QED BY <1>3, <1>7, <3>1, <3>2, <3>3, StoreLands
  <2>4. SlotsHold(prog, at, envFrames, Awaits(at), Store, H)
    <3> SUFFICES ASSUME NEW w \in Awaits(at), NEW s \in at[w[2]].slots
                 PROVE  /\ s \in 1 .. Len(envFrames[w[1] + 1].Y)
                        /\ s \in at[w[2]].dy =>
                             LandsIn(prog, Store, H, H, envFrames[w[1] + 1].Y[s])
      BY DEF SlotsHold
    <3>1. /\ s \in 1 .. Len(envFrames[w[1] + 1].Y)
          /\ s \in at[w[2]].dy => LandsIn(prog, Heap, H, H, envFrames[w[1] + 1].Y[s])
      BY <1>3 DEF SlotsHold
    <3>2. PICK d \in -1 .. Len(envFrames) - 1 : d = E
      BY <1>3, Stacked
    <3>3. /\ Returns(prog, at, Waits(q, envFrames, d, CP))
          /\ w \in Waits(q, envFrames, d, CP)
      BY <1>3, <1>10, <3>2
    <3>4. envFrames[w[1] + 1].Y[s] \in Cell
      BY <1>3, <3>1, <3>3, AwaitedCells
    <3> QED BY <1>3, <3>1, <3>4, StoreLands
  <2>5. Undone(choicePoints[N + 1])' = Store
    BY <1>9, <2>1
  <2>6. /\ choicePoints'[N + 1].H = H /\ choicePoints'[N + 1].N = k
        /\ choicePoints'[N + 1].Args = cp.Args /\ choicePoints'[N + 1].NextClause = Instr.Arg1
    BY <1>7, <1>9
  <2> QED BY <1>3, <1>5, <1>8, <1>12, <2>2, <2>3, <2>4, <2>5, <2>6 DEF SavedHolds
<1>14. \A j \in 1 .. B' + 1 : j \in 1 .. N \/ j = N + 1
  BY <1>3, <1>8
<1>15. ASSUME NEW j \in 1 .. B' + 1 PROVE Agree(at, SavedWaits(at, j)', Goes(at))
  <2>1. CASE j \in 1 .. N
    BY <1>3, <1>11, <2>1 DEF Spares
  <2>2. CASE j = N + 1
    BY <1>3, <1>10, <1>12, <2>2
  <2> QED BY <1>14, <2>1, <2>2
<1>16. ChoicesHold(at)'
  <2>1. \A j \in 1 .. B' + 1 : SavedHolds(at, j)'
    BY <1>11, <1>13, <1>14
  <2>2. ASSUME NEW i \in 1 .. B' + 1, NEW j \in i .. B' + 1
        PROVE  Agree(at, SavedWaits(at, i)', SavedWaits(at, j)')
    <3>1. CASE j = N + 1
      BY <1>10, <1>12, <1>15, <3>1
    <3>2. CASE j # N + 1
      <4>1. i \in 1 .. N /\ j \in 1 .. N /\ i \in 1 .. B + 1 /\ j \in i .. B + 1
        BY <1>3, <1>8, <3>2
      <4>2. Agree(at, SavedWaits(at, i), SavedWaits(at, j))
        BY <1>3, <4>1 DEF ChoicesHold
      <4> QED BY <1>11, <4>1, <4>2
    <3> QED BY <3>1, <3>2
  <2> QED BY <2>1, <2>2 DEF ChoicesHold
<1> QED BY <1>1, <1>8, <1>15, <1>16, ChoiceGoesOn

\* An instruction that moves no frame and no slot disturbs no choice point.
LEMMA FramesAlone ==
  ASSUME TypeOK, NEW at, UNCHANGED envFrames
  PROVE  FramesStay /\ \A W : SlotsStay(at, W)
  BY Stacked DEF FramesStay, SlotsStay

\* Only the next clause of the current choice point changes.
LEMMA NextClauseIs ==
  ASSUME TypeOK, B >= 0, NEW next,
         choicePoints' = [choicePoints EXCEPT ![B + 1].NextClause = next]
  PROVE  /\ choicePoints'[B + 1].NextClause = next
         /\ \A k \in 1 .. B : choicePoints'[k] = choicePoints[k]
<1>1. /\ choicePoints \in Seq(ChoicePoints) /\ B + 1 \in 1 .. Len(choicePoints)
      /\ choicePoints[B + 1] \in ChoicePoints
  BY CurrentChoice
<1>2. PICK cp : cp = [choicePoints[B + 1] EXCEPT !.NextClause = next]
  OBVIOUS
<1>3. choicePoints' = [choicePoints EXCEPT ![B + 1] = cp] /\ cp.NextClause = next
  BY <1>1, <1>2 DEF ChoicePoints
<1>4. \A k \in 1 .. B : k \in 1 .. Len(choicePoints) /\ k # B + 1
  BY <1>1, Ranges
<1>5. /\ choicePoints'[B + 1] = cp
      /\ \A k \in 1 .. B : choicePoints'[k] = choicePoints[k]
  BY <1>1, <1>3, <1>4
<1> QED BY <1>3, <1>5

\* RETRY_ME_ELSE.
LEMMA RetryMeElseKept ==
  ASSUME NEW at, Going(at), TypeOK', RetryMeElse PROVE Kept(at)'
<1>0. PICK op \in FirstLevel : op = "RETRY_ME_ELSE"
  BY DEF FirstLevel
<1>1. At(op) /\ Choosing(at) /\ Instr.Op = "RETRY_ME_ELSE"
  BY <1>0, ChoosingNotes DEF RetryMeElse
<1>2. PICK n : n = at[P]
  OBVIOUS
<1>3. /\ TypeOK /\ InRange(Instr) /\ Controls(prog, at, P) /\ P < Len(prog.Code)
      /\ Instr = prog.Code[P + 1] /\ ChoicesHold(at) /\ ChoicesNest /\ Spares(at)
      /\ B \in Int /\ B + 1 = Len(choicePoints)
      /\ IsRetry(prog, P) => B >= 0 /\ choicePoints[B + 1].NextClause = P
  BY <1>1 DEF Choosing
<1>4. B >= 0 /\ choicePoints[B + 1].NextClause = P /\ Begins(at, Instr.Arg1, n.dx)
  BY <1>1, <1>2, <1>3 DEF IsRetry, Controls
<1>5. /\ choicePoints' = [choicePoints EXCEPT ![B + 1].NextClause = Instr.Arg1]
      /\ UNCHANGED <<heapVars, regVars, frameVars, loopVars, status>>
      /\ UNCHANGED <<Heap, Trail, TR, envFrames, B, prog>> /\ P' = P + 1
  BY DEF RetryMeElse, heapVars, trailVars, regVars, status
<1>6. SameMarks(B + 1) /\ SameSnapshots(B + 1)
  <2>1. SameMarks(B + 1)
    BY <1>3, <1>4, <1>5, NextClauseMarks DEF SameMarks
  <2>2. ASSUME NEW k \in 1 .. B + 1, NEW a \in 0 .. choicePoints[k].H - 1
        PROVE  UndoneCell(choicePoints[k].TR, a)' = UndoneCell(choicePoints[k].TR, a)
    BY <1>5, <2>1 DEF SameMarks, UndoneCell
  <2> QED BY <2>1, <2>2, SnapshotsStay
<1>7. \A k \in 1 .. B + 1 : Begins(at, choicePoints[k].NextClause, 0 .. choicePoints[k].N - 1)
  BY <1>3 DEF ChoicesHold, SavedHolds
<1>8. \A k \in 1 .. B + 1 : Begins(at, choicePoints'[k].NextClause, 0 .. choicePoints[k].N - 1)
  <2>1. Begins(at, P, 0 .. choicePoints[B + 1].N - 1)
    BY <1>3, <1>4, <1>7
  <2>2. Begins(at, Instr.Arg1, 0 .. choicePoints[B + 1].N - 1)
    BY <1>2, <1>4, <2>1 DEF Begins
  <2>3. /\ choicePoints'[B + 1].NextClause = Instr.Arg1
        /\ \A k \in 1 .. B : choicePoints'[k] = choicePoints[k]
    BY <1>3, <1>4, <1>5, NextClauseIs
  <2>4. \A k \in 1 .. B + 1 : k \in 1 .. B \/ k = B + 1
    BY <1>3
  <2> QED BY <1>7, <2>2, <2>3, <2>4
<1>9. FramesStay /\ \A k \in 1 .. B + 1 : SlotsStay(at, SavedWaits(at, k))
  BY <1>3, <1>5, FramesAlone
<1>10. ChoicesHold(at)' /\ \A k \in 1 .. B' + 1 : SavedWaits(at, k)' = SavedWaits(at, k)
  <2>1. B' = (B + 1) - 1 /\ prog' = prog
    BY <1>3, <1>5
  <2> QED BY <1>3, <1>6, <1>8, <1>9, <2>1, ChoicesStay
<1>11. \A k \in 1 .. B' + 1 : Agree(at, SavedWaits(at, k)', Goes(at))
  BY <1>3, <1>5, <1>10 DEF Spares
<1> QED BY <1>1, <1>5, <1>10, <1>11, ChoiceGoesOn

\* TRUST_ME.
LEMMA TrustMeKept ==
  ASSUME NEW at, Going(at), TypeOK', TrustMe PROVE Kept(at)'
<1>0. PICK op \in FirstLevel : op = "TRUST_ME"
  BY DEF FirstLevel
<1>1. At(op) /\ Choosing(at) /\ Instr.Op = "TRUST_ME"
  BY <1>0, ChoosingNotes DEF TrustMe
<1>2. /\ TypeOK /\ InRange(Instr) /\ ChoicesHold(at) /\ ChoicesNest /\ Spares(at)
      /\ B \in Int /\ B + 1 = Len(choicePoints)
  BY <1>1 DEF Choosing
<1>3. B >= 0 /\ PopChoice
  BY <1>1, <1>2 DEF InRange, OnChoice, TrustMe
<1>4. /\ UNCHANGED <<heapVars, regVars, frameVars, loopVars, status>>
      /\ UNCHANGED <<Heap, Trail, TR, envFrames, prog>> /\ P' = P + 1 /\ B' = B - 1
  BY DEF TrustMe, PopChoice, heapVars, trailVars, regVars, status
<1>5. SameMarks(B) /\ SameSnapshots(B)
  <2>1. SameMarks(B)
    BY <1>2, <1>3, PopMarks
  <2>2. ASSUME NEW k \in 1 .. B, NEW a \in 0 .. choicePoints[k].H - 1
        PROVE  UndoneCell(choicePoints[k].TR, a)' = UndoneCell(choicePoints[k].TR, a)
    BY <1>4, <2>1 DEF SameMarks, UndoneCell
  <2> QED BY <2>1, <2>2, SnapshotsStay
<1>6. \A k \in 1 .. B : choicePoints'[k] = choicePoints[k] /\ k \in 1 .. B + 1
  <2>1. choicePoints' = SubSeq(choicePoints, 1, B) /\ choicePoints \in Seq(ChoicePoints)
        /\ B \in 0 .. Len(choicePoints)
    BY <1>2, <1>3, CurrentChoice DEF PopChoice
  <2> QED BY <1>2, <2>1, SubSeqProperties
<1>7. \A k \in 1 .. B : Begins(at, choicePoints'[k].NextClause, 0 .. choicePoints[k].N - 1)
  BY <1>2, <1>6 DEF ChoicesHold, SavedHolds
<1>8. FramesStay /\ \A k \in 1 .. B : SlotsStay(at, SavedWaits(at, k))
  BY <1>2, <1>4, FramesAlone
<1>9. ChoicesHold(at)' /\ \A k \in 1 .. B' + 1 : SavedWaits(at, k)' = SavedWaits(at, k)
  <2>1. B <= Len(choicePoints)
    BY <1>2
  <2> QED BY <1>2, <1>4, <1>5, <1>7, <1>8, <2>1, ChoicesStay
<1>10. \A k \in 1 .. B' + 1 : Agree(at, SavedWaits(at, k)', Goes(at))
  BY <1>2, <1>4, <1>9 DEF Spares
<1> QED BY <1>1, <1>4, <1>9, <1>10, ChoiceGoesOn

\* A choice instruction of code that keeps to the discipline.
LEMMA ChoiceKept ==
  ASSUME NEW at, Going(at), TypeOK', Choice PROVE Kept(at)'
<1>1. TryMeElse \/ RetryMeElse \/ TrustMe
  <2> SUFFICES ASSUME NEW op \in {"TRY", "RETRY", "TRUST", "NECK_CUT", "CUT"}, At(op)
               PROVE  FALSE
    BY DEF Choice, TryMeElse, Try, Retry, Trust, NeckCut, Cut
  <2>1. op \notin Sets \cup Unifies
    BY DEF Sets, Unifies
  <2>2. Transferring(at, op)
    BY <2>1, TransferNotes
  <2> QED BY <2>2 DEF Transferring, Legal
<1> QED BY <1>1, TryMeElseKept, RetryMeElseKept, TrustMeKept

\* What landed when the choice point was pushed lands when it is gone back to.
LEMMA RestoredLands ==
  ASSUME TypeOK, B >= 0, Restore, NEW cp \in ChoicePoints, cp = choicePoints[B + 1],
         NEW c \in Cell, LandsIn(prog, Undone(cp), cp.H, cp.H, c)
  PROVE  LandsIn(prog, Heap', cp.H, cp.H, c)
<1>1. cp.H \in Nat /\ cp.H <= HeapSize /\ HeapSize \in Nat
  BY SizesAssumption DEF ChoicePoints
<1>2. \A a \in 0 .. cp.H - 1 : a \in Addr
  BY <1>1 DEF Addr
<1>3. \A a \in 0 .. cp.H - 1 :
        /\ Heap[a] \in Cell /\ REF(a) \in Cell
        /\ Heap'[a] = IF \E j \in cp.TR .. TR - 1 : Trail[j] = a THEN REF(a) ELSE Heap[a]
  BY <1>2 DEF TypeOK, HeapOK, Restore, UnwindTrail, Unwound, REF, Cell, TagREF
<1>4. \A a \in 0 .. cp.H - 1 : Undone(cp)[a] \in Cell /\ Heap'[a] = Undone(cp)[a]
  BY <1>3 DEF Undone
<1>5. prog.Arity \in Seq(Nat) /\ cp.H <= cp.H
  BY <1>1 DEF TypeOK, ControlOK, IsProgram
<1> QED BY <1>1, <1>4, <1>5, LandsLonger

\* Going back to the current choice point.
LEMMA AlternativeHolds ==
  ASSUME NEW at, TypeOK, TypeOK', ChoicesNest, TrailSound, Certified(prog, at), ChoicesHold(at),
         chase = <<>>, Len(pdl) < 2, B >= 0, TakeAlternative
  PROVE  Kept(at)'
<1>1. PICK cp \in ChoicePoints : cp = choicePoints[B + 1]
  BY CurrentChoice
<1>q. PICK q, n : q = QueryFrame(prog, at) /\ n = B + 1
  OBVIOUS
<1>2. /\ B \in Int /\ n = Len(choicePoints) /\ n \in Nat /\ n \in 1 .. Len(choicePoints)
      /\ n \in 1 .. B + 1
  BY <1>q, Ranges DEF ChoicesNest
<1>3. /\ Restore /\ UNCHANGED <<envFrames, choicePoints, B, prog, chase, pdl>>
      /\ P' = cp.NextClause /\ Fail' = FALSE
  BY <1>1 DEF TakeAlternative, Restore, loopVars
<1>4. /\ H' = cp.H /\ E' = cp.CE /\ CP' = cp.CP
      /\ X' = [r \in XRegs |-> IF r < cp.N THEN cp.Args[r + 1] ELSE X[r]]
  BY <1>1, <1>3 DEF Restore
<1>5. /\ cp.N \in Nat /\ cp.N <= NumXRegs /\ cp.Args \in Seq(Cell) /\ Len(cp.Args) = cp.N
      /\ cp.H \in Nat /\ cp.CE \in -1 .. Len(envFrames) - 1
  <2>1. cp.N \in Nat /\ cp.Args \in Seq(Cell) /\ cp.H \in Nat
    BY SizesAssumption DEF ChoicePoints
  <2>2. cp.N <= NumXRegs /\ Len(cp.Args) = cp.N /\ cp.CE \in -1 .. Len(envFrames) - 1
    BY <1>1, CurrentChoice
  <2> QED BY <2>1, <2>2
<1>6. /\ Closed(prog, Undone(cp), cp.H, cp.H)
      /\ \A j \in 1 .. cp.N : LandsIn(prog, Undone(cp), cp.H, cp.H, cp.Args[j])
      /\ Begins(at, cp.NextClause, 0 .. cp.N - 1)
      /\ Returns(prog, at, SavedWaits(at, n))
      /\ SlotsHold(prog, at, envFrames, SavedWaits(at, n), Undone(cp), cp.H)
  <2>1. SavedHolds(at, n) /\ choicePoints[n] = cp
    BY <1>1, <1>2, <1>q DEF ChoicesHold
  <2> QED BY <2>1 DEF SavedHolds
<1>7. SavedWaits(at, n) = Waits(q, envFrames, cp.CE, cp.CP)
  BY <1>1, <1>q DEF SavedWaits
<1>8. PICK m : m = at[P']
  OBVIOUS
<1>9. /\ P' \in DOMAIN at /\ m.dx \subseteq 0 .. cp.N - 1
      /\ m.need = 0 /\ ~m.env /\ ~m.top /\ m.slots = {} /\ m.dy = {}
  <2>1. P' \in DOMAIN at /\ m.dx \subseteq 0 .. cp.N - 1 /\ m = Noted(m.dx)
    BY <1>3, <1>6, <1>8 DEF Begins
  <2> QED BY <2>1 DEF Noted
<1>10. ChoicesHold(at)' /\ \A k \in 1 .. B' + 1 : SavedWaits(at, k)' = SavedWaits(at, k)
  <2>1. SameMarks(B + 1)
    BY <1>2, <1>3, <1>q DEF SameMarks
  <2>2. SameSnapshots(B + 1)
    BY <1>3, <2>1, RestoreSnapshots, NestingIs
  <2>3. FramesStay /\ \A k \in 1 .. B + 1 : SlotsStay(at, SavedWaits(at, k))
    BY <1>3, FramesAlone
  <2>4. \A k \in 1 .. B + 1 : Begins(at, choicePoints'[k].NextClause, 0 .. choicePoints[k].N - 1)
    BY <1>3 DEF ChoicesHold, SavedHolds
  <2>5. B' = (B + 1) - 1 /\ B + 1 <= Len(choicePoints)
    BY <1>2, <1>3, <1>q
  <2> QED BY <1>3, <2>1, <2>2, <2>3, <2>4, <2>5, ChoicesStay
<1>11. Here' = P' /\ QueryFrame(prog, at)' = q
  BY <1>3, <1>q DEF Here, QueryFrame
<1>12. Awaits(at)' = SavedWaits(at, n) /\ Goes(at)' = SavedWaits(at, n)
  <2>1. /\ Awaits(at)' = Awaited(q, m, envFrames, cp.CE, cp.CP)
        /\ Goes(at)' = Active(q, m, P', envFrames, cp.CE, cp.CP)
    BY <1>3, <1>4, <1>8, <1>11 DEF Awaits, Goes
  <2> QED BY <1>7, <1>9, <2>1 DEF Awaited, Active
<1>13. FrameHolds(at, m)'
  BY <1>9 DEF FrameHolds
<1>14. Closed(prog, Heap', H', H')
  <2> SUFFICES ASSUME NEW a \in 0 .. cp.H - 1
               PROVE  LandsIn(prog, Heap', cp.H, cp.H, Heap'[a]) /\ MayHold(a, Heap'[a])
    BY <1>4 DEF Closed
  <2>1. a \in Addr
    <3>1. PICK h : h = cp.H /\ h \in 0 .. HeapSize
      BY <1>5 DEF ChoicePoints
    <3> QED BY <3>1, SizesAssumption DEF Addr
  <2>2. /\ Heap'[a] = IF \E j \in cp.TR .. TR - 1 : Trail[j] = a THEN REF(a) ELSE Heap[a]
        /\ Heap'[a] \in Cell
    BY <1>1, <1>3, <2>1 DEF Restore, UnwindTrail, Unwound, TypeOK, HeapOK
  <2>3. Undone(cp)[a] = Heap'[a]
    BY <2>2 DEF Undone
  <2>4. LandsIn(prog, Undone(cp), cp.H, cp.H, Heap'[a]) /\ MayHold(a, Heap'[a])
    BY <1>6, <2>3 DEF Closed
  <2> QED BY <1>1, <1>3, <2>2, <2>4, RestoredLands
<1>15. ASSUME NEW r \in m.dx PROVE r \in XRegs /\ LandsIn(prog, Heap', H', H', X'[r])
  <2>1. r \in 0 .. cp.N - 1
    BY <1>9
  <2>2. r \in XRegs /\ r < cp.N /\ r + 1 \in 1 .. cp.N /\ cp.Args[r + 1] \in Cell
    BY SMTT(30), <1>5, <2>1, SizesAssumption DEF XRegs
  <2>3. X'[r] = cp.Args[r + 1]
    BY <1>4, <2>2
  <2>4. LandsIn(prog, Heap', cp.H, cp.H, cp.Args[r + 1])
    BY <1>1, <1>3, <1>6, <2>2, RestoredLands
  <2> QED BY <1>4, <2>2, <2>3, <2>4
<1>16. SlotsHold(prog, at, envFrames', Awaits(at)', Heap', H')
  <2> SUFFICES ASSUME NEW w \in SavedWaits(at, n), NEW s \in at[w[2]].slots
               PROVE  /\ s \in 1 .. Len(envFrames[w[1] + 1].Y)
                      /\ s \in at[w[2]].dy =>
                           LandsIn(prog, Heap', cp.H, cp.H, envFrames[w[1] + 1].Y[s])
    BY <1>3, <1>4, <1>12 DEF SlotsHold
  <2>1. /\ s \in 1 .. Len(envFrames[w[1] + 1].Y)
        /\ s \in at[w[2]].dy => LandsIn(prog, Undone(cp), cp.H, cp.H, envFrames[w[1] + 1].Y[s])
    BY <1>6 DEF SlotsHold
  <2>2. envFrames[w[1] + 1].Y[s] \in Cell
    BY <1>5, <1>6, <1>7, <2>1, AwaitedCells
  <2> QED BY <1>1, <1>3, <2>1, <2>2, RestoredLands
<1>17. Returns(prog, at, Awaits(at)')
  BY <1>6, <1>12
<1>18. \A k \in 1 .. B + 1 : Agree(at, SavedWaits(at, k), SavedWaits(at, n))
  <2>1. \A k \in 1 .. B + 1 : n \in k .. B + 1
    BY <1>2, <1>q
  <2> QED BY <2>1 DEF ChoicesHold
<1>19. Agree(at, Goes(at)', Goes(at)')
  BY <1>2, <1>12, <1>18
<1>20. \A k \in 1 .. B' + 1 : Agree(at, SavedWaits(at, k)', Goes(at)')
  BY <1>3, <1>10, <1>12, <1>18
<1>21. B' >= 0 /\ choicePoints'[B' + 1].NextClause = P'
  BY <1>1, <1>3
<1>22. chase' = <<>> /\ Len(pdl') < 2 /\ prog' = prog
  BY <1>3
<1>23. \A s \in m.slots : FALSE
  BY <1>9
<1> QED BY <1>3, <1>8, <1>9, <1>10, <1>13, <1>14, <1>15, <1>16, <1>17, <1>19, <1>20, <1>21, <1>22,
           <1>23, Arrives

\* Backtracking, and giving up.
LEMMA BacktrackKept ==
  ASSUME NEW at, TypeOK, TypeOK', ChoicesNest, TrailSound, Certified(prog, at), Kept(at), Backtrack
  PROVE  Kept(at)'
<1>1. ChoicesHold(at) /\ chase = <<>> /\ Len(pdl) < 2 /\ Fail
  BY DEF Kept, Backtrack
<1>2. CASE B >= 0 /\ TakeAlternative
  BY <1>1, <1>2, AlternativeHolds
<1>3. CASE ~(B >= 0 /\ TakeAlternative)
  <2>1. UNCHANGED <<heapVars, trailVars, regVars, choiceVars, loopVars, status>>
    BY <1>3 DEF Backtrack
  <2>2. UNCHANGED <<Heap, Trail, TR, envFrames, choicePoints, B, chase, pdl, Fail, prog>>
    BY <2>1 DEF heapVars, trailVars, regVars, choiceVars, loopVars, status
  <2>3. ChoicesHold(at)'
    BY <1>1, <2>2 DEF ChoicesHold, SavedHolds, SavedWaits, Undone
  <2> QED BY <1>1, <2>2, <2>3 DEF Kept
<1> QED BY <1>2, <1>3

\* When Go panics the machine stops.
LEMMA PanicKept ==
  ASSUME NEW at, Kept(at), Panic PROVE Kept(at)'
<1>1. UNCHANGED <<heapVars, trailVars, regVars, choiceVars, loopVars, Fail, prog>> /\ panic' = TRUE
  BY DEF Panic
<1>2. UNCHANGED <<Heap, Trail, TR, envFrames, choicePoints, B, chase, pdl, Fail, prog>>
  BY <1>1 DEF heapVars, trailVars, regVars, choiceVars, loopVars
<1>3. ChoicesHold(at)'
  BY <1>2 DEF Kept, ChoicesHold, SavedHolds, SavedWaits, Undone
<1> QED BY <1>1, <1>2, <1>3 DEF Kept

-----------------------------------------------------------------------------
(* The induction. *)

\* Only a machine that runs works on.
LEMMA WorksGoing ==
  ASSUME NEW at, TypeOK, ChoicesNest, Certified(prog, at), Kept(at),
         Build \/ Match \/ Unify \/ Control \/ Choice
  PROVE  Going(at)
<1>1. ~panic /\ (~Fail \/ Chasing \/ Unifying)
  <2>1. CASE Build
    BY <2>1 DEF Build, PutStructure, SetVariable, SetValue, SetConstant, SetList, SetVoid,
       PutVariable, PutValue, PutConstant, PutList, GetVariable, GetLevel, UnifyWrite,
       DataStep, At, Ready
  <2>2. CASE Match
    BY <2>2 DEF Match, UnifyVariableRead, UnifyVoidRead, UnifyRead, GetUnify, StartChase,
       ChaseStep, GetStructure, GetList, PutUnsafeValue, ReadStep, Chased, Chasing, At, Ready
  <2>3. CASE Unify
    BY <2>3 DEF Unify, UnifyDeref, UnifySame, UnifyBind, UnifyArgs, UnifyFail, Comparing,
       Unifying
  <2>4. CASE Control
    BY <2>4 DEF Control, Allocate, Deallocate, Call, Execute, Proceed, At, Ready
  <2>5. CASE Choice
    BY <2>5 DEF Choice, TryMeElse, Try, RetryMeElse, TrustMe, Retry, Trust, NeckCut, Cut, At,
       Ready
  <2> QED BY <2>1, <2>2, <2>3, <2>4, <2>5
<1>2. Fail => ~Chasing /\ ~Unifying
  <2>1. Fail => chase = <<>> /\ Len(pdl) < 2 /\ Len(pdl) \in Nat
    BY DEF Kept, TypeOK, LoopsOK
  <2> QED BY <2>1 DEF Chasing, Unifying
<1> QED BY <1>1, <1>2 DEF Going

\* Code that keeps to the discipline executes no cut.
LEMMA GoingUncut ==
  ASSUME NEW at, TypeOK, ChoicesNest, Certified(prog, at), Kept(at) PROVE ~NeckCut /\ ~Cut
<1> SUFFICES ASSUME NEW op \in {"NECK_CUT", "CUT"}, At(op), Choice PROVE FALSE
  BY DEF NeckCut, Cut, Choice
<1>1. Going(at)
  BY WorksGoing
<1>2. op \notin Sets \cup Unifies
  BY DEF Sets, Unifies
<1>3. Transferring(at, op)
  BY <1>1, <1>2, TransferNotes
<1> QED BY <1>3 DEF Transferring, Legal

\* A step that changes nothing.
LEMMA StutterKept ==
  ASSUME NEW at, Kept(at), UNCHANGED vars PROVE Kept(at)'
<1>1. UNCHANGED <<Heap, H, Trail, TR, X, envFrames, E, CP, choicePoints, B, S, Mode, chase, pdl,
                  P, Fail, panic, prog>>
  BY DEF vars, heapVars, trailVars, regVars, frameVars, choiceVars, readVars, loopVars, status
<1>2. ChoicesHold(at)' = ChoicesHold(at)
  BY <1>1 DEF ChoicesHold, SavedHolds, SavedWaits, Undone
<1>3. Here' = Here /\ Awaits(at)' = Awaits(at) /\ Goes(at)' = Goes(at)
  BY <1>1 DEF Here, Awaits, Goes
<1>4. Spares(at)' = Spares(at)
  BY <1>1, <1>3 DEF Spares, SavedWaits
<1>5. PICK n : n = at[Here] /\ n = at[Here']
  BY <1>3
<1>6. FrameHolds(at, n)' = FrameHolds(at, n)
  BY <1>1 DEF FrameHolds, QueryFrame
<1>7. Missing(n)' = Missing(n)
  BY <1>1 DEF Missing
<1>8. DataHolds(n)' = DataHolds(n)
  BY <1>1, <1>7 DEF DataHolds
<1>9. LoopsHold(n)' = LoopsHold(n)
  BY <1>1, <1>7 DEF LoopsHold, Pending, IsReg
<1>10. Current(at)' = Current(at)
  BY <1>1, <1>3, <1>5, <1>6, <1>8, <1>9 DEF Current
<1> QED BY <1>1, <1>2, <1>4, <1>10 DEF Kept

\* The induction step.
LEMMA KeptStep ==
  ASSUME NEW at, TrailInv, Certified(prog, at), Kept(at), [Next]_vars
  PROVE  TrailInv' /\ Certified(prog, at)' /\ Kept(at)'
<1>1. TypeOK /\ ChoicesNest /\ TrailSound
  BY DEF TrailInv
<1>2. TrailInv' /\ TypeOK'
  BY <1>1, GoingUncut, UncutStep DEF TrailInv
<1>3. CASE UNCHANGED vars
  BY <1>2, <1>3, StutterKept DEF vars, status
<1>4. CASE Next
  <2>1. prog' = prog
    BY <1>4, ProgramStays
  <2>2. CASE Build \/ Match \/ Unify \/ Control \/ Choice
    BY <1>1, <1>2, <2>1, <2>2, WorksGoing, BuildKept, MatchKept, UnifyKept, ControlKept, ChoiceKept
  <2>3. CASE Backtrack
    BY <1>1, <1>2, <2>1, <2>3, BacktrackKept
  <2>4. CASE Panic
    BY <1>2, <2>1, <2>4, PanicKept
  <2> QED BY <1>4, <2>2, <2>3, <2>4 DEF Next
<1> QED BY <1>3, <1>4

\* Initially nothing has been built.
LEMMA InitKept ==
  ASSUME Init, NEW at, Certified(prog, at) PROVE TrailInv /\ Kept(at)
<1>1. TrailInv /\ IsProgram(prog)
  BY InitTrail DEF TrailInv, TypeOK, ControlOK
<1>2. /\ H = 0 /\ E = -1 /\ B = -1 /\ P = prog.start /\ envFrames = <<>> /\ chase = <<>>
      /\ pdl = <<>> /\ Fail = FALSE /\ Here = P
  BY DEF Init, Here
<1>3. PICK n : n = at[P]
  OBVIOUS
<1>4. P \in DOMAIN at /\ ~IsRetry(prog, P) /\ n = [Noted({}) EXCEPT !.top = TRUE]
  BY <1>2, <1>3 DEF Certified
<1>5. /\ n.need = 0 /\ n.block = "none" /\ n.open = {} /\ n.dx = {} /\ n.env = FALSE
      /\ n.slots = {} /\ n.dy = {} /\ n.top = TRUE
  BY <1>4 DEF Noted
<1>6. FrameHolds(at, n)
  BY <1>2, <1>5 DEF FrameHolds
<1>7. DataHolds(n)
  BY <1>2, <1>5 DEF DataHolds, Closed
<1>8. LoopsHold(n)
  BY <1>2 DEF LoopsHold
<1>9. Awaits(at) = {} /\ Goes(at) = {}
  BY <1>2, <1>3, <1>5 DEF Awaits, Goes, Awaited, Active
<1>10. Current(at)
  BY <1>2, <1>3, <1>4, <1>6, <1>7, <1>8, <1>9 DEF Current, Returns, SlotsHold, Agree
<1>11. ChoicesHold(at) /\ Spares(at)
  BY <1>2 DEF ChoicesHold, Spares
<1> QED BY <1>1, <1>2, <1>10, <1>11 DEF Kept

\* What the invariant says of what unify compares.
LEMMA KeptIsWhole ==
  ASSUME NEW at, TrailInv, Certified(prog, at), Kept(at) PROVE UnifiesWhole
<1> SUFFICES ASSUME Unifying PROVE Whole
  BY DEF UnifiesWhole
<1>1. Going(at)
  <2>1. ~Fail
    <3>1. Len(pdl) \in Nat /\ Len(pdl) >= 2
      BY DEF Unifying, TrailInv, TypeOK, LoopsOK
    <3> QED BY <3>1 DEF Kept
  <2> QED BY <2>1 DEF Going, Unifying, TrailInv
<1>2. /\ Closed(prog, Heap, H, H)
      /\ \A k \in 1 .. Len(pdl) : LandsIn(prog, Heap, H, H, pdl[k])
  BY <1>1, UnifyingNotes
<1> QED BY <1>2, LandsHere DEF Whole, Closed

\* What the invariant says of an instruction that is fetched.
LEMMA KeptIsSafe ==
  ASSUME NEW at, TrailInv, Certified(prog, at), Kept(at) PROVE ClosedAtCalls /\ NoDanglingRead
<1> SUFFICES ASSUME Ready PROVE ClosedAtCalls /\ NoDanglingRead
  BY DEF ClosedAtCalls, NoDanglingRead, Calls
<1>1. /\ TypeOK /\ IsProgram(prog) /\ ~Fail /\ ~panic /\ InCode /\ Here = P /\ H \in Nat
      /\ Current(at)
  BY Ranges DEF TrailInv, TypeOK, ControlOK, Ready, Here, Kept
<1>2. PICK n : n = at[P]
  OBVIOUS
<1>3. P \in DOMAIN at /\ IsNote(n) /\ FrameHolds(at, n) /\ DataHolds(n)
  BY <1>1, <1>2, NotesFacts DEF Current
<1>4. FillsBlock(Instr, n) /\ UsesRegs(Instr, n)
  <2>1. P # Len(prog.Code)
    BY <1>1 DEF InCode, IsProgram
  <2> QED BY <1>1, <1>2, <1>3, <2>1 DEF Certified, Allowed, Instr
<1>5. ASSUME NEW r \in ReadRegs(Instr) PROVE Lands(GetReg(r))
  <2>1. n.env => E >= 0
    BY <1>3 DEF FrameHolds
  <2>2. LandsIn(prog, Heap, H, H, GetReg(r))
    BY <1>1, <1>3, <1>4, <1>5, <2>1, KnownLands DEF UsesRegs
  <2> QED BY <2>2, LandsHere
<1>6. ASSUME Instr.Op \in {"CALL", "EXECUTE", "PROCEED"}, NEW k \in 0 .. H - 1
      PROVE  Lands(Heap[k]) /\ (IsREF(Heap[k]) => Heap[k].val <= k)
  <2>1. n.need = 0
    BY <1>4, <1>6 DEF FillsBlock, Sets, Unifies
  <2>2. Missing(n) = 0 /\ H + 0 = H
    BY <1>1, <2>1 DEF Missing
  <2>3. LandsIn(prog, Heap, H, H, Heap[k]) /\ MayHold(k, Heap[k])
    BY <1>3, <2>2 DEF DataHolds, Closed
  <2> QED BY <2>3, LandsHere DEF MayHold, IsREF
<1> QED BY <1>5, <1>6 DEF ClosedAtCalls, NoDanglingRead, Calls

\* The inductive invariant of code that keeps to the discipline.
DisciplineInv == TrailInv /\ \E at : Certified(prog, at) /\ Kept(at)

\* Code that keeps to the discipline has built all it has begun when control
\* leaves a clause, and reads no register or slot that backtracking left
\* pointing above the heap top (exec.go, restoreChoicePoint, restores the
\* argument registers only), and unify is given complete terms only: whatever
\* such programs are loaded.
THEOREM DisciplineIsEnough ==
  Disciplined => (Spec => [](ClosedAtCalls /\ NoDanglingRead /\ UnifiesWhole))
<1> SUFFICES ASSUME Disciplined
             PROVE  Spec => [](ClosedAtCalls /\ NoDanglingRead /\ UnifiesWhole)
  OBVIOUS
<1>1. Init => DisciplineInv
  <2> SUFFICES ASSUME Init PROVE DisciplineInv
    OBVIOUS
  <2>1. PICK at : Certified(prog, at)
    BY DEF Init, Disciplined
  <2> QED BY <2>1, InitKept DEF DisciplineInv
<1>2. DisciplineInv /\ [Next]_vars => DisciplineInv'
  BY KeptStep DEF DisciplineInv
<1>3. DisciplineInv => ClosedAtCalls /\ NoDanglingRead /\ UnifiesWhole
  BY KeptIsSafe, KeptIsWhole DEF DisciplineInv
<1> QED BY <1>1, <1>2, <1>3, PTL DEF Spec

-----------------------------------------------------------------------------
(* Why Go panics. *)

\* An operand that is looked up in the register file is read, is given a term,
\* or will refer to a block.
LEMMA OperandRegs ==
  ASSUME NEW p, NEW i, Legal(p, i)
  PROVE  /\ i.Op \in RegArg1 => i.Arg1 \in ReadRegs(i) \cup Given(i) \cup Opened(i)
         /\ i.Op \in RegArg2 => i.Arg2 \in ReadRegs(i) \cup Given(i) \cup Opened(i)
BY DEF Legal, RegArg1, RegArg2, ReadRegs, Given, Opened

\* An instruction that is fetched finds everything but space.
LEMMA FetchFindsAll ==
  ASSUME NEW at, TrailInv, Certified(prog, at), Kept(at), Ready, ~FetchAtLimit
  PROVE  InRange(Instr)
<1>1. /\ TypeOK /\ IsProgram(prog) /\ ~Fail /\ ~panic /\ InCode /\ Here = P /\ H \in Nat
      /\ Current(at) /\ chase = <<>> /\ Len(pdl) < 2
  BY Ranges DEF TrailInv, TypeOK, ControlOK, Ready, Here, Kept
<1>2. PICK n, i : n = at[P] /\ i = Instr
  OBVIOUS
<1>3. /\ P \in DOMAIN at /\ IsNote(n) /\ FrameHolds(at, n) /\ DataHolds(n)
      /\ IsRetry(prog, P) => B >= 0
  BY <1>1, <1>2, NotesFacts DEF Current
<1>4. Legal(prog, i) /\ FillsBlock(i, n) /\ UsesRegs(i, n) /\ Controls(prog, at, P)
  <2>1. P # Len(prog.Code)
    BY <1>1 DEF InCode, IsProgram
  <2> QED BY <1>1, <1>2, <1>3, <2>1 DEF Certified, Allowed, Instr
<1>5. i \in Instruction /\ i = prog.Code[P + 1] /\ P \in Nat /\ P < Len(prog.Code)
  BY <1>1, <1>2, Fetched DEF InCode, Instr, TypeOK, ControlOK
<1>6. /\ Room(Pushes(i))
      /\ i.Op \in RegArg1 => ~(i.Arg1 >= NumXRegs)
      /\ i.Op \in RegArg2 => ~(i.Arg2 >= NumXRegs)
      /\ i.Op = "ALLOCATE" => ~(Len(envFrames) >= MaxStack)
      /\ i.Op = "TRY_ME_ELSE" => ~(Len(choicePoints) >= MaxStack)
  BY <1>1, <1>2 DEF FetchAtLimit
<1>7. NumXRegs \in Nat /\ MaxStack \in Nat /\ HeapSize \in Nat /\ S \in Nat
      /\ H <= HeapSize /\ Len(envFrames) \in Nat /\ Len(choicePoints) \in Nat
  BY <1>1, SizesAssumption DEF TypeOK, HeapOK, LoopsOK, FramesOK, ChoicesOK
<1>8. ASSUME NEW r \in ReadRegs(i) \cup Given(i) \cup Opened(i), r \in Int, ~(r >= NumXRegs)
      PROVE  IsReg(r)
  <2>1. CASE r \in ReadRegs(i)
    <3>1. r \in Known(n) /\ (n.env => E >= 0)
      BY <1>3, <1>4, <2>1 DEF UsesRegs, FrameHolds
    <3> QED BY <1>1, <1>3, <3>1, KnownLands
  <2>2. CASE r >= 0
    BY <1>7, <1>8, <2>2 DEF IsReg, XRegs
  <2>3. CASE r < 0 /\ r \in Given(i) \cup Opened(i)
    <3>1. r \in Given(i)
      BY <1>4, <2>3 DEF Legal
    <3>2. -r \in n.slots
      BY <1>4, <2>3, <3>1 DEF UsesRegs
    <3>3. E >= 0 /\ -r \in 1 .. Len(envFrames[E + 1].Y)
      BY <1>3, <3>2 DEF IsNote, FrameHolds, DataHolds
    <3> QED BY <2>3, <3>3 DEF IsReg
  <2> QED BY <1>8, <2>1, <2>2, <2>3
<1>9. /\ i.Op \in RegArg1 => IsReg(i.Arg1)
      /\ i.Op \in RegArg2 => IsReg(i.Arg2)
  BY <1>4, <1>5, <1>6, <1>8, OperandRegs DEF Instruction
<1>10. /\ i.Op \in PushesOne => Room(1)
       /\ i.Op \in {"SET_VOID", "ALLOCATE"} => Room(i.Arg1)
       /\ i.Op = "UNIFY_VOID" /\ Mode = "WRITE" => Room(i.Arg1)
       /\ i.Op \in UnifiesOne /\ Mode = "WRITE" => Room(1)
  BY <1>6 DEF Pushes, PushesOne, UnifiesOne
<1>11. i.Op \in UnifiesOne /\ Mode = "READ" => S < HeapSize
  <2> SUFFICES ASSUME i.Op \in UnifiesOne, Mode = "READ" PROVE S < HeapSize
    OBVIOUS
  <2>1. n.block = "unify" /\ Filling(i) = 1 /\ Filling(i) <= n.need
    BY <1>4 DEF FillsBlock, UnifiesOne, Unifies, Sets, Filling
  <2>2. S + n.need <= H /\ n.need \in Nat
    BY <1>3, <2>1 DEF DataHolds, IsNote
  <2> QED BY <1>1, <1>7, <2>1, <2>2
<1>12. Mode \in {"READ", "WRITE"}
  BY <1>1 DEF TypeOK, LoopsOK
<1>13. i.Op \in {"CALL", "EXECUTE"} => i.Arg1 < Len(prog.Arity)
  BY <1>4 DEF Legal
<1>14. i.Op = "TRY_ME_ELSE" => i.Arg2 <= NumXRegs
  <2> SUFFICES ASSUME i.Op = "TRY_ME_ELSE" PROVE i.Arg2 <= NumXRegs
    OBVIOUS
  <2>1. i.Arg2 \in Nat /\ 0 .. i.Arg2 - 1 \subseteq n.dx
    BY <1>2, <1>4, <1>5 DEF Controls, Instruction
  <2>2. CASE i.Arg2 > 0
    <3>1. i.Arg2 - 1 \in n.dx
      BY <2>1, <2>2
    <3>2. i.Arg2 - 1 \in XRegs
      BY <1>3, <3>1 DEF DataHolds
    <3> QED BY <1>7, <2>1, <3>2 DEF XRegs
  <2> QED BY <1>7, <2>1, <2>2
<1>15. i.Op \notin {"DEALLOCATE", "TRY", "RETRY", "TRUST"}
  BY <1>4 DEF Legal
<1>16. i.Op \in {"RETRY_ME_ELSE", "TRUST_ME"} => B >= 0
  BY <1>3, <1>5 DEF IsRetry
<1>17. /\ i.Op = "ALLOCATE" => Len(envFrames) < MaxStack
       /\ i.Op = "TRY_ME_ELSE" => Len(choicePoints) < MaxStack
  BY <1>6, <1>7
<1> QED BY <1>2, <1>9, <1>10, <1>11, <1>12, <1>13, <1>14, <1>15, <1>16, <1>17 DEF InRange, OnChoice

\* So does one that dereferences.
LEMMA ChaseFindsAll ==
  ASSUME NEW at, TrailInv, Kept(at), Chasing, ~ChaseAtLimit PROVE ~ChaseOut
<1>1. /\ TypeOK /\ chase # <<>> /\ ~panic /\ Room(1) /\ ~(TR >= TrailSize)
  BY DEF TrailInv, Chasing, ChaseAtLimit
<1>2. ~Fail /\ Current(at)
  BY <1>1 DEF Kept, Chasing
<1>3. PICK c : c = chase[1]
  OBVIOUS
<1>4. LandsIn(prog, Heap, H, H, c) /\ c \in Cell
  <2>1. chase[1] \in Cell
    BY <1>1 DEF TypeOK, LoopsOK, Chasing
  <2> QED BY <1>1, <1>2, <1>3, <2>1 DEF Current, LoopsHold
<1>5. H \in Nat /\ HeapSize \in Nat /\ H <= HeapSize /\ TR \in Nat /\ TrailSize \in Nat
  BY <1>1, SizesAssumption DEF TypeOK, HeapOK, TrailOK
<1>6. c.val \in Nat /\ (c.tag \in {TagREF, TagSTR} => c.val < HeapSize)
  BY <1>4, <1>5 DEF LandsIn, Cell
<1>7. TR < TrailSize
  BY <1>1, <1>5
<1>8. DerefInRange(c) /\ \A d, e : CanBind(d, e)
  BY <1>6, <1>7 DEF DerefInRange, IsREF, CanBind
<1>9. c.tag = TagSTR => ~(c.val >= HeapSize)
  BY <1>5, <1>6
<1>10. Room(1) /\ CanBind(c, STR(H)) /\ CanBind(c, LIS(H)) /\ CanBind(c, REF(H))
  BY <1>1, <1>8
<1> QED BY <1>3, <1>8, <1>9, <1>10 DEF ChaseOut

\* And one that unifies.
LEMMA UnifyFindsAll ==
  ASSUME NEW at, TrailInv, Certified(prog, at), Kept(at), Unifying, ~UnifyAtLimit
  PROVE  ~UnifyOut
<1>1. Going(at)
  <2>1. TypeOK /\ ChoicesNest /\ ~panic /\ Len(pdl) \in Nat /\ Len(pdl) >= 2
    BY DEF TrailInv, TypeOK, LoopsOK, Unifying
  <2>2. ~Fail
    BY <2>1 DEF Kept
  <2> QED BY <2>1, <2>2 DEF Going
<1>2. /\ TypeOK /\ D1 \in Cell /\ D2 \in Cell /\ Len(Rest) \in Nat /\ H \in Nat
      /\ LandsIn(prog, Heap, H, H, D1) /\ LandsIn(prog, Heap, H, H, D2)
  BY <1>1, UnifyingNotes
<1>3. /\ HeapSize \in Nat /\ H <= HeapSize /\ TR \in Nat /\ TrailSize \in Nat /\ MaxStack \in Nat
      /\ prog.Arity \in Seq(Nat)
  BY <1>2, SizesAssumption DEF TypeOK, HeapOK, TrailOK, ControlOK, IsProgram
<1>4. D1.val \in Nat /\ D2.val \in Nat
  BY <1>2 DEF Cell
<1>5. /\ TR < TrailSize
      /\ BothLIS => ~(Len(Rest) + 4 > MaxStack)
      /\ BothSTR => ~(Len(Rest) + 2 * prog.Arity[Heap[D1.val].val + 1] > MaxStack)
  BY <1>3 DEF UnifyAtLimit, Unifying
<1>6. DerefInRange(D1) /\ DerefInRange(D2) /\ \A c, d : CanBind(c, d)
  BY <1>2, <1>3, <1>4, <1>5 DEF DerefInRange, IsREF, CanBind, LandsIn
<1>7. BothLIS => PairInRange
  <2> SUFFICES ASSUME BothLIS PROVE PairInRange
    OBVIOUS
  <2>1. D1.val + 1 < H /\ D2.val + 1 < H /\ ~(Len(Rest) + 4 > MaxStack)
    BY <1>2, <1>5 DEF BothLIS, LandsIn
  <2>2. PICK x \in Nat, y \in Nat, k \in Nat : x = D1.val /\ y = D2.val /\ k = Len(Rest)
    BY <1>2, <1>4
  <2>3. x + 1 < HeapSize /\ y + 1 < HeapSize /\ k + 4 <= MaxStack
    BY <1>2, <1>3, <2>1, <2>2
  <2> QED BY <2>2, <2>3 DEF PairInRange
<1>8. BothSTR => STRInRange
  BY <1>2, <1>3, <1>4 DEF BothSTR, STRInRange, LandsIn
<1>9. BothSTR /\ SameFunctor => ArityInRange
  <2> SUFFICES ASSUME BothSTR, SameFunctor PROVE ArityInRange
    OBVIOUS
  <2>0. BothSTR
    OBVIOUS
  <2>1. PICK f : f = Heap[D1.val].val /\ f = Heap[D2.val].val
    BY DEF SameFunctor
  <2>2. /\ f < Len(prog.Arity) /\ D1.val + prog.Arity[f + 1] < H /\ D2.val + prog.Arity[f + 1] < H
    BY <1>2, <2>1 DEF BothSTR, LandsIn
  <2>3. f \in Nat
    <3>1. D1.val \in 0 .. HeapSize - 1
      <4>1. D1.val < HeapSize
        BY <1>8, <2>0 DEF STRInRange
      <4> QED BY <1>3, <1>4, <4>1
    <3>2. Heap[D1.val] \in Cell
      BY <1>2, <3>1 DEF TypeOK, HeapOK, Addr
    <3>3. Heap[D1.val].tag = TagFUN
      BY <1>2 DEF BothSTR, LandsIn
    <3> QED BY <2>1, <3>2, <3>3 DEF Cell
  <2>4. PICK a \in Nat : a = prog.Arity[f + 1]
    <3>1. f + 1 \in 1 .. Len(prog.Arity)
      BY <1>3, <2>2, <2>3
    <3> QED BY <1>3, <3>1
  <2>5. ~(Len(Rest) + 2 * a > MaxStack)
    BY <1>5, <2>1, <2>4
  <2>6. \A v \in Nat : v + a < H => v + a < HeapSize
    BY <1>2, <1>3
  <2>7. D1.val + a < HeapSize /\ D2.val + a < HeapSize
    BY <1>4, <2>2, <2>4, <2>6
  <2>8. Len(Rest) + 2 * a <= MaxStack
    <3>1. PICK r \in Nat : r = Len(Rest)
      BY <1>2
    <3> QED BY <1>3, <2>5, <3>1
  <2> QED BY <2>1, <2>2, <2>4, <2>7, <2>8 DEF ArityInRange
<1> QED BY <1>6, <1>7, <1>8, <1>9 DEF UnifyOut

\* A step that is no panic is one of a machine that has not panicked.
LEMMA OthersGoOn ==
  ASSUME Build \/ Match \/ Unify \/ Control \/ Choice \/ Backtrack PROVE ~panic /\ panic' = panic
<1>1. CASE Build
  BY <1>1 DEF Build, PutStructure, SetVariable, SetValue, SetConstant, SetList, SetVoid,
     PutVariable, PutValue, PutConstant, PutList, GetVariable, GetLevel, UnifyWrite,
     DataStep, At, Ready, status
<1>2. CASE Match
  BY <1>2 DEF Match, UnifyVariableRead, UnifyVoidRead, UnifyRead, GetUnify, StartChase,
     ChaseStep, GetStructure, GetList, PutUnsafeValue, ReadStep, Chased, Chasing, At, Ready, status
<1>3. CASE Unify
  BY <1>3 DEF Unify, UnifyDeref, UnifySame, UnifyBind, UnifyArgs, UnifyFail, Comparing,
     Unifying, status
<1>4. CASE Control
  BY <1>4 DEF Control, Allocate, Deallocate, Call, Execute, Proceed, At, Ready, status
<1>5. CASE Choice
  BY <1>5 DEF Choice, TryMeElse, Try, PushChoice, RetryMeElse, TrustMe, Retry, Trust,
     NeckCut, Cut, CutTo, At, Ready, status
<1>6. CASE Backtrack
  BY <1>6 DEF Backtrack, TakeAlternative, status
<1> QED BY <1>1, <1>2, <1>3, <1>4, <1>5, <1>6

\* The limits are a matter of the state, which a panic leaves alone.
LEMMA LimitsStay ==
  ASSUME UNCHANGED <<Heap, H, TR, envFrames, choicePoints, Mode, chase, pdl, P, prog>>
  PROVE  /\ FetchAtLimit => FetchAtLimit'
         /\ ChaseAtLimit => ChaseAtLimit'
         /\ UnifyAtLimit => UnifyAtLimit'
<1>1. Instr' = Instr /\ Pushes(Instr)' = Pushes(Instr) /\ InCode' = InCode
  BY DEF Instr, Pushes, InCode
<1>2. \A n : Room(n) <=> Room(n)'
  BY DEF Room
<1>3. FetchAtLimit => FetchAtLimit'
  BY <1>1, <1>2 DEF FetchAtLimit
<1>4. ChaseAtLimit => ChaseAtLimit'
  BY <1>2 DEF ChaseAtLimit
<1>5. UnifyAtLimit => UnifyAtLimit'
  BY DEF UnifyAtLimit, BothLIS, BothSTR, D1, D2, Rest
<1> QED BY <1>3, <1>4, <1>5

\* A step of the machine, or one that leaves it alone.
LEMMA PanicsStep ==
  ASSUME NEW at, TrailInv, Certified(prog, at), Kept(at), PanicsAtLimits, [Next]_vars
  PROVE  PanicsAtLimits'
<1>1. CASE UNCHANGED vars \/ Panic
  <2>1. /\ UNCHANGED <<Heap, H, TR, envFrames, choicePoints, Mode, chase, pdl, P, prog>>
        /\ UNCHANGED panic \/ Panic
    BY <1>1 DEF Panic, vars, heapVars, trailVars, regVars, choiceVars, readVars, loopVars, status
  <2>2. Panic => FetchAtLimit \/ ChaseAtLimit \/ UnifyAtLimit
    BY FetchFindsAll, ChaseFindsAll, UnifyFindsAll DEF Panic
  <2> QED BY <2>1, <2>2, LimitsStay DEF PanicsAtLimits
<1>2. CASE Build \/ Match \/ Unify \/ Control \/ Choice \/ Backtrack
  BY <1>2, OthersGoOn DEF PanicsAtLimits
<1> QED BY <1>1, <1>2 DEF Next

\* Go indexes its arrays and slices without looking (exec.go, heap.go,
\* unify.go): code that keeps to the discipline makes it panic only when the
\* heap, the trail, the register file or memory is used up.
THEOREM DisciplinePanicsAtLimits == Disciplined => (Spec => []PanicsAtLimits)
<1> SUFFICES ASSUME Disciplined PROVE Spec => []PanicsAtLimits
  OBVIOUS
<1> DEFINE Inv == DisciplineInv /\ PanicsAtLimits
<1>1. Init => Inv
  <2> SUFFICES ASSUME Init PROVE Inv
    OBVIOUS
  <2>1. PICK at : Certified(prog, at)
    BY DEF Init, Disciplined
  <2> QED BY <2>1, InitKept DEF DisciplineInv, PanicsAtLimits, Init
<1>2. Inv /\ [Next]_vars => Inv'
  BY KeptStep, PanicsStep DEF DisciplineInv
<1> QED BY <1>1, <1>2, PTL DEF Spec

-----------------------------------------------------------------------------
(* Why deref ends. *)

\* A variable that lands and is bound to another is bound to an older one.
LEMMA BoundDescends ==
  ASSUME TypeOK, NEW top, Closed(prog, Heap, H, top), NEW c \in Cell,
         LandsIn(prog, Heap, H, H, c), ~Resolved(c)
  PROVE  Descends(c, Heap[c.val])
<1>1. IsREF(c) /\ Heap[c.val] # c
  BY DEF Resolved
<1>2. c.val \in 0 .. H - 1 /\ Heap[c.val] \in Cell
  BY <1>1, NextLands
<1>3. MayHold(c.val, Heap[c.val])
  BY <1>2 DEF Closed
<1> SUFFICES ASSUME IsREF(Heap[c.val]) PROVE Heap[c.val].val < c.val
  BY DEF Descends
<1>4. c = REF(c.val) /\ Heap[c.val] = REF(Heap[c.val].val)
  BY <1>1, <1>2, RefCell
<1>5. Heap[c.val].val <= c.val /\ Heap[c.val].val # c.val
  BY <1>1, <1>3, <1>4 DEF MayHold, IsREF
<1>6. Heap[c.val].val \in Nat /\ c.val \in Nat
  BY <1>2 DEF Cell
<1> QED BY <1>5, <1>6

\* What every step does that is an iteration of deref.
DerefAction ==
  /\ ChaseStep => Descends(chase[1], chase'[1])
  /\ UnifyDeref => \A k \in DOMAIN pdl : pdl'[k] = pdl[k] \/ Descends(pdl[k], pdl'[k])

\* The notes say where variables refer to, so every iteration descends.
LEMMA DerefStep ==
  ASSUME NEW at, TrailInv, Certified(prog, at), Kept(at) PROVE DerefAction
<1>1. ASSUME ChaseStep PROVE Descends(chase[1], chase'[1])
  <2>1. /\ TypeOK /\ chase \in Seq(Cell) /\ Len(chase) = 1 /\ ~panic /\ ~Resolved(chase[1])
        /\ chase' = <<Heap[chase[1].val]>>
    BY <1>1 DEF ChaseStep, Chasing, TrailInv, TypeOK, LoopsOK
  <2>2. chase # <<>> /\ chase[1] \in Cell
    BY <2>1
  <2>3. ~Fail /\ Current(at)
    BY <2>1, <2>2 DEF Kept
  <2>4. Closed(prog, Heap, H, H + Missing(at[Here])) /\ LandsIn(prog, Heap, H, H, chase[1])
    BY <2>2, <2>3 DEF Current, DataHolds, LoopsHold
  <2> QED BY <2>1, <2>2, <2>4, BoundDescends
<1>2. ASSUME UnifyDeref, NEW k \in DOMAIN pdl, pdl'[k] # pdl[k]
      PROVE  Descends(pdl[k], pdl'[k])
  <2>1. Unifying /\ TypeOK /\ ChoicesNest /\ ~panic /\ pdl \in Seq(Cell) /\ Len(pdl) >= 2
    BY <1>2 DEF UnifyDeref, Unifying, TrailInv, TypeOK, LoopsOK
  <2>2. ~Fail
    BY <2>1 DEF Kept
  <2>3. /\ Closed(prog, Heap, H, H)
        /\ \A j \in 1 .. Len(pdl) : pdl[j] \in Cell /\ LandsIn(prog, Heap, H, H, pdl[j])
    BY <2>1, <2>2, UnifyingNotes DEF Going
  <2>4. PICK j \in 1 .. Len(pdl) : ~Resolved(pdl[j]) /\ pdl' = [pdl EXCEPT ![j] = Heap[pdl[j].val]]
    <3>1. Len(pdl) - 1 \in 1 .. Len(pdl) /\ Len(pdl) \in 1 .. Len(pdl)
      BY <2>1
    <3> QED BY <1>2, <3>1 DEF UnifyDeref, D1, D2
  <2>5. k = j /\ pdl'[k] = Heap[pdl[k].val]
    BY <1>2, <2>1, <2>4
  <2> QED BY <2>1, <2>3, <2>4, <2>5, BoundDescends
<1> QED BY <1>1, <1>2 DEF DerefAction

\* deref (heap.go) has no guard against going in a circle: on code that keeps to
\* the discipline it needs none, as it only ever comes to older variables.
THEOREM DisciplineDerefDescends == Disciplined => (Spec => DerefDescends)
<1> SUFFICES ASSUME Disciplined PROVE Spec => DerefDescends
  OBVIOUS
<1>1. Init => DisciplineInv
  BY InitKept DEF Disciplined, DisciplineInv, Init
<1>2. DisciplineInv /\ [Next]_vars => DisciplineInv'
  BY KeptStep DEF DisciplineInv
<1>3. DisciplineInv => DerefAction
  BY DerefStep DEF DisciplineInv
<1> QED BY <1>1, <1>2, <1>3, PTL DEF Spec, DerefDescends, DerefAction
=============================================================================
