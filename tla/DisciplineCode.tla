-------------------------- MODULE DisciplineCode ----------------------------
(***************************************************************************)
(* Steps within a clause: what is true when an instruction has been        *)
(* executed is what the next one's note says.                              *)
(***************************************************************************)
EXTENDS DisciplineFacts

-----------------------------------------------------------------------------
(* Going on within a clause. *)

\* The machine runs code that keeps to the discipline, and what the notes say
\* is true of it.
Going(at) ==
  TypeOK /\ ChoicesNest /\ Certified(prog, at) /\ Kept(at) /\ ~Fail /\ ~panic

\* A step of an instruction that transfers no control.
Steady ==
  /\ WorkStep
  /\ UNCHANGED <<E, CP, choicePoints, B, panic, prog>>

\* Frames older than the clause's own are left alone.
LEMMA AwaitsStay ==
  ASSUME NEW at, Going(at), Steady, Writes(at[Here]), NEW m,
         m.env = at[Here].env, m.top = at[Here].top
  PROVE  /\ Awaited(QueryFrame(prog, at), m, envFrames', E', CP') = Awaits(at)
         /\ \A w \in Awaits(at) : at[Here].env => w[1] # E
         /\ SlotsStay(at, Awaits(at))
         /\ \A w \in Awaits(at) : at[w[2]].slots # {} => w[1] + 1 \in 1 .. Len(envFrames)
<1> DEFINE n == at[Here]
           q == QueryFrame(prog, at)
           e == IF n.env THEN envFrames[E + 1].CE ELSE E
           c == IF n.env THEN envFrames[E + 1].CP ELSE CP
<1>1. CASE n.top
  BY <1>1 DEF Awaits, Awaited, SlotsStay
<1>2. CASE ~n.top
  <2>1. /\ n.env => E + 1 \in 1 .. Len(envFrames) /\ E >= 0
        /\ e \in Int /\ e \in -1 .. E /\ (n.env => e < E)
        /\ E \in -1 .. Len(envFrames) - 1 /\ Len(envFrames) \in Nat
    <3>1. n.env => E >= 0
      BY DEF Going, Kept, Current, FrameHolds
    <3>2. Len(envFrames) \in Nat /\ E \in -1 .. Len(envFrames) - 1 /\ E \in Int
      BY Stacked DEF Going
    <3>3. n.env => E + 1 \in 1 .. Len(envFrames)
      BY <3>1, <3>2
    <3>4. n.env => envFrames[E + 1].CE \in -1 .. (E + 1) - 2
      BY <3>3, Stacked DEF Going
    <3> QED BY <3>1, <3>2, <3>3, <3>4
  <2>2. Awaits(at) = Waits(q, envFrames, e, c)
    BY <1>2 DEF Awaits, Awaited
  <2>3. Awaited(q, m, envFrames', E', CP') = Waits(q, envFrames', e, c)
    <3>1. n.env => envFrames'[E + 1].CE = e /\ envFrames'[E + 1].CP = c
      BY <2>1 DEF Writes
    <3>2. E' = E /\ CP' = CP
      BY DEF Steady
    <3> QED BY <1>2, <3>1, <3>2 DEF Awaited
  <2>4. Waits(q, envFrames', e, c) = Waits(q, envFrames, e, c)
    <3> HIDE DEF e, c, q
    <3>1. \A k \in 1 .. e + 1 : /\ envFrames'[k].CE = envFrames[k].CE
                                /\ envFrames'[k].CP = envFrames[k].CP
      <4> SUFFICES ASSUME NEW k \in 1 .. e + 1 PROVE k \in 1 .. Len(envFrames)
        BY DEF Writes
      <4> QED BY <2>1
    <3> QED BY <2>1, <3>1, WaitsSame
  <2>5. \A w \in Awaits(at) : w[1] \in -1 .. e
    <3> HIDE DEF e, c, q
    <3>1. IsStack(envFrames, e + 1)
      BY <2>1, Stacked, Shorter DEF Going
    <3> QED BY <2>1, <2>2, <3>1, WaitsOlder
  <2>6. \A w \in Awaits(at) : n.env => w[1] # E
    BY <2>1, <2>5
  <2>7. ASSUME NEW w \in Awaits(at), NEW s \in at[w[2]].slots
        PROVE  /\ Len(envFrames'[w[1] + 1].Y) = Len(envFrames[w[1] + 1].Y)
               /\ envFrames'[w[1] + 1].Y[s] = envFrames[w[1] + 1].Y[s]
               /\ w[1] + 1 \in 1 .. Len(envFrames)
    <3> HIDE DEF e, c, q
    <3>1. Returns(prog, at, Awaits(at)) /\ s \in 1 .. Len(envFrames[w[1] + 1].Y)
      BY DEF Going, Kept, Current, SlotsHold
    <3>2. e \in -1 .. Len(envFrames) - 1
      BY <2>1
    <3>3. w[1] + 1 \in 1 .. Len(envFrames) /\ w[1] \in 0 .. e
      BY <2>2, <3>1, <3>2, WaitedFrame DEF Going
    <3>4. n.env => w[1] + 1 # E + 1
      BY <2>1, <2>6, <3>3
    <3> QED BY <3>1, <3>3, <3>4 DEF Writes
  <2> QED BY <2>2, <2>3, <2>4, <2>6, <2>7 DEF SlotsStay
<1> QED BY <1>1, <1>2

\* What the choice points remember is kept.
LEMMA ChoicesKept ==
  ASSUME NEW at, Going(at), TypeOK', Steady, Writes(at[Here])
  PROVE  /\ ChoicesHold(at)'
         /\ \A k \in 1 .. B + 1 : SavedWaits(at, k)' = SavedWaits(at, k)
<1>1. /\ TypeOK /\ ChoicesNest /\ Certified(prog, at) /\ ChoicesHold(at) /\ Spares(at)
      /\ Here \in DOMAIN at /\ FrameHolds(at, at[Here])
  BY DEF Going, Kept, Current
<1>2. FramesStay /\ \A k \in 1 .. B + 1 : SlotsStay(at, SavedWaits(at, k))
  BY <1>1, WritesSpare
<1>3. SameSnapshots(B + 1)
  BY <1>1, WorkSnapshots DEF Steady
<1>4. B + 1 = Len(choicePoints) /\ B \in Int
  BY <1>1, Ranges DEF ChoicesNest
<1>5. choicePoints' = choicePoints /\ B' = (B + 1) - 1 /\ prog' = prog
  BY <1>4 DEF Steady
<1>6. SameMarks(B + 1)
  BY <1>4, <1>5 DEF SameMarks
<1>7. \A k \in 1 .. B + 1 : Begins(at, choicePoints'[k].NextClause, 0 .. choicePoints[k].N - 1)
  BY <1>1, <1>5 DEF ChoicesHold, SavedHolds
<1>8. B' + 1 = B + 1
  BY <1>4, <1>5
<1>9. ChoicesHold(at)' /\ \A k \in 1 .. B' + 1 : SavedWaits(at, k)' = SavedWaits(at, k)
  BY <1>1, <1>2, <1>3, <1>4, <1>5, <1>6, <1>7, ChoicesStay
<1> QED BY <1>8, <1>9

\* The invariant after a step within a clause, when the data is as the note of
\* the next instruction says.
LEMMA GoesOn ==
  ASSUME NEW at, Going(at), TypeOK', Steady, Writes(at[Here]), Fail' = FALSE,
         NEW pc \in DOMAIN at, Here' = pc,
         at[pc].env = at[Here].env, at[pc].top = at[Here].top, at[Here].dy \subseteq at[pc].dy,
         DataHolds(at[pc])', LoopsHold(at[pc])',
         ~IsRetry(prog, P') \/ P' = P
  PROVE  Kept(at)'
<1> DEFINE n == at[Here]
           m == at[pc]
           q == QueryFrame(prog, at)
<1>0. /\ E' = E /\ CP' = CP /\ prog' = prog /\ choicePoints' = choicePoints /\ B' = B
      /\ QueryFrame(prog, at)' = q
  BY DEF Steady
<1>1. FrameHolds(at, n) /\ FrameHolds(at, m)'
  <2>1. FrameHolds(at, n)
    BY DEF Going, Kept, Current
  <2>2. envFrames = <<>> => envFrames' = <<>>
    <3>1. Len(envFrames') = Len(envFrames) /\ envFrames' \in Seq(Frame)
      BY DEF Writes, TypeOK, FramesOK
    <3> QED BY <3>1
  <2> QED BY <1>0, <2>1, <2>2 DEF FrameHolds
<1>2. /\ Awaited(q, m, envFrames', E', CP') = Awaits(at)
      /\ \A w \in Awaits(at) : n.env => w[1] # E
      /\ SlotsStay(at, Awaits(at))
      /\ \A w \in Awaits(at) : at[w[2]].slots # {} => w[1] + 1 \in 1 .. Len(envFrames)
  BY AwaitsStay
<1>3. Awaits(at)' = Awaits(at)
  BY <1>0, <1>2 DEF Awaits
<1>4. Goes(at)' = (IF n.env THEN {<<E, pc>>} ELSE {}) \cup Awaits(at)
  BY <1>0, <1>2 DEF Goes, Active
<1>5. Goes(at) = (IF n.env THEN {<<E, Here>>} ELSE {}) \cup Awaits(at)
  BY DEF Goes, Active, Awaits
<1>6. /\ Returns(prog, at, Awaits(at)) /\ SlotsHold(prog, at, envFrames, Awaits(at), Heap, H)
      /\ Agree(at, Goes(at), Goes(at)) /\ Spares(at) /\ TypeOK
      /\ IsRetry(prog, P) => B >= 0 /\ choicePoints[B + 1].NextClause = P
  BY DEF Going, Kept, Current
<1>7. SlotsHold(prog, at, envFrames, Awaits(at), Heap, H)'
  <2> SUFFICES ASSUME NEW w \in Awaits(at), NEW s \in at[w[2]].slots
               PROVE  /\ s \in 1 .. Len(envFrames'[w[1] + 1].Y)
                      /\ s \in at[w[2]].dy =>
                           LandsIn(prog, Heap', H', H', envFrames'[w[1] + 1].Y[s])
    BY <1>0, <1>3 DEF SlotsHold
  <2>1. /\ s \in 1 .. Len(envFrames[w[1] + 1].Y)
        /\ s \in at[w[2]].dy => LandsIn(prog, Heap, H, H, envFrames[w[1] + 1].Y[s])
    BY <1>6 DEF SlotsHold
  <2>2. /\ Len(envFrames'[w[1] + 1].Y) = Len(envFrames[w[1] + 1].Y)
        /\ s \in at[w[2]].dy => envFrames'[w[1] + 1].Y[s] = envFrames[w[1] + 1].Y[s]
    BY <1>2 DEF SlotsStay
  <2>3. envFrames[w[1] + 1].Y[s] \in Cell
    <3>1. w[1] + 1 \in 1 .. Len(envFrames)
      BY <1>2
    <3>2. envFrames[w[1] + 1].Y \in Seq(Cell)
      BY <1>6, <3>1, Stacked
    <3> QED BY <2>1, <3>2
  <2>4. KeepsFunctors /\ H \in Nat /\ H' \in Nat /\ H <= H'
    BY <1>6, WorkKeepsFunctors, Ranges DEF Steady, KeepsFunctors
  <2> QED BY <1>6, <2>1, <2>2, <2>3, <2>4, StillLands
<1>8. Agree(at, Goes(at)', Goes(at)')
  BY <1>2, <1>4, <1>5, <1>6 DEF Agree
<1>9. Current(at)'
  <2>1. Agree(at, Goes(at), Goes(at))'
    BY <1>8
  <2>2. IsRetry(prog, P)' => B' >= 0 /\ choicePoints'[B' + 1].NextClause = P'
    BY <1>0, <1>6
  <2>3. Returns(prog, at, Awaits(at))'
    BY <1>0, <1>3, <1>6
  <2> QED BY <1>1, <1>7, <2>1, <2>2, <2>3 DEF Current
<1>10. ChoicesHold(at)' /\ \A k \in 1 .. B + 1 : SavedWaits(at, k)' = SavedWaits(at, k)
  BY ChoicesKept
<1>11. Spares(at)'
  <2> SUFFICES ASSUME NEW k \in 1 .. B + 1 PROVE Agree(at, SavedWaits(at, k), Goes(at)')
    BY <1>0, <1>10 DEF Spares
  <2>1. Agree(at, SavedWaits(at, k), Goes(at))
    BY <1>6 DEF Spares
  <2>2. ASSUME NEW w \in SavedWaits(at, k), NEW v \in Goes(at)', w[1] = v[1]
        PROVE  at[w[2]].dy \subseteq at[v[2]].dy
    <3>1. CASE v \in Awaits(at)
      <4>1. v \in Goes(at)
        BY <1>5, <3>1
      <4> QED BY <2>1, <2>2, <4>1 DEF Agree
    <3>2. CASE n.env /\ v = <<E, pc>>
      <4>1. <<E, Here>> \in Goes(at) /\ w[1] = <<E, Here>>[1]
        BY <1>5, <2>2, <3>2
      <4>2. at[w[2]].dy \subseteq at[<<E, Here>>[2]].dy
        BY <2>1, <4>1 DEF Agree
      <4>3. at[w[2]].dy \subseteq n.dy /\ v[2] = pc
        BY <3>2, <4>2
      <4> QED BY <4>3
    <3> QED BY <1>4, <2>2, <3>1, <3>2
  <2> QED BY <2>2 DEF Agree
<1> QED BY <1>9, <1>10, <1>11 DEF Kept

\* Or after one that fails.
LEMMA GivesUp ==
  ASSUME NEW at, Going(at), TypeOK', Steady, UNCHANGED regVars, Fail',
         chase' = <<>>, Len(pdl') < 2
  PROVE  Kept(at)'
<1>1. Writes(at[Here])
  BY DEF Writes, regVars
<1> QED BY <1>1, ChoicesKept DEF Kept

-----------------------------------------------------------------------------
(* What the next instruction's note says. *)

\* The instructions after which another frame is current.
Transfers == {"CALL", "ALLOCATE", "EXECUTE", "PROCEED"}

\* The block that is open after instruction i.
BlockAfter(p, i, n, m) ==
  /\ i.Op \in Opens =>
       /\ n.need = 0 /\ m.need = BlockSize(p, i)
       /\ m.block = IF m.need = 0 THEN "none"
                    ELSE BlockKind(i)
  /\ i.Op \in Sets \cup Unifies =>
       /\ n.block = IF i.Op \in Sets THEN "set" ELSE "unify"
       /\ m.need = n.need - Filling(i)
       /\ m.block = IF m.need = 0 THEN "none" ELSE n.block
  /\ i.Op \notin Opens \cup Sets \cup Unifies =>
       n.need = 0 /\ m.need = 0 /\ m.block = n.block

\* The registers.
RegsAfter(i, n, m) ==
  /\ m.env = n.env /\ m.top = n.top /\ m.slots = n.slots
  /\ m.dy = n.dy \cup {-r : r \in Given(i) \ Nat}
  /\ \A r \in m.open : r \in Opened(i) \/ (r \in n.open /\ r \notin Given(i) \cup Opened(i))
  /\ \A r \in m.dx : \/ r \in Given(i)
                     \/ r \in Opened(i) /\ m.need = 0
                     \/ r \in n.dx /\ r \notin Given(i) \cup Opened(i)
                     \/ r \in n.open /\ m.need = 0 /\ r \notin Given(i) \cup Opened(i)

\* A note with other registers.
WithRegs(n, dx) == [n EXCEPT !.dx = dx]

\* A block opened or continued, and the note's fields.
LEMMA BlockedFields ==
  ASSUME NEW n, IsNote(n), NEW size, NEW block, NEW regs, NEW m, NEW dx,
         m = WithRegs(Blocked(n, size, block, regs), dx)
  PROVE  /\ m.need = size /\ m.dx = dx /\ m.dy = n.dy /\ m.env = n.env /\ m.top = n.top /\ m.slots = n.slots
         /\ m.block = IF m.need = 0 THEN "none" ELSE block
         /\ m.open = IF m.need = 0 THEN {} ELSE regs
<1>1. n = [need |-> n.need, block |-> n.block, open |-> n.open, dx |-> n.dx,
           env |-> n.env, slots |-> n.slots, dy |-> n.dy, top |-> n.top]
  BY DEF IsNote
<1>2. CASE size = 0
  <2>1. m = [need |-> 0, block |-> "none", open |-> {}, dx |-> dx,
             env |-> n.env, slots |-> n.slots, dy |-> n.dy, top |-> n.top]
    BY <1>1, <1>2 DEF Blocked, WithRegs
  <2> QED BY <1>2, <2>1
<1>3. CASE size # 0
  <2>1. m = [need |-> size, block |-> block, open |-> regs, dx |-> dx,
             env |-> n.env, slots |-> n.slots, dy |-> n.dy, top |-> n.top]
    BY <1>1, <1>3 DEF Blocked, WithRegs
  <2> QED BY <1>3, <2>1
<1> QED BY <1>2, <1>3

\* Registers that refer to a block hold a term once it is complete.
LEMMA BlockedRegs ==
  ASSUME NEW n, IsNote(n), NEW size, NEW block, NEW regs
  PROVE  /\ size = 0 => Blocked(n, size, block, regs).dx = n.dx \cup regs
         /\ size # 0 => Blocked(n, size, block, regs).dx = n.dx \ regs
<1>1. n = [need |-> n.need, block |-> n.block, open |-> n.open, dx |-> n.dx,
           env |-> n.env, slots |-> n.slots, dy |-> n.dy, top |-> n.top]
  BY DEF IsNote
<1> QED BY <1>1 DEF Blocked

\* Registers given a term, likewise.
LEMMA GivenFields ==
  ASSUME NEW n, IsNote(n), NEW i, GivenY(i) \subseteq n.slots,
         \A r \in Given(i) : r \in Int
  PROVE  LET g == WithGiven(i, n) IN
         /\ IsNote(g)
         /\ g.need = n.need /\ g.block = n.block /\ g.open = n.open /\ g.env = n.env
         /\ g.top = n.top /\ g.slots = n.slots /\ g.dx = n.dx \cup GivenX(i)
         /\ g.dy = n.dy \cup GivenY(i)
<1>1. n = [need |-> n.need, block |-> n.block, open |-> n.open, dx |-> n.dx,
           env |-> n.env, slots |-> n.slots, dy |-> n.dy, top |-> n.top]
  BY DEF IsNote
<1> DEFINE g == WithGiven(i, n)
<1>2. g = [need |-> n.need, block |-> n.block, open |-> n.open,
           dx |-> n.dx \cup GivenX(i),
           env |-> n.env, slots |-> n.slots, dy |-> n.dy \cup GivenY(i), top |-> n.top]
  <2>1. PICK dx, dy : dx = n.dx \cup GivenX(i) /\ dy = n.dy \cup GivenY(i)
    OBVIOUS
  <2>2. g = [n EXCEPT !.dx = dx, !.dy = dy]
    BY <2>1 DEF WithGiven
  <2> HIDE DEF g
  <2> QED BY <1>1, <2>1, <2>2
<1> HIDE DEF g
<1>3. /\ g.need = n.need /\ g.block = n.block /\ g.open = n.open /\ g.env = n.env
      /\ g.top = n.top /\ g.slots = n.slots /\ g.dx = n.dx \cup GivenX(i)
      /\ g.dy = n.dy \cup GivenY(i)
  BY <1>2
<1>4. g = [need |-> g.need, block |-> g.block, open |-> g.open, dx |-> g.dx,
           env |-> g.env, slots |-> g.slots, dy |-> g.dy, top |-> g.top]
  BY <1>2, <1>3
<1>5. GivenX(i) \subseteq Nat /\ GivenY(i) \subseteq Nat \ {0}
  BY DEF GivenX, GivenY
<1>6. g.dy \subseteq g.slots /\ (g.slots # {} => g.env) /\ g.slots \subseteq Nat \ {0}
  BY <1>3 DEF IsNote
<1> QED BY <1>3, <1>4, <1>5, <1>6 DEF IsNote, g

\* What the notes of an instruction within a clause and of the next one say.
LEMMA NotesAfter ==
  ASSUME NEW p, IsProgram(p), NEW at, Certified(p, at), NEW pc \in DOMAIN at, pc < Len(p.Code),
         NEW i, i = p.Code[pc + 1], i.Op \notin Transfers
  PROVE  /\ pc + 1 \in DOMAIN at /\ ~IsRetry(p, pc + 1)
         /\ IsNote(at[pc]) /\ IsNote(at[pc + 1])
         /\ Legal(p, i) /\ FillsBlock(i, at[pc]) /\ UsesRegs(i, at[pc]) /\ Controls(p, at, pc)
         /\ BlockAfter(p, i, at[pc], at[pc + 1]) /\ RegsAfter(i, at[pc], at[pc + 1])
<1> DEFINE n == at[pc]
           m == at[pc + 1]
<1>1. Legal(p, i) /\ FillsBlock(i, n) /\ UsesRegs(i, n) /\ Controls(p, at, pc)
  <2>1. pc # Len(p.Code)
    BY DEF Certified, IsProgram
  <2> QED BY <2>1 DEF Certified, Allowed
<1>2. Continues(p, at, pc + 1, After(p, i, n))
  BY <1>1 DEF Controls, Transfers
<1>3. pc + 1 \in DOMAIN at /\ ~IsRetry(p, pc + 1) /\ IsNote(n) /\ IsNote(m)
  BY <1>2, NotesFacts DEF Continues
<1>4. m.dx \subseteq After(p, i, n).dx /\ m = WithRegs(After(p, i, n), m.dx)
  BY <1>2 DEF Continues, WithRegs
<1>5. i \in Instruction /\ \A r \in Given(i) : r \in Int
  <2>1. pc \in Nat /\ pc + 1 \in 1 .. Len(p.Code)
    BY DEF Certified, IsProgram
  <2>2. i \in Instruction
    BY <2>1 DEF IsProgram
  <2> QED BY <2>2 DEF Given, Instruction
<1>6. GivenY(i) \subseteq n.slots
  BY <1>1, <1>5 DEF UsesRegs, GivenY
<1> DEFINE g == WithGiven(i, n)
<1>7. /\ IsNote(g)
      /\ g.need = n.need /\ g.block = n.block /\ g.open = n.open /\ g.env = n.env
      /\ g.top = n.top /\ g.slots = n.slots /\ g.dx = n.dx \cup GivenX(i)
      /\ g.dy = n.dy \cup GivenY(i)
  BY <1>3, <1>5, <1>6, GivenFields
<1> HIDE DEF n, m, g
<1>8. CASE i.Op \in Opens
  <2> DEFINE blk == BlockKind(i)
  <2>1. After(p, i, n) = Blocked(n, BlockSize(p, i), blk, Opened(i))
    BY <1>8 DEF After, Opens, Sets, Unifies
  <2>2. /\ m.need = BlockSize(p, i) /\ m.dy = n.dy /\ m.env = n.env /\ m.top = n.top /\ m.slots = n.slots
        /\ m.block = IF m.need = 0 THEN "none" ELSE blk
        /\ m.open = IF m.need = 0 THEN {} ELSE Opened(i)
    BY <1>3, <1>4, <2>1, BlockedFields
  <2>3. m.dx \subseteq IF m.need = 0 THEN n.dx \cup Opened(i) ELSE n.dx \ Opened(i)
    <3>1. /\ BlockSize(p, i) = 0 => After(p, i, n).dx = n.dx \cup Opened(i)
          /\ BlockSize(p, i) # 0 => After(p, i, n).dx = n.dx \ Opened(i)
      BY <1>3, <2>1, BlockedRegs
    <3> QED BY <1>4, <2>2, <3>1
  <2>4. Given(i) = {} /\ i.Op \notin Sets \cup Unifies
    BY <1>8 DEF Given, Opens, Sets, Unifies
  <2>5. n.need = 0
    BY <1>1, <2>4 DEF FillsBlock, n
  <2>6. BlockAfter(p, i, n, m)
    BY <1>8, <2>2, <2>4, <2>5 DEF BlockAfter
  <2>7. RegsAfter(i, n, m)
    BY <2>2, <2>3, <2>4 DEF RegsAfter, GivenX, GivenY
  <2> QED BY <1>1, <1>3, <2>6, <2>7 DEF n, m
<1>9. CASE i.Op \in Sets \cup Unifies
  <2>0. i.Op \notin Opens /\ Opened(i) = {}
    BY <1>9 DEF Opens, Sets, Unifies, Opened
  <2>1. After(p, i, n) = Blocked(g, n.need - Filling(i), n.block, n.open)
    BY <1>9 DEF After, g, Opens, Sets, Unifies
  <2>2. /\ m.need = n.need - Filling(i) /\ m.dy = g.dy /\ m.env = n.env /\ m.top = n.top /\ m.slots = n.slots
        /\ m.block = IF m.need = 0 THEN "none" ELSE n.block
        /\ m.open = IF m.need = 0 THEN {} ELSE n.open
    BY <1>4, <1>7, <2>1, BlockedFields
  <2>3. m.dx \subseteq IF m.need = 0 THEN g.dx \cup n.open ELSE g.dx \ n.open
    <3>1. /\ n.need - Filling(i) = 0 => After(p, i, n).dx = g.dx \cup n.open
          /\ n.need - Filling(i) # 0 => After(p, i, n).dx = g.dx \ n.open
      BY <1>7, <2>1, BlockedRegs
    <3> QED BY <1>4, <2>2, <3>1
  <2>4. BlockAfter(p, i, n, m)
    BY <1>1, <1>9, <2>0, <2>2 DEF BlockAfter, FillsBlock, n
  <2>5. Given(i) \cap n.open = {}
    BY <1>1 DEF UsesRegs, n
  <2>6. RegsAfter(i, n, m)
    BY <1>7, <2>0, <2>2, <2>3, <2>5 DEF RegsAfter, GivenX, GivenY
  <2> QED BY <1>1, <1>3, <2>4, <2>6 DEF n, m
<1>10. CASE i.Op \notin Opens \cup Sets \cup Unifies
  <2>1. After(p, i, n) = g
    BY <1>10 DEF After, g, Transfers
  <2>2. m = WithRegs(g, m.dx) /\ m.dx \subseteq g.dx
    BY <1>4, <2>1
  <2>3. /\ m.need = g.need /\ m.block = g.block /\ m.open = g.open /\ m.env = g.env
        /\ m.top = g.top /\ m.dy = g.dy /\ m.slots = g.slots
    BY <1>7, <2>2 DEF IsNote, WithRegs
  <2>4. n.need = 0 /\ Opened(i) = {}
    BY <1>1, <1>10 DEF FillsBlock, n, Opened, Opens
  <2>5. BlockAfter(p, i, n, m)
    BY <1>7, <1>10, <2>3, <2>4 DEF BlockAfter
  <2>6. Given(i) \cap n.open = {}
    BY <1>1 DEF UsesRegs, n
  <2>7. RegsAfter(i, n, m)
    BY <1>7, <2>2, <2>3, <2>4, <2>6 DEF RegsAfter, GivenX, GivenY
  <2> QED BY <1>1, <1>3, <2>5, <2>7 DEF n, m
<1> QED BY <1>8, <1>9, <1>10

-----------------------------------------------------------------------------
(* Instructions within a clause. *)

\* The invariant after an instruction that has written c to the registers it
\* gives a term and to those that refer to the block it opens.
LEMMA Does ==
  ASSUME NEW at, Going(at), TypeOK', Steady, Fail' = FALSE,
         Here < Len(prog.Code), Here' = Here + 1, chase' = <<>>,
         NEW i, i = prog.Code[Here + 1], i.Op \notin Transfers,
         NEW n, n = at[Here], NEW m, m = at[Here + 1],
         NEW c \in Cell, SetRegs(Given(i) \cup Opened(i), c),
         \A r \in Given(i) \cup Opened(i) : IsReg(r),
         Given(i) # {} => LandsIn(prog, Heap', H', H', c),
         Opened(i) # {} => LandsIn(prog, Heap', H', H' + m.need, c),
         n.open # {} => H + n.need <= H' + m.need,
         Closed(prog, Heap', H', H' + Missing(m)'),
         m.block = "unify" /\ Mode' = "READ" => S' + m.need <= H',
         Len(pdl') >= 2 => /\ Missing(m)' = 0
                           /\ \A k \in 1 .. Len(pdl') : LandsIn(prog, Heap', H', H', pdl'[k])
  PROVE  Kept(at)'
<1> DEFINE rs == Given(i) \cup Opened(i)
<1>1. /\ TypeOK /\ Certified(prog, at) /\ Here \in DOMAIN at /\ FrameHolds(at, n)
      /\ DataHolds(n) /\ IsProgram(prog) /\ prog' = prog /\ E' = E /\ KeepsFunctors
  BY WorkKeepsFunctors DEF Going, Kept, Current, TypeOK, ControlOK, Steady
<1>2. /\ Here + 1 \in DOMAIN at /\ ~IsRetry(prog, Here + 1)
      /\ IsNote(n) /\ IsNote(m) /\ Legal(prog, i) /\ UsesRegs(i, n) /\ RegsAfter(i, n, m)
  BY <1>1, NotesAfter
<1>3. i \in Instruction
  <2>1. Here \in Nat /\ Here + 1 \in 1 .. Len(prog.Code)
    BY <1>1 DEF Certified, IsProgram
  <2> QED BY <1>1, <2>1 DEF IsProgram
<1>4. Opened(i) \subseteq Nat /\ \A r \in Given(i) : r \in Int
  BY <1>2, <1>3 DEF Legal, Given, Instruction
<1>5. \A r \in rs : /\ IsReg(r) /\ r \in Int
                    /\ r < 0 => r \in Given(i) /\ n.env /\ -r \notin n.dy
  BY <1>2, <1>4 DEF UsesRegs, IsNote
<1>6. rs \in SUBSET Int /\ SetRegs(rs, c)
  BY <1>5
<1>7. Writes(n)
  <2> HIDE DEF rs
  <2> QED BY <1>1, <1>5, <1>6, WritesRegs
<1>8. Given(i) = {} \/ Opened(i) = {}
  BY DEF Given, Opened
<1>9. H \in Nat /\ H' \in Nat /\ n.need \in Nat /\ m.need \in Nat
  BY <1>1, <1>2, Ranges DEF IsNote, KeepsFunctors
<1>10. \A r \in m.dx : \/ r \in rs /\ LandsIn(prog, Heap', H', H', c)
                       \/ r \notin rs /\ r \in n.dx
                       \/ r \notin rs /\ r \in n.open /\ H + n.need <= H'
  <2>1. Opened(i) # {} /\ m.need = 0 => LandsIn(prog, Heap', H', H', c)
    BY <1>9
  <2>2. n.open # {} /\ m.need = 0 => H + n.need <= H'
    BY <1>9
  <2> QED BY <1>2, <2>1, <2>2 DEF RegsAfter
<1>11. \A r \in m.open : \/ r \in rs /\ LandsIn(prog, Heap', H', H' + m.need, c)
                         \/ r \notin rs /\ r \in n.open /\ H + n.need <= H' + m.need
  BY <1>2 DEF RegsAfter
<1>12. \A s \in m.dy : \/ -s \in rs /\ LandsIn(prog, Heap', H', H', c)
                       \/ s \in n.dy
  <2> SUFFICES ASSUME NEW r \in Given(i) \ Nat
               PROVE  -(-r) \in rs /\ LandsIn(prog, Heap', H', H', c)
    BY <1>2 DEF RegsAfter
  <2> QED BY <1>4
<1>13. DataHolds(m)'
  <2> HIDE DEF rs
  <2>1. n.env => E >= 0
    BY <1>1 DEF FrameHolds
  <2>2. (m.env => n.env) /\ m.slots \subseteq n.slots
    BY <1>2 DEF RegsAfter
  <2>3. \A r \in rs : IsReg(r) /\ (r < 0 => -r \notin n.dy)
    BY <1>5
  <2> QED BY <1>1, <1>2, <1>6, <1>10, <1>11, <1>12, <2>1, <2>2, <2>3, DataAfter
<1>14. LoopsHold(m)'
  BY <1>1 DEF LoopsHold
<1>15. P' = Here + 1
  BY DEF Here
<1>16. m.env = n.env /\ m.top = n.top /\ n.dy \subseteq m.dy
  BY <1>2 DEF RegsAfter
<1> QED BY <1>1, <1>2, <1>7, <1>13, <1>14, <1>15, <1>16, GoesOn

\* A register that holds a term.
LEMMA KnownLands ==
  ASSUME TypeOK, NEW n, IsNote(n), n.env => E >= 0, DataHolds(n), NEW r \in Known(n)
  PROVE  /\ r \in Int /\ IsReg(r) /\ GetReg(r) \in Cell
         /\ LandsIn(prog, Heap, H, H, GetReg(r))
<1>1. CASE r \in n.dx
  <2>1. r \in Nat /\ r \in XRegs /\ LandsIn(prog, Heap, H, H, X[r])
    BY <1>1 DEF DataHolds, IsNote
  <2>2. X[r] \in Cell /\ GetReg(r) = X[r]
    BY <2>1 DEF TypeOK, FramesOK, GetReg
  <2> QED BY <2>1, <2>2 DEF IsReg
<1>2. CASE \E s \in n.dy : r = -s
  <2>1. PICK s \in n.dy : r = -s
    BY <1>2
  <2>2. /\ s \in Nat \ {0} /\ E >= 0 /\ s \in 1 .. Len(envFrames[E + 1].Y)
        /\ LandsIn(prog, Heap, H, H, envFrames[E + 1].Y[s])
    BY DEF IsNote, DataHolds
  <2>3. r \in Int /\ r < 0 /\ -r = s
    BY <2>1, <2>2
  <2>4. E + 1 \in 1 .. Len(envFrames) /\ envFrames[E + 1].Y \in Seq(Cell)
    BY <2>2, Stacked
  <2>5. GetReg(r) = envFrames[E + 1].Y[s] /\ envFrames[E + 1].Y[s] \in Cell
    BY <2>2, <2>3, <2>4 DEF GetReg
  <2> QED BY <2>2, <2>3, <2>4, <2>5 DEF IsReg
<1> QED BY <1>1, <1>2 DEF Known

\* What is known of an instruction that is fetched.
Fetches(at, op) ==
  LET i == Instr
      n == at[P]
      m == at[P + 1]
  IN  /\ chase = <<>> /\ Here = P /\ P \in DOMAIN at /\ P \in Nat /\ P < Len(prog.Code)
      /\ Len(pdl) < 2
      /\ P + 1 \in DOMAIN at /\ ~IsRetry(prog, P + 1)
      /\ i.Op = op /\ i = prog.Code[P + 1] /\ i \in Instruction /\ InRange(i) /\ Legal(prog, i)
      /\ Controls(prog, at, P) /\ FrameHolds(at, n) /\ DataHolds(n)
      /\ IsNote(n) /\ IsNote(m) /\ BlockAfter(prog, i, n, m) /\ RegsAfter(i, n, m)
      /\ \A r \in ReadRegs(i) : /\ r \in Int /\ IsReg(r) /\ GetReg(r) \in Cell
                                /\ LandsIn(prog, Heap, H, H, GetReg(r))

\* It is all known.
LEMMA FetchedNotes ==
  ASSUME NEW at, Going(at), NEW op, op \notin Transfers, At(op)
  PROVE  Fetches(at, op)
<1>1. /\ chase = <<>> /\ Len(pdl) < 2 /\ InCode /\ Instr.Op = op /\ InRange(Instr)
      /\ TypeOK /\ Certified(prog, at) /\ IsProgram(prog)
  BY DEF At, Ready, Going, TypeOK, ControlOK
<1>2. Here = P /\ P \in Nat /\ P < Len(prog.Code) /\ Instr = prog.Code[P + 1] /\ Instr \in Instruction
  BY <1>1, Fetched DEF Here, InCode, Instr, TypeOK, ControlOK
<1>3. P \in DOMAIN at /\ FrameHolds(at, at[P]) /\ DataHolds(at[P])
  BY <1>2 DEF Going, Kept, Current
<1>4. /\ P + 1 \in DOMAIN at /\ ~IsRetry(prog, P + 1)
      /\ IsNote(at[P]) /\ IsNote(at[P + 1])
      /\ Legal(prog, Instr) /\ UsesRegs(Instr, at[P]) /\ Controls(prog, at, P)
      /\ BlockAfter(prog, Instr, at[P], at[P + 1]) /\ RegsAfter(Instr, at[P], at[P + 1])
  BY <1>1, <1>2, <1>3, NotesAfter
<1>5. \A r \in ReadRegs(Instr) : /\ r \in Int /\ IsReg(r) /\ GetReg(r) \in Cell
                                 /\ LandsIn(prog, Heap, H, H, GetReg(r))
  <2>1. at[P].env => E >= 0
    BY <1>3 DEF FrameHolds
  <2> QED BY <1>1, <1>3, <1>4, <2>1, KnownLands DEF UsesRegs
<1> QED BY <1>1, <1>2, <1>3, <1>4, <1>5 DEF Fetches

\* The cells a block still lacks.
LEMMA MissingAfter ==
  ASSUME NEW i, NEW n, NEW m, BlockAfter(prog, i, n, m)
  PROVE  /\ i.Op \notin Opens \cup Sets \cup Unifies => Missing(n) = 0 /\ Missing(m)' = 0
         /\ i.Op \in Opens => Missing(n) = 0
         /\ i.Op \in {"PUT_STRUCTURE", "PUT_LIST"} =>
              Missing(m)' = m.need /\ (m.block = "unify" => m.need = 0)
         /\ i.Op \in {"GET_STRUCTURE", "GET_LIST"} =>
              Missing(m)' = IF Mode' = "WRITE" THEN m.need ELSE 0
         /\ i.Op \in Sets \/ (i.Op \in Unifies /\ Mode = "WRITE" /\ Mode' = "WRITE") =>
              Missing(n) = n.need /\ Missing(m)' = m.need
         /\ i.Op \in Unifies /\ Mode = "READ" /\ Mode' = "READ" =>
              Missing(n) = 0 /\ Missing(m)' = 0
<1>1. (Opens \cap (Sets \cup Unifies) = {}) /\ (Sets \cap Unifies = {})
  BY DEF Opens, Sets, Unifies
<1>2. m.need = 0 => Missing(m)' = 0
  BY DEF Missing
<1>3. n.need = 0 => Missing(n) = 0
  BY DEF Missing
<1>4. CASE i.Op \notin Opens \cup Sets \cup Unifies
  BY <1>2, <1>3, <1>4 DEF BlockAfter, Opens
<1>5. CASE i.Op \in {"PUT_STRUCTURE", "PUT_LIST"}
  <2>1. i.Op \in Opens /\ i.Op \notin Sets \cup Unifies /\ BlockKind(i) = "set"
    BY <1>5 DEF Opens, Sets, Unifies, BlockKind
  <2>2. n.need = 0 /\ m.block = IF m.need = 0 THEN "none" ELSE "set"
    BY <2>1 DEF BlockAfter
  <2>3. Missing(m)' = m.need
    BY <1>2, <2>2 DEF Missing
  <2> QED BY <1>3, <1>5, <2>1, <2>2, <2>3
<1>6. CASE i.Op \in {"GET_STRUCTURE", "GET_LIST"}
  <2>1. i.Op \in Opens /\ i.Op \notin Sets \cup Unifies /\ BlockKind(i) = "unify"
    BY <1>6 DEF Opens, Sets, Unifies, BlockKind
  <2>2. n.need = 0 /\ m.block = IF m.need = 0 THEN "none" ELSE "unify"
    BY <2>1 DEF BlockAfter
  <2>3. Missing(m)' = IF Mode' = "WRITE" THEN m.need ELSE 0
    BY <1>2, <2>2 DEF Missing
  <2> QED BY <1>3, <1>6, <2>1, <2>2, <2>3
<1>7. CASE i.Op \in Sets \cup Unifies
  <2>1. i.Op \notin Opens /\ ~(i.Op \in {"PUT_STRUCTURE", "PUT_LIST", "GET_STRUCTURE", "GET_LIST"})
        /\ (i.Op \in Sets <=> i.Op \notin Unifies)
    BY <1>7 DEF Opens, Sets, Unifies
  <2>2. /\ n.block = IF i.Op \in Sets THEN "set" ELSE "unify"
        /\ m.block = IF m.need = 0 THEN "none" ELSE n.block
    BY <1>7 DEF BlockAfter
  <2> QED BY <1>2, <1>7, <2>1, <2>2 DEF Missing
<1> QED BY <1>4, <1>5, <1>6, <1>7 DEF Opens

\* Pushing cells that land keeps the heap closed.
LEMMA PushCloses ==
  ASSUME TypeOK, TypeOK', prog' = prog, NEW cs \in Seq(Cell), Push(cs),
         NEW top \in Nat, NEW top2 \in Nat, top <= top2, Closed(prog, Heap, H, top),
         \A k \in 1 .. Len(cs) : /\ LandsIn(prog, Heap', H', top2, cs[k])
                                 /\ MayHold(H + k - 1, cs[k])
  PROVE  /\ KeepsFunctors /\ Closed(prog, Heap', H', top2)
         /\ \A k \in 1 .. Len(cs) : Heap'[H + k - 1] = cs[k]
<1>1. /\ H \in Nat /\ Len(cs) \in Nat /\ H' = H + Len(cs) /\ Heap' = Pushed(cs)
      /\ H' \in Nat /\ H' <= HeapSize /\ HeapSize \in Nat
  BY SizesAssumption DEF TypeOK, HeapOK, Push
<1>2. \A a \in 0 .. H' - 1 :
        Heap'[a] = IF H <= a /\ a < H' THEN cs[a - H + 1] ELSE Heap[a]
  <2> SUFFICES ASSUME NEW a \in 0 .. H' - 1 PROVE a \in Addr
    BY <1>1 DEF Pushed
  <2> QED BY <1>1 DEF Addr
<1>3. \A a \in 0 .. H - 1 : Heap'[a] = Heap[a]
  <2> SUFFICES ASSUME NEW a \in 0 .. H - 1 PROVE Heap'[a] = Heap[a]
    OBVIOUS
  <2>1. a \in 0 .. H' - 1 /\ ~(H <= a)
    BY <1>1
  <2> QED BY <1>2, <2>1
<1>4. \A k \in 1 .. Len(cs) : Heap'[H + k - 1] = cs[k]
  <2> SUFFICES ASSUME NEW k \in 1 .. Len(cs) PROVE Heap'[H + k - 1] = cs[k]
    OBVIOUS
  <2>1. H + k - 1 \in 0 .. H' - 1 /\ H <= H + k - 1 /\ H + k - 1 < H' /\ (H + k - 1) - H + 1 = k
    BY <1>1
  <2> QED BY <1>2, <2>1
<1>5. KeepsFunctors
  BY <1>1, <1>3 DEF KeepsFunctors
<1>6. ASSUME NEW a \in 0 .. H' - 1
      PROVE  \/ a < H /\ Heap'[a] = Heap[a]
             \/ LandsIn(prog, Heap', H', top2, Heap'[a]) /\ MayHold(a, Heap'[a])
  <2>1. CASE a < H
    <3>1. a \in 0 .. H - 1
      BY <1>1, <2>1
    <3> QED BY <1>3, <2>1, <3>1
  <2>2. CASE ~(a < H)
    <3>1. PICK k \in 1 .. Len(cs) : H + k - 1 = a
      <4>1. a - H + 1 \in 1 .. Len(cs) /\ H + (a - H + 1) - 1 = a
        BY <1>1, <2>2
      <4> QED BY <4>1
    <3> QED BY <1>4, <3>1
  <2> QED BY <2>1, <2>2
<1>7. Closed(prog, Heap', H', top2)
  BY <1>5, <1>6, StillClosed
<1> QED BY <1>4, <1>5, <1>7

\* The instructions that only touch the heap top and the registers.
LEMMA Builds ==
  ASSUME NEW at, Going(at), TypeOK', Build, NEW op, op \notin Transfers, DataStep(op),
         NEW n, n = at[P], NEW m, m = at[P + 1],
         NEW c \in Cell, SetRegs(Given(Instr) \cup Opened(Instr), c),
         \A r \in Given(Instr) \cup Opened(Instr) : IsReg(r),
         Given(Instr) # {} => LandsIn(prog, Heap', H', H', c),
         Opened(Instr) # {} => LandsIn(prog, Heap', H', H' + m.need, c),
         n.open # {} => H + n.need <= H' + m.need,
         Closed(prog, Heap', H', H' + Missing(m)'),
         m.block = "unify" /\ Mode' = "READ" => S' + m.need <= H'
  PROVE  Kept(at)'
<1>1. At(op) /\ P' = P + 1
      /\ UNCHANGED <<trailVars, frameVars, choiceVars, readVars, loopVars, status>>
  BY DEF DataStep
<1>2. Fetches(at, op)
  BY <1>1, FetchedNotes
<1>3. Steady /\ Fail' = FALSE /\ chase' = <<>> /\ Len(pdl') < 2
  <2>1. WorkStep
    BY BuildWorks DEF Going
  <2>2. ~Fail /\ chase = <<>> /\ Len(pdl) < 2 /\ Fail \in BOOLEAN
    BY <1>2 DEF Going, Fetches, TypeOK, ControlOK
  <2> QED BY <1>1, <2>1, <2>2 DEF Steady, frameVars, choiceVars, status, loopVars
<1>4. Here = P /\ Here' = P + 1 /\ P < Len(prog.Code) /\ Instr = prog.Code[P + 1] /\ Instr.Op = op
  BY <1>1, <1>2, <1>3 DEF Fetches, Here
<1>5. ~(Len(pdl') >= 2)
  BY <1>3 DEF TypeOK, LoopsOK
<1> QED BY <1>3, <1>4, <1>5, Does

\* The instructions that push the cells of a block.
LEMMA Fills ==
  ASSUME NEW at, Going(at), TypeOK', Build, NEW op, DataStep(op),
         op \in Sets \/ (op \in Unifies /\ Mode = "WRITE"),
         NEW cs \in Seq(Cell), Push(cs), Len(cs) = Filling(Instr),
         \A k \in 1 .. Len(cs) : /\ LandsIn(prog, Heap', H', H' + at[P + 1].need, cs[k])
                                 /\ MayHold(H + k - 1, cs[k]),
         NEW c \in Cell, SetRegs(Given(Instr), c),
         Given(Instr) # {} => LandsIn(prog, Heap', H', H', c)
  PROVE  Kept(at)'
<1>0. PICK n, m : n = at[P] /\ m = at[P + 1]
  OBVIOUS
<1>1. op \notin Transfers /\ op \notin Opens
  BY DEF Transfers, Opens, Sets, Unifies
<1>2. Fetches(at, op)
  BY <1>1, FetchedNotes DEF DataStep
<1>3. /\ Instr.Op = op /\ BlockAfter(prog, Instr, n, m) /\ RegsAfter(Instr, n, m) /\ IsNote(n)
      /\ IsNote(m) /\ DataHolds(n) /\ InRange(Instr) /\ Instr \in Instruction
  BY <1>0, <1>2 DEF Fetches
<1>4. /\ TypeOK /\ H \in Nat /\ H' = H + Filling(Instr) /\ H' \in Nat /\ prog' = prog
      /\ n.need \in Nat /\ m.need \in Nat /\ Mode' = Mode /\ S' = S
  BY <1>3, Ranges DEF Going, DataStep, status, readVars, Push, IsNote, TypeOK, HeapOK
<1>5. m.need = n.need - Filling(Instr)
  BY <1>3 DEF BlockAfter
<1>6. H + n.need = H' + m.need
  <2>1. Filling(Instr) \in Nat
    BY SMTT(30), <1>3 DEF Filling, Instruction, NatArg1
  <2> QED BY <1>4, <1>5, <2>1
<1>7. Missing(n) = n.need /\ Missing(m)' = m.need
  BY <1>3, <1>4, MissingAfter
<1>8. Closed(prog, Heap', H', H' + Missing(m)')
  <2>1. Closed(prog, Heap, H, H + n.need)
    BY <1>3, <1>7 DEF DataHolds
  <2>2. H + n.need \in Nat /\ H' + m.need \in Nat /\ H + n.need <= H' + m.need
    BY <1>4, <1>6
  <2>3. \A k \in 1 .. Len(cs) : /\ LandsIn(prog, Heap', H', H' + m.need, cs[k])
                                 /\ MayHold(H + k - 1, cs[k])
    BY <1>0
  <2>4. Closed(prog, Heap', H', H' + m.need)
    BY <1>4, <2>1, <2>2, <2>3, PushCloses
  <2> QED BY <1>7, <2>4
<1>9. m.block = "unify" => Mode' # "READ"
  <2>1. op \in Sets => m.block # "unify"
    BY <1>3 DEF BlockAfter
  <2> QED BY <1>4, <2>1
<1>10. Opened(Instr) = {} /\ \A r \in Given(Instr) : IsReg(r)
  BY <1>3 DEF Opened, Given, InRange, RegArg1, Sets, Unifies
<1>11. Given(Instr) \cup Opened(Instr) = Given(Instr)
  BY <1>10
<1>12. n.open # {} => H + n.need <= H' + m.need
  BY <1>4, <1>6
<1> QED BY <1>1, <1>8, <1>9, <1>10, <1>11, <1>12, <1>0, Builds

\* New variables land.
LEMMA NewVarsLand ==
  ASSUME NEW n \in Nat, NEW p, NEW heap, NEW top, H \in Nat,
         NEW k \in 1 .. n
  PROVE  /\ NewVars(n) \in Seq(Cell) /\ Len(NewVars(n)) = n
         /\ LandsIn(p, heap, H + n, top, NewVars(n)[k]) /\ MayHold(H + k - 1, NewVars(n)[k])
<1>1. NewVars(n) \in Seq(Cell) /\ Len(NewVars(n)) = n
  <2>1. \A j \in 1 .. n : REF(H + j - 1) \in Cell
    BY DEF REF, Cell, TagREF
  <2> QED BY <2>1 DEF NewVars
<1>2. NewVars(n)[k] = REF(H + k - 1)
  BY DEF NewVars
<1>3. PICK a \in Nat : a = H + k - 1 /\ a < H + n /\ H + n \in Nat
  OBVIOUS
<1>4. LandsIn(p, heap, H + n, top, REF(a)) /\ MayHold(a, REF(a))
  BY <1>3, VariablesLand
<1> QED BY <1>1, <1>2, <1>3, <1>4

\* SET_VARIABLE and UNIFY_VARIABLE push a variable and give it to a register.
LEMMA FillsVariable ==
  ASSUME NEW at, Going(at), TypeOK', Build, NEW op, DataStep(op),
         op = "SET_VARIABLE" \/ (op = "UNIFY_VARIABLE" /\ Mode = "WRITE"),
         Push(NewVars(1)), SetRegs({Instr.Arg1}, REF(H))
  PROVE  Kept(at)'
<1>1. H \in Nat /\ Instr.Op = op /\ 1 \in 1 .. 1
  BY Ranges DEF Going, DataStep, At
<1>2. NewVars(1) \in Seq(Cell) /\ Len(NewVars(1)) = 1
  BY <1>1, NewVarsLand
<1>3. H' = H + 1 /\ REF(H) \in Cell /\ LandsIn(prog, Heap', H', H', REF(H))
  <2>1. H' = H + 1
    BY <1>2 DEF Push
  <2> QED BY <1>1, <2>1, VariablesLand DEF REF, Cell, TagREF
<1>4. Given(Instr) = {Instr.Arg1} /\ Filling(Instr) = 1
  BY <1>1 DEF Given, Filling, Sets, Unifies
<1>5. \A k \in 1 .. Len(NewVars(1)) : /\ LandsIn(prog, Heap', H', H' + at[P + 1].need, NewVars(1)[k])
                                      /\ MayHold(H + k - 1, NewVars(1)[k])
  BY <1>1, <1>2, <1>3, NewVarsLand
<1>6. op \in Sets \/ (op \in Unifies /\ Mode = "WRITE")
  BY DEF Sets, Unifies
<1> QED BY <1>2, <1>3, <1>4, <1>5, <1>6, Fills

\* SET_VALUE, SET_CONSTANT and the same of UNIFY_* push a cell that lands.
LEMMA FillsCell ==
  ASSUME NEW at, Going(at), TypeOK', Build, NEW op, DataStep(op),
         op \in {"SET_VALUE", "SET_CONSTANT"}
           \/ (op \in {"UNIFY_VALUE", "UNIFY_CONSTANT"} /\ Mode = "WRITE"),
         NEW c \in Cell, Push(<<c>>), LandsIn(prog, Heap, H, H, c), UNCHANGED regVars
  PROVE  Kept(at)'
<1>1. TypeOK /\ H \in Nat /\ Instr.Op = op /\ KeepsFunctors
  BY Ranges, BuildWorks, WorkKeepsFunctors DEF Going, DataStep, At
<1>2. <<c>> \in Seq(Cell) /\ Len(<<c>>) = 1 /\ \A k \in 1 .. 1 : k = 1 /\ <<c>>[k] = c
  OBVIOUS
<1>3. Given(Instr) = {} /\ Filling(Instr) = 1
  BY <1>1 DEF Given, Filling, Sets, Unifies
<1>4. SetRegs({}, c)
  BY <1>1, NoneWritten
<1>5. op \notin Transfers /\ (op \in Sets \/ (op \in Unifies /\ Mode = "WRITE"))
  BY DEF Sets, Unifies, Transfers
<1>6. at[P + 1].need \in Nat /\ H' \in Nat /\ H' >= H
  BY <1>1, <1>5, FetchedNotes DEF DataStep, Fetches, IsNote, KeepsFunctors
<1>7. LandsIn(prog, Heap', H', H' + at[P + 1].need, c)
  BY <1>1, <1>6, StillLands
<1>8. MayHold(H, c)
  BY <1>1 DEF LandsIn, MayHold, Cell
<1>9. \A k \in 1 .. Len(<<c>>) : /\ LandsIn(prog, Heap', H', H' + at[P + 1].need, <<c>>[k])
                                 /\ MayHold(H + k - 1, <<c>>[k])
  BY <1>1, <1>2, <1>7, <1>8
<1> QED BY <1>2, <1>3, <1>4, <1>5, <1>9, Fills

\* SET_VOID and UNIFY_VOID push variables that no register gets.
LEMMA FillsVoid ==
  ASSUME NEW at, Going(at), TypeOK', Build, NEW op, DataStep(op),
         op = "SET_VOID" \/ (op = "UNIFY_VOID" /\ Mode = "WRITE"),
         Push(NewVars(Instr.Arg1)), UNCHANGED regVars
  PROVE  Kept(at)'
<1>1. TypeOK /\ H \in Nat /\ Instr.Op = op /\ Instr \in Instruction
  BY Ranges, Fetched DEF Going, DataStep, At, Ready
<1>2. PICK k \in Nat : k = Instr.Arg1
  BY <1>1 DEF Instruction, NatArg1
<1>3. NewVars(k) \in Seq(Cell) /\ Len(NewVars(k)) = k /\ H' = H + k
  <2>1. NewVars(k) \in Seq(Cell) /\ Len(NewVars(k)) = k
    <3>1. \A j \in 1 .. k : REF(H + j - 1) \in Cell
      BY <1>1 DEF REF, Cell, TagREF
    <3> QED BY <3>1 DEF NewVars
  <2> QED BY <1>2, <2>1 DEF Push
<1>4. Given(Instr) = {} /\ Filling(Instr) = k
  BY <1>1, <1>2 DEF Given, Filling
<1>5. REF(0) \in Cell /\ SetRegs({}, REF(0))
  BY <1>1, NoneWritten DEF REF, Cell, TagREF
<1>6. \A j \in 1 .. k : /\ LandsIn(prog, Heap', H', H' + at[P + 1].need, NewVars(k)[j])
                        /\ MayHold(H + j - 1, NewVars(k)[j])
  BY <1>1, <1>3, NewVarsLand
<1>7. op \in Sets \/ (op \in Unifies /\ Mode = "WRITE")
  BY DEF Sets, Unifies
<1> QED BY <1>2, <1>3, <1>4, <1>5, <1>6, <1>7, Fills

\* The instructions that write a register and leave the heap alone.
LEMMA Loads ==
  ASSUME NEW at, Going(at), TypeOK', Build, NEW op, DataStep(op), UNCHANGED heapVars,
         op \in {"PUT_VALUE", "PUT_CONSTANT", "GET_VARIABLE"},
         NEW c \in Cell, SetRegs(Given(Instr), c), LandsIn(prog, Heap, H, H, c)
  PROVE  Kept(at)'
<1>0. PICK n, m : n = at[P] /\ m = at[P + 1]
  OBVIOUS
<1>1. op \notin Opens \cup Sets \cup Unifies /\ op \notin Transfers
  BY DEF Opens, Sets, Unifies, Transfers
<1>2. Fetches(at, op)
  BY <1>1, FetchedNotes DEF DataStep
<1>3. /\ Instr.Op = op /\ BlockAfter(prog, Instr, n, m) /\ DataHolds(n) /\ InRange(Instr)
      /\ IsNote(m)
  BY <1>0, <1>2 DEF Fetches
<1>4. n.need = 0 /\ m.need = 0 /\ Missing(n) = 0 /\ Missing(m)' = 0
  BY <1>1, <1>3, MissingAfter DEF BlockAfter
<1>5. UNCHANGED <<Heap, H, S, Mode, prog>> /\ H \in Nat
  BY Ranges DEF DataStep, heapVars, readVars, status, Going
<1>6. Closed(prog, Heap', H', H' + Missing(m)')
  BY <1>3, <1>4, <1>5 DEF DataHolds
<1>7. m.block = "unify" /\ Mode' = "READ" => S' + m.need <= H'
  BY <1>3, <1>4, <1>5 DEF BlockAfter, DataHolds
<1>8. Opened(Instr) = {} /\ \A r \in Given(Instr) : IsReg(r)
  BY <1>3 DEF Opened, Given, InRange, RegArg1, RegArg2
<1>9. Given(Instr) \cup Opened(Instr) = Given(Instr)
  BY <1>8
<1>10. n.open # {} => H + n.need <= H' + m.need
  BY <1>4, <1>5
<1> QED BY <1>1, <1>5, <1>6, <1>7, <1>8, <1>9, <1>10, <1>0, Builds

\* PUT_VARIABLE pushes a variable outside a block, for two registers.
LEMMA PutsVariable ==
  ASSUME NEW at, Going(at), TypeOK', PutVariable PROVE Kept(at)'
<1> DEFINE op == "PUT_VARIABLE"
<1>0. PICK n, m : n = at[P] /\ m = at[P + 1]
  OBVIOUS
<1>1. DataStep(op) /\ Push(NewVars(1)) /\ SetRegs({Instr.Arg1, Instr.Arg2}, REF(H)) /\ Build
  BY DEF PutVariable, Build
<1>2. op \notin Opens \cup Sets \cup Unifies /\ op \notin Transfers
  BY DEF Opens, Sets, Unifies, Transfers
<1>3. Fetches(at, op)
  BY <1>1, <1>2, FetchedNotes DEF DataStep
<1>4. /\ Instr.Op = op /\ BlockAfter(prog, Instr, n, m) /\ DataHolds(n) /\ InRange(Instr)
      /\ IsNote(m)
  BY <1>0, <1>3 DEF Fetches
<1>5. n.need = 0 /\ m.need = 0 /\ Missing(n) = 0 /\ Missing(m)' = 0
  BY <1>2, <1>4, MissingAfter DEF BlockAfter
<1>6. /\ TypeOK /\ H \in Nat /\ prog' = prog /\ S' = S /\ Mode' = Mode
      /\ NewVars(1) \in Seq(Cell) /\ Len(NewVars(1)) = 1
  <2>1. TypeOK /\ H \in Nat /\ 1 \in 1 .. 1
    BY Ranges DEF Going
  <2>2. NewVars(1) \in Seq(Cell) /\ Len(NewVars(1)) = 1
    BY <2>1, NewVarsLand
  <2> QED BY <1>1, <2>1, <2>2 DEF DataStep, status, readVars
<1>7. H' = H + 1 /\ REF(H) \in Cell /\ LandsIn(prog, Heap', H', H', REF(H))
  <2>1. H' = H + 1
    BY <1>1, <1>6 DEF Push
  <2>2. H' \in Nat /\ H < H'
    BY <1>6, <2>1
  <2>3. LandsIn(prog, Heap', H', H', REF(H))
    BY <1>6, <2>2, VariablesLand
  <2> QED BY <1>6, <2>1, <2>3 DEF REF, Cell, TagREF
<1>8. Closed(prog, Heap', H', H' + Missing(m)')
  <2>1. \A k \in 1 .. Len(NewVars(1)) : /\ LandsIn(prog, Heap', H', H', NewVars(1)[k])
                                        /\ MayHold(H + k - 1, NewVars(1)[k])
    BY <1>6, <1>7, NewVarsLand
  <2>2. Closed(prog, Heap, H, H) /\ H' \in Nat /\ H <= H' /\ H' + Missing(m)' = H'
    BY <1>4, <1>5, <1>6, <1>7 DEF DataHolds
  <2>3. Closed(prog, Heap', H', H')
    BY <1>1, <1>6, <2>1, <2>2, PushCloses
  <2> QED BY <2>2, <2>3
<1>9. m.block = "unify" /\ Mode' = "READ" => S' + m.need <= H'
  <2>1. n.block = "unify" /\ Mode = "READ" => S + 0 <= H
    BY <1>4, <1>5 DEF DataHolds
  <2>2. S \in Nat /\ m.block = n.block
    BY <1>2, <1>4, <1>6 DEF TypeOK, LoopsOK, BlockAfter
  <2> QED BY <1>5, <1>6, <1>7, <2>1, <2>2
<1>10. /\ Opened(Instr) = {} /\ Given(Instr) = {Instr.Arg1, Instr.Arg2}
       /\ \A r \in Given(Instr) : IsReg(r)
  BY <1>4 DEF Opened, Given, InRange, RegArg1, RegArg2
<1>11. Given(Instr) \cup Opened(Instr) = {Instr.Arg1, Instr.Arg2}
  BY <1>10
<1>12. n.open # {} => H + n.need <= H' + m.need
  BY <1>5, <1>6, <1>7
<1> QED BY <1>0, <1>1, <1>2, <1>7, <1>8, <1>9, <1>10, <1>11, <1>12, Builds

\* PUT_STRUCTURE opens a block with its functor cell.
LEMMA PutsStructure ==
  ASSUME NEW at, Going(at), TypeOK', PutStructure PROVE Kept(at)'
<1> DEFINE op == "PUT_STRUCTURE"
<1>0. PICK n, m : n = at[P] /\ m = at[P + 1]
  OBVIOUS
<1>00. PICK f, fun : f = Instr.Arg1 /\ fun = FUN(Instr.Arg1)
  OBVIOUS
<1>1. DataStep(op) /\ Push(<<fun>>) /\ SetRegs({Instr.Arg2}, STR(H)) /\ Build
  BY <1>00 DEF PutStructure, Build
<1>2. op \in Opens /\ op \notin Sets \cup Unifies /\ op \notin Transfers
  BY DEF Opens, Sets, Unifies, Transfers
<1>3. Fetches(at, op)
  BY <1>1, <1>2, FetchedNotes DEF DataStep
<1>4. /\ Instr.Op = op /\ BlockAfter(prog, Instr, n, m) /\ DataHolds(n) /\ InRange(Instr)
      /\ IsNote(m) /\ Legal(prog, Instr) /\ Instr \in Instruction
  BY <1>0, <1>3 DEF Fetches
<1>5. n.need = 0 /\ Missing(n) = 0 /\ Missing(m)' = m.need /\ (m.block = "unify" => m.need = 0)
  BY <1>2, <1>4, MissingAfter DEF BlockAfter
<1>6. /\ TypeOK /\ H \in Nat /\ prog' = prog /\ S' = S /\ Mode' = Mode
      /\ prog.Arity \in Seq(Nat)
  BY <1>1, Ranges DEF Going, DataStep, status, readVars, TypeOK, ControlOK, IsProgram
<1>7. f \in Nat /\ f < Len(prog.Arity) /\ prog.Arity[f + 1] \in Nat /\ m.need = prog.Arity[f + 1]
  <2>1. f \in Nat /\ f < Len(prog.Arity)
    BY <1>4, <1>00 DEF Legal, Instruction, NatArg1
  <2>2. f + 1 \in 1 .. Len(prog.Arity)
    BY <1>6, <2>1
  <2> QED BY <1>2, <1>4, <1>6, <1>00, <2>1, <2>2 DEF BlockAfter, BlockSize
<1>8. /\ fun \in Cell /\ fun.tag = TagFUN /\ fun.val = f
      /\ <<fun>> \in Seq(Cell) /\ Len(<<fun>>) = 1 /\ <<fun>>[1] = fun
  <2>1. fun \in Cell /\ fun.tag = TagFUN /\ fun.val = f
    BY <1>7, <1>00 DEF FUN, Cell, TagFUN
  <2> QED BY <2>1
<1>9. H' = H + 1
  BY <1>1, <1>8 DEF Push
<1>10. Closed(prog, Heap', H', H' + Missing(m)') /\ Heap'[H] = fun
  <2>1. \A k \in 1 .. Len(<<fun>>) : /\ LandsIn(prog, Heap', H', H' + m.need, <<fun>>[k])
                                     /\ MayHold(H + k - 1, <<fun>>[k])
    BY <1>8, ConstantsLand
  <2>2. Closed(prog, Heap, H, H) /\ H' + m.need \in Nat /\ H <= H' + m.need
    <3>1. Closed(prog, Heap, H, H)
      <4>1. Closed(prog, Heap, H, H + Missing(n))
        BY <1>4 DEF DataHolds
      <4> QED BY <1>5, <1>6, <4>1
    <3>2. m.need \in Nat
      BY <1>6, <1>7
    <3> QED BY <1>6, <1>9, <3>1, <3>2
  <2>3. /\ Closed(prog, Heap', H', H' + m.need)
        /\ \A k \in 1 .. Len(<<fun>>) : Heap'[H + k - 1] = <<fun>>[k]
    BY <1>1, <1>6, <1>8, <2>1, <2>2, PushCloses
  <2>4. 1 \in 1 .. Len(<<fun>>) /\ H + 1 - 1 = H
    BY <1>6, <1>8
  <2>5. Heap'[H] = fun
    BY <1>8, <2>3, <2>4
  <2> QED BY <1>5, <2>3, <2>5
<1>11. STR(H) \in Cell /\ LandsIn(prog, Heap', H', H' + m.need, STR(H))
  BY SMTT(30), <1>6, <1>7, <1>8, <1>9, <1>10 DEF STR, Cell, TagSTR, TagREF, TagLIS, LandsIn
<1>12. m.block = "unify" /\ Mode' = "READ" => S' + m.need <= H'
  <2>1. m.block # "unify"
    BY <1>2, <1>4 DEF BlockAfter, BlockKind
  <2> QED BY <2>1
<1>13. /\ Given(Instr) = {} /\ Opened(Instr) = {Instr.Arg2}
       /\ \A r \in Opened(Instr) : IsReg(r)
  BY <1>4 DEF Opened, Given, InRange, RegArg2
<1>14. Given(Instr) \cup Opened(Instr) = {Instr.Arg2}
  BY <1>13
<1>15. n.open # {} => H + n.need <= H' + m.need
  BY <1>5, <1>6, <1>7, <1>9
<1> QED BY <1>0, <1>1, <1>2, <1>10, <1>11, <1>12, <1>13, <1>14, <1>15, Builds

\* PUT_LIST opens a block of two cells that are not there yet.
LEMMA PutsList ==
  ASSUME NEW at, Going(at), TypeOK', PutList PROVE Kept(at)'
<1> DEFINE op == "PUT_LIST"
<1>0. PICK n, m : n = at[P] /\ m = at[P + 1]
  OBVIOUS
<1>1. DataStep(op) /\ SetRegs({Instr.Arg1}, LIS(H)) /\ UNCHANGED heapVars /\ Build
  BY DEF PutList, Build
<1>2. op \in Opens /\ op \notin Sets \cup Unifies /\ op \notin Transfers
  BY DEF Opens, Sets, Unifies, Transfers
<1>3. Fetches(at, op)
  BY <1>1, <1>2, FetchedNotes DEF DataStep
<1>4. /\ Instr.Op = op /\ BlockAfter(prog, Instr, n, m) /\ DataHolds(n) /\ InRange(Instr)
      /\ IsNote(m)
  BY <1>0, <1>3 DEF Fetches
<1>5. n.need = 0 /\ Missing(n) = 0 /\ Missing(m)' = m.need /\ m.need = 2 /\ m.block = "set"
  <2>1. n.need = 0 /\ m.need = 2 /\ m.block = "set"
    BY <1>2, <1>4 DEF BlockAfter, BlockSize, BlockKind
  <2> QED BY <1>2, <1>4, <2>1, MissingAfter
<1>6. TypeOK /\ H \in Nat /\ UNCHANGED <<Heap, H, S, Mode, prog>>
  BY <1>1, Ranges DEF Going, DataStep, status, readVars, heapVars
<1>7. Closed(prog, Heap', H', H' + Missing(m)')
  <2>1. Closed(prog, Heap, H, H) /\ H + 2 \in Nat /\ H <= H + 2
    BY <1>4, <1>5, <1>6 DEF DataHolds
  <2>2. KeepsFunctors
    BY <1>6 DEF KeepsFunctors
  <2>3. Closed(prog, Heap', H', H + 2)
    BY <1>6, <2>1, <2>2, StillClosed
  <2> QED BY <1>5, <1>6, <2>3
<1>8. LIS(H) \in Cell /\ LandsIn(prog, Heap', H', H' + m.need, LIS(H))
  BY <1>5, <1>6 DEF LIS, Cell, TagSTR, TagREF, TagLIS, LandsIn
<1>9. /\ Given(Instr) = {} /\ Opened(Instr) = {Instr.Arg1}
      /\ \A r \in Opened(Instr) : IsReg(r)
  BY <1>4 DEF Opened, Given, InRange, RegArg1
<1>10. Given(Instr) \cup Opened(Instr) = {Instr.Arg1}
  BY <1>9
<1>11. n.open # {} => H + n.need <= H' + m.need
  BY <1>5, <1>6
<1> QED BY <1>0, <1>1, <1>2, <1>5, <1>7, <1>8, <1>9, <1>10, <1>11, Builds

\* A constant operand is a constant.
LEMMA OperandLands ==
  ASSUME NEW p, NEW i, i \in Instruction, Legal(p, i),
         i.Op \in {"SET_CONSTANT", "UNIFY_CONSTANT", "GET_CONSTANT", "PUT_CONSTANT"},
         NEW heap, NEW h
  PROVE  CellOf(i.Arg1) \in Cell /\ LandsIn(p, heap, h, h, CellOf(i.Arg1))
<1>1. i.Arg1 \in Int /\ CellOf(i.Arg1).tag \in {TagATM, TagINT}
  BY DEF Instruction, Legal
<1> QED BY <1>1, CellOfType, ConstantsLand

\* The instructions that build terms keep the invariant.
LEMMA BuildKept ==
  ASSUME NEW at, Going(at), TypeOK', Build PROVE Kept(at)'
<1>0. PICK c : c = CellOf(Instr.Arg1)
  OBVIOUS
<1>1. CASE PutStructure
  BY <1>1, PutsStructure
<1>2. CASE PutVariable
  BY <1>2, PutsVariable
<1>3. CASE PutList
  BY <1>3, PutsList
<1>4. CASE SetVariable
  BY <1>4, FillsVariable DEF SetVariable
<1>5. ASSUME NEW op, op \in {"SET_VALUE", "UNIFY_VALUE"}, DataStep(op),
             Mode = "WRITE" \/ op = "SET_VALUE", Push(<<GetReg(Instr.Arg1)>>), UNCHANGED regVars
      PROVE  Kept(at)'
  <2>1. Fetches(at, op)
    BY <1>5, FetchedNotes DEF DataStep, Transfers
  <2>2. Instr.Arg1 \in ReadRegs(Instr)
    BY <1>5, <2>1 DEF Fetches, ReadRegs
  <2>3. GetReg(Instr.Arg1) \in Cell /\ LandsIn(prog, Heap, H, H, GetReg(Instr.Arg1))
    BY <2>1, <2>2 DEF Fetches
  <2> QED BY <1>5, <2>3, FillsCell
<1>6. ASSUME NEW op, op \in {"SET_CONSTANT", "UNIFY_CONSTANT"}, DataStep(op),
             Mode = "WRITE" \/ op = "SET_CONSTANT", Push(<<c>>), UNCHANGED regVars
      PROVE  Kept(at)'
  <2>1. Fetches(at, op)
    BY <1>6, FetchedNotes DEF DataStep, Transfers
  <2>2. c \in Cell /\ LandsIn(prog, Heap, H, H, c)
    BY <1>0, <1>6, <2>1, OperandLands DEF Fetches
  <2> QED BY <1>6, <2>2, FillsCell
<1>7. CASE SetValue
  BY <1>5, <1>7 DEF SetValue
<1>8. CASE SetConstant
  BY <1>0, <1>6, <1>8 DEF SetConstant
<1>9. CASE SetVoid
  BY <1>9, FillsVoid DEF SetVoid
<1>10. CASE UnifyWrite
  BY <1>0, <1>5, <1>6, <1>10, FillsVariable, FillsVoid DEF UnifyWrite
<1>11. CASE PutValue
  <2> DEFINE op == "PUT_VALUE"
  <2>1. Fetches(at, op) /\ DataStep(op)
    BY <1>11, FetchedNotes DEF DataStep, PutValue, Transfers
  <2>2. Instr.Arg1 \in ReadRegs(Instr) /\ Given(Instr) = {Instr.Arg2}
    BY <2>1 DEF Fetches, ReadRegs, Given
  <2>3. GetReg(Instr.Arg1) \in Cell /\ LandsIn(prog, Heap, H, H, GetReg(Instr.Arg1))
    BY <2>1, <2>2 DEF Fetches
  <2> QED BY <1>11, <2>1, <2>2, <2>3, Loads DEF PutValue
<1>12. CASE GetVariable
  <2> DEFINE op == "GET_VARIABLE"
  <2>1. Fetches(at, op) /\ DataStep(op)
    BY <1>12, FetchedNotes DEF DataStep, GetVariable, Transfers
  <2>2. Instr.Arg2 \in ReadRegs(Instr) /\ Given(Instr) = {Instr.Arg1}
    BY <2>1 DEF Fetches, ReadRegs, Given
  <2>3. GetReg(Instr.Arg2) \in Cell /\ LandsIn(prog, Heap, H, H, GetReg(Instr.Arg2))
    BY <2>1, <2>2 DEF Fetches
  <2> QED BY <1>12, <2>1, <2>2, <2>3, Loads DEF GetVariable
<1>13. CASE PutConstant
  <2> DEFINE op == "PUT_CONSTANT"
  <2>1. Fetches(at, op) /\ DataStep(op)
    BY <1>13, FetchedNotes DEF DataStep, PutConstant, Transfers
  <2>2. Given(Instr) = {Instr.Arg2}
    BY <2>1 DEF Fetches, Given
  <2>3. c \in Cell /\ LandsIn(prog, Heap, H, H, c)
    BY <1>0, <2>1, OperandLands DEF Fetches
  <2> QED BY <1>0, <1>13, <2>1, <2>2, <2>3, Loads DEF PutConstant
<1>14. CASE SetList \/ GetLevel
  <2>1. PICK op \in {"SET_LIST", "GET_LEVEL"} : DataStep(op)
    BY <1>14 DEF SetList, GetLevel
  <2>2. Fetches(at, op)
    BY <2>1, FetchedNotes DEF DataStep, Transfers
  <2> QED BY <2>2 DEF Fetches, Legal
<1> QED BY <1>1, <1>2, <1>3, <1>4, <1>7, <1>8, <1>9, <1>10, <1>11, <1>12, <1>13, <1>14 DEF Build
=============================================================================
