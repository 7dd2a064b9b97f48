-------------------------- MODULE DisciplineFacts ---------------------------
(***************************************************************************)
(* What the notes of Discipline say of the machine's state, and how cells,  *)
(* heaps, frames and choice points that are as they say change.            *)
(***************************************************************************)
EXTENDS TrailProofs, Discipline

-----------------------------------------------------------------------------
(* The inductive invariant: what the notes say is true of the machine. *)

\* c refers to what is there, in a heap of h cells of which a block may be
\* completed up to top.
LandsIn(p, heap, h, top, c) ==
  /\ c.tag = TagREF => c.val < h
  /\ c.tag = TagSTR => /\ c.val < h
                       /\ heap[c.val].tag = TagFUN
                       /\ heap[c.val].val < Len(p.Arity)
                       /\ c.val + p.Arity[heap[c.val].val + 1] < top
  /\ c.tag = TagLIS => c.val + 1 < top

\* A cell at address a may hold c, if it is a variable bound to an older one.
MayHold(a, c) == c.tag = TagREF => c.val <= a

\* All h cells of the heap refer to what is there.
Closed(p, heap, h, top) ==
  \A a \in 0 .. h - 1 : LandsIn(p, heap, h, top, heap[a]) /\ MayHold(a, heap[a])

\* The frames from e on, following CE.
Live(frames, e) ==
  { f \in 0 .. e :
      \A fs \in SUBSET (-1 .. e) :
        e \in fs /\ (\A g \in fs \ {-1} : frames[g + 1].CE \in fs) => f \in fs }

\* The query's frame, or -1 if it has no variables.
QueryFrame(p, at) == IF at[Len(p.Code)].env THEN 0 ELSE -1

\* Where control will return to, as pairs of a frame and an address, when it
\* next returns to c with frame e; the frame q belongs to the query.
Waits(q, frames, e, c) ==
  {<<e, c>>} \cup {<<frames[g + 1].CE, frames[g + 1].CP>> : g \in Live(frames, e) \ {q}}

\* The slots that hold a term when control returns hold one now.
SlotsHold(p, at, frames, W, heap, h) ==
  \A w \in W : \A s \in at[w[2]].slots :
    /\ s \in 1 .. Len(frames[w[1] + 1].Y)
    /\ s \in at[w[2]].dy => LandsIn(p, heap, h, h, frames[w[1] + 1].Y[s])

\* Control returns to code that expects no register and no open block, in a
\* frame of its own, or to the query.
Returns(p, at, W) ==
  \A w \in W :
    /\ w[2] \in DOMAIN at
    /\ at[w[2]].need = 0 /\ at[w[2]].dx = {} /\ ~IsRetry(p, w[2])
    /\ IF at[w[2]].top
       THEN w[1] = QueryFrame(p, at) /\ at[w[2]].env = at[Len(p.Code)].env
       ELSE w[1] > QueryFrame(p, at) /\ at[w[2]].env

\* Where V returns to a frame, all that W wants of the frame is kept.
Agree(at, W, V) ==
  \A w \in W, v \in V : w[1] = v[1] => at[w[2]].dy \subseteq at[v[2]].dy

\* Where control will return to from code whose note is n, and, with the frame
\* of that code itself, which slots it goes by.
Awaited(q, n, frames, e, c) ==
  IF n.top THEN {}
  ELSE IF n.env THEN Waits(q, frames, frames[e + 1].CE, frames[e + 1].CP)
  ELSE Waits(q, frames, e, c)
Active(q, n, pc, frames, e, c) ==
  (IF n.env THEN {<<e, pc>>} ELSE {}) \cup Awaited(q, n, frames, e, c)

\* The instruction being executed, and what it has found.
Here == IF chase = <<>> THEN P ELSE P - 1
\* How many cells the heap still lacks of the open block.
Missing(n) ==
  IF n.block = "set" \/ (n.block = "unify" /\ Mode = "WRITE") THEN n.need ELSE 0

\* The clause's own frame is newer than the query's, which is the oldest.
FrameHolds(at, n) ==
  /\ n.env => E >= 0
  /\ n.top => E = IF n.env THEN 0 ELSE -1
  /\ n.top /\ ~n.env /\ at[Len(prog.Code)].env => envFrames = <<>>
  /\ ~n.top /\ n.env => E > QueryFrame(prog, at)

\* The heap, the registers and the slots are as note n says.
DataHolds(n) ==
  /\ Closed(prog, Heap, H, H + Missing(n))
  /\ \A r \in n.dx : r \in XRegs /\ LandsIn(prog, Heap, H, H, X[r])
  /\ \A r \in n.open : r \in XRegs /\ LandsIn(prog, Heap, H, H + n.need, X[r])
  /\ \A s \in n.slots : /\ s \in 1 .. Len(envFrames[E + 1].Y)
                        /\ s \in n.dy => LandsIn(prog, Heap, H, H, envFrames[E + 1].Y[s])
  /\ n.block = "unify" /\ Mode = "READ" => S + n.need <= H

\* What an instruction dereferences or unifies is in the heap.
LoopsHold(n) ==
  /\ chase # <<>> => /\ Missing(n) = 0 /\ LandsIn(prog, Heap, H, H, chase[1])
                     /\ \A r \in Given(Pending) : IsReg(r)
  /\ Len(pdl) >= 2 => /\ Missing(n) = 0
                      /\ \A k \in 1 .. Len(pdl) : LandsIn(prog, Heap, H, H, pdl[k])

\* What control will return to, with which slots.
Awaits(at) == Awaited(QueryFrame(prog, at), at[Here], envFrames, E, CP)
Goes(at) == Active(QueryFrame(prog, at), at[Here], Here, envFrames, E, CP)

\* The note of the instruction being executed is true, and control can return.
Current(at) ==
  /\ Here \in DOMAIN at
  /\ FrameHolds(at, at[Here])
  /\ DataHolds(at[Here])
  /\ LoopsHold(at[Here])
  /\ Returns(prog, at, Awaits(at))
  /\ SlotsHold(prog, at, envFrames, Awaits(at), Heap, H)
  /\ Agree(at, Goes(at), Goes(at))
  /\ IsRetry(prog, P) => B >= 0 /\ choicePoints[B + 1].NextClause = P

\* A choice point can be gone back to.
SavedWaits(at, k) ==
  Waits(QueryFrame(prog, at), envFrames, choicePoints[k].CE, choicePoints[k].CP)
SavedHolds(at, k) ==
  LET cp == choicePoints[k] IN
  /\ Closed(prog, Undone(cp), cp.H, cp.H)
  /\ \A j \in 1 .. cp.N : LandsIn(prog, Undone(cp), cp.H, cp.H, cp.Args[j])
  /\ Begins(at, cp.NextClause, 0 .. cp.N - 1)
  /\ Returns(prog, at, SavedWaits(at, k))
  /\ SlotsHold(prog, at, envFrames, SavedWaits(at, k), Undone(cp), cp.H)

\* Every choice point can, and the newer ones do not need a slot to be written
\* again that an older one goes by.
ChoicesHold(at) ==
  /\ \A k \in 1 .. B + 1 : SavedHolds(at, k)
  /\ \A k \in 1 .. B + 1 : \A j \in k .. B + 1 :
       Agree(at, SavedWaits(at, k), SavedWaits(at, j))

\* Going on disturbs no choice point.
Spares(at) == \A k \in 1 .. B + 1 : Agree(at, SavedWaits(at, k), Goes(at))

\* Choice points can be gone back to, and a machine that goes on is as the notes
\* say; one that has failed has left its loops.
Kept(at) ==
  /\ ChoicesHold(at)
  /\ ~Fail /\ ~panic => Current(at) /\ Spares(at)
  /\ Fail => chase = <<>> /\ Len(pdl) < 2

-----------------------------------------------------------------------------
(* Cells and heaps. *)

\* Growing a heap, completing a block and binding variables leave a functor
\* cell alone, so what refers to the heap still does.
LEMMA LandsLonger ==
  ASSUME NEW p, p.Arity \in Seq(Nat), NEW heap, NEW heap2,
         NEW h \in Nat, NEW h2 \in Nat, NEW top \in Nat, NEW top2 \in Nat, h <= h2, top <= top2,
         \A a \in 0 .. h - 1 : heap[a] \in Cell,
         \A a \in 0 .. h - 1 : heap[a].tag = TagFUN => heap2[a] = heap[a],
         NEW c \in Cell, LandsIn(p, heap, h, top, c)
  PROVE  LandsIn(p, heap2, h2, top2, c)
<1>0. c.val \in Nat
  BY DEF Cell
<1>1. c.tag = TagREF => c.val < h2
  BY <1>0 DEF LandsIn
<1>2. c.tag = TagLIS => c.val + 1 < top2
  BY <1>0 DEF LandsIn
<1>3. ASSUME c.tag = TagSTR
      PROVE  /\ c.val < h2
             /\ heap2[c.val].tag = TagFUN
             /\ heap2[c.val].val < Len(p.Arity)
             /\ c.val + p.Arity[heap2[c.val].val + 1] < top2
  <2>1. c.val \in 0 .. h - 1 /\ heap[c.val].tag = TagFUN /\ heap[c.val] \in Cell
    BY <1>0, <1>3 DEF LandsIn
  <2>2. heap2[c.val] = heap[c.val]
    BY <2>1
  <2>3. heap[c.val].val \in Nat /\ heap[c.val].val < Len(p.Arity)
    BY <1>3, <2>1 DEF LandsIn, Cell
  <2>4. heap[c.val].val + 1 \in 1 .. Len(p.Arity)
    BY <2>3
  <2>5. p.Arity[heap[c.val].val + 1] \in Nat
    BY <2>4
  <2>6. c.val + p.Arity[heap[c.val].val + 1] < top
    BY <1>3 DEF LandsIn
  <2>7. PICK a \in Nat : a = p.Arity[heap[c.val].val + 1]
    BY <2>5
  <2>8. c.val \in Nat /\ c.val < h2
    BY <1>0, <2>1
  <2>9. c.val + a < top2
    <3>1. PICK v \in Nat : v = c.val
      BY <2>8
    <3>2. v + a < top
      BY <2>6, <2>7, <3>1
    <3> QED BY <3>1, <3>2
  <2> QED BY <2>1, <2>2, <2>3, <2>7, <2>8, <2>9
<1> QED BY <1>1, <1>2, <1>3 DEF LandsIn

\* Constants refer to nothing.
LEMMA ConstantsLand ==
  ASSUME NEW p, NEW heap, NEW h, NEW top, NEW c, c.tag \in {TagATM, TagINT, TagFUN}
  PROVE  LandsIn(p, heap, h, top, c) /\ \A a : MayHold(a, c)
  BY DEF LandsIn, MayHold, TagREF, TagSTR, TagLIS, TagATM, TagINT, TagFUN

\* A variable refers to a cell below the top.
LEMMA VariablesLand ==
  ASSUME NEW p, NEW heap, NEW h \in Nat, NEW top, NEW n \in Nat, n < h
  PROVE  LandsIn(p, heap, h, top, REF(n)) /\ \A a \in Nat : n <= a => MayHold(a, REF(n))
  BY DEF LandsIn, MayHold, REF, TagREF, TagSTR, TagLIS

\* What landing means for the machine's own Lands.
LEMMA LandsHere ==
  ASSUME NEW c, LandsIn(prog, Heap, H, H, c) PROVE Lands(c)
  BY DEF Lands, LandsIn

\* The heap part of a step that grows the heap or binds a variable.
KeepsFunctors ==
  /\ H' \in Nat /\ H' >= H
  /\ \A a \in 0 .. H - 1 : Heap'[a] = Heap[a] \/ Heap[a].tag = TagREF

\* Every step that works on the heap is one.
LEMMA WorkKeepsFunctors == ASSUME TypeOK, WorkStep PROVE KeepsFunctors
<1>1. CASE Grows
  BY <1>1 DEF Grows, KeepsFunctors
<1>2. CASE \E addr \in Nat : Binds(addr)
  <2> PICK addr \in Nat : Binds(addr)
    BY <1>2
  <2>1. H' \in Nat /\ H' >= H
    BY DEF Binds
  <2>2. ASSUME NEW a \in 0 .. H - 1 PROVE Heap'[a] = Heap[a] \/ Heap[a].tag = TagREF
    <3>1. CASE a = addr
      <4>1. Heap[a] = REF(a)
        BY <3>1, Ranges DEF Binds
      <4> QED BY <4>1 DEF REF
    <3>2. CASE a # addr
      BY <3>2 DEF Binds
    <3> QED BY <3>1, <3>2
  <2> QED BY <2>1, <2>2 DEF KeepsFunctors
<1> QED BY <1>1, <1>2 DEF WorkStep

\* After such a step, what landed lands.
LEMMA StillLands ==
  ASSUME TypeOK, KeepsFunctors, NEW c \in Cell, NEW top \in Nat, NEW top2 \in Nat, top <= top2,
         LandsIn(prog, Heap, H, top, c)
  PROVE  LandsIn(prog, Heap', H', top2, c)
<1>1. prog.Arity \in Seq(Nat) /\ H \in Nat /\ \A a \in 0 .. H - 1 : Heap[a] \in Cell
  BY Ranges DEF TypeOK, ControlOK, IsProgram, Addr
<1>2. \A a \in 0 .. H - 1 : Heap[a].tag = TagFUN => Heap'[a] = Heap[a]
  BY DEF KeepsFunctors, TagREF, TagFUN
<1>3. H' \in Nat /\ H <= H'
  BY <1>1 DEF KeepsFunctors
<1> HIDE DEF KeepsFunctors
<1> QED BY <1>1, <1>2, <1>3, LandsLonger

\* And the heap is closed if the cells that are new or bound land.
LEMMA StillClosed ==
  ASSUME TypeOK, KeepsFunctors, NEW top \in Nat, NEW top2 \in Nat, top <= top2,
         Closed(prog, Heap, H, top),
         \A a \in 0 .. H' - 1 :
           \/ a < H /\ Heap'[a] = Heap[a]
           \/ LandsIn(prog, Heap', H', top2, Heap'[a]) /\ MayHold(a, Heap'[a])
  PROVE  Closed(prog, Heap', H', top2)
<1> SUFFICES ASSUME NEW a \in 0 .. H' - 1, a < H, Heap'[a] = Heap[a]
             PROVE  LandsIn(prog, Heap', H', top2, Heap'[a]) /\ MayHold(a, Heap'[a])
  BY DEF Closed
<1>1. a \in 0 .. H - 1 /\ Heap[a] \in Cell
  BY Ranges DEF Addr, KeepsFunctors
<1>2. LandsIn(prog, Heap, H, top, Heap[a]) /\ MayHold(a, Heap[a])
  BY <1>1 DEF Closed
<1> QED BY <1>1, <1>2, StillLands

-----------------------------------------------------------------------------
(* Frames. *)

\* The continuation frames of a stack refer to older ones.
IsStack(frames, n) == \A k \in 1 .. n : frames[k].CE \in -1 .. k - 2

\* No frame is live when there is none.
LEMMA NoneLive == ASSUME NEW frames PROVE Live(frames, -1) = {}
  BY DEF Live

\* The live frames are the newest, and those from its continuation frame on.
LEMMA LiveUnfolds ==
  ASSUME NEW frames, NEW e \in Nat, IsStack(frames, e + 1)
  PROVE  Live(frames, e) = {e} \cup Live(frames, frames[e + 1].CE)
<1>0. PICK d : d = frames[e + 1].CE
  OBVIOUS
<1>1. d \in -1 .. e - 1
  BY <1>0 DEF IsStack
<1>2. \A g \in 0 .. e : frames[g + 1].CE \in -1 .. g - 1
  <2> SUFFICES ASSUME NEW g \in 0 .. e PROVE frames[g + 1].CE \in -1 .. g - 1
    OBVIOUS
  <2>1. g + 1 \in 1 .. e + 1 /\ g + 1 - 2 = g - 1
    OBVIOUS
  <2> QED BY <2>1 DEF IsStack
<1>3. ASSUME NEW f \in Live(frames, e), f # e PROVE f \in Live(frames, d)
  <2>1. ASSUME NEW fs \in SUBSET (-1 .. d), d \in fs,
               \A g \in fs \ {-1} : frames[g + 1].CE \in fs
        PROVE  f \in fs
    <3>1. fs \cup {e} \in SUBSET (-1 .. e)
      BY <1>1
    <3>2. \A g \in (fs \cup {e}) \ {-1} : frames[g + 1].CE \in fs \cup {e}
      BY <1>0, <2>1
    <3>3. f \in fs \cup {e}
      BY <3>1, <3>2 DEF Live
    <3> QED BY <1>3, <3>3
  <2>2. f \in -1 .. d
    <3>1. d \in -1 .. d
      BY <1>1
    <3>2. ASSUME NEW g \in (-1 .. d) \ {-1} PROVE frames[g + 1].CE \in -1 .. d
      <4>1. g \in 0 .. e /\ g <= d /\ d \in Int
        BY <1>1
      <4>2. frames[g + 1].CE \in -1 .. g - 1
        BY <1>2, <4>1
      <4> QED BY <4>1, <4>2
    <3>3. -1 .. d \in SUBSET (-1 .. d)
      OBVIOUS
    <3> QED BY <2>1, <3>1, <3>2, <3>3
  <2>3. f \in 0 .. d
    BY <1>1, <2>2 DEF Live
  <2> QED BY <2>1, <2>3 DEF Live
<1>4. e \in Live(frames, e)
  BY DEF Live
<1>5. ASSUME NEW f \in Live(frames, d) PROVE f \in Live(frames, e)
  <2>1. ASSUME NEW fs \in SUBSET (-1 .. e), e \in fs,
               \A g \in fs \ {-1} : frames[g + 1].CE \in fs
        PROVE  f \in fs
    <3>1. d \in fs
      BY <1>0, <2>1
    <3>2. fs \cap (-1 .. d) \in SUBSET (-1 .. d) /\ d \in fs \cap (-1 .. d)
      BY <1>1, <3>1
    <3>3. ASSUME NEW g \in (fs \cap (-1 .. d)) \ {-1}
          PROVE  frames[g + 1].CE \in fs \cap (-1 .. d)
      <4>1. g \in 0 .. e /\ g <= d /\ d \in Int
        BY <1>1
      <4>2. frames[g + 1].CE \in -1 .. g - 1
        BY <1>2, <4>1
      <4>3. frames[g + 1].CE \in fs
        BY <2>1
      <4> QED BY <4>1, <4>2, <4>3
    <3> QED BY <3>2, <3>3 DEF Live
  <2>2. f \in 0 .. e
    BY <1>1 DEF Live
  <2> QED BY <2>1, <2>2 DEF Live
<1> QED BY <1>0, <1>3, <1>4, <1>5

\* The live frames go by the continuation frames only.
LEMMA LiveSame ==
  ASSUME NEW e \in Int, NEW frames, NEW frames2,
         \A k \in 1 .. e + 1 : frames2[k].CE = frames[k].CE
  PROVE  Live(frames2, e) = Live(frames, e)
<1>1. ASSUME NEW fs \in SUBSET (-1 .. e), NEW g \in fs \ {-1}
      PROVE  frames2[g + 1].CE = frames[g + 1].CE
  <2>1. g \in -1 .. e /\ g # -1
    OBVIOUS
  <2>2. g + 1 \in 1 .. e + 1
    BY <2>1
  <2> QED BY <2>2
<1> QED BY <1>1 DEF Live

\* With the query's frame, or without any, the wait is for one return only.
LEMMA WaitsForOne ==
  ASSUME NEW q \in {-1, 0}, NEW frames, NEW c, q = 0 => IsStack(frames, 1)
  PROVE  Waits(q, frames, q, c) = {<<q, c>>}
<1>1. CASE q = -1
  BY <1>1, NoneLive DEF Waits
<1>2. CASE q = 0
  <2>1. Live(frames, 0) \subseteq {0}
    BY DEF Live
  <2> QED BY <1>2, <2>1 DEF Waits
<1> QED BY <1>1, <1>2

\* Otherwise for that of the frame's own caller, too.
LEMMA WaitsUnfold ==
  ASSUME NEW q \in {-1, 0}, NEW frames, NEW e \in Nat, NEW c, e # q, IsStack(frames, e + 1)
  PROVE  Waits(q, frames, e, c) =
           {<<e, c>>} \cup Waits(q, frames, frames[e + 1].CE, frames[e + 1].CP)
<1>1. Live(frames, e) \ {q} = {e} \cup (Live(frames, frames[e + 1].CE) \ {q})
  BY LiveUnfolds
<1> QED BY <1>1 DEF Waits

\* All the frames waited for but the first are older, if they exist.
LEMMA WaitsOlder ==
  ASSUME NEW q, NEW frames, NEW e \in Int, e >= -1, NEW c, IsStack(frames, e + 1),
         NEW w \in Waits(q, frames, e, c), w # <<e, c>>
  PROVE  w[1] \in -1 .. e - 1
<1>1. PICK g \in Live(frames, e) : w = <<frames[g + 1].CE, frames[g + 1].CP>>
  BY DEF Waits
<1>2. g \in 0 .. e /\ g + 1 \in 1 .. e + 1
  BY DEF Live
<1>3. frames[g + 1].CE \in -1 .. g + 1 - 2
  BY <1>2 DEF IsStack
<1> QED BY <1>1, <1>2, <1>3

\* What is waited for goes by the continuations in the frames only.
LEMMA WaitsSame ==
  ASSUME NEW q, NEW e \in Int, NEW c, NEW frames, NEW frames2,
         \A k \in 1 .. e + 1 : frames2[k].CE = frames[k].CE /\ frames2[k].CP = frames[k].CP
  PROVE  Waits(q, frames2, e, c) = Waits(q, frames, e, c)
<1>1. Live(frames2, e) = Live(frames, e)
  BY LiveSame
<1>2. \A g \in Live(frames, e) :
        /\ frames2[g + 1].CE = frames[g + 1].CE
        /\ frames2[g + 1].CP = frames[g + 1].CP
  <2> SUFFICES ASSUME NEW g \in Live(frames, e) PROVE g + 1 \in 1 .. e + 1
    OBVIOUS
  <2> QED BY DEF Live
<1> QED BY <1>1, <1>2 DEF Waits

\* The machine's frames are a stack, and the saved environments are in it.
LEMMA Stacked ==
  ASSUME TypeOK
  PROVE  /\ Len(envFrames) \in Nat /\ IsStack(envFrames, Len(envFrames))
         /\ E \in -1 .. Len(envFrames) - 1 /\ E \in Int
         /\ \A k \in 1 .. Len(envFrames) : /\ envFrames[k].CE \in -1 .. k - 2
                                           /\ envFrames[k].CE \in Int
                                           /\ envFrames[k].CP \in Nat
                                           /\ envFrames[k].Y \in Seq(Cell)
         /\ \A k \in 1 .. Len(choicePoints) : /\ choicePoints[k].CE \in -1 .. Len(envFrames) - 1
                                              /\ choicePoints[k].CE \in Int
<1>1. /\ envFrames \in Seq(Frame) /\ E \in -1 .. Len(envFrames) - 1
      /\ \A k \in 1 .. Len(envFrames) : envFrames[k].CE \in -1 .. k - 2
      /\ \A k \in 1 .. Len(choicePoints) : choicePoints[k].CE \in -1 .. Len(envFrames) - 1
  BY DEF TypeOK, FramesOK, ChoicesOK
<1>2. Len(envFrames) \in Nat
  BY <1>1
<1>3. \A k \in 1 .. Len(envFrames) : envFrames[k] \in Frame
  BY <1>1
<1>4. \A k \in 1 .. Len(envFrames) :
        envFrames[k].CE \in Int /\ envFrames[k].CP \in Nat /\ envFrames[k].Y \in Seq(Cell)
  BY <1>3 DEF Frame
<1> QED BY <1>1, <1>2, <1>4 DEF IsStack

\* A shorter stack is one.
LEMMA Shorter ==
  ASSUME NEW frames, NEW n \in Nat, NEW m \in Int, m <= n, IsStack(frames, n)
  PROVE  IsStack(frames, m)
  BY DEF IsStack

-----------------------------------------------------------------------------
(* Registers. *)

\* Code with note n may write the X registers, and the slots of its own frame
\* that hold no term yet.
Writes(n) ==
  /\ Len(envFrames') = Len(envFrames)
  /\ \A k \in 1 .. Len(envFrames) :
       /\ envFrames'[k].CE = envFrames[k].CE
       /\ envFrames'[k].CP = envFrames[k].CP
       /\ Len(envFrames'[k].Y) = Len(envFrames[k].Y)
       /\ \A s \in 1 .. Len(envFrames[k].Y) :
            \/ envFrames'[k].Y[s] = envFrames[k].Y[s]
            \/ k = E + 1 /\ n.env /\ s \notin n.dy

\* Leaving the registers alone is to write none.
LEMMA NoneWritten ==
  ASSUME TypeOK, UNCHANGED regVars, NEW c PROVE SetRegs({}, c)
  BY DEF TypeOK, FramesOK, SetRegs, regVars

\* What setReg writes, and what it leaves.
RegsWritten(rs, c) ==
  /\ \A r \in XRegs : X'[r] = IF r \in rs THEN c ELSE X[r]
  /\ Len(envFrames') = Len(envFrames)
  /\ \A k \in 1 .. Len(envFrames) :
       /\ envFrames'[k].CE = envFrames[k].CE
       /\ envFrames'[k].CP = envFrames[k].CP
       /\ Len(envFrames'[k].Y) = Len(envFrames[k].Y)
       /\ \A s \in 1 .. Len(envFrames[k].Y) :
            envFrames'[k].Y[s] =
              IF k = E + 1 /\ -s \in rs THEN c ELSE envFrames[k].Y[s]

\* It does.
LEMMA Written ==
  ASSUME TypeOK, NEW rs \in SUBSET Int, NEW c \in Cell, SetRegs(rs, c),
         \A r \in rs : IsReg(r)
  PROVE  RegsWritten(rs, c)
<1>1. \A r \in XRegs : X'[r] = IF r \in rs THEN c ELSE X[r]
  BY DEF SetRegs
<1>2. CASE \A r \in rs : r >= 0
  <2>1. envFrames' = envFrames
    BY <1>2 DEF SetRegs
  <2>2. ASSUME NEW k \in 1 .. Len(envFrames), NEW s \in 1 .. Len(envFrames[k].Y)
        PROVE  -s \notin rs
    BY <1>2, Stacked
  <2> QED BY <1>1, <2>1, <2>2 DEF RegsWritten
<1>3. CASE ~ \A r \in rs : r >= 0
  <2> DEFINE Y == envFrames[E + 1].Y
             newY == [k \in 1 .. Len(Y) |-> IF -k \in rs THEN c ELSE Y[k]]
  <2>1. envFrames' = [envFrames EXCEPT ![E + 1].Y = newY]
    BY <1>3 DEF SetRegs
  <2>2. E >= 0 /\ E + 1 \in 1 .. Len(envFrames)
    BY <1>3, Stacked DEF IsReg, XRegs
  <2>3. Len(Y) \in Nat /\ Len(newY) = Len(Y)
    BY <2>2, Stacked
  <2>4. envFrames \in Seq(Frame)
    BY DEF TypeOK, FramesOK
  <2>5. ASSUME NEW k \in 1 .. Len(envFrames)
        PROVE  /\ envFrames'[k].CE = envFrames[k].CE
               /\ envFrames'[k].CP = envFrames[k].CP
               /\ Len(envFrames'[k].Y) = Len(envFrames[k].Y)
               /\ \A s \in 1 .. Len(envFrames[k].Y) :
                    envFrames'[k].Y[s] =
                      IF k = E + 1 /\ -s \in rs THEN c ELSE envFrames[k].Y[s]
    <3>0. envFrames[k] \in Frame
      BY <2>4
    <3>1. CASE k = E + 1
      <4>1. envFrames'[k] = [envFrames[k] EXCEPT !.Y = newY]
        BY <2>1, <2>4, <3>1
      <4>2. /\ envFrames'[k].CE = envFrames[k].CE
            /\ envFrames'[k].CP = envFrames[k].CP
            /\ envFrames'[k].Y = newY
        BY <3>0, <4>1 DEF Frame
      <4> QED BY <2>3, <3>1, <4>2
    <3>2. CASE k # E + 1
      <4>1. envFrames'[k] = envFrames[k]
        BY <2>1, <2>4, <3>2
      <4> QED BY <3>2, <4>1
    <3> QED BY <3>1, <3>2
  <2>6. Len(envFrames') = Len(envFrames)
    BY <2>1, <2>4
  <2> QED BY <1>1, <2>5, <2>6 DEF RegsWritten
<1> QED BY <1>2, <1>3

\* Registers that may be written are written, and nothing else.
LEMMA WritesRegs ==
  ASSUME TypeOK, NEW rs \in SUBSET Int, NEW c \in Cell, SetRegs(rs, c), NEW n,
         \A r \in rs : IsReg(r) /\ (r < 0 => n.env /\ -r \notin n.dy)
  PROVE  Writes(n)
<1>1. ASSUME NEW k \in 1 .. Len(envFrames), NEW s \in 1 .. Len(envFrames[k].Y), -s \in rs
      PROVE  n.env /\ s \notin n.dy
  <2>1. s \in Nat \ {0} /\ -s < 0 /\ -(-s) = s
    BY Stacked
  <2> QED BY <1>1, <2>1
<1> QED BY <1>1, Written DEF Writes, RegsWritten

\* The data part of the invariant after an instruction that has written c to
\* the registers rs.
LEMMA DataAfter ==
  ASSUME TypeOK, KeepsFunctors, prog' = prog, E' = E,
         NEW n, NEW m, IsNote(n), IsNote(m), DataHolds(n), n.env => E >= 0,
         m.env => n.env, m.slots \subseteq n.slots,
         NEW rs \in SUBSET Int, NEW c \in Cell, SetRegs(rs, c),
         \A r \in rs : IsReg(r) /\ (r < 0 => -r \notin n.dy),
         \A r \in m.dx : \/ r \in rs /\ LandsIn(prog, Heap', H', H', c)
                         \/ r \notin rs /\ r \in n.dx
                         \/ r \notin rs /\ r \in n.open /\ H + n.need <= H',
         \A r \in m.open : \/ r \in rs /\ LandsIn(prog, Heap', H', H' + m.need, c)
                           \/ r \notin rs /\ r \in n.open /\ H + n.need <= H' + m.need,
         \A s \in m.dy : \/ -s \in rs /\ LandsIn(prog, Heap', H', H', c)
                         \/ s \in n.dy,
         Closed(prog, Heap', H', H' + Missing(m)'),
         m.block = "unify" /\ Mode' = "READ" => S' + m.need <= H'
  PROVE  DataHolds(m)'
<1> USE DEF IsNote
<1>0. /\ H \in Nat /\ H' \in Nat /\ H <= H' /\ n.need \in Nat /\ m.need \in Nat
      /\ H + n.need \in Nat /\ H' + m.need \in Nat
  <2>1. H \in Nat /\ H' \in Nat /\ H <= H'
    BY Ranges DEF KeepsFunctors
  <2>2. n.need \in Nat /\ m.need \in Nat
    OBVIOUS
  <2> QED BY <2>1, <2>2
<1>w. RegsWritten(rs, c)
  BY Written
<1>1. ASSUME NEW r \in m.dx
      PROVE  r \in XRegs /\ LandsIn(prog, Heap', H', H', X'[r])
  <2>1. CASE r \in rs /\ LandsIn(prog, Heap', H', H', c)
    <3>1. r \in XRegs
      BY <2>1 DEF IsReg
    <3> QED BY <2>1, <3>1, <1>w DEF RegsWritten
  <2>2. CASE r \notin rs /\ r \in n.dx
    <3>1. r \in XRegs /\ LandsIn(prog, Heap, H, H, X[r]) /\ X[r] \in Cell
      BY <2>2 DEF DataHolds, TypeOK, FramesOK
    <3>2. X'[r] = X[r]
      BY <2>2, <3>1, <1>w DEF RegsWritten
    <3> QED BY <1>0, <3>1, <3>2, StillLands
  <2>3. CASE r \notin rs /\ r \in n.open /\ H + n.need <= H'
    <3>1. r \in XRegs /\ LandsIn(prog, Heap, H, H + n.need, X[r]) /\ X[r] \in Cell
      BY <2>3 DEF DataHolds, TypeOK, FramesOK
    <3>2. X'[r] = X[r]
      BY <2>3, <3>1, <1>w DEF RegsWritten
    <3> QED BY <1>0, <2>3, <3>1, <3>2, StillLands
  <2> QED BY <2>1, <2>2, <2>3
<1>2. ASSUME NEW r \in m.open
      PROVE  r \in XRegs /\ LandsIn(prog, Heap', H', H' + m.need, X'[r])
  <2>1. CASE r \in rs /\ LandsIn(prog, Heap', H', H' + m.need, c)
    <3>1. r \in XRegs
      BY <2>1 DEF IsReg
    <3> QED BY <2>1, <3>1, <1>w DEF RegsWritten
  <2>2. CASE r \notin rs /\ r \in n.open /\ H + n.need <= H' + m.need
    <3>1. r \in XRegs /\ LandsIn(prog, Heap, H, H + n.need, X[r]) /\ X[r] \in Cell
      BY <2>2 DEF DataHolds, TypeOK, FramesOK
    <3>2. X'[r] = X[r]
      BY <2>2, <3>1, <1>w DEF RegsWritten
    <3> QED BY <1>0, <2>2, <3>1, <3>2, StillLands
  <2> QED BY <2>1, <2>2
<1>3. ASSUME NEW s \in m.slots
      PROVE  /\ s \in 1 .. Len(envFrames'[E + 1].Y)
             /\ s \in m.dy => LandsIn(prog, Heap', H', H', envFrames'[E + 1].Y[s])
  <2>1. E >= 0 /\ E + 1 \in 1 .. Len(envFrames) /\ s \in Nat \ {0}
    BY Stacked
  <2>2. /\ Len(envFrames'[E + 1].Y) = Len(envFrames[E + 1].Y)
        /\ envFrames[E + 1].Y \in Seq(Cell)
        /\ \A t \in 1 .. Len(envFrames[E + 1].Y) :
             envFrames'[E + 1].Y[t] = IF -t \in rs THEN c ELSE envFrames[E + 1].Y[t]
    BY <2>1, <1>w, Stacked DEF RegsWritten
  <2>s. s \in 1 .. Len(envFrames[E + 1].Y)
    BY DEF DataHolds
  <2>3. CASE -s \in rs /\ LandsIn(prog, Heap', H', H', c)
    BY <2>2, <2>3, <2>s
  <2>4. CASE s \in n.dy
    <3>1. /\ s \in 1 .. Len(envFrames[E + 1].Y)
          /\ LandsIn(prog, Heap, H, H, envFrames[E + 1].Y[s])
          /\ envFrames[E + 1].Y[s] \in Cell
      BY <2>2, <2>4 DEF DataHolds
    <3>2. -s \notin rs
      <4>1. -s < 0 /\ -(-s) = s
        BY <2>1
      <4> QED BY <2>4, <4>1
    <3> QED BY <1>0, <2>2, <3>1, <3>2, StillLands
  <2> QED BY <2>2, <2>3, <2>4, <2>s
<1> HIDE DEF IsNote
<1> QED BY <1>1, <1>2, <1>3 DEF DataHolds

-----------------------------------------------------------------------------
(* Choice points, and the frames they keep. *)

\* The frames that are there stay, but for their slots.
FramesStay ==
  /\ Len(envFrames') >= Len(envFrames)
  /\ \A k \in 1 .. Len(envFrames) : /\ envFrames'[k].CE = envFrames[k].CE
                                    /\ envFrames'[k].CP = envFrames[k].CP

\* And those of the slots that are waited for.
SlotsStay(at, W) ==
  \A w \in W : \A s \in at[w[2]].slots :
    /\ Len(envFrames'[w[1] + 1].Y) = Len(envFrames[w[1] + 1].Y)
    /\ s \in at[w[2]].dy => envFrames'[w[1] + 1].Y[s] = envFrames[w[1] + 1].Y[s]

\* The query's frame is the first one or none.
LEMMA QueryFrameIs ==
  ASSUME NEW p, NEW at PROVE QueryFrame(p, at) \in {-1, 0} /\ QueryFrame(p, at) \in Int
  BY DEF QueryFrame

\* What certified notes look like.
LEMMA NotesFacts ==
  ASSUME NEW p, NEW at, Certified(p, at), NEW pc \in DOMAIN at
  PROVE  IsNote(at[pc]) /\ pc \in 0 .. Len(p.Code)
  BY DEF Certified

\* A slot that is waited for is in a frame that is there.
LEMMA WaitedFrame ==
  ASSUME TypeOK, NEW at, Certified(prog, at), NEW e \in -1 .. Len(envFrames) - 1, NEW c,
         NEW q, Returns(prog, at, Waits(q, envFrames, e, c)),
         NEW w \in Waits(q, envFrames, e, c), at[w[2]].slots # {}
  PROVE  w[1] \in 0 .. e /\ w[1] + 1 \in 1 .. Len(envFrames)
<1>1. Len(envFrames) \in Nat /\ IsStack(envFrames, Len(envFrames))
  BY Stacked
<1>2. e \in Int /\ e >= -1 /\ e + 1 <= Len(envFrames)
  BY <1>1
<1>3. IsStack(envFrames, e + 1)
  BY <1>1, <1>2, Shorter
<1>4. w[1] \in -1 .. e
  BY <1>2, <1>3, WaitsOlder
<1>5. at[w[2]].env
  BY NotesFacts DEF Returns, IsNote
<1>6. w[1] >= 0
  <2>1. w[1] >= QueryFrame(prog, at) /\ (at[w[2]].top => at[Len(prog.Code)].env)
        /\ (~at[w[2]].top => w[1] > QueryFrame(prog, at))
    BY <1>4, <1>5, QueryFrameIs DEF Returns
  <2> QED BY <1>4, <2>1 DEF QueryFrame
<1> QED BY <1>1, <1>2, <1>4, <1>6

\* A choice point waits for what it waited for.
LEMMA SavedWaitsStay ==
  ASSUME TypeOK, NEW at, prog' = prog, FramesStay, NEW k \in 1 .. Len(choicePoints),
         choicePoints'[k].CE = choicePoints[k].CE, choicePoints'[k].CP = choicePoints[k].CP
  PROVE  SavedWaits(at, k)' = SavedWaits(at, k)
<1>1. PICK e, c : e = choicePoints[k].CE /\ c = choicePoints[k].CP
  OBVIOUS
<1>2. e \in Int /\ e \in -1 .. Len(envFrames) - 1 /\ Len(envFrames) \in Nat
  BY <1>1, Stacked
<1>3. \A j \in 1 .. e + 1 : /\ envFrames'[j].CE = envFrames[j].CE
                            /\ envFrames'[j].CP = envFrames[j].CP
  <2> SUFFICES ASSUME NEW j \in 1 .. e + 1 PROVE j \in 1 .. Len(envFrames)
    BY DEF FramesStay
  <2> QED BY <1>2
<1>4. \A q : Waits(q, envFrames', e, c) = Waits(q, envFrames, e, c)
  BY <1>2, <1>3, WaitsSame
<1>5. QueryFrame(prog, at)' = QueryFrame(prog, at)
  OBVIOUS
<1> QED BY <1>1, <1>4, <1>5 DEF SavedWaits

\* A choice point can still be gone back to.
LEMMA ChoiceStays ==
  ASSUME TypeOK, TypeOK', NEW at, prog' = prog, FramesStay,
         NEW n, n <= Len(choicePoints), n \in Int, SameMarks(n), SameSnapshots(n), NEW k \in 1 .. n,
         SlotsStay(at, SavedWaits(at, k)), SavedHolds(at, k),
         Begins(at, choicePoints'[k].NextClause, 0 .. choicePoints[k].N - 1)
  PROVE  SavedHolds(at, k)' /\ SavedWaits(at, k)' = SavedWaits(at, k)
<1>0. k \in 1 .. Len(choicePoints) /\ k \in 1 .. Len(choicePoints')
  BY Ranges DEF SameMarks
<1>1. PICK cp \in ChoicePoints, cp2 \in ChoicePoints : cp = choicePoints[k] /\ cp2 = choicePoints'[k]
  BY <1>0 DEF TypeOK, ChoicesOK
<1>2. /\ cp2.H = cp.H /\ cp2.Args = cp.Args /\ cp2.CE = cp.CE /\ cp2.CP = cp.CP
      /\ cp.N = Len(cp.Args) /\ cp2.N = Len(cp2.Args)
  BY <1>0, <1>1 DEF SameMarks, TypeOK, ChoicesOK
<1>3. Undone(cp2)' = Undone(cp)
  <2>1. Snapshot(choicePoints[k])' = Snapshot(choicePoints[k])
    BY DEF SameSnapshots
  <2>2. Snapshot(choicePoints[k]).store = Undone(cp)
    BY <1>1 DEF Snapshot
  <2>3. Snapshot(choicePoints[k])'.store = Undone(cp2)'
    BY <1>1 DEF Snapshot
  <2> QED BY <2>1, <2>2, <2>3
<1>4. SavedWaits(at, k)' = SavedWaits(at, k)
  BY <1>0, <1>1, <1>2, SavedWaitsStay
<1>5. /\ Closed(prog, Undone(cp), cp.H, cp.H)
      /\ \A j \in 1 .. cp.N : LandsIn(prog, Undone(cp), cp.H, cp.H, cp.Args[j])
      /\ Returns(prog, at, SavedWaits(at, k))
      /\ SlotsHold(prog, at, envFrames, SavedWaits(at, k), Undone(cp), cp.H)
  BY <1>1 DEF SavedHolds
<1>6. SlotsHold(prog, at, envFrames', SavedWaits(at, k), Undone(cp), cp.H)
  BY <1>5 DEF SlotsHold, SlotsStay
<1>7. Undone(choicePoints[k])' = Undone(cp)
  BY <1>1, <1>3
<1>8. /\ choicePoints'[k].H = cp.H /\ choicePoints'[k].N = cp.N /\ choicePoints'[k].Args = cp.Args
      /\ choicePoints[k].N = cp.N
  BY <1>1, <1>2
<1>9. /\ Closed(prog, Undone(cp), cp.H, cp.H)
      /\ \A j \in 1 .. cp.N : LandsIn(prog, Undone(cp), cp.H, cp.H, cp.Args[j])
      /\ Begins(at, choicePoints'[k].NextClause, 0 .. cp.N - 1)
      /\ Returns(prog, at, SavedWaits(at, k))
  BY <1>1, <1>5
<1> QED BY <1>4, <1>6, <1>7, <1>8, <1>9 DEF SavedHolds

\* All of them can, when those that stay keep what they saved.
LEMMA ChoicesStay ==
  ASSUME TypeOK, TypeOK', NEW at, prog' = prog, FramesStay, ChoicesHold(at),
         NEW n \in {B, B + 1}, B' = n - 1, n <= Len(choicePoints),
         SameMarks(n), SameSnapshots(n),
         \A k \in 1 .. n : SlotsStay(at, SavedWaits(at, k)),
         \A k \in 1 .. n : Begins(at, choicePoints'[k].NextClause, 0 .. choicePoints[k].N - 1)
  PROVE  ChoicesHold(at)' /\ \A k \in 1 .. B' + 1 : SavedWaits(at, k)' = SavedWaits(at, k)
<1>0. n \in Int /\ n <= B + 1 /\ B' + 1 = n /\ B \in Int
  BY Ranges
<1>1. ASSUME NEW k \in 1 .. n
      PROVE  SavedHolds(at, k)' /\ SavedWaits(at, k)' = SavedWaits(at, k)
  <2>1. SavedHolds(at, k)
    BY <1>0 DEF ChoicesHold
  <2> QED BY <1>0, <2>1, ChoiceStays
<1>2. ASSUME NEW k \in 1 .. n, NEW j \in k .. n
      PROVE  Agree(at, SavedWaits(at, k), SavedWaits(at, j))'
  <2>1. k \in 1 .. B + 1 /\ j \in k .. B + 1 /\ j \in 1 .. n
    BY <1>0
  <2>2. Agree(at, SavedWaits(at, k), SavedWaits(at, j))
    BY <2>1 DEF ChoicesHold
  <2>3. SavedWaits(at, k)' = SavedWaits(at, k) /\ SavedWaits(at, j)' = SavedWaits(at, j)
    BY <1>1, <2>1
  <2> QED BY <2>2, <2>3
<1> QED BY <1>0, <1>1, <1>2 DEF ChoicesHold

\* What choice points describe survives work on the heap.
LEMMA WorkSnapshots ==
  ASSUME TypeOK, ChoicesNest, WorkStep PROVE SameSnapshots(B + 1)
<1>1. CASE Grows
  BY <1>1, GrowsSnapshots, NestingIs
<1>2. CASE \E addr \in Nat : Binds(addr)
  BY <1>2, BindsSnapshots, NestingIs
<1> QED BY <1>1, <1>2 DEF WorkStep

\* Running code only writes slots that no choice point waits for.
LEMMA WritesSpare ==
  ASSUME TypeOK, NEW at, Certified(prog, at), ChoicesHold(at), ChoicesNest,
         Spares(at), Here \in DOMAIN at, FrameHolds(at, at[Here]), Writes(at[Here])
  PROVE  FramesStay /\ \A k \in 1 .. B + 1 : SlotsStay(at, SavedWaits(at, k))
<1>1. FramesStay
  BY Stacked DEF FramesStay, Writes
<1>2. ASSUME NEW k \in 1 .. B + 1, NEW w \in SavedWaits(at, k), NEW s \in at[w[2]].slots
      PROVE  /\ Len(envFrames'[w[1] + 1].Y) = Len(envFrames[w[1] + 1].Y)
             /\ s \in at[w[2]].dy => envFrames'[w[1] + 1].Y[s] = envFrames[w[1] + 1].Y[s]
  <2>1. choicePoints[k].CE \in -1 .. Len(envFrames) - 1
    BY Stacked DEF ChoicesNest
  <2>2. Returns(prog, at, SavedWaits(at, k)) /\ s \in 1 .. Len(envFrames[w[1] + 1].Y)
    BY DEF ChoicesHold, SavedHolds, SlotsHold
  <2>3. w[1] \in Nat /\ w[1] + 1 \in 1 .. Len(envFrames)
    <3>1. PICK e, c : e = choicePoints[k].CE /\ c = choicePoints[k].CP
      OBVIOUS
    <3>2. SavedWaits(at, k) = Waits(QueryFrame(prog, at), envFrames, e, c)
      BY <3>1 DEF SavedWaits
    <3>3. at[w[2]].slots # {} /\ e \in -1 .. Len(envFrames) - 1
      BY <2>1, <3>1
    <3>4. w[1] \in 0 .. e /\ w[1] + 1 \in 1 .. Len(envFrames)
      BY <2>2, <3>2, <3>3, WaitedFrame
    <3> QED BY <3>4
  <2>4. /\ Len(envFrames'[w[1] + 1].Y) = Len(envFrames[w[1] + 1].Y)
        /\ \/ envFrames'[w[1] + 1].Y[s] = envFrames[w[1] + 1].Y[s]
           \/ w[1] + 1 = E + 1 /\ at[Here].env /\ s \notin at[Here].dy
    BY <2>2, <2>3 DEF Writes
  <2>5. s \in at[w[2]].dy => ~(w[1] + 1 = E + 1 /\ at[Here].env /\ s \notin at[Here].dy)
    <3> SUFFICES ASSUME s \in at[w[2]].dy, w[1] + 1 = E + 1, at[Here].env
                 PROVE  s \in at[Here].dy
      OBVIOUS
    <3>1. w[1] = E
      BY <2>3, Stacked
    <3>2. <<E, Here>> \in Goes(at)
      BY DEF Goes, Active
    <3>3. Agree(at, SavedWaits(at, k), Goes(at))
      BY DEF Spares
    <3>4. at[w[2]].dy \subseteq at[<<E, Here>>[2]].dy
      BY <3>1, <3>2, <3>3 DEF Agree
    <3> QED BY <3>4
  <2> QED BY <2>4, <2>5
<1> QED BY <1>1, <1>2 DEF SlotsStay
=============================================================================
