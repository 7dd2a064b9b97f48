---------------------------- MODULE TrailProofs ----------------------------
(***************************************************************************)
(* Backtracking state: the trail and the choice points are consistent with *)
(* the heap, so that the machine implements backtracking with an immutable *)
(* store.  What code without cuts keeps is stronger than what any code     *)
(* does that pushes no choice point over one that is cut off.              *)
(***************************************************************************)
EXTENDS WAMProofs

\* The choice points nest below HB, whether some above them are cut off or not.
MarksNest ==
  /\ HB <= H
  /\ \A k \in 1 .. B + 1 :
       /\ choicePoints[k].H <= HB
       /\ choicePoints[k].TR <= TR
       /\ \A j \in 0 .. choicePoints[k].TR - 1 : Trail[j] < choicePoints[k].H
       /\ \A j \in 1 .. k : /\ choicePoints[j].H <= choicePoints[k].H
                            /\ choicePoints[j].TR <= choicePoints[k].TR

\* Without cuts the current choice point is the newest, and HB its heap top.
NoneCut ==
  /\ B = Len(choicePoints) - 1
  /\ HB = IF B < 0 THEN 0 ELSE choicePoints[B + 1].H
  /\ \A k \in 1 .. Len(choicePoints) : choicePoints[k].B = k - 2

\* The inductive invariant.
TrailInv == TypeOK /\ prog \in Programs /\ ChoicesNest /\ TrailSound

\* Integers and ranges, for the arithmetic below.
LEMMA Ranges ==
  ASSUME TypeOK
  PROVE  /\ H \in Nat /\ TR \in Nat /\ HB \in Nat /\ B \in Int /\ B >= -1
         /\ Len(choicePoints) \in Nat /\ B <= Len(choicePoints) - 1
         /\ H <= HeapSize /\ TR <= TrailSize /\ HeapSize \in Nat /\ TrailSize \in Nat
         /\ \A j \in 0 .. TrailSize - 1 : Trail[j] \in Nat
         /\ \A a \in Addr : Heap[a] \in Cell
         /\ \A k \in 1 .. Len(choicePoints) :
              /\ choicePoints[k] \in ChoicePoints
              /\ choicePoints[k].H \in Nat
              /\ choicePoints[k].TR \in Nat
              /\ choicePoints[k].B \in Int
<1>1. \A k \in 1 .. Len(choicePoints) : choicePoints[k] \in ChoicePoints
  BY DEF TypeOK, ChoicesOK
<1>2. \A k \in 1 .. Len(choicePoints) :
        /\ choicePoints[k].H \in Nat
        /\ choicePoints[k].TR \in Nat
        /\ choicePoints[k].B \in Int
  BY <1>1, SizesAssumption DEF ChoicePoints
<1> QED BY <1>1, <1>2, SizesAssumption DEF TypeOK, HeapOK, TrailOK, ChoicesOK

\* Code without cuts keeps both.
LEMMA NestingIs == ASSUME TypeOK PROVE ChoicesNest <=> MarksNest /\ NoneCut
<1>1. /\ HB \in Nat /\ H \in Nat /\ B \in Int /\ B >= -1 /\ Len(choicePoints) \in Nat
      /\ \A k \in 1 .. Len(choicePoints) : choicePoints[k].H \in Nat
  BY Ranges
<1>2. ASSUME ChoicesNest PROVE MarksNest /\ NoneCut
  <2>1. NoneCut /\ B + 1 = Len(choicePoints)
    BY <1>1, <1>2 DEF ChoicesNest, NoneCut
  <2>2. ASSUME B >= 0 PROVE HB = choicePoints[B + 1].H /\ B + 1 \in 1 .. Len(choicePoints)
    BY <1>1, <2>1, <2>2 DEF NoneCut
  <2>3. HB <= H
    <3>1. CASE B < 0
      BY <1>1, <2>1, <3>1 DEF NoneCut
    <3>2. CASE B >= 0
      BY <1>2, <2>2, <3>2 DEF ChoicesNest
    <3> QED BY <1>1, <3>1, <3>2
  <2>4. \A k \in 1 .. B + 1 : choicePoints[k].H <= HB
    BY <1>1, <1>2, <2>1, <2>2 DEF ChoicesNest
  <2> QED BY <1>2, <2>1, <2>3, <2>4 DEF ChoicesNest, MarksNest
<1>3. ASSUME MarksNest, NoneCut PROVE ChoicesNest
  <2>1. B + 1 = Len(choicePoints)
    BY <1>1, <1>3 DEF NoneCut
  <2>2. \A k \in 1 .. Len(choicePoints) : choicePoints[k].H <= HB /\ HB <= H
    BY <1>3, <2>1 DEF MarksNest
  <2>3. \A k \in 1 .. Len(choicePoints) : choicePoints[k].H <= H
    BY <1>1, <2>2
  <2> QED BY <1>3, <2>1, <2>3 DEF ChoicesNest, MarksNest, NoneCut
<1> QED BY <1>2, <1>3

\* Trailed addresses are heap addresses.
LEMMA TrailedAddr ==
  ASSUME TypeOK, TrailSound, NEW j \in 0 .. TR - 1
  PROVE  j \in 0 .. TrailSize - 1 /\ Trail[j] \in 0 .. H - 1 /\ Trail[j] \in Addr
  BY SMTT(30), Ranges DEF TrailSound, Addr

-----------------------------------------------------------------------------
\* Steps that push cells, or leave the heap alone, and touch neither the trail
\* nor the choice points.
Grows ==
  /\ H' \in Nat /\ H' >= H
  /\ \A a \in 0 .. H - 1 : Heap'[a] = Heap[a]
  /\ UNCHANGED <<trailVars, choicePoints, B, HB>>

\* Growing the heap keeps trail and choice points consistent.
LEMMA GrowsKeeps ==
  ASSUME TypeOK, MarksNest, TrailSound, Grows
  PROVE  MarksNest' /\ TrailSound'
<1> USE DEF Grows, trailVars
<1>1. MarksNest'
  <2>1. HB' <= H'
    BY Ranges DEF MarksNest
  <2> QED BY <2>1 DEF MarksNest
<1>2. TrailSound'
  <2> SUFFICES ASSUME NEW j \in 0 .. TR - 1
               PROVE  /\ Trail[j] < H'
                      /\ Heap'[Trail[j]] # REF(Trail[j])
                      /\ \A k \in 0 .. j - 1 : Trail[k] # Trail[j]
    BY DEF TrailSound
  <2>1. Trail[j] \in 0 .. H - 1
    BY TrailedAddr
  <2>2. Heap'[Trail[j]] = Heap[Trail[j]]
    BY <2>1
  <2> QED BY SMTT(30), <2>1, <2>2, Ranges DEF TrailSound
<1> QED BY <1>1, <1>2

\* Steps that bind the variable at addr, after pushing cells perhaps, and
\* trail it when it lies below HB.
Binds(addr) ==
  /\ H' \in Nat /\ H' >= H
  /\ UNCHANGED <<choicePoints, B, HB>>
  /\ TrailIfNeeded(addr)
  /\ addr < H => Heap[addr] = REF(addr)
  /\ addr < HB => Heap'[addr] # REF(addr) /\ TR < TrailSize
  /\ \A a \in 0 .. H - 1 : a # addr => Heap'[a] = Heap[a]

\* Binding a variable keeps them consistent, because bind trails it below HB.
LEMMA BindsKeeps ==
  ASSUME TypeOK, MarksNest, TrailSound, NEW addr \in Nat, Binds(addr)
  PROVE  MarksNest' /\ TrailSound'
<1> USE DEF Binds
<1>h. HB <= H /\ HB' <= H'
  BY Ranges DEF MarksNest
<1>0. \A j \in 0 .. TR - 1 : Trail[j] # addr /\ Heap'[Trail[j]] = Heap[Trail[j]]
  BY TrailedAddr, Ranges DEF TrailSound
<1>1. CASE addr < HB
  <2>1. /\ Trail' = [Trail EXCEPT ![TR] = addr] /\ TR' = TR + 1
        /\ TR \in 0 .. TrailSize - 1 /\ addr < H
    BY <1>1, <1>h, Ranges DEF TrailIfNeeded, Conditional
  <2>2. \A j \in 0 .. TR - 1 : Trail'[j] = Trail[j]
    BY <2>1, Ranges DEF TypeOK, TrailOK
  <2>3. Trail'[TR] = addr
    BY <2>1 DEF TypeOK, TrailOK
  <2>4. MarksNest'
    <3> SUFFICES ASSUME NEW k \in 1 .. B + 1
                 PROVE  /\ choicePoints[k].TR <= TR'
                        /\ \A j \in 0 .. choicePoints[k].TR - 1 : Trail'[j] < choicePoints[k].H
      BY <1>h DEF MarksNest
    <3>1. k \in 1 .. Len(choicePoints) /\ choicePoints[k].TR \in Nat /\ TR \in Nat
      <4>1. k \in 1 .. Len(choicePoints)
        BY Ranges
      <4> QED BY <4>1, Ranges
    <3>2. choicePoints[k].TR <= TR
      BY DEF MarksNest
    <3>3. choicePoints[k].TR <= TR'
      BY <2>1, <3>1, <3>2
    <3>4. ASSUME NEW j \in 0 .. choicePoints[k].TR - 1 PROVE Trail'[j] < choicePoints[k].H
      <4>1. j \in 0 .. TR - 1
        BY <3>1, <3>2
      <4> QED BY <2>2, <4>1 DEF MarksNest
    <3> QED BY <3>3, <3>4
  <2>5. TrailSound'
    <3> SUFFICES ASSUME NEW j \in 0 .. TR
                 PROVE  /\ Trail'[j] < H'
                        /\ Heap'[Trail'[j]] # REF(Trail'[j])
                        /\ \A k \in 0 .. j - 1 : Trail'[k] # Trail'[j]
      BY SMTT(30), <2>1, Ranges DEF TrailSound
    <3>1. CASE j = TR
      <4>1. Trail'[j] = addr /\ addr < H' /\ Heap'[addr] # REF(addr)
        <5>1. H \in Nat /\ H' \in Nat /\ H' >= H
          BY Ranges
        <5>2. addr < H'
          BY <2>1, <5>1
        <5>3. Trail'[j] = addr
          BY <2>3, <3>1
        <5>4. Heap'[addr] # REF(addr)
          BY <1>1
        <5> QED BY <5>2, <5>3, <5>4
      <4>2. \A k \in 0 .. j - 1 : Trail'[k] # addr
        BY <1>0, <2>2, <3>1
      <4> QED BY <4>1, <4>2
    <3>2. CASE j # TR
      <4>1. j \in 0 .. TR - 1
        BY <3>2, Ranges
      <4>2. \A k \in 0 .. j - 1 : k \in 0 .. TR - 1
        BY <4>1, Ranges
      <4>3. Trail'[j] = Trail[j] /\ Heap'[Trail[j]] = Heap[Trail[j]]
        BY <1>0, <2>2, <4>1
      <4>4. Trail[j] \in 0 .. H - 1 /\ Trail[j] < H'
        BY SMTT(30), <4>1, Ranges, TrailedAddr
      <4>5. /\ Heap[Trail[j]] # REF(Trail[j])
            /\ \A k \in 0 .. j - 1 : Trail[k] # Trail[j]
        BY <4>1 DEF TrailSound
      <4>6. \A k \in 0 .. j - 1 : Trail'[k] = Trail[k]
        BY <2>2, <4>2
      <4> QED BY <4>3, <4>4, <4>5, <4>6
    <3> QED BY <3>1, <3>2
  <2> QED BY <2>4, <2>5
<1>2. CASE ~(addr < HB)
  <2>1. UNCHANGED trailVars
    BY <1>2 DEF TrailIfNeeded, Conditional
  <2>2. MarksNest'
    <3>1. UNCHANGED <<choicePoints, B, HB, Trail, TR>>
      BY <2>1 DEF trailVars
    <3> QED BY <1>h, <3>1 DEF MarksNest
  <2>3. TrailSound'
    BY SMTT(30), <1>0, <2>1, Ranges, TrailedAddr DEF TrailSound, trailVars
  <2> QED BY <2>2, <2>3
<1> QED BY <1>1, <1>2

-----------------------------------------------------------------------------
\* TRY_ME_ELSE and TRY remember the tops of the heap and of the trail.
LEMMA PushChoiceKeeps ==
  ASSUME TypeOK, MarksNest, TrailSound, PushChoice, B = Len(choicePoints) - 1,
         Instr.Arg1 \in Nat, Instr.Arg2 \in Nat, Instr.Arg2 <= NumXRegs
  PROVE  MarksNest' /\ TrailSound'
<1> DEFINE cp == ChoicePoint(Instr.Arg2, Instr.Arg1)
           n  == Len(choicePoints)
<1>1. /\ choicePoints' = Append(choicePoints, cp) /\ B' = n /\ HB' = H
      /\ UNCHANGED <<Heap, H, Trail, TR>>
  BY DEF PushChoice, heapVars, trailVars
<1>2. cp.H = H /\ cp.TR = TR /\ cp.B = B /\ cp \in ChoicePoints
  BY ChoicePointType DEF ChoicePoint
<1> HIDE DEF cp
<1>3. n \in Nat /\ choicePoints \in Seq(ChoicePoints) /\ B + 1 = n
  BY DEF TypeOK, ChoicesOK
<1>4. /\ Len(choicePoints') = n + 1 /\ choicePoints'[n + 1] = cp
      /\ \A k \in 1 .. n : choicePoints'[k] = choicePoints[k]
  BY <1>1, <1>2, <1>3
<1>5. TrailSound'
  BY <1>1 DEF TrailSound
<1>6. \A k \in 1 .. n : choicePoints[k].H <= H /\ choicePoints[k].TR <= TR
  <2>1. \A k \in 1 .. n : choicePoints[k].H \in Nat
    BY Ranges
  <2>2. HB <= H /\ \A k \in 1 .. n : choicePoints[k].H <= HB /\ choicePoints[k].TR <= TR
    BY <1>3 DEF MarksNest
  <2> QED BY <2>1, <2>2, Ranges
<1>7. ASSUME NEW k \in 1 .. n + 1
      PROVE  /\ choicePoints'[k].H <= HB'
             /\ choicePoints'[k].TR <= TR'
             /\ \A j \in 0 .. choicePoints'[k].TR - 1 : Trail'[j] < choicePoints'[k].H
             /\ \A j \in 1 .. k : /\ choicePoints'[j].H <= choicePoints'[k].H
                                  /\ choicePoints'[j].TR <= choicePoints'[k].TR
  <2>1. CASE k \in 1 .. n
    <3>1. choicePoints'[k] = choicePoints[k] /\ k \in 1 .. B + 1
          /\ \A j \in 1 .. k : choicePoints'[j] = choicePoints[j]
      BY <1>3, <1>4, <2>1
    <3> QED BY <1>1, <1>6, <2>1, <3>1 DEF MarksNest
  <2>2. CASE k = n + 1
    <3>1. choicePoints'[k].H = H /\ choicePoints'[k].TR = TR
      BY <1>2, <1>3, <1>4, <2>2
    <3>2. \A j \in 0 .. TR - 1 : Trail[j] < H
      BY SMTT(30), TrailedAddr, Ranges
    <3>3. \A j \in 1 .. n : choicePoints'[j].H <= H /\ choicePoints'[j].TR <= TR
      BY <1>4, <1>6
    <3>4. \A j \in 1 .. k : j = k \/ j \in 1 .. n
      BY <1>3, <2>2
    <3>5. \A j \in 1 .. k : choicePoints'[j].H <= H /\ choicePoints'[j].TR <= TR
      BY SMTT(30), <3>1, <3>3, <3>4, Ranges
    <3> QED BY SMTT(30), <1>1, <3>1, <3>2, <3>5, Ranges
  <2> QED BY <1>3, <2>1, <2>2
<1>8. HB' <= H'
  BY <1>1, Ranges
<1>9. MarksNest'
  BY <1>1, <1>7, <1>8 DEF MarksNest
<1> QED BY <1>5, <1>9

\* The first n choice points are still there, and keep what they remember.
SameMarks(n) ==
  \A k \in 1 .. n : /\ k \in 1 .. Len(choicePoints')
                    /\ choicePoints'[k].H = choicePoints[k].H
                    /\ choicePoints'[k].TR = choicePoints[k].TR
                    /\ choicePoints'[k].B = choicePoints[k].B
                    /\ choicePoints'[k].Args = choicePoints[k].Args
                    /\ choicePoints'[k].CE = choicePoints[k].CE
                    /\ choicePoints'[k].CP = choicePoints[k].CP

\* RETRY_ME_ELSE and RETRY only give the current choice point another clause.
LEMMA NextClauseMarks ==
  ASSUME TypeOK, B >= 0, NEW next,
         choicePoints' = [choicePoints EXCEPT ![B + 1].NextClause = next]
  PROVE  SameMarks(Len(choicePoints))
<1>1. choicePoints \in Seq(ChoicePoints)
  BY DEF TypeOK, ChoicesOK
<1>2. \A k \in 1 .. Len(choicePoints) : choicePoints[k] \in ChoicePoints
  BY <1>1
<1> DEFINE cp == [choicePoints[B + 1] EXCEPT !.NextClause = next]
<1>3. choicePoints' = [choicePoints EXCEPT ![B + 1] = cp] /\ B + 1 \in 1 .. Len(choicePoints)
  BY CurrentChoice
<1>4. /\ cp.H = choicePoints[B + 1].H /\ cp.TR = choicePoints[B + 1].TR
      /\ cp.B = choicePoints[B + 1].B /\ cp.Args = choicePoints[B + 1].Args
      /\ cp.CE = choicePoints[B + 1].CE /\ cp.CP = choicePoints[B + 1].CP
  BY <1>2, <1>3 DEF ChoicePoints
<1> HIDE DEF cp
<1>5. /\ Len(choicePoints') = Len(choicePoints)
      /\ \A k \in 1 .. Len(choicePoints) :
           choicePoints'[k] = IF k = B + 1 THEN cp ELSE choicePoints[k]
  BY <1>1, <1>3
<1> QED BY <1>4, <1>5 DEF SameMarks

\* TRUST_ME and TRUST drop the current choice point.
LEMMA PopMarks ==
  ASSUME TypeOK, B >= 0, PopChoice PROVE SameMarks(B)
<1>1. B + 1 \in 1 .. Len(choicePoints) /\ choicePoints \in Seq(ChoicePoints)
  BY CurrentChoice
<1>2. choicePoints' = SubSeq(choicePoints, 1, B) /\ B \in 0 .. Len(choicePoints)
  BY <1>1 DEF PopChoice, TypeOK, ChoicesOK
<1>3. /\ Len(choicePoints') = B
      /\ \A k \in 1 .. B : choicePoints'[k] = choicePoints[k]
  BY <1>1, <1>2, SubSeqProperties
<1> QED BY <1>2, <1>3 DEF SameMarks

\* Popping without unwinding: HB becomes the mark of the choice point below.
LEMMA PopKeeps ==
  ASSUME TypeOK, MarksNest, TrailSound, B >= 0, PopChoice,
         UNCHANGED <<heapVars, trailVars>>
  PROVE  MarksNest' /\ TrailSound'
<1>1. SameMarks(B) /\ B \in Nat /\ B + 1 \in 1 .. Len(choicePoints)
  BY PopMarks, CurrentChoice, Ranges
<1>2. B' = B - 1 /\ HB' = IF B = 0 THEN 0 ELSE choicePoints[B].H
  BY DEF PopChoice
<1>3. UNCHANGED <<Heap, H, Trail, TR>>
  BY DEF heapVars, trailVars
<1>4. TrailSound'
  BY <1>3 DEF TrailSound
<1>5. ASSUME B > 0 PROVE B \in 1 .. B + 1 /\ B \in 1 .. Len(choicePoints)
  BY <1>1, <1>5
<1>6. HB' <= H'
  <2>1. CASE B = 0
    BY <1>2, <1>3, <2>1, Ranges
  <2>2. CASE B > 0
    <3>1. choicePoints[B].H <= HB /\ HB <= H /\ choicePoints[B].H \in Nat
      BY <1>5, <2>2, Ranges DEF MarksNest
    <3> QED BY <1>2, <1>3, <2>2, <3>1, Ranges, SMTT(30)
  <2> QED BY <1>1, <2>1, <2>2
<1>7. ASSUME NEW k \in 1 .. B
      PROVE  /\ choicePoints'[k].H <= HB'
             /\ choicePoints'[k].TR <= TR'
             /\ \A j \in 0 .. choicePoints'[k].TR - 1 : Trail'[j] < choicePoints'[k].H
             /\ \A j \in 1 .. k : /\ choicePoints'[j].H <= choicePoints'[k].H
                                  /\ choicePoints'[j].TR <= choicePoints'[k].TR
  <2>1. k \in 1 .. B + 1 /\ (\A j \in 1 .. k : j \in 1 .. B) /\ B > 0 /\ k \in 1 .. B
    BY <1>1
  <2>2. choicePoints[k].H <= HB'
    <3>1. choicePoints[k].H <= choicePoints[B].H
      BY <1>5, <2>1 DEF MarksNest
    <3> QED BY <1>2, <2>1, <3>1
  <2> QED BY <1>1, <1>3, <2>1, <2>2 DEF SameMarks, MarksNest
<1>8. MarksNest'
  <2>1. B' + 1 = B
    BY <1>1, <1>2
  <2> QED BY <1>6, <1>7, <2>1 DEF MarksNest
<1> QED BY <1>4, <1>8

\* Unwinding to the current choice point leaves what was trailed before it.
LEMMA RestoreTrail ==
  ASSUME TypeOK, MarksNest, TrailSound, B >= 0, Restore
  PROVE  /\ TrailSound'
         /\ H' = choicePoints[B + 1].H /\ TR' = choicePoints[B + 1].TR
         /\ Trail' = Trail
<1> DEFINE cp == choicePoints[B + 1]
<1>1. /\ H' = cp.H /\ TR' = cp.TR /\ Trail' = Trail /\ Heap' = Unwound(cp.TR)
  BY DEF Restore, UnwindTrail
<1>2. /\ B + 1 \in 1 .. Len(choicePoints) /\ cp.H \in Nat /\ cp.TR \in Nat
  BY CurrentChoice, Ranges
<1>3. cp.H <= H /\ cp.TR <= TR /\ \A j \in 0 .. cp.TR - 1 : Trail[j] < cp.H
  <2>1. B + 1 \in 1 .. B + 1 /\ HB \in Nat /\ H \in Nat
    BY <1>2, Ranges
  <2>2. cp.H <= HB /\ HB <= H /\ cp.TR <= TR /\ \A j \in 0 .. cp.TR - 1 : Trail[j] < cp.H
    BY <2>1 DEF MarksNest
  <2> QED BY <1>2, <2>1, <2>2
<1> HIDE DEF cp
<1>4. ASSUME NEW j \in 0 .. cp.TR - 1
      PROVE  /\ Trail[j] < cp.H
             /\ Heap'[Trail[j]] # REF(Trail[j])
             /\ \A k \in 0 .. j - 1 : Trail[k] # Trail[j]
  <2>1. j \in 0 .. TR - 1
    BY SMTT(30), <1>2, <1>3, Ranges
  <2>2. Trail[j] \in Addr
    BY <2>1, TrailedAddr
  <2>3. \A k \in cp.TR .. TR - 1 : Trail[k] # Trail[j]
    <3> SUFFICES ASSUME NEW k \in cp.TR .. TR - 1 PROVE Trail[k] # Trail[j]
      OBVIOUS
    <3>1. k \in 0 .. TR - 1 /\ j \in 0 .. k - 1
      BY SMTT(30), <1>2, Ranges
    <3> QED BY <3>1 DEF TrailSound
  <2>4. Heap'[Trail[j]] = Heap[Trail[j]]
    BY <1>1, <2>2, <2>3 DEF Unwound
  <2>5. /\ Heap[Trail[j]] # REF(Trail[j])
        /\ \A k \in 0 .. j - 1 : Trail[k] # Trail[j]
    BY <2>1 DEF TrailSound
  <2> QED BY <1>3, <2>4, <2>5
<1>5. TrailSound'
  BY <1>1, <1>4 DEF TrailSound
<1> QED BY <1>1, <1>5 DEF cp

\* The choice points under the current one remember less than it does, so they
\* still nest when heap and trail are cut back to it.
LEMMA RestoreNests ==
  ASSUME TypeOK, MarksNest, TrailSound, B >= 0, Restore,
         NEW n \in {B, B + 1}, SameMarks(n), B' = n - 1,
         HB' = IF n = 0 THEN 0 ELSE choicePoints[n].H
  PROVE  MarksNest' /\ TrailSound'
<1> DEFINE cp == choicePoints[B + 1]
<1>1. /\ TrailSound' /\ H' = cp.H /\ TR' = cp.TR /\ Trail' = Trail
  BY RestoreTrail
<1>2. /\ B \in Nat /\ n \in Nat /\ B + 1 \in 1 .. Len(choicePoints) /\ cp.H \in Nat
      /\ B' + 1 = n
  BY CurrentChoice, Ranges, SMTT(30)
<1>3. ASSUME n > 0 PROVE HB' = choicePoints[n].H /\ n \in 1 .. n /\ n \in 1 .. B + 1
  BY <1>2, <1>3
<1>4. HB' <= H'
  <2>1. CASE n = 0
    BY <1>1, <1>2, <2>1
  <2>2. CASE n > 0
    <3>1. B + 1 \in 1 .. B + 1 /\ n \in 1 .. B + 1
      BY <1>2, <1>3, <2>2
    <3> QED BY <1>1, <1>3, <2>2, <3>1 DEF MarksNest
  <2> QED BY <1>2, <2>1, <2>2
<1>5. ASSUME NEW k \in 1 .. n
      PROVE  /\ choicePoints'[k].H <= HB'
             /\ choicePoints'[k].TR <= TR'
             /\ \A j \in 0 .. choicePoints'[k].TR - 1 : Trail'[j] < choicePoints'[k].H
             /\ \A j \in 1 .. k : /\ choicePoints'[j].H <= choicePoints'[k].H
                                  /\ choicePoints'[j].TR <= choicePoints'[k].TR
  <2>1. /\ k \in 1 .. B + 1 /\ B + 1 \in 1 .. B + 1 /\ n > 0
        /\ \A j \in 1 .. k : j \in 1 .. n
    BY <1>2
  <2>2. choicePoints[k].H <= HB' /\ choicePoints[k].TR <= cp.TR
    BY <1>3, <2>1 DEF MarksNest
  <2>3. /\ \A j \in 0 .. choicePoints[k].TR - 1 : Trail[j] < choicePoints[k].H
        /\ \A j \in 1 .. k : /\ choicePoints[j].H <= choicePoints[k].H
                             /\ choicePoints[j].TR <= choicePoints[k].TR
    BY <2>1 DEF MarksNest
  <2> QED BY <1>1, <2>1, <2>2, <2>3 DEF SameMarks
<1>6. MarksNest'
  BY <1>2, <1>4, <1>5 DEF MarksNest
<1> QED BY <1>1, <1>6

\* Cutting back drops no entry that a choice point left needs: tidyTrail stops
\* at the first one below HB.
LEMMA TidyStops ==
  ASSUME TypeOK, MarksNest
  PROVE  /\ TidyTR \in 0 .. TR
         /\ \A j \in TidyTR .. TR - 1 : Trail[j] >= HB
         /\ \A k \in 1 .. B + 1 : choicePoints[k].TR <= TidyTR
<1>1. TidyTR \in 0 .. TR /\ \A j \in TidyTR .. TR - 1 : ~Conditional(Trail[j])
  BY TidyTRIs
<1>2. PICK t \in Nat : t = TidyTR /\ t <= TR
  BY <1>1, Ranges
<1>3. ASSUME NEW j \in t .. TR - 1 PROVE Trail[j] \in Nat /\ ~(Trail[j] < HB)
  <2>1. j \in 0 .. TrailSize - 1
    BY Ranges
  <2> QED BY <1>1, <1>2, <2>1, Ranges DEF Conditional
<1>4. ASSUME NEW k \in 1 .. B + 1, choicePoints[k].TR > t PROVE FALSE
  <2>1. k \in 1 .. Len(choicePoints)
    BY Ranges
  <2>2. PICK m \in Nat : m = choicePoints[k].TR /\ m > t /\ m <= TR
    BY <1>4, <2>1, Ranges DEF MarksNest
  <2>3. m - 1 \in t .. TR - 1 /\ m - 1 \in 0 .. m - 1
    BY <1>2, <2>2, Ranges, SMTT(30)
  <2>4. Trail[m - 1] < choicePoints[k].H /\ choicePoints[k].H <= HB
    BY <2>2, <2>3 DEF MarksNest
  <2>5. Trail[m - 1] \in Nat /\ ~(Trail[m - 1] < HB) /\ choicePoints[k].H \in Nat
    BY <1>3, <2>1, <2>3, Ranges
  <2> QED BY <2>4, <2>5, Ranges, SMTT(30)
<1>5. \A k \in 1 .. B + 1 : choicePoints[k].TR \in Nat
  BY Ranges
<1>6. HB \in Nat /\ \A j \in t .. TR - 1 : Trail[j] >= HB
  BY <1>3, Ranges
<1>7. \A k \in 1 .. B + 1 : choicePoints[k].TR <= t
  BY <1>2, <1>4, <1>5
<1> QED BY <1>1, <1>2, <1>6, <1>7

\* So a cut keeps trail and choice points consistent.
LEMMA CutKeeps ==
  ASSUME TypeOK, MarksNest, TrailSound, NEW level \in Int, level >= -1, CutTo(level)
  PROVE  MarksNest' /\ TrailSound'
<1>1. UNCHANGED <<Heap, H, Trail, choicePoints, HB>>
  BY DEF CutTo, heapVars
<1>2. CASE B > level
  <2>1. B' = level /\ TR' = TidyTR
    BY <1>2 DEF CutTo
  <2>2. PICK t \in Nat : t = TidyTR /\ t <= TR
    BY TidyTRIs, Ranges
  <2>3. \A k \in 1 .. B' + 1 : k \in 1 .. B + 1 /\ choicePoints[k].TR <= t
    BY <1>2, <2>1, <2>2, TidyStops, Ranges
  <2>4. MarksNest'
    BY <1>1, <2>1, <2>2, <2>3 DEF MarksNest
  <2>5. \A j \in 0 .. t - 1 : j \in 0 .. TR - 1
    BY <2>2, Ranges
  <2>6. TrailSound'
    BY <1>1, <2>1, <2>2, <2>5 DEF TrailSound
  <2> QED BY <2>4, <2>6
<1>3. CASE ~(B > level)
  <2>1. UNCHANGED <<B, TR>>
    BY <1>3 DEF CutTo
  <2> QED BY <1>1, <2>1 DEF MarksNest, TrailSound
<1> QED BY <1>2, <1>3

-----------------------------------------------------------------------------
\* What a step may do to heap, trail and choice points.
LEMMA StillGrows ==
  ASSUME TypeOK, UNCHANGED <<heapVars, trailVars, choicePoints, B, HB>> PROVE Grows
  BY Ranges DEF Grows, heapVars

\* Pushing cells grows the heap.
LEMMA PushGrows ==
  ASSUME TypeOK, NEW cs, Len(cs) \in Nat, Push(cs),
         UNCHANGED <<trailVars, choicePoints, B, HB>>
  PROVE  Grows
<1>1. H \in Nat /\ H <= HeapSize /\ HeapSize \in Nat
  BY Ranges
<1>2. H' = H + Len(cs)
  BY DEF Push
<1>3. \A a \in 0 .. H - 1 : Heap'[a] = Heap[a]
  BY <1>1 DEF Push, Pushed, Addr
<1> QED BY <1>1, <1>2, <1>3 DEF Grows

\* A reference is the REF of its address.
LEMMA RefCell == ASSUME NEW c \in Cell, IsREF(c) PROVE c = REF(c.val) /\ c.val \in Nat
  BY DEF Cell, IsREF, REF

\* A bind of an unbound variable, on the heap or on the heap with cells pushed.
LEMMA BindBinds ==
  ASSUME TypeOK, NEW heap \in [Addr -> Cell], NEW a, NEW b,
         BoundAddr(a, b) \in Addr, Bind(heap, a, b), CanBind(a, b),
         H' \in Nat, H' >= H, UNCHANGED <<choicePoints, B, HB>>,
         \A x \in 0 .. H - 1 : heap[x] = Heap[x],
         BoundAddr(a, b) < H => Heap[BoundAddr(a, b)] = REF(BoundAddr(a, b)),
         BoundAddr(a, b) < HB => BoundTo(a, b) # REF(BoundAddr(a, b))
  PROVE  Binds(BoundAddr(a, b))
<1> DEFINE addr == BoundAddr(a, b)
<1>1. Heap' = [heap EXCEPT ![addr] = BoundTo(a, b)] /\ TrailIfNeeded(addr)
  BY DEF Bind
<1>2. Conditional(addr) => TR < TrailSize
  BY DEF CanBind
<1>3. Heap'[addr] = BoundTo(a, b)
  BY <1>1
<1> HIDE DEF addr
<1>4. \A x \in 0 .. H - 1 : x \in Addr
  BY SMTT(30), Ranges DEF Addr
<1>5. \A x \in 0 .. H - 1 : x # addr => Heap'[x] = Heap[x]
  BY <1>1, <1>4
<1> USE DEF addr
<1> QED BY <1>1, <1>2, <1>3, <1>5 DEF Binds, Conditional

\* All steps but those of choice points grow the heap or bind a variable.
WorkStep == Grows \/ \E addr \in Nat : Binds(addr)

\* Binding at a heap address is work.
LEMMA AddrNat == ASSUME NEW a \in Addr, Binds(a) PROVE WorkStep
  BY SizesAssumption DEF Addr, WorkStep

\* PUT_*, SET_* and the writing UNIFY_* grow the heap.
LEMMA BuildWorks == ASSUME TypeOK, Build PROVE WorkStep
<1> USE DEF DataStep, choiceVars, NatArg1
<1>1. CASE UNCHANGED heapVars /\ \E op \in Opcode : DataStep(op)
  BY <1>1, StillGrows DEF WorkStep
<1>2. CASE \E cs : /\ Push(cs) /\ Len(cs) \in Nat
                   /\ \E op \in Opcode : DataStep(op)
  BY <1>2, PushGrows DEF WorkStep
<1>3. \A c : Len(<<c>>) = 1
  OBVIOUS
<1>4. Len(NewVars(1)) = 1 /\ \A n \in Nat : Len(NewVars(n)) = n
  BY NewVarsType DEF TypeOK
<1>5. CASE PutStructure \/ SetVariable \/ SetValue \/ SetConstant \/ SetList \/ PutVariable
  BY <1>2, <1>3, <1>4, <1>5 DEF Opcode, PutStructure, SetVariable, SetValue, SetConstant,
     SetList, PutVariable
<1>6. CASE SetVoid
  <2>1. Instr.Arg1 \in Nat
    BY <1>6, AtFacts DEF SetVoid
  <2> QED BY <1>2, <1>4, <1>6, <2>1 DEF SetVoid, Opcode
<1>7. CASE PutValue \/ PutConstant \/ PutList \/ GetVariable \/ GetLevel
  BY <1>1, <1>7 DEF Opcode, PutValue, PutConstant, PutList, GetVariable, GetLevel
<1>8. CASE UnifyWrite
  <2>1. CASE DataStep("UNIFY_VOID") /\ Push(NewVars(Instr.Arg1))
    <3>1. Instr.Arg1 \in Nat
      BY <2>1, AtFacts
    <3> QED BY <1>2, <1>4, <2>1, <3>1 DEF Opcode
  <2>2. CASE \E c : Push(<<c>>) /\ \E op \in Opcode : DataStep(op)
    BY <1>2, <1>3, <2>2
  <2>3. CASE DataStep("UNIFY_VARIABLE") /\ Push(NewVars(1))
    BY <1>2, <1>4, <2>3 DEF Opcode
  <2> QED BY <1>8, <2>1, <2>2, <2>3 DEF UnifyWrite, Opcode
<1> QED BY <1>5, <1>6, <1>7, <1>8 DEF Build

\* GET_* and deref grow the heap or bind the variable they dereferenced to.
LEMMA MatchWorks == ASSUME TypeOK, MarksNest, Match PROVE WorkStep
<1> USE DEF choiceVars, TagREF, TagSTR, TagLIS
<1>0. /\ H \in Nat /\ HB \in Nat /\ H <= HeapSize /\ HeapSize \in Nat
      /\ HeapOK /\ Heap \in [Addr -> Cell]
  BY Ranges DEF TypeOK, HeapOK
<1>1. CASE UNCHANGED <<heapVars, trailVars, choicePoints, B, HB>>
  BY <1>1, StillGrows DEF WorkStep
<1>2. CASE UnifyVariableRead \/ UnifyVoidRead \/ UnifyRead \/ GetUnify \/ StartChase \/ ChaseStep
  BY <1>1, <1>2 DEF UnifyVariableRead, UnifyVoidRead, UnifyRead, GetUnify, StartChase,
     ChaseStep, ReadStep
<1> DEFINE c == chase[1]
<1>3. ASSUME Chasing, DerefInRange(c), Resolved(c), IsREF(c), c \in Cell
      PROVE  c = REF(c.val) /\ c.val \in Addr /\ Heap[c.val] = REF(c.val)
  BY <1>0, <1>3, RefCell DEF DerefInRange, Resolved, Addr
<1>4. CASE GetStructure
  <2>1. /\ Chasing /\ DerefInRange(c) /\ Resolved(c) /\ c \in Cell
        /\ UNCHANGED <<choicePoints, B, HB>> /\ Pending.Arg1 \in Nat
    BY <1>4, ChasedFacts DEF GetStructure, Chased, NatArg1
  <2>2. CASE IsREF(c)
    <3>1. /\ CanBind(c, STR(H)) /\ H' = H + 1
          /\ Bind(Pushed(<<FUN(Pending.Arg1)>>), c, STR(H))
      BY <1>4, <2>2 DEF GetStructure, IsREF
    <3>2. BoundAddr(c, STR(H)) = c.val /\ BoundTo(c, STR(H)) = STR(H)
      BY <2>2 DEF BoundAddr, BoundTo, BindsFirst, IsREF, STR
    <3>3. Pushed(<<FUN(Pending.Arg1)>>) \in [Addr -> Cell]
      <4>1. <<FUN(Pending.Arg1)>> \in Seq(Cell)
        BY <2>1, PointerTypes
      <4> QED BY <1>0, <4>1, PushedType
    <3>4. \A x \in 0 .. H - 1 : Pushed(<<FUN(Pending.Arg1)>>)[x] = Heap[x]
      BY <1>0 DEF Pushed, Addr
    <3>5. STR(H) # REF(c.val)
      BY DEF STR, REF
    <3>6. c.val \in Addr /\ Heap[c.val] = REF(c.val)
      BY <1>3, <2>1, <2>2
    <3>7. Binds(c.val)
      BY <1>0, <2>1, <3>1, <3>2, <3>3, <3>4, <3>5, <3>6, BindBinds
    <3> QED BY <3>6, <3>7, AddrNat
  <2>3. CASE ~IsREF(c)
    <3>1. ReadFrom(c.val + 1) \/ Mismatch
      BY <1>4, <2>3 DEF GetStructure, IsREF
    <3> QED BY <1>1, <2>1, <3>1 DEF ReadFrom, Mismatch
  <2> QED BY <2>2, <2>3
<1>5. CASE GetList
  <2>1. /\ Chasing /\ DerefInRange(c) /\ Resolved(c) /\ c \in Cell
        /\ UNCHANGED <<choicePoints, B, HB>>
    BY <1>5, ChasedFacts DEF GetList, Chased
  <2>2. CASE IsREF(c)
    <3>1. CanBind(c, LIS(H)) /\ H' = H /\ Bind(Heap, c, LIS(H))
      BY <1>5, <2>2 DEF GetList, IsREF
    <3>2. BoundAddr(c, LIS(H)) = c.val /\ BoundTo(c, LIS(H)) = LIS(H)
      BY <2>2 DEF BoundAddr, BoundTo, BindsFirst, IsREF, LIS
    <3>5. LIS(H) # REF(c.val)
      BY DEF LIS, REF
    <3>6. c.val \in Addr /\ Heap[c.val] = REF(c.val)
      BY <1>3, <2>1, <2>2
    <3>7. Binds(c.val)
      BY <1>0, <2>1, <3>1, <3>2, <3>5, <3>6, BindBinds
    <3> QED BY <3>6, <3>7, AddrNat
  <2>3. CASE ~IsREF(c)
    <3>1. ReadFrom(c.val) \/ Mismatch
      BY <1>5, <2>3 DEF GetList, IsREF
    <3> QED BY <1>1, <2>1, <3>1 DEF ReadFrom, Mismatch
  <2> QED BY <2>2, <2>3
<1>6. CASE PutUnsafeValue
  <2>1. /\ Chasing /\ DerefInRange(c) /\ Resolved(c) /\ c \in Cell
        /\ UNCHANGED <<choicePoints, B, HB>>
    BY <1>6, ChasedFacts DEF PutUnsafeValue, Chased
  <2>2. CASE IsREF(c) /\ c.val >= HB
    <3>1. /\ CanBind(c, REF(H)) /\ H' = H + 1 /\ Room(1)
          /\ Bind(Pushed(NewVars(1)), c, REF(H))
      BY <1>6, <2>2 DEF PutUnsafeValue
    <3>2. H \in Addr /\ H >= HB
      BY <1>0, <3>1 DEF Room, Addr, MarksNest
    <3>3. Pushed(NewVars(1)) \in [Addr -> Cell]
      BY <1>0, NewVarsType, PushedType
    <3>4. \A x \in 0 .. H - 1 : Pushed(NewVars(1))[x] = Heap[x]
      BY <1>0 DEF Pushed, Addr
    <3>6. c.val \in Addr /\ Heap[c.val] = REF(c.val)
      BY <1>3, <2>1, <2>2
    <3>7. BoundAddr(c, REF(H)) \in {c.val, H}
      BY DEF BoundAddr, REF
    <3>8. Binds(BoundAddr(c, REF(H)))
      <4> DEFINE addr == BoundAddr(c, REF(H))
      <4>1. addr \in Addr /\ ~(addr < HB)
        BY <1>0, <2>2, <3>2, <3>6, <3>7 DEF Addr
      <4>2. addr < H => Heap[addr] = REF(addr)
        BY <1>0, <3>6, <3>7
      <4> HIDE DEF addr
      <4>3. addr = BoundAddr(c, REF(H))
        BY DEF addr
      <4> QED BY <1>0, <2>1, <3>1, <3>3, <3>4, <4>1, <4>2, <4>3, BindBinds
    <3> QED BY <3>2, <3>6, <3>7, <3>8, AddrNat
  <2>3. CASE ~(IsREF(c) /\ c.val >= HB)
    <3>1. UNCHANGED <<heapVars, trailVars>>
      BY <1>6, <2>3 DEF PutUnsafeValue
    <3> QED BY <1>1, <2>1, <3>1
  <2> QED BY <2>2, <2>3
<1> QED BY <1>2, <1>4, <1>5, <1>6 DEF Match

\* unify binds unbound variables only.
LEMMA UnifyWorks == ASSUME TypeOK, Unify PROVE WorkStep
<1> USE DEF choiceVars
<1>1. CASE UnifyDeref \/ UnifySame \/ UnifyArgs \/ UnifyFail
  BY <1>1, StillGrows DEF UnifyDeref, UnifySame, UnifyArgs, UnifyFail, WorkStep
<1>2. CASE UnifyBind
  <2>1. /\ D1 \in Cell /\ D2 \in Cell /\ D1 # D2 /\ (IsREF(D1) \/ IsREF(D2))
        /\ DerefInRange(D1) /\ Resolved(D1) /\ DerefInRange(D2) /\ Resolved(D2)
        /\ CanBind(D1, D2) /\ Bind(Heap, D1, D2)
        /\ H' = H /\ UNCHANGED <<choicePoints, B, HB>>
    BY <1>2, PdlFacts DEF UnifyBind, Comparing
  <2>2. /\ H \in Nat /\ HeapSize \in Nat /\ Heap \in [Addr -> Cell]
    BY Ranges DEF TypeOK, HeapOK
  <2>3. \A c \in Cell : IsREF(c) /\ DerefInRange(c) /\ Resolved(c) =>
          c = REF(c.val) /\ c.val \in Addr /\ Heap[c.val] = REF(c.val)
    BY <2>2, RefCell DEF DerefInRange, Resolved, Addr
  <2> DEFINE addr == BoundAddr(D1, D2)
  <2>4. addr \in Addr /\ Heap[addr] = REF(addr) /\ BoundTo(D1, D2) # REF(addr)
    <3>1. CASE BindsFirst(D1, D2)
      BY <2>1, <2>3, <3>1 DEF BoundAddr, BoundTo, BindsFirst
    <3>2. CASE ~BindsFirst(D1, D2)
      BY <2>1, <2>3, <3>2 DEF BoundAddr, BoundTo, BindsFirst
    <3> QED BY <3>1, <3>2
  <2>5. Binds(addr)
    BY <2>1, <2>2, <2>4, BindBinds
  <2> QED BY <2>4, <2>5, AddrNat
<1> QED BY SMTT(30), <1>1, <1>2 DEF Unify

\* ALLOCATE to PROCEED grow the heap.
LEMMA ControlWorks == ASSUME TypeOK, Control PROVE WorkStep
<1> USE DEF choiceVars
<1>1. CASE Allocate
  <2>1. Instr.Arg1 \in Nat
    BY <1>1, AtFacts DEF Allocate, NatArg1
  <2>2. Len(NewVars(Instr.Arg1)) \in Nat
    BY <2>1, NewVarsType DEF TypeOK
  <2> QED BY <1>1, <2>2, PushGrows DEF Allocate, WorkStep
<1>2. CASE Deallocate \/ Call \/ Execute \/ Proceed
  BY <1>2, StillGrows DEF Deallocate, Call, Execute, Proceed, WorkStep
<1> QED BY <1>1, <1>2 DEF Control

\* So work keeps trail and choice points consistent.
LEMMA WorkKeeps ==
  ASSUME TypeOK, MarksNest, TrailSound, WorkStep PROVE MarksNest' /\ TrailSound'
  BY GrowsKeeps, BindsKeeps DEF WorkStep

-----------------------------------------------------------------------------
(* The invariance proof: every step works, or handles the current choice point. *)

\* What the instructions that push a choice point have in common.
LEMMA PushFacts ==
  ASSUME TypeOK, TryMeElse \/ Try
  PROVE  PushChoice /\ Instr.Arg1 \in Nat /\ Instr.Arg2 \in Nat /\ Instr.Arg2 <= NumXRegs
  BY AtFacts DEF TryMeElse, Try, At, InRange, Ready, Instruction, NatArg1

\* The level a cut goes back to is that of a choice point, or below them all.
LEMMA CutLevel ==
  ASSUME TypeOK, NeckCut \/ Cut PROVE \E level \in Int : level >= -1 /\ CutTo(level)
<1>1. CASE NeckCut
  <2>1. B0 = -1
    BY DEF TypeOK, ChoicesOK
  <2> QED BY <1>1, <2>1 DEF NeckCut
<1>2. CASE Cut
  <2>1. GetReg(Instr.Arg1) \in Cell
    BY <1>2, AtFacts, GetRegType DEF Cut, At, InRange, RegArg1
  <2>2. /\ IntOf(GetReg(Instr.Arg1)) - 1 \in Int
        /\ IntOf(GetReg(Instr.Arg1)) - 1 >= -1
    BY <2>1 DEF IntOf, Cell
  <2> QED BY <1>2, <2>2 DEF Cut
<1> QED BY <1>1, <1>2

\* A choice point is pushed only when none is cut off.
PushesOnTop == PushChoice => B = Len(choicePoints) - 1

\* Choice instructions keep trail and choice points consistent.
LEMMA ChoiceKeeps ==
  ASSUME TypeOK, MarksNest, TrailSound, Choice, PushesOnTop
  PROVE  MarksNest' /\ TrailSound'
<1> USE DEF NatArg1, OnChoice
<1>0. B \in Int /\ B <= Len(choicePoints) - 1 /\ Len(choicePoints) \in Nat
  BY Ranges
<1>1. CASE TryMeElse \/ Try
  BY <1>1, PushFacts, PushChoiceKeeps DEF PushesOnTop
<1>2. CASE RetryMeElse
  <2>1. /\ B >= 0 /\ UNCHANGED <<Heap, H, Trail, TR, B, HB>>
        /\ choicePoints' = [choicePoints EXCEPT ![B + 1].NextClause = Instr.Arg1]
    BY <1>2, AtFacts DEF RetryMeElse, At, InRange, heapVars, trailVars
  <2>2. SameMarks(Len(choicePoints))
    BY <2>1, NextClauseMarks
  <2>3. ASSUME NEW k \in 1 .. B + 1
        PROVE  choicePoints'[k].H = choicePoints[k].H /\ choicePoints'[k].TR = choicePoints[k].TR
    BY <1>0, <2>2 DEF SameMarks
  <2>4. \A k \in 1 .. B + 1 : \A j \in 1 .. k : j \in 1 .. B + 1
    BY <1>0
  <2>5. MarksNest'
    BY <2>1, <2>3, <2>4 DEF MarksNest
  <2>6. TrailSound'
    BY <2>1 DEF TrailSound
  <2> QED BY <2>5, <2>6
<1>3. CASE TrustMe
  BY <1>3, AtFacts, PopKeeps DEF TrustMe, At, InRange
<1>4. CASE Retry
  <2>1. /\ B >= 0 /\ Restore /\ B' = B /\ HB' = choicePoints[B + 1].H
        /\ choicePoints' = [choicePoints EXCEPT ![B + 1].NextClause = Instr.Arg1]
    BY <1>4, AtFacts DEF Retry, At, InRange
  <2>2. SameMarks(B + 1)
    BY <1>0, <2>1, NextClauseMarks DEF SameMarks
  <2>3. B' = (B + 1) - 1 /\ HB' = IF B + 1 = 0 THEN 0 ELSE choicePoints[B + 1].H
    BY <1>0, <2>1
  <2> QED BY <2>1, <2>2, <2>3, RestoreNests
<1>5. CASE Trust
  <2>1. B >= 0 /\ Restore /\ PopChoice
    BY <1>5, AtFacts DEF Trust, At, InRange
  <2>2. SameMarks(B) /\ B' = B - 1 /\ HB' = IF B = 0 THEN 0 ELSE choicePoints[B].H
    BY <2>1, PopMarks DEF PopChoice
  <2> QED BY <2>1, <2>2, RestoreNests
<1>6. CASE NeckCut \/ Cut
  BY <1>6, CutLevel, CutKeeps
<1> QED BY <1>1, <1>2, <1>3, <1>4, <1>5, <1>6 DEF Choice

\* Backtracking keeps trail and choice points consistent.
LEMMA AlternativeKeeps ==
  ASSUME TypeOK, MarksNest, TrailSound, B >= 0, TakeAlternative
  PROVE  MarksNest' /\ TrailSound'
<1>0. B \in Int /\ B + 1 \in 1 .. Len(choicePoints) /\ Len(choicePoints) \in Nat
  BY Ranges, CurrentChoice
<1>1. /\ Restore /\ B' = B /\ HB' = choicePoints[B + 1].H
      /\ choicePoints' = choicePoints
  BY DEF TakeAlternative
<1>2. SameMarks(B + 1) /\ B' = (B + 1) - 1
      /\ HB' = IF B + 1 = 0 THEN 0 ELSE choicePoints[B + 1].H
  BY <1>0, <1>1 DEF SameMarks
<1> QED BY <1>1, <1>2, RestoreNests

\* So does failing without a choice point.
LEMMA BacktrackKeeps ==
  ASSUME TypeOK, MarksNest, TrailSound, Backtrack PROVE MarksNest' /\ TrailSound'
<1>1. CASE B >= 0 /\ TakeAlternative
  BY <1>1, AlternativeKeeps
<1>2. CASE UNCHANGED <<heapVars, trailVars, choiceVars>>
  BY <1>2, StillGrows, GrowsKeeps DEF choiceVars
<1> QED BY <1>1, <1>2 DEF Backtrack

\* And so does every step of the machine.
LEMMA StepKeeps ==
  ASSUME TypeOK, MarksNest, TrailSound, [Next]_vars, PushesOnTop
  PROVE  MarksNest' /\ TrailSound'
<1>1. CASE UNCHANGED vars \/ Panic
  <2>1. UNCHANGED <<heapVars, trailVars, choicePoints, B, HB>>
    BY <1>1 DEF vars, Panic, choiceVars
  <2> QED BY <2>1, StillGrows, GrowsKeeps
<1>2. CASE Next /\ ~Panic
  <2>1. CASE Build \/ Match \/ Unify \/ Control
    BY <2>1, BuildWorks, MatchWorks, UnifyWorks, ControlWorks, WorkKeeps
  <2>2. CASE Choice \/ Backtrack
    BY <2>2, ChoiceKeeps, BacktrackKeeps
  <2> QED BY <1>2, <2>1, <2>2 DEF Next
<1> QED BY <1>1, <1>2

-----------------------------------------------------------------------------
(* Where no choice point is cut off, what is not a cut keeps it so. *)

\* Work does not touch the stack.
LEMMA SameChoicesStay ==
  ASSUME NoneCut, UNCHANGED <<choicePoints, B, HB>> PROVE NoneCut'
  BY DEF NoneCut

\* A choice point is pushed on its top.
LEMMA PushStays ==
  ASSUME TypeOK, NoneCut, PushChoice,
         Instr.Arg1 \in Nat, Instr.Arg2 \in Nat, Instr.Arg2 <= NumXRegs
  PROVE  NoneCut'
<1>0. PICK n \in Nat : n = Len(choicePoints) /\ B = n - 1
  BY Ranges DEF NoneCut
<1>1. PICK cp \in ChoicePoints : cp = ChoicePoint(Instr.Arg2, Instr.Arg1)
  BY ChoicePointType
<1>2. cp.H = H /\ cp.B = B
  BY <1>1 DEF ChoicePoint
<1>3. /\ choicePoints' = Append(choicePoints, cp) /\ B' = n /\ HB' = H
      /\ choicePoints \in Seq(ChoicePoints)
  BY <1>0, <1>1 DEF PushChoice, TypeOK, ChoicesOK
<1>4. /\ Len(choicePoints') = n + 1 /\ choicePoints'[n + 1] = cp
      /\ \A k \in 1 .. n : choicePoints'[k] = choicePoints[k]
  BY <1>0, <1>3
<1>5. \A k \in 1 .. n + 1 : choicePoints'[k].B = k - 2
  BY <1>0, <1>2, <1>4 DEF NoneCut
<1> QED BY <1>0, <1>2, <1>3, <1>4, <1>5 DEF NoneCut

\* The current one, which gets another clause, is its top.
LEMMA NextClauseStays ==
  ASSUME TypeOK, NoneCut, B >= 0, NEW next, B' = B, HB' = choicePoints[B + 1].H,
         choicePoints' = [choicePoints EXCEPT ![B + 1].NextClause = next]
  PROVE  NoneCut'
<1>1. SameMarks(Len(choicePoints)) /\ B + 1 \in 1 .. Len(choicePoints)
  BY NextClauseMarks, CurrentChoice
<1>2. Len(choicePoints') = Len(choicePoints)
  BY CurrentChoice
<1> QED BY <1>1, <1>2, Ranges DEF NoneCut, SameMarks

\* That is what is popped.
LEMMA PopStays ==
  ASSUME TypeOK, NoneCut, B >= 0, PopChoice PROVE NoneCut'
<1>1. SameMarks(B) /\ B + 1 \in 1 .. Len(choicePoints) /\ B \in Nat /\ choicePoints \in Seq(ChoicePoints)
  BY PopMarks, CurrentChoice, Ranges
<1>2. Len(choicePoints') = B
  <2>1. B \in 0 .. Len(choicePoints)
    BY <1>1, Ranges
  <2> QED BY <1>1, <2>1, SubSeqProperties DEF PopChoice
<1>3. B' = B - 1 /\ HB' = IF B = 0 THEN 0 ELSE choicePoints[B].H
  BY DEF PopChoice
<1>4. \A k \in 1 .. B : choicePoints'[k].B = k - 2 /\ choicePoints'[k].H = choicePoints[k].H
  <2>1. \A k \in 1 .. B : k \in 1 .. Len(choicePoints)
    BY <1>1, Ranges
  <2> QED BY <1>1, <2>1 DEF NoneCut, SameMarks
<1>5. B > 0 => choicePoints'[B].H = choicePoints[B].H
  BY <1>1, <1>4
<1> QED BY <1>1, <1>2, <1>3, <1>4, <1>5 DEF NoneCut

\* So the choice instructions keep it so,
LEMMA ChoiceStaysUncut ==
  ASSUME TypeOK, NoneCut, Choice, ~NeckCut, ~Cut PROVE NoneCut'
<1> USE DEF OnChoice
<1>0. B \in Int
  BY Ranges
<1>1. CASE TryMeElse \/ Try
  BY <1>1, PushFacts, PushStays
<1>2. CASE RetryMeElse
  <2>1. /\ B >= 0 /\ UNCHANGED <<B, HB>>
        /\ choicePoints' = [choicePoints EXCEPT ![B + 1].NextClause = Instr.Arg1]
    BY <1>2, AtFacts DEF RetryMeElse, At, InRange
  <2>2. HB' = choicePoints[B + 1].H
    BY <1>0, <2>1 DEF NoneCut
  <2> QED BY <2>1, <2>2, NextClauseStays
<1>3. CASE TrustMe \/ Trust
  <2>1. B >= 0 /\ PopChoice
    BY <1>3, AtFacts DEF TrustMe, Trust, At, InRange
  <2> QED BY <2>1, PopStays
<1>4. CASE Retry
  <2>1. /\ B >= 0 /\ B' = B /\ HB' = choicePoints[B + 1].H
        /\ choicePoints' = [choicePoints EXCEPT ![B + 1].NextClause = Instr.Arg1]
    BY <1>4, AtFacts DEF Retry, At, InRange
  <2> QED BY <2>1, NextClauseStays
<1> QED BY <1>1, <1>2, <1>3, <1>4 DEF Choice

\* backtracking does,
LEMMA AlternativeStays ==
  ASSUME TypeOK, NoneCut, B >= 0, TakeAlternative PROVE NoneCut'
<1>1. /\ B' = B /\ HB' = choicePoints[B + 1].H /\ choicePoints' = choicePoints /\ B \in Int
  BY Ranges DEF TakeAlternative
<1> QED BY <1>1 DEF NoneCut

\* and every step that is not a cut.
LEMMA UncutStays ==
  ASSUME TypeOK, MarksNest, NoneCut, [Next]_vars, ~NeckCut, ~Cut PROVE NoneCut'
<1>1. CASE UNCHANGED vars \/ Panic
  BY <1>1, SameChoicesStay DEF vars, Panic, choiceVars
<1>2. CASE Next /\ ~Panic
  <2>1. CASE Build \/ Match \/ Unify \/ Control
    <3>1. WorkStep
      BY <2>1, BuildWorks, MatchWorks, UnifyWorks, ControlWorks
    <3> QED BY <3>1, SameChoicesStay DEF WorkStep, Grows, Binds
  <2>2. CASE Choice
    BY <1>2, <2>2, ChoiceStaysUncut
  <2>3. CASE Backtrack
    BY <2>3, AlternativeStays, SameChoicesStay DEF Backtrack, choiceVars
  <2> QED BY <1>2, <2>1, <2>2, <2>3 DEF Next
<1> QED BY <1>1, <1>2

\* The same of the next state.
LEMMA NestingNext ==
  ASSUME TypeOK', MarksNest', NoneCut' PROVE ChoicesNest'
<1>1. /\ HB' \in Nat /\ H' \in Nat /\ Len(choicePoints') \in Nat
      /\ choicePoints' \in Seq(ChoicePoints)
  BY SizesAssumption DEF TypeOK, HeapOK, ChoicesOK
<1>2. \A k \in 1 .. Len(choicePoints') : choicePoints'[k].H \in Nat
  <2>1. \A k \in 1 .. Len(choicePoints') : choicePoints'[k] \in ChoicePoints
    BY <1>1
  <2> QED BY <2>1, SizesAssumption DEF ChoicePoints
<1>3. B' + 1 = Len(choicePoints')
  BY <1>1 DEF NoneCut
<1>4. HB' <= H' /\ \A k \in 1 .. Len(choicePoints') : choicePoints'[k].H <= HB'
  BY <1>3 DEF MarksNest
<1>5. \A k \in 1 .. Len(choicePoints') : choicePoints'[k].H <= H'
  BY <1>1, <1>2, <1>4
<1> QED BY <1>3, <1>5 DEF ChoicesNest, MarksNest, NoneCut

\* Backtracking keeps the invariant of code without cuts, too.
LEMMA AlternativeNests ==
  ASSUME TypeOK, TypeOK', ChoicesNest, TrailSound, B >= 0, TakeAlternative
  PROVE  ChoicesNest' /\ TrailSound'
  BY NestingIs, NestingNext, AlternativeKeeps, AlternativeStays

\* The compiler emits no cuts (compiler.go).
NoCuts ==
  \A p \in Programs : \A k \in 1 .. Len(p.Code) : p.Code[k].Op \notin {"NECK_CUT", "CUT"}

\* Without cuts in the code, no cut is executed.
LEMMA NoCutStep ==
  ASSUME NoCuts, TypeOK, prog \in Programs PROVE ~NeckCut /\ ~Cut
<1>1. ASSUME InCode PROVE Instr.Op \notin {"NECK_CUT", "CUT"}
  <2>1. P + 1 \in 1 .. Len(prog.Code)
    BY <1>1, ProgramFacts DEF InCode, TypeOK, ControlOK
  <2> QED BY <2>1 DEF NoCuts, Instr
<1> QED BY <1>1 DEF NeckCut, Cut, At, Ready

\* The induction step, for a step that is no cut.
LEMMA UncutStep ==
  ASSUME TrailInv, [Next]_vars, ~NeckCut, ~Cut PROVE TrailInv'
<1> USE DEF TrailInv
<1>1. TypeOK' /\ prog' \in Programs
  BY StepType
<1>2. MarksNest /\ NoneCut
  BY NestingIs
<1>3. PushesOnTop
  BY <1>2 DEF PushesOnTop, NoneCut
<1>4. MarksNest' /\ TrailSound' /\ NoneCut'
  BY <1>2, <1>3, StepKeeps, UncutStays
<1> QED BY <1>1, <1>4, NestingNext

\* For code without cuts it is every step.
LEMMA TrailStep ==
  ASSUME NoCuts, TrailInv, [Next]_vars PROVE TrailInv'
<1>1. ~NeckCut /\ ~Cut
  BY NoCutStep DEF TrailInv
<1> QED BY <1>1, UncutStep

\* Initially there is no trail and no choice point.
LEMMA InitTrail == Init => TrailInv
<1> SUFFICES ASSUME Init PROVE TrailInv
  OBVIOUS
<1>1. TypeOK /\ prog \in Programs
  BY InitType
<1>2. TR = 0 /\ choicePoints = <<>> /\ B = -1 /\ HB = 0
  BY DEF Init
<1>3. ChoicesNest
  BY <1>2 DEF ChoicesNest
<1>4. TrailSound
  BY <1>2 DEF TrailSound
<1> QED BY <1>1, <1>3, <1>4 DEF TrailInv

\* Choice points form a stack of ever shorter heaps and trails, with HB the
\* heap top of the current one, whatever program without cuts is loaded.
THEOREM ChoicesAreNested == NoCuts => (Spec => []ChoicesNest)
<1> SUFFICES ASSUME NoCuts PROVE Spec => []ChoicesNest
  OBVIOUS
<1>1. Init => TrailInv
  BY InitTrail
<1>2. TrailInv /\ [Next]_vars => TrailInv'
  BY TrailStep
<1>3. TrailInv => ChoicesNest
  BY DEF TrailInv
<1> QED BY <1>1, <1>2, <1>3, PTL DEF Spec

\* The trail holds live bound cells, each once: heap.go trails what it must.
THEOREM TrailIsSound == NoCuts => (Spec => []TrailSound)
<1> SUFFICES ASSUME NoCuts PROVE Spec => []TrailSound
  OBVIOUS
<1>1. Init => TrailInv
  BY InitTrail
<1>2. TrailInv /\ [Next]_vars => TrailInv'
  BY TrailStep
<1>3. TrailInv => TrailSound
  BY DEF TrailInv
<1> QED BY <1>1, <1>2, <1>3, PTL DEF Spec

\* A choice point is dropped by TRUST_ME or TRUST only.
LEMMA DropsPop ==
  ASSUME TypeOK, ChoicesNest, Next, Len(choicePoints') < Len(choicePoints)
  PROVE  B >= 0 /\ B' = B - 1
<1>0. choicePoints \in Seq(ChoicePoints) /\ B \in Int
  BY DEF TypeOK, ChoicesOK
<1>1. ~(UNCHANGED choicePoints)
  BY <1>0
<1>2. Choice
  <2>1. ASSUME Build PROVE UNCHANGED choicePoints
    BY <2>1 DEF Build, PutStructure, SetVariable, SetValue, SetConstant, SetList, SetVoid,
       PutVariable, PutValue, PutConstant, PutList, GetVariable, GetLevel, UnifyWrite,
       DataStep, choiceVars
  <2>2. ASSUME Match PROVE UNCHANGED choicePoints
    BY <2>2 DEF Match, UnifyVariableRead, UnifyVoidRead, UnifyRead, GetUnify, StartChase,
       ChaseStep, GetStructure, GetList, PutUnsafeValue, ReadStep, Chased, choiceVars
  <2>3. ASSUME Unify PROVE UNCHANGED choicePoints
    BY <2>3 DEF Unify, UnifyDeref, UnifySame, UnifyBind, UnifyArgs, UnifyFail, choiceVars
  <2>4. ASSUME Control PROVE UNCHANGED choicePoints
    BY <2>4 DEF Control, Allocate, Deallocate, Call, Execute, Proceed, choiceVars
  <2>5. ASSUME Backtrack \/ Panic PROVE UNCHANGED choicePoints
    BY <2>5 DEF Backtrack, TakeAlternative, Panic, choiceVars
  <2> QED BY <1>1, <2>1, <2>2, <2>3, <2>4, <2>5 DEF Next
<1>3. ~PushChoice
  <2>1. ASSUME NEW cp PROVE Len(Append(choicePoints, cp)) = Len(choicePoints) + 1
    BY <1>0
  <2> QED BY <1>0, <2>1 DEF PushChoice
<1>4. ASSUME NEW cp PROVE Len([choicePoints EXCEPT ![B + 1].NextClause = cp]) = Len(choicePoints)
  BY <1>0
<1>5. TrustMe \/ Trust
  BY <1>0, <1>1, <1>2, <1>3, <1>4 DEF Choice, TryMeElse, Try, RetryMeElse, Retry, NeckCut, Cut,
     CutTo
<1> QED BY <1>5 DEF TrustMe, Trust, PopChoice, At, InRange, OnChoice

\* In code without cuts, to drop a choice point is to return to the one that
\* was current when it was pushed, as machine.go says of ChoicePoint.B, which
\* no instruction reads.
THEOREM UncutPopsToPrevious == NoCuts => (Spec => PopsToPrevious)
<1> SUFFICES ASSUME NoCuts PROVE Spec => PopsToPrevious
  OBVIOUS
<1>1. Init => TrailInv
  BY InitTrail
<1>2. TrailInv /\ [Next]_vars => TrailInv'
  BY TrailStep
<1>3. TrailInv /\ [Next]_vars =>
        [Len(choicePoints') < Len(choicePoints) => B' = choicePoints[B + 1].B]_vars
  <2> SUFFICES ASSUME TrailInv, Next, Len(choicePoints') < Len(choicePoints)
               PROVE  B' = choicePoints[B + 1].B
    OBVIOUS
  <2>1. B >= 0 /\ B' = B - 1
    BY DropsPop DEF TrailInv
  <2>2. B \in Int /\ B = Len(choicePoints) - 1
    BY DEF TrailInv, TypeOK, ChoicesOK, ChoicesNest
  <2>3. choicePoints[B + 1].B = B - 1
    BY <2>1, <2>2 DEF TrailInv, ChoicesNest
  <2> QED BY <2>1, <2>3
<1> QED BY <1>1, <1>2, <1>3, PTL DEF Spec, PopsToPrevious

-----------------------------------------------------------------------------
(* The machine implements backtracking with an immutable store: heap top,  *)
(* trail, HB and unwinding restore, for every program without cuts, what   *)
(* was there when the choice point was pushed (Backtracking.tla).          *)

\* What unwinding to choice point k leaves at address a below its heap top.
UndoneCell(mark, a) ==
  IF \E j \in mark .. TR - 1 : Trail[j] = a THEN REF(a) ELSE Heap[a]

\* The choice points up to n still describe the same snapshots.
SameSnapshots(n) == \A k \in 1 .. n : Snapshot(choicePoints[k])' = Snapshot(choicePoints[k])

\* A snapshot stays when its marks and its undone cells do.
LEMMA SnapshotsStay ==
  ASSUME NEW n, SameMarks(n),
         \A k \in 1 .. n : \A a \in 0 .. choicePoints[k].H - 1 :
           UndoneCell(choicePoints[k].TR, a)' = UndoneCell(choicePoints[k].TR, a)
  PROVE  SameSnapshots(n)
<1> SUFFICES ASSUME NEW k \in 1 .. n
             PROVE  Snapshot(choicePoints[k])' = Snapshot(choicePoints[k])
  BY DEF SameSnapshots
<1> DEFINE cp == choicePoints[k]
<1>1. /\ cp'.H = cp.H /\ cp'.TR = cp.TR /\ cp'.Args = cp.Args /\ cp'.CE = cp.CE
      /\ cp'.CP = cp.CP
  BY DEF SameMarks
<1>2. \A a \in 0 .. cp.H - 1 : UndoneCell(cp.TR, a)' = UndoneCell(cp.TR, a)
  OBVIOUS
<1> HIDE DEF cp
<1>3. Undone(cp)' = Undone(cp)
  BY <1>1, <1>2 DEF Undone, UndoneCell
<1>4. Snapshot(cp)' = Snapshot(cp)
  BY <1>1, <1>3 DEF Snapshot
<1> QED BY <1>4 DEF cp

\* Growing the heap is invisible to the choice points.
LEMMA GrowsSnapshots ==
  ASSUME TypeOK, MarksNest, Grows PROVE SameSnapshots(B + 1)
<1>1. SameMarks(B + 1) /\ \A k \in 1 .. B + 1 : k \in 1 .. Len(choicePoints)
  BY Ranges DEF Grows, SameMarks
<1>2. ASSUME NEW k \in 1 .. B + 1, NEW a \in 0 .. choicePoints[k].H - 1
      PROVE  UndoneCell(choicePoints[k].TR, a)' = UndoneCell(choicePoints[k].TR, a)
  <2>1. choicePoints[k].H <= HB /\ HB <= H /\ choicePoints[k].H \in Nat
    BY <1>1, Ranges DEF MarksNest
  <2>2. a \in 0 .. H - 1
    BY <2>1, Ranges, SMTT(30)
  <2> QED BY <2>2 DEF Grows, UndoneCell, trailVars
<1> QED BY <1>1, <1>2, SnapshotsStay

\* Binding a variable is, too: one that is in a snapshot is below HB, and so
\* is trailed.
LEMMA BindsSnapshots ==
  ASSUME TypeOK, MarksNest, NEW addr \in Nat, Binds(addr)
  PROVE  SameSnapshots(B + 1)
<1>1. SameMarks(B + 1) /\ \A k \in 1 .. B + 1 : k \in 1 .. Len(choicePoints)
  BY Ranges DEF Binds, SameMarks
<1>2. ASSUME NEW k \in 1 .. B + 1, NEW a \in 0 .. choicePoints[k].H - 1
      PROVE  UndoneCell(choicePoints[k].TR, a)' = UndoneCell(choicePoints[k].TR, a)
  <2> DEFINE m == choicePoints[k].TR
  <2>1. k \in 1 .. Len(choicePoints)
    BY <1>1
  <2>2. a < HB /\ a \in 0 .. H - 1 /\ m \in Nat /\ m <= TR /\ TR \in Nat /\ HB \in Nat
    <3>1. /\ choicePoints[k].H \in Nat /\ m \in Nat /\ TR \in Nat /\ HB \in Nat
          /\ H \in Nat /\ HB <= H
      BY <2>1, Ranges DEF MarksNest
    <3>2. k \in 1 .. B + 1
      OBVIOUS
    <3>3. choicePoints[k].H <= HB /\ m <= TR
      BY <3>2 DEF MarksNest
    <3> QED BY <3>1, <3>3
  <2>3. choicePoints'[k].TR = m
    BY DEF Binds
  <2> HIDE DEF m
  <2>4. CASE addr < HB
    <3>1. /\ Trail' = [Trail EXCEPT ![TR] = addr] /\ TR' = TR + 1
          /\ TR \in 0 .. TrailSize - 1 /\ addr < H /\ Heap[addr] = REF(addr)
      BY SMTT(30), <2>4, Ranges DEF TrailIfNeeded, Conditional, Binds, MarksNest
    <3>2. \A j \in 0 .. TR - 1 : Trail'[j] = Trail[j]
      BY <3>1, Ranges DEF TypeOK, TrailOK
    <3>3. Trail'[TR] = addr
      BY <3>1 DEF TypeOK, TrailOK
    <3>4. CASE a = addr
      <4>1. TR \in m .. TR' - 1 /\ Trail'[TR] = a
        BY <2>2, <3>1, <3>3, <3>4
      <4>2. UndoneCell(m, a) = REF(a)
        BY <3>1, <3>4 DEF UndoneCell
      <4> QED BY <2>3, <4>1, <4>2 DEF UndoneCell, m
    <3>5. CASE a # addr
      <4>1. Heap'[a] = Heap[a]
        BY <2>2, <3>5 DEF Binds
      <4>2. (\E j \in m .. TR' - 1 : Trail'[j] = a) <=> (\E j \in m .. TR - 1 : Trail[j] = a)
        BY <2>2, <3>1, <3>2, <3>3, <3>5
      <4> QED BY <2>3, <4>1, <4>2 DEF UndoneCell, m
    <3> QED BY <3>4, <3>5
  <2>5. CASE ~(addr < HB)
    <3>1. UNCHANGED <<Trail, TR>> /\ Heap'[a] = Heap[a]
      BY <2>2, <2>5 DEF TrailIfNeeded, Conditional, Binds, trailVars
    <3> QED BY <2>3, <3>1 DEF UndoneCell, m
  <2> QED BY <2>4, <2>5
<1> QED BY <1>1, <1>2, SnapshotsStay

-----------------------------------------------------------------------------
\* Steps of the machine as steps of Backtracking.
LEMMA SavedStays ==
  ASSUME B' = B, SameSnapshots(B + 1) PROVE Saved' = Saved
  BY DEF Saved, SameSnapshots

\* Growing and binding are work on the immutable store.
LEMMA WorkRefines ==
  ASSUME TypeOK, MarksNest, TrailSound, WorkStep PROVE Bowen!Work
<1>1. Saved' = Saved
  <2>1. CASE Grows
    BY <2>1, GrowsSnapshots, SavedStays DEF Grows
  <2>2. CASE \E addr \in Nat : Binds(addr)
    BY <2>2, BindsSnapshots, SavedStays DEF Binds
  <2> QED BY <2>1, <2>2 DEF WorkStep
<1>2. H \in Nat /\ H' \in Nat /\ H' >= H
  BY Ranges DEF WorkStep, Grows, Binds
<1>3. \A a \in 0 .. H - 1 : Heap'[a] = Heap[a] \/ Heap[a] = REF(a)
  BY <1>2 DEF WorkStep, Grows, Binds
<1>4. 0 .. H - 1 \subseteq 0 .. H' - 1
  <2>1. PICK m \in Nat : m = H
    BY <1>2
  <2>2. PICK n \in Nat : n = H'
    BY <1>2
  <2>3. m <= n
    BY <1>2, <2>1, <2>2
  <2>4. 0 .. m - 1 \subseteq 0 .. n - 1
    BY <2>3
  <2> QED BY <2>1, <2>2, <2>4
<1>5. DOMAIN Store \subseteq DOMAIN Store'
  BY <1>4 DEF Store
<1>6. \A a \in DOMAIN Store : Store'[a] = Store[a] \/ Store[a] = REF(a)
  BY <1>3, <1>4 DEF Store
<1> QED BY <1>1, <1>5, <1>6 DEF Bowen!Work, Bowen!REF, Bowen!TagREF, REF, TagREF

\* s is a tuple of n elements.
IsTuple(s, n) == s = [k \in 1 .. n |-> s[k]]

\* The first elements of a tuple.
LEMMA TuplePrefix ==
  ASSUME NEW n \in Nat, NEW m \in Nat, n <= m, NEW s, NEW t, IsTuple(s, n), IsTuple(t, m),
         \A k \in 1 .. n : t[k] = s[k]
  PROVE  Len(s) = n /\ Len(t) = m /\ SubSeq(t, 1, n) = s
<1> DEFINE T == {t[k] : k \in 1 .. m}
<1>1. t \in Seq(T) /\ Len(t) = m
  BY DEF IsTuple
<1>2. n \in 0 .. Len(t) /\ \A k \in 1 .. n : k \in 1 .. m /\ t[k] \in T
  BY <1>1
<1> HIDE DEF T
<1>3. s \in Seq(T) /\ Len(s) = n
  <2>1. \A k \in 1 .. n : s[k] \in T
    BY <1>2
  <2>2. [k \in 1 .. n |-> s[k]] \in Seq(T) /\ Len([k \in 1 .. n |-> s[k]]) = n
    BY <2>1
  <2> QED BY <2>2 DEF IsTuple
<1>4. /\ SubSeq(t, 1, n) \in Seq(T) /\ Len(SubSeq(t, 1, n)) = n
      /\ \A k \in 1 .. n : SubSeq(t, 1, n)[k] = t[k]
  BY <1>1, <1>2, SubSeqProperties
<1> QED BY <1>1, <1>3, <1>4, SeqEqual

\* Pushing a choice point, which copies nothing of the heap, saves all of it.
LEMMA PushChoiceRefines ==
  ASSUME TypeOK, MarksNest, TrailSound, PushChoice, B = Len(choicePoints) - 1,
         Instr.Arg1 \in Nat, Instr.Arg2 \in Nat, Instr.Arg2 <= NumXRegs
  PROVE  Bowen!Save
<1>0. PICK n \in Nat : n = Len(choicePoints)
  BY Ranges
<1>1. PICK cp : cp = ChoicePoint(Instr.Arg2, Instr.Arg1)
  OBVIOUS
<1>2. /\ choicePoints' = Append(choicePoints, cp) /\ B' = n
      /\ UNCHANGED <<Heap, H, Trail, TR, X, E, CP>>
  BY <1>0, <1>1 DEF PushChoice, heapVars, trailVars, regVars, frameVars
<1>3. /\ cp.H = H /\ cp.TR = TR /\ cp.CE = E /\ cp.CP = CP
      /\ cp.Args = [k \in 1 .. Instr.Arg2 |-> X[k - 1]]
  BY <1>1 DEF ChoicePoint
<1>4. choicePoints \in Seq(ChoicePoints) /\ B = n - 1
  BY <1>0 DEF TypeOK, ChoicesOK
<1>5. /\ choicePoints'[n + 1] = cp
      /\ \A k \in 1 .. n : choicePoints'[k] = choicePoints[k]
  BY <1>0, <1>2, <1>4
<1>6. \A k \in 1 .. n : Snapshot(choicePoints[k])' = Snapshot(choicePoints[k])
  BY <1>2, <1>5 DEF Snapshot, Undone
<1>7. Undone(choicePoints[n + 1])' = Store
  BY SMTT(30), <1>2, <1>3, <1>5, Ranges DEF Undone, Store
<1>8. Snapshot(choicePoints[n + 1])' =
        [store |-> Store, args |-> cp.Args, env |-> E, cont |-> CP]
  BY <1>3, <1>5, <1>7 DEF Snapshot
<1>9. /\ Saved = [k \in 1 .. n |-> Snapshot(choicePoints[k])]
      /\ Saved' = [k \in 1 .. n + 1 |-> Snapshot(choicePoints[k])']
  BY <1>2, <1>4 DEF Saved
<1>10. /\ Len(Saved) = n /\ Len(Saved') = n + 1
       /\ Saved'[n + 1] = Snapshot(choicePoints[n + 1])'
       /\ \A k \in 1 .. n : Saved'[k] = Saved[k]
  BY <1>6, <1>9
<1>11. SubSeq(Saved', 1, Len(Saved)) = Saved
  <2>1. IsTuple(Saved, n) /\ IsTuple(Saved', n + 1)
    BY <1>9 DEF IsTuple
  <2>2. SubSeq(Saved', 1, n) = Saved
    BY <1>10, <2>1, TuplePrefix
  <2> QED BY <1>10, <2>2
<1>12. UNCHANGED <<Store, X, E, CP>>
  BY <1>2 DEF Store
<1>13. Bowen!IsSnapshot(Saved'[n + 1])
  BY <1>3, <1>8, <1>10 DEF Bowen!IsSnapshot
<1> QED BY <1>10, <1>11, <1>12, <1>13 DEF Bowen!Save

\* Popping leaves the snapshots below.
LEMMA DropRefines ==
  ASSUME TypeOK, B >= 0, B' = B - 1, SameSnapshots(B)
  PROVE  Bowen!Drop
<1>1. PICK n \in Nat : n = B
  BY Ranges
<1>2. /\ Saved = [k \in 1 .. n + 1 |-> Snapshot(choicePoints[k])]
      /\ Saved' = [k \in 1 .. n |-> Snapshot(choicePoints[k])']
  <2>1. B' + 1 = n
    BY <1>1
  <2> QED BY <1>1, <2>1 DEF Saved
<1>3. PICK s, t : s = Saved' /\ t = Saved
  OBVIOUS
<1>4. /\ IsTuple(s, n) /\ IsTuple(t, n + 1)
      /\ \A k \in 1 .. n : t[k] = s[k]
  <2>1. \A k \in 1 .. n : s[k] = Snapshot(choicePoints[k])'
    BY <1>2, <1>3
  <2>2. \A k \in 1 .. n : k \in 1 .. n + 1 /\ t[k] = Snapshot(choicePoints[k])
    BY <1>2, <1>3
  <2>3. \A k \in 1 .. n : t[k] = s[k]
    BY <1>1, <2>1, <2>2 DEF SameSnapshots
  <2>4. IsTuple(s, n)
    BY <1>2, <1>3 DEF IsTuple
  <2>5. IsTuple(t, n + 1)
    BY <1>2, <1>3 DEF IsTuple
  <2> QED BY <2>3, <2>4, <2>5
<1>5. Len(Saved) = n + 1 /\ SubSeq(Saved, 1, n) = Saved'
  <2>1. Len(t) = n + 1 /\ SubSeq(t, 1, n) = s
    BY <1>4, TuplePrefix
  <2> QED BY <1>3, <2>1
<1>6. Saved # <<>>
  BY <1>5
<1>7. Len(Saved) - 1 = n
  BY <1>5
<1> QED BY <1>5, <1>6, <1>7 DEF Bowen!Drop

\* Unwinding leaves the snapshots of the older choice points, and brings back
\* the one of the current.
LEMMA RestoreSnapshots ==
  ASSUME TypeOK, MarksNest, TrailSound, B >= 0, Restore,
         NEW n \in {B, B + 1}, SameMarks(n)
  PROVE  SameSnapshots(n)
<1>1. PICK cp \in ChoicePoints : cp = choicePoints[B + 1]
  BY CurrentChoice
<1>2. /\ H' = cp.H /\ TR' = cp.TR /\ Trail' = Trail /\ Heap' = Unwound(cp.TR)
  BY <1>1 DEF Restore, UnwindTrail
<1>3. /\ B \in Nat /\ n \in Nat /\ B + 1 \in 1 .. Len(choicePoints)
      /\ cp.TR \in Nat /\ cp.H \in Nat
  <2>1. B \in Nat /\ n \in Nat /\ B + 1 \in 1 .. Len(choicePoints)
    BY Ranges, CurrentChoice
  <2> QED BY <1>1, <2>1, Ranges
<1>4. ASSUME NEW k \in 1 .. n, NEW a \in 0 .. choicePoints[k].H - 1
      PROVE  UndoneCell(choicePoints[k].TR, a)' = UndoneCell(choicePoints[k].TR, a)
  <2>1. PICK m \in Nat : m = choicePoints[k].TR
    BY SMTT(30), <1>3, Ranges
  <2>2. k \in 1 .. Len(choicePoints) /\ k \in 1 .. B + 1 /\ B + 1 \in 1 .. B + 1
    BY <1>3, Ranges
  <2>3. m <= cp.TR /\ cp.TR <= TR /\ TR \in Nat
    BY <1>1, <2>1, <2>2, Ranges DEF MarksNest
  <2>4. a \in Addr
    <3>1. choicePoints[k].H <= HB /\ HB <= H /\ H <= HeapSize /\ choicePoints[k].H \in Nat
      BY <2>2, Ranges DEF MarksNest
    <3> QED BY <3>1, Ranges, SMTT(30) DEF Addr
  <2>5. Heap'[a] = IF \E j \in cp.TR .. TR - 1 : Trail[j] = a THEN REF(a) ELSE Heap[a]
    BY <1>2, <2>4 DEF Unwound
  <2>6. choicePoints'[k].TR = m
    BY <2>1 DEF SameMarks
  <2>7. UndoneCell(choicePoints[k].TR, a)' =
          IF \E j \in m .. cp.TR - 1 : Trail[j] = a THEN REF(a) ELSE Heap'[a]
    BY <1>2, <2>6 DEF UndoneCell
  <2>8. \A j : j \in m .. TR - 1 <=> j \in m .. cp.TR - 1 \/ j \in cp.TR .. TR - 1
    BY <1>3, <2>1, <2>3, SMTT(30)
  <2> QED BY <2>1, <2>5, <2>7, <2>8 DEF UndoneCell
<1> QED BY <1>4, SnapshotsStay

\* restoreChoicePoint resumes the newest snapshot.
LEMMA RestoreRefines ==
  ASSUME TypeOK, MarksNest, TrailSound, B >= 0, Restore
  PROVE  Saved # <<>> /\ Bowen!Resumed(Saved[Len(Saved)])
<1>1. PICK cp \in ChoicePoints : cp = choicePoints[B + 1]
  BY CurrentChoice
<1>2. /\ H' = cp.H /\ TR' = cp.TR /\ Trail' = Trail /\ Heap' = Unwound(cp.TR)
      /\ E' = cp.CE /\ CP' = cp.CP
      /\ X' = [r \in XRegs |-> IF r < cp.N THEN cp.Args[r + 1] ELSE X[r]]
  BY <1>1 DEF Restore, UnwindTrail
<1>3. /\ cp.N \in Nat /\ cp.N <= NumXRegs /\ cp.Args \in Seq(Cell)
      /\ Len(cp.Args) = cp.N /\ cp.H \in Nat /\ cp.H <= HeapSize /\ B \in Nat
  <2>1. cp.N \in Nat /\ cp.Args \in Seq(Cell) /\ cp.H \in Nat /\ cp.H <= HeapSize
    BY SizesAssumption DEF ChoicePoints
  <2>2. cp.N <= NumXRegs /\ Len(cp.Args) = cp.N
    BY <1>1, CurrentChoice
  <2>3. B \in Nat
    BY Ranges
  <2> QED BY <2>1, <2>2, <2>3
<1>4. /\ Len(Saved) = B + 1 /\ Saved # <<>>
      /\ Saved[B + 1] = [store |-> Undone(cp), args |-> cp.Args, env |-> cp.CE, cont |-> cp.CP]
  <2>1. Len(Saved) = B + 1 /\ Saved[B + 1] = Snapshot(cp)
    BY <1>1, <1>3 DEF Saved
  <2>2. Saved # <<>>
    BY <1>3, <2>1
  <2> QED BY <2>1, <2>2 DEF Snapshot
<1>5. Store' = Undone(cp)
  <2>1. \A a \in 0 .. cp.H - 1 : a \in Addr
    BY <1>3, SizesAssumption DEF Addr
  <2>2. Store' = [a \in 0 .. cp.H - 1 |-> Heap'[a]]
    BY <1>2 DEF Store
  <2>3. \A a \in 0 .. cp.H - 1 :
          Heap'[a] = IF \E j \in cp.TR .. TR - 1 : Trail[j] = a THEN REF(a) ELSE Heap[a]
    BY <1>2, <2>1 DEF Unwound
  <2> QED BY <2>2, <2>3 DEF Undone
<1>6. ASSUME NEW k \in DOMAIN cp.Args PROVE X'[k - 1] = cp.Args[k]
  <2>1. k \in 1 .. cp.N
    BY <1>3
  <2>2. k - 1 \in XRegs /\ k - 1 < cp.N /\ (k - 1) + 1 = k
    BY <1>3, <2>1, SizesAssumption DEF XRegs
  <2> QED BY <1>2, <2>2
<1>7. /\ Saved[Len(Saved)].store = Undone(cp)
      /\ Saved[Len(Saved)].env = cp.CE
      /\ Saved[Len(Saved)].cont = cp.CP
      /\ Saved[Len(Saved)].args = cp.Args
  BY <1>4
<1>8. E' = cp.CE /\ CP' = cp.CP
  BY <1>2
<1>9. Bowen!Resumed(Saved[Len(Saved)])
  <2>1. \A k \in DOMAIN Saved[Len(Saved)].args :
          X'[k - 1] = Saved[Len(Saved)].args[k]
    BY <1>6, <1>7
  <2> QED BY <1>5, <1>7, <1>8, <2>1 DEF Bowen!Resumed
<1> QED BY <1>4, <1>9

-----------------------------------------------------------------------------
\* The choice point instructions save, resume and discard snapshots.
LEMMA ChoiceRefines ==
  ASSUME TypeOK, MarksNest, TrailSound, Choice, PushesOnTop, ~NeckCut, ~Cut
  PROVE  Bowen!Next
<1> USE DEF NatArg1, OnChoice
<1>0. B \in Int /\ B <= Len(choicePoints) - 1 /\ Len(choicePoints) \in Nat
  BY Ranges
<1>1. CASE TryMeElse \/ Try
  BY <1>1, PushFacts, PushChoiceRefines DEF PushesOnTop, Bowen!Next
<1>2. CASE RetryMeElse
  <2>1. /\ B >= 0 /\ UNCHANGED <<Heap, H, Trail, TR, B>>
        /\ choicePoints' = [choicePoints EXCEPT ![B + 1].NextClause = Instr.Arg1]
    BY <1>2, AtFacts DEF RetryMeElse, At, InRange, heapVars, trailVars
  <2>2. SameMarks(B + 1)
    BY <1>0, <2>1, NextClauseMarks DEF SameMarks
  <2>3. ASSUME NEW k \in 1 .. B + 1, NEW a \in 0 .. choicePoints[k].H - 1
        PROVE  UndoneCell(choicePoints[k].TR, a)' = UndoneCell(choicePoints[k].TR, a)
    BY <2>1, <2>2 DEF SameMarks, UndoneCell
  <2>4. Saved' = Saved
    BY <2>1, <2>2, <2>3, SnapshotsStay, SavedStays
  <2>5. Store' = Store
    BY <2>1 DEF Store
  <2> QED BY <2>4, <2>5 DEF Bowen!Next, Bowen!Work
<1>3. CASE TrustMe
  <2>1. /\ B >= 0 /\ PopChoice /\ UNCHANGED <<Heap, H, Trail, TR, X, E, CP>>
    BY <1>3, AtFacts DEF TrustMe, At, InRange, heapVars, trailVars, regVars, frameVars
  <2>2. SameMarks(B) /\ B' = B - 1
    BY <2>1, PopMarks DEF PopChoice
  <2>3. ASSUME NEW k \in 1 .. B, NEW a \in 0 .. choicePoints[k].H - 1
        PROVE  UndoneCell(choicePoints[k].TR, a)' = UndoneCell(choicePoints[k].TR, a)
    BY <2>1, <2>2 DEF SameMarks, UndoneCell
  <2>4. Bowen!Drop
    BY <2>1, <2>2, <2>3, SnapshotsStay, DropRefines
  <2>5. Store' = Store
    BY <2>1 DEF Store
  <2> QED BY <2>1, <2>4, <2>5 DEF Bowen!Next, Bowen!Discard
<1>4. CASE Retry
  <2>1. /\ B >= 0 /\ Restore /\ B' = B
        /\ choicePoints' = [choicePoints EXCEPT ![B + 1].NextClause = Instr.Arg1]
    BY <1>4, AtFacts DEF Retry, At, InRange
  <2>2. SameMarks(B + 1)
    BY <1>0, <2>1, NextClauseMarks DEF SameMarks
  <2>3. Saved' = Saved
    BY <2>1, <2>2, RestoreSnapshots, SavedStays
  <2> QED BY <2>1, <2>3, RestoreRefines DEF Bowen!Next, Bowen!Resume
<1>5. CASE Trust
  <2>1. B >= 0 /\ Restore /\ PopChoice
    BY <1>5, AtFacts DEF Trust, At, InRange
  <2>2. SameMarks(B) /\ B' = B - 1
    BY <2>1, PopMarks DEF PopChoice
  <2>3. Bowen!Drop
    BY <2>1, <2>2, RestoreSnapshots, DropRefines
  <2> QED BY <2>1, <2>3, RestoreRefines DEF Bowen!Next, Bowen!Resume
<1> QED BY <1>1, <1>2, <1>3, <1>4, <1>5 DEF Choice

\* A cut discards the snapshots above its level and keeps the others: what
\* tidyTrail drops is above HB, and so above all heap tops they remember.
LEMMA CutRefines ==
  ASSUME TypeOK, MarksNest, NEW level \in Int, level >= -1, CutTo(level)
  PROVE  Bowen!Next \/ Bowen!Cut
<1>1. UNCHANGED <<Heap, H, Trail, X, E, CP, choicePoints>> /\ Store' = Store
  BY DEF CutTo, heapVars, regVars, frameVars, Store
<1>2. PICK n \in Nat : n = level + 1
  OBVIOUS
<1>3. PICK m \in Nat : m = B + 1
  BY Ranges
<1>4. CASE B > level
  <2>1. B' = level /\ TR' = TidyTR /\ n <= m - 1
    BY <1>2, <1>3, <1>4, Ranges DEF CutTo
  <2>2. SameMarks(n)
    BY <1>1, <1>3, <2>1, Ranges DEF SameMarks
  <2>3. ASSUME NEW k \in 1 .. n, NEW a \in 0 .. choicePoints[k].H - 1
        PROVE  UndoneCell(choicePoints[k].TR, a)' = UndoneCell(choicePoints[k].TR, a)
    <3>0. k \in 1 .. B + 1 /\ k \in 1 .. Len(choicePoints)
      BY <1>3, <2>1, Ranges, SMTT(30)
    <3>1. TidyTR \in Nat /\ choicePoints[k].TR \in Nat
      BY <3>0, TidyStops, Ranges
    <3>2. PICK mark, t \in Nat : mark = choicePoints[k].TR /\ t = TidyTR
      BY <3>1
    <3>3. mark \in Nat /\ mark <= t /\ t <= TR /\ TR \in Nat
      BY <3>0, <3>2, TidyStops, Ranges
    <3>4. a < HB
      <4>1. choicePoints[k].H <= HB /\ choicePoints[k].H \in Nat /\ HB \in Nat
        BY <3>0, Ranges DEF MarksNest
      <4> QED BY <4>1
    <3>5. \A j \in t .. TR - 1 : Trail[j] # a
      <4> SUFFICES ASSUME NEW j \in t .. TR - 1, Trail[j] = a PROVE FALSE
        OBVIOUS
      <4>1. Trail[j] >= HB /\ HB \in Nat /\ a \in Int
        BY <3>2, TidyStops, Ranges, SMTT(30)
      <4> QED BY <3>4, <4>1
    <3>6. \A j : j \in mark .. TR - 1 <=> j \in mark .. t - 1 \/ j \in t .. TR - 1
      BY <3>3
    <3>7. UndoneCell(choicePoints[k].TR, a)' =
            IF \E j \in mark .. t - 1 : Trail[j] = a THEN REF(a) ELSE Heap[a]
      BY <1>1, <2>1, <3>2 DEF UndoneCell
    <3> QED BY <3>2, <3>5, <3>6, <3>7 DEF UndoneCell
  <2>4. SameSnapshots(n)
    BY <2>2, <2>3, SnapshotsStay
  <2>5. /\ Saved = [k \in 1 .. m |-> Snapshot(choicePoints[k])]
        /\ Saved' = [k \in 1 .. n |-> Snapshot(choicePoints[k])']
    <3>1. B' + 1 = n
      BY <1>2, <2>1
    <3> QED BY <1>3, <3>1 DEF Saved
  <2>6. PICK s, t : s = Saved' /\ t = Saved
    OBVIOUS
  <2>7. \A k \in 1 .. n : t[k] = s[k]
    <3>1. \A k \in 1 .. n : s[k] = Snapshot(choicePoints[k])' /\ k \in 1 .. m
      BY <2>1, <2>5, <2>6
    <3>2. \A k \in 1 .. n : t[k] = Snapshot(choicePoints[k])
      BY <2>5, <2>6, <3>1
    <3> QED BY <2>4, <3>1, <3>2 DEF SameSnapshots
  <2>8. IsTuple(s, n) /\ IsTuple(t, m) /\ n <= m
    BY <2>1, <2>5, <2>6 DEF IsTuple
  <2>9. Len(t) = m /\ SubSeq(t, 1, n) = s
    BY <2>7, <2>8, TuplePrefix
  <2>10. n \in 0 .. Len(Saved) - 1 /\ Saved' = SubSeq(Saved, 1, n)
    BY <2>1, <2>6, <2>9
  <2> QED BY <1>1, <2>10 DEF Bowen!Cut
<1>5. CASE ~(B > level)
  <2>1. UNCHANGED <<B, TR>>
    BY <1>5 DEF CutTo
  <2>2. Saved' = Saved
    BY <1>1, <2>1 DEF Saved, Snapshot, Undone
  <2> QED BY <1>1, <2>2 DEF Bowen!Next, Bowen!Work
<1> QED BY <1>4, <1>5

\* Backtracking resumes one.
LEMMA AlternativeRefines ==
  ASSUME TypeOK, MarksNest, TrailSound, B >= 0, TakeAlternative PROVE Bowen!Next
<1>1. Restore /\ B' = B /\ choicePoints' = choicePoints
  BY DEF TakeAlternative
<1>2. SameMarks(B + 1)
  BY <1>1, Ranges DEF SameMarks
<1>3. Saved' = Saved
  BY <1>1, <1>2, RestoreSnapshots, SavedStays
<1> QED BY <1>1, <1>3, RestoreRefines DEF Bowen!Next, Bowen!Resume

\* Failing without a choice point changes nothing.
LEMMA BacktrackRefines ==
  ASSUME TypeOK, MarksNest, TrailSound, Backtrack PROVE Bowen!Next
<1>1. CASE B >= 0 /\ TakeAlternative
  BY <1>1, AlternativeRefines
<1>2. CASE UNCHANGED <<heapVars, trailVars, choiceVars>>
  BY <1>2, StillGrows, WorkRefines DEF choiceVars, WorkStep, Bowen!Next
<1> QED BY <1>1, <1>2 DEF Backtrack

\* Every step of the machine that is no cut is a step of Backtracking, or
\* stutters.
LEMMA UncutRefines ==
  ASSUME TypeOK, MarksNest, TrailSound, [Next]_vars, PushesOnTop, ~NeckCut, ~Cut
  PROVE  [Bowen!Next]_(Bowen!vars)
<1>1. CASE UNCHANGED vars \/ Panic
  <2>1. UNCHANGED <<heapVars, trailVars, choicePoints, B, HB>>
    BY <1>1 DEF vars, Panic, choiceVars
  <2> QED BY <2>1, StillGrows, WorkRefines DEF WorkStep, Bowen!Next
<1>2. CASE Next /\ ~Panic
  <2>1. CASE Build \/ Match \/ Unify \/ Control
    BY <2>1, BuildWorks, MatchWorks, UnifyWorks, ControlWorks, WorkRefines DEF Bowen!Next
  <2>2. CASE Choice \/ Backtrack
    BY <2>2, ChoiceRefines, BacktrackRefines
  <2> QED BY <1>2, <2>1, <2>2 DEF Next
<1> QED BY <1>1, <1>2

\* Of code without cuts that is every step.
LEMMA StepRefines ==
  ASSUME NoCuts, TrailInv, [Next]_vars PROVE [Bowen!Next]_(Bowen!vars)
<1>1. MarksNest /\ NoneCut /\ ~NeckCut /\ ~Cut
  BY NestingIs, NoCutStep DEF TrailInv
<1>2. PushesOnTop
  BY <1>1 DEF PushesOnTop, NoneCut
<1> QED BY <1>1, <1>2, UncutRefines DEF TrailInv

\* The machine starts with the empty store.
LEMMA InitRefines == Init => Bowen!Init
<1> SUFFICES ASSUME Init PROVE Bowen!Init
  OBVIOUS
<1>1. 0 .. H - 1 = 1 .. 0 /\ 1 .. B + 1 = 1 .. 0
  BY DEF Init
<1>2. Store = <<>>
  BY <1>1 DEF Store
<1>3. Saved = <<>>
  BY <1>1 DEF Saved
<1> QED BY <1>2, <1>3 DEF Bowen!Init

\* Bowen's backtracking is what the machine does: whatever program without cuts
\* is loaded, each choice point stands for the store, the frame, the
\* continuation and the arguments of the moment it was pushed, and Run's
\* backtrack (exec.go) brings exactly these back.
THEOREM ImplementsBowen == NoCuts => (Spec => BacktrackingIsPersistent)
<1> SUFFICES ASSUME NoCuts PROVE Spec => BacktrackingIsPersistent
  OBVIOUS
<1>1. Init => TrailInv /\ Bowen!Init
  BY InitTrail, InitRefines
<1>2. TrailInv /\ [Next]_vars => TrailInv' /\ [Bowen!Next]_(Bowen!vars)
  BY TrailStep, StepRefines
<1> QED BY <1>1, <1>2, PTL DEF Spec, BacktrackingIsPersistent, Bowen!Spec

-----------------------------------------------------------------------------
(* Code with cuts.  A cut leaves the choice points it takes back in the    *)
(* slice (instructions.go), so that the next one pushed brings them back:  *)
(* that is the disagreement with "cut to choice point saved in Yn" that    *)
(* the run cut_resurrects shows.  Short of that a cut keeps what it should *)
(* of trail and choice points; which level it cuts to is not at issue.     *)

\* While choice points are cut off no other is pushed.
NonePushedOverCut ==
  [][Len(choicePoints') > Len(choicePoints) => B = Len(choicePoints) - 1]_vars

\* The inductive invariant of such behaviours.
CutInv == TypeOK /\ prog \in Programs /\ MarksNest /\ TrailSound

\* A push makes the slice longer.
LEMMA PushesLonger ==
  ASSUME TypeOK, [Len(choicePoints') > Len(choicePoints) => B = Len(choicePoints) - 1]_vars
  PROVE  PushesOnTop
<1> SUFFICES ASSUME PushChoice PROVE B = Len(choicePoints) - 1
  BY DEF PushesOnTop
<1>1. Len(choicePoints) \in Nat /\ Len(choicePoints') = Len(choicePoints) + 1
  BY DEF PushChoice, TypeOK, ChoicesOK
<1>2. vars' # vars
  BY <1>1 DEF vars, choiceVars
<1> QED BY <1>1, <1>2

\* The induction step, and what each step is to the immutable store.
LEMMA CutStep ==
  ASSUME CutInv, [Next]_vars, PushesOnTop
  PROVE  CutInv' /\ [Bowen!Next \/ Bowen!Cut]_(Bowen!vars)
<1> USE DEF CutInv
<1>1. CutInv'
  BY StepType, StepKeeps
<1>2. ASSUME NeckCut \/ Cut PROVE Bowen!Next \/ Bowen!Cut
  <2>1. PICK level \in Int : level >= -1 /\ CutTo(level)
    BY <1>2, CutLevel
  <2> QED BY <2>1, CutRefines
<1>3. ASSUME ~NeckCut, ~Cut PROVE [Bowen!Next]_(Bowen!vars)
  BY <1>3, UncutRefines
<1>4. [Bowen!Next \/ Bowen!Cut]_(Bowen!vars)
  BY <1>2, <1>3
<1> QED BY <1>1, <1>4

\* Whatever code is loaded, cuts included: as long as no choice point is pushed
\* over one that is cut off, a cut is final and backtracking brings back what
\* the choice points below it saved.  HB, which a cut does not lower, and
\* tidyTrail, which drops the entries above it only, do no harm.
THEOREM CutsAreFinal == Spec /\ NonePushedOverCut => CutIsFinal
<1>1. Init => CutInv /\ Bowen!Init
  <2> SUFFICES ASSUME Init PROVE CutInv /\ Bowen!Init
    OBVIOUS
  <2>1. TrailInv /\ Bowen!Init
    BY InitTrail, InitRefines
  <2> QED BY <2>1, NestingIs DEF TrailInv, CutInv
<1>2. CutInv /\ [Next]_vars
        /\ [Len(choicePoints') > Len(choicePoints) => B = Len(choicePoints) - 1]_vars
      => CutInv' /\ [Bowen!Next \/ Bowen!Cut]_(Bowen!vars)
  BY PushesLonger, CutStep DEF CutInv
<1> QED BY <1>1, <1>2, PTL DEF Spec, NonePushedOverCut, CutIsFinal, Bowen!CutSpec
=============================================================================
