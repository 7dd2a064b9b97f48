---------------------------- MODULE QueryProofs ----------------------------
(***************************************************************************)
(* What is proved of the machine holds however a caller uses it: between   *)
(* two answers Next makes a machine that has stopped backtrack, which is   *)
(* no step of Run.  And the command line is such a caller, which adds no   *)
(* error of its own.                                                       *)
(***************************************************************************)
EXTENDS Command, DisciplineProofs, UnifyProofs

\* The steps of the machine under a caller of Next.
Resumes == B >= 0 /\ chase = <<>> /\ TakeAlternative
MachineStep == [Next]_vars \/ Resumes

\* A machine that Run has left, or that has not started, is not dereferencing.
Rested == ~running => chase = <<>>

\* A halted machine has finished its instruction.
LEMMA HaltedRests == ASSUME TypeOK, Halted PROVE chase = <<>>
  BY DEF Halted, TypeOK, LoopsOK

\* Every step of Query leaves the machine alone, or is one of its steps, or
\* resumes it.
LEMMA QueryMachineStep ==
  ASSUME TypeOK, Rested, [QueryNext]_allVars PROVE MachineStep /\ Rested'
<1>1. CASE UNCHANGED allVars
  BY <1>1 DEF allVars, queryVars, MachineStep, Rested, vars, loopVars
<1>2. CASE NextFirst \/ NextNone
  BY <1>2 DEF NextFirst, NextNone, MachineStep, Rested, vars, loopVars, Idle
<1>3. CASE NextAlternative
  BY <1>3 DEF NextAlternative, MachineStep, Resumes, Rested, Idle, TakeAlternative, loopVars
<1>4. CASE RunStep
  BY <1>4 DEF RunStep, MachineStep, Rested, queryVars
<1>5. CASE RunReturns
  BY <1>5, HaltedRests DEF RunReturns, MachineStep, Rested, vars, loopVars
<1> QED BY <1>1, <1>2, <1>3, <1>4, <1>5 DEF QueryNext

\* The types, kept by the machine and by resuming it.
LEMMA MachineStepType ==
  ASSUME TypeOK, prog \in Programs, MachineStep PROVE TypeOK' /\ prog' \in Programs
<1>1. CASE [Next]_vars
  BY <1>1, StepType
<1>2. CASE Resumes
  BY <1>2, AlternativeType DEF Resumes, TakeAlternative
<1> QED BY <1>1, <1>2 DEF MachineStep

\* Trail and choice points, likewise.
LEMMA MachineStepTrail ==
  ASSUME NoCuts, TrailInv, MachineStep PROVE TrailInv'
<1>1. CASE [Next]_vars
  BY <1>1, TrailStep
<1>2. CASE Resumes
  <2>1. TypeOK' /\ prog' \in Programs
    BY <1>2, MachineStepType DEF TrailInv, MachineStep
  <2> QED BY <1>2, <2>1, AlternativeNests DEF TrailInv, Resumes
<1> QED BY <1>1, <1>2 DEF MachineStep

\* And the immutable store they implement.
LEMMA MachineStepRefines ==
  ASSUME NoCuts, TrailInv, MachineStep PROVE [Bowen!Next]_(Bowen!vars)
<1>1. CASE [Next]_vars
  BY <1>1, StepRefines
<1>2. CASE Resumes
  BY <1>2, NestingIs, AlternativeRefines DEF TrailInv, Resumes
<1> QED BY <1>1, <1>2 DEF MachineStep

\* Initially the machine rests.
LEMMA InitRests == Init => Rested
  BY DEF Init, Rested

-----------------------------------------------------------------------------
\* Registers, stacks and indices stay well formed, with any caller of Next.
THEOREM QueryTypeCorrect == QuerySpec => []TypeOK
<1> DEFINE Inv == TypeOK /\ prog \in Programs /\ Rested
<1>1. QueryInit => Inv
  BY InitType, InitRests DEF QueryInit
<1>2. Inv /\ [QueryNext]_allVars => Inv'
  BY QueryMachineStep, MachineStepType
<1>3. Inv => TypeOK
  OBVIOUS
<1> QED BY <1>1, <1>2, <1>3, PTL DEF QuerySpec

\* Choice points and trail are consistent whenever Next is called, so that it
\* may backtrack into a query that has returned an answer (interpret.go:56).
THEOREM QueryTrailIsSound == NoCuts => (QuerySpec => [](ChoicesNest /\ TrailSound))
<1> SUFFICES ASSUME NoCuts PROVE QuerySpec => [](ChoicesNest /\ TrailSound)
  OBVIOUS
<1> DEFINE Inv == TrailInv /\ Rested
<1>1. QueryInit => Inv
  BY InitTrail, InitRests DEF QueryInit
<1>2. Inv /\ [QueryNext]_allVars => Inv'
  BY QueryMachineStep, MachineStepTrail DEF TrailInv
<1>3. Inv => ChoicesNest /\ TrailSound
  BY DEF TrailInv
<1> QED BY <1>1, <1>2, <1>3, PTL DEF QuerySpec

\* An answer after the first is looked for from exactly the store that was
\* there when the choice point was pushed: Next resumes the search.
THEOREM QueryImplementsBowen == NoCuts => (QuerySpec => BacktrackingIsPersistent)
<1> SUFFICES ASSUME NoCuts PROVE QuerySpec => BacktrackingIsPersistent
  OBVIOUS
<1> DEFINE Inv == TrailInv /\ Rested
<1>1. QueryInit => Inv /\ Bowen!Init
  BY InitTrail, InitRests, InitRefines DEF QueryInit
<1>2. Inv /\ [QueryNext]_allVars => Inv' /\ [Bowen!Next]_(Bowen!vars)
  BY QueryMachineStep, MachineStepTrail, MachineStepRefines DEF TrailInv
<1> QED BY <1>1, <1>2, PTL DEF QuerySpec, BacktrackingIsPersistent, Bowen!Spec

\* runQuery calls Next as a caller may.
LEMMA CommandIsACaller == CommandSpec => QuerySpec
<1>1. CommandInit => QueryInit
  BY DEF CommandInit
<1>2. [CommandNext]_<<allVars, commandVars>> => [QueryNext]_allVars
  BY DEF CommandNext, CallNext, Working, NoAnswer, OnlyAnswer, FirstAnswer, AnotherAnswer,
     NoMoreAnswers, Println, QueryNext
<1> QED BY <1>1, <1>2, PTL DEF CommandSpec, QuerySpec
-----------------------------------------------------------------------------
(* Unification, under a caller of Next. *)

\* A machine that is not in Run has nothing to dereference and nothing to unify.
Settled == ~running => chase = <<>> /\ Len(pdl) < 2

\* A machine that has stopped has finished unify.
LEMMA HaltedSettles ==
  ASSUME TypeOK, Matching, Halted PROVE chase = <<>> /\ Len(pdl) < 2
<1>1. Len(pdl) \in Nat /\ chase = <<>>
  BY HaltedRests DEF TypeOK, LoopsOK
<1>2. Fail \/ Len(pdl) < 2
  BY DEF Halted
<1> QED BY <1>1, <1>2 DEF Matching

\* The invariant that unify needs, kept by every step of Query.
LEMMA MatchingStep ==
  ASSUME TypeOK, prog \in Programs, Matching, Settled, [QueryNext]_allVars
  PROVE  Matching' /\ Settled' /\ UnifyAction
<1>1. ASSUME [Next]_vars PROVE Matching' /\ UnifyAction
  BY <1>1, StillMatching, StepSolves
<1>2. CASE UNCHANGED allVars \/ NextFirst \/ NextNone
  <2>1. UNCHANGED vars /\ UNCHANGED <<chase, pdl>> /\ (~running' => ~running)
    BY <1>2 DEF allVars, queryVars, NextFirst, NextNone, vars, loopVars
  <2> QED BY <1>1, <2>1 DEF Settled
<1>3. CASE NextAlternative
  <2>1. ~running /\ UNCHANGED <<chase, pdl>> /\ (~running' => ~running)
    BY <1>3 DEF NextAlternative, Idle, TakeAlternative, loopVars
  <2>2. Len(pdl) < 2 /\ Len(pdl) \in Nat
    BY <2>1 DEF Settled, TypeOK, LoopsOK
  <2> QED BY <2>1, <2>2 DEF Settled, Matching, UnifyAction, Unifying
<1>4. CASE RunStep
  <2>1. Next /\ running'
    BY <1>4 DEF RunStep, queryVars
  <2> QED BY <1>1, <2>1 DEF Settled
<1>5. CASE RunReturns
  <2>1. UNCHANGED vars /\ UNCHANGED <<chase, pdl>> /\ Halted
    BY <1>5 DEF RunReturns, vars, loopVars
  <2>2. chase = <<>> /\ Len(pdl) < 2
    BY <2>1, HaltedSettles
  <2> QED BY <1>1, <2>1, <2>2 DEF Settled
<1> QED BY <1>2, <1>3, <1>4, <1>5 DEF QueryNext

\* unify loses no solution, however far a caller asks: what is undone between two
\* answers (interpret.go:56) is not undone in the middle of a unification.
THEOREM QueryUnifies == QuerySpec => UnifySolves
<1> DEFINE Inv == TypeOK /\ prog \in Programs /\ Matching /\ Settled
<1>1. QueryInit => Inv
  <2> SUFFICES ASSUME QueryInit PROVE Inv
    OBVIOUS
  <2>1. Init
    BY DEF QueryInit
  <2>2. Settled
    BY <2>1 DEF Init, Settled
  <2> QED BY <2>1, <2>2, InitType, InitMatches
<1>2. Inv /\ [QueryNext]_allVars => Inv' /\ UnifyAction
  <2> SUFFICES ASSUME Inv, [QueryNext]_allVars PROVE Inv' /\ UnifyAction
    OBVIOUS
  <2>1. Rested
    BY DEF Settled, Rested
  <2>2. MachineStep
    BY <2>1, QueryMachineStep
  <2> QED BY <2>2, MachineStepType, MatchingStep
<1> QED BY <1>1, <1>2, PTL DEF QuerySpec, UnifySolves, UnifyAction

-----------------------------------------------------------------------------
(* Code that keeps to the discipline, under a caller of Next. *)

\* The inductive invariant, for the notes at.
AskedInv(at) == TrailInv /\ Certified(prog, at) /\ Kept(at) /\ Settled

\* Resuming the search keeps what the notes say: the alternative begins with
\* the arguments its choice point saved.
LEMMA ResumesKept ==
  ASSUME NEW at, AskedInv(at), ~running, Resumes
  PROVE  TrailInv' /\ Certified(prog, at)' /\ Kept(at)'
<1>1. /\ TypeOK /\ prog \in Programs /\ ChoicesNest /\ TrailSound /\ Certified(prog, at)
      /\ ChoicesHold(at) /\ chase = <<>> /\ Len(pdl) < 2 /\ B >= 0 /\ TakeAlternative
  BY DEF AskedInv, TrailInv, Settled, Kept, Resumes
<1>2. TypeOK' /\ prog' \in Programs /\ prog' = prog
  BY <1>1, MachineStepType DEF MachineStep, TakeAlternative
<1>3. ChoicesNest' /\ TrailSound'
  BY <1>1, <1>2, AlternativeNests
<1>4. Kept(at)'
  BY <1>1, <1>2, AlternativeHolds
<1> QED BY <1>1, <1>2, <1>3, <1>4 DEF TrailInv

\* Every step of Query keeps the invariant.
LEMMA AskedStep ==
  ASSUME NEW at, AskedInv(at), [QueryNext]_allVars PROVE AskedInv(at)'
<1>1. TrailInv /\ Certified(prog, at) /\ Kept(at) /\ Settled
  BY DEF AskedInv
<1>2. ASSUME [Next]_vars PROVE TrailInv' /\ Certified(prog, at)' /\ Kept(at)'
  BY <1>1, <1>2, KeptStep
<1>3. CASE UNCHANGED allVars
  <2>1. UNCHANGED vars /\ UNCHANGED <<running, chase, pdl>>
    BY <1>3 DEF allVars, queryVars, vars, loopVars
  <2> QED BY <1>1, <1>2, <2>1 DEF AskedInv, Settled
<1>4. CASE NextFirst \/ NextNone
  <2>1. UNCHANGED vars /\ UNCHANGED <<chase, pdl>> /\ (~running' => ~running)
    BY <1>4 DEF NextFirst, NextNone, vars, loopVars
  <2> QED BY <1>1, <1>2, <2>1 DEF AskedInv, Settled
<1>5. CASE NextAlternative
  <2>1. ~running /\ UNCHANGED <<chase, pdl>>
    BY <1>5 DEF NextAlternative, Idle, TakeAlternative, loopVars
  <2>2. Resumes
    BY <1>1, <1>5, <2>1 DEF NextAlternative, Resumes, Settled
  <2> QED BY <1>1, <2>1, <2>2, ResumesKept DEF AskedInv, Settled
<1>6. CASE RunStep
  <2>1. Next /\ running'
    BY <1>6 DEF RunStep, queryVars
  <2> QED BY <1>2, <2>1 DEF AskedInv, Settled
<1>7. CASE RunReturns
  <2>1. UNCHANGED vars /\ UNCHANGED <<chase, pdl>>
    BY <1>7 DEF RunReturns, vars, loopVars
  <2>2. chase = <<>> /\ Len(pdl) < 2
    BY <1>1, <1>7 DEF RunReturns, Halted, Kept
  <2> QED BY <1>2, <2>1, <2>2 DEF AskedInv, Settled
<1> QED BY <1>3, <1>4, <1>5, <1>6, <1>7 DEF QueryNext

\* And so is a panic explained: a caller makes none.
LEMMA AskedPanics ==
  ASSUME NEW at, AskedInv(at), PanicsAtLimits, [QueryNext]_allVars PROVE PanicsAtLimits'
<1>1. TrailInv /\ Certified(prog, at) /\ Kept(at) /\ TypeOK /\ Rested
  BY DEF AskedInv, TrailInv, Settled, Rested
<1>2. CASE [Next]_vars
  BY <1>1, <1>2, PanicsStep
<1>3. CASE ~[Next]_vars
  <2>1. NextAlternative
    BY <1>3 DEF QueryNext, NextFirst, NextNone, RunStep, RunReturns, allVars
  <2> QED BY <2>1 DEF NextAlternative, Idle, TakeAlternative, PanicsAtLimits
<1> QED BY <1>2, <1>3

\* A query whose code keeps to the discipline, with its answers in its frame,
\* ends with them there.
LEMMA AskedAnswers ==
  ASSUME NEW at, AskedInv(at), HoldsAnswers(prog, at) PROVE AnswersLand
<1> SUFFICES ASSUME Halted, ~Fail, ~panic, NEW v \in DOMAIN prog.varRegs
             PROVE  E = 0 /\ Lands(GetReg(prog.varRegs[v]))
  BY DEF AnswersLand
<1>1. /\ TypeOK /\ IsProgram(prog) /\ Certified(prog, at) /\ Current(at) /\ chase = <<>>
      /\ ~InCode /\ Here = P
  BY DEF AskedInv, TrailInv, TypeOK, ControlOK, Kept, Halted, Here
<1>2. PICK n : n = at[P]
  OBVIOUS
<1>3. P = Len(prog.Code)
  BY <1>1 DEF Current, Certified, InCode, IsProgram
<1>4. /\ IsNote(n) /\ n.top /\ FrameHolds(at, n) /\ DataHolds(n)
  BY <1>1, <1>2, <1>3 DEF Current, Certified, Noted
<1>5. PICK s \in Nat : s > 0 /\ s \in n.dy /\ prog.varRegs[v] = -s
  <2>1. PICK s \in n.dy : prog.varRegs[v] = -s
    BY <1>2, <1>3 DEF HoldsAnswers
  <2> QED BY <1>4, <2>1 DEF IsNote
<1>6. n.env /\ E = 0
  BY <1>4, <1>5 DEF IsNote, FrameHolds
<1>7. LandsIn(prog, Heap, H, H, envFrames[E + 1].Y[s])
  <2>1. s \in n.slots
    BY <1>4, <1>5 DEF IsNote
  <2> QED BY <1>4, <1>5, <2>1 DEF DataHolds
<1>8. GetReg(prog.varRegs[v]) = envFrames[E + 1].Y[s]
  BY <1>5 DEF GetReg
<1> QED BY <1>6, <1>7, <1>8, LandsHere

\* The programs keep to the discipline, and the queries in them leave their
\* answers where Next looks for them.
QueriesDisciplined ==
  \A p \in Programs : \E at : Certified(p, at) /\ HoldsAnswers(p, at)

\* Whatever queries are asked, in whatever programs that keep to the discipline,
\* and however far their caller goes: nothing is called before it is built,
\* nothing read that backtracking left above the heap top (a search that Next
\* resumes starts there, interpret.go:56), only complete terms unified, and when a query succeeds the frame
\* Next reads (interpret.go, bindings) is the query's own, with a term in every slot;
\* Go panics for lack of space only, and deref goes in no circle.
THEOREM QueriesAreDisciplined ==
  QueriesDisciplined =>
    (QuerySpec => /\ [](ClosedAtCalls /\ NoDanglingRead /\ UnifiesWhole /\ AnswersLand /\ PanicsAtLimits)
                  /\ DerefDescends)
<1> SUFFICES ASSUME QueriesDisciplined
             PROVE  QuerySpec =>
                      /\ [](ClosedAtCalls /\ NoDanglingRead /\ UnifiesWhole /\ AnswersLand /\ PanicsAtLimits)
                      /\ DerefDescends
  OBVIOUS
<1> DEFINE Inv == (\E at : AskedInv(at) /\ HoldsAnswers(prog, at)) /\ PanicsAtLimits
<1>1. QueryInit => Inv
  <2> SUFFICES ASSUME QueryInit PROVE Inv
    OBVIOUS
  <2>1. Init /\ prog \in Programs /\ chase = <<>> /\ pdl = <<>>
    BY DEF QueryInit, Init
  <2>2. PICK at : Certified(prog, at) /\ HoldsAnswers(prog, at)
    BY <2>1 DEF QueriesDisciplined
  <2>3. Settled
    BY <2>1 DEF Settled
  <2>4. AskedInv(at)
    BY <2>1, <2>2, <2>3, InitKept DEF AskedInv
  <2>5. PanicsAtLimits
    BY <2>1 DEF Init, PanicsAtLimits
  <2> QED BY <2>2, <2>4, <2>5
<1>2. Inv /\ [QueryNext]_allVars => Inv'
  <2> SUFFICES ASSUME NEW at, AskedInv(at), HoldsAnswers(prog, at), PanicsAtLimits,
                      [QueryNext]_allVars
               PROVE  Inv'
    OBVIOUS
  <2>1. AskedInv(at)'
    BY AskedStep
  <2>2. prog' = prog
    <3>1. TypeOK /\ Rested
      BY DEF AskedInv, TrailInv, Settled, Rested
    <3>2. MachineStep
      BY <3>1, QueryMachineStep
    <3> QED BY <3>2, ProgramStays DEF MachineStep, Resumes, TakeAlternative, vars, status
  <2>3. PanicsAtLimits'
    BY AskedPanics
  <2> QED BY <2>1, <2>2, <2>3 DEF HoldsAnswers
<1>3. Inv => ClosedAtCalls /\ NoDanglingRead /\ UnifiesWhole /\ AnswersLand /\ PanicsAtLimits
  BY KeptIsSafe, KeptIsWhole, AskedAnswers DEF AskedInv
<1>4. Inv => DerefAction
  BY DerefStep DEF AskedInv
<1> QED BY <1>1, <1>2, <1>3, <1>4, PTL DEF QuerySpec, DerefDescends, DerefAction

\* So for the command line, which is such a caller.
COROLLARY CommandIsDisciplined ==
  QueriesDisciplined =>
    (CommandSpec => /\ [](ClosedAtCalls /\ NoDanglingRead /\ UnifiesWhole /\ AnswersLand /\ PanicsAtLimits)
                    /\ DerefDescends)
BY QueriesAreDisciplined, CommandIsACaller

\* So unify is given complete terms, and when it returns the bindings say what
\* the pair it was given said: nothing more, and nothing less.
COROLLARY QueriesUnify ==
  QueriesDisciplined =>
    (QuerySpec =>
       [][ Unifying /\ ~panic' => Solutions = IF Fail' THEN {} ELSE Solutions' ]_vars)
<1> SUFFICES ASSUME QueriesDisciplined
             PROVE  QuerySpec =>
                      [][ Unifying /\ ~panic' =>
                            Solutions = IF Fail' THEN {} ELSE Solutions' ]_vars
  OBVIOUS
<1>1. QuerySpec => []UnifiesWhole
  BY QueriesAreDisciplined, PTL
<1>2. UnifiesWhole /\ UnifyAction =>
        (Unifying /\ ~panic' => Solutions = IF Fail' THEN {} ELSE Solutions')
  BY DEF UnifiesWhole, UnifyAction
<1>3. QuerySpec => [][UnifyAction]_vars
  BY QueryUnifies, PTL DEF UnifySolves, UnifyAction
<1> QED BY <1>1, <1>2, <1>3, PTL
-----------------------------------------------------------------------------
(* What the command line prints. *)

\* The first n answers are on the screen.
Told(n) == screen = Separated(SubSeq(answers, 1, n))

\* What has been printed, at each point of runQuery: it is about to call Next;
\* waits, for an answer that Next has not returned or has; has ended.
CallerInv ==
  /\ \E A : answers \in Seq(A)
  /\ step \in {"call", "wait", "end"}
  /\ running => step = "wait"
  /\ step = "call" => Told(Len(answers)) /\ ~done
  /\ step = "wait" => started
  /\ step = "wait" /\ (running \/ done) => Told(Len(answers))
  /\ step = "wait" /\ ~running /\ ~done => answers # <<>> /\ Told(Len(answers) - 1)
  /\ step = "end" => OutputIsTrue

\* Nothing is separated from nothing.
LEMMA NothingSeparated ==
  ASSUME NEW A, NEW s \in Seq(A)
  PROVE  Separated(s) = <<>> <=> s = <<>>
<1>1. CASE s = <<>>
  <2>1. 1 .. 2 * Len(s) - 1 = 1 .. 0
    BY <1>1
  <2> QED BY <1>1, <2>1 DEF Separated
<1>2. CASE s # <<>>
  <2>1. Len(s) \in Nat /\ Len(s) >= 1
    BY <1>2
  <2>2. 1 \in 1 .. 2 * Len(s) - 1
    BY <2>1
  <2>3. 1 \in DOMAIN Separated(s)
    BY <2>2 DEF Separated
  <2>4. 1 \notin DOMAIN <<>>
    OBVIOUS
  <2> QED BY <1>2, <2>3, <2>4
<1> QED BY <1>1, <1>2

\* A prefix of answers, and the next one.
LEMMA Prefix ==
  ASSUME NEW A, NEW s \in Seq(A), NEW n \in 0 .. Len(s)
  PROVE  /\ SubSeq(s, 1, n) \in Seq(A) /\ Len(SubSeq(s, 1, n)) = n
         /\ \A k \in 1 .. n : SubSeq(s, 1, n)[k] = s[k]
         /\ SubSeq(s, 1, n) = <<>> <=> n = 0
<1>1. \A k \in 1 .. n : s[k] \in A
  OBVIOUS
<1>2. /\ SubSeq(s, 1, n) \in Seq(A) /\ Len(SubSeq(s, 1, n)) = n
      /\ \A k \in 1 .. n : SubSeq(s, 1, n)[k] = s[k]
  BY <1>1, SubSeqProperties
<1> QED BY <1>2

\* All of a sequence.
LEMMA AllOfIt == ASSUME NEW A, NEW s \in Seq(A) PROVE SubSeq(s, 1, Len(s)) = s
<1>1. /\ SubSeq(s, 1, Len(s)) \in Seq(A) /\ Len(SubSeq(s, 1, Len(s))) = Len(s)
      /\ \A k \in 1 .. Len(s) : SubSeq(s, 1, Len(s))[k] = s[k]
  BY Prefix
<1> QED BY <1>1, SeqEqual
\* The lines of a sequence of answers are one.
LEMMA SeparatedIsSeq ==
  ASSUME NEW A, NEW s \in Seq(A)
  PROVE  \E T : Separated(s) \in Seq(T)
<1>1. PICK n \in Nat : n = Len(s)
  OBVIOUS
<1>2. Separated(s) = [k \in 1 .. 2 * n - 1 |-> Separated(s)[k]]
  BY <1>1 DEF Separated
<1>3. CASE s = <<>>
  <2>1. Separated(s) = <<>>
    BY <1>3, NothingSeparated
  <2> QED BY <2>1
<1>4. CASE s # <<>>
  <2>1. n >= 1
    BY <1>1, <1>4
  <2>2. PICK m \in Nat : m = 2 * n - 1
    BY <2>1
  <2>3. Separated(s) \in Seq({Separated(s)[k] : k \in 1 .. m})
    BY <1>2, <2>2
  <2> QED BY <2>3
<1> QED BY <1>3, <1>4

\* Lines after an empty screen.
LEMMA FirstLines == ASSUME NEW T, NEW s \in Seq(T) PROVE <<>> \o s = s
  OBVIOUS

\* An answer more on the screen.
LEMMA OneMoreSeparated ==
  ASSUME NEW A, NEW s \in Seq(A), s # <<>>
  PROVE  LET before == SubSeq(s, 1, Len(s) - 1)
             last   == Shown(s[Len(s)])
         IN  Separated(s) = IF before = <<>> THEN <<last>>
                            ELSE Separated(before) \o <<Say(";"), last>>
<1>0. PICK n \in Nat : n = Len(s)
  OBVIOUS
<1> DEFINE before == SubSeq(s, 1, n - 1)
           last == Shown(s[n])
<1>1. n \in Nat /\ n >= 1 /\ n - 1 \in 0 .. n
  BY <1>0
<1>2. /\ before \in Seq(A) /\ Len(before) = n - 1
      /\ \A k \in 1 .. n - 1 : before[k] = s[k]
      /\ before = <<>> <=> n = 1
  <2>1. n - 1 \in 0 .. Len(s)
    BY <1>0, <1>1
  <2> QED BY <1>1, <2>1, Prefix
<1> HIDE DEF before
<1>3. CASE n = 1
  <2>1. 1 .. 2 * n - 1 = 1 .. 1
    BY <1>3
  <2>2. Separated(s) = [k \in 1 .. 1 |-> last]
    <3>1. \A k \in 1 .. 1 : k % 2 = 1 /\ (k + 1) \div 2 = n
      BY <1>3
    <3> QED BY <1>0, <2>1, <3>1 DEF Separated
  <2> QED BY <1>0, <1>2, <1>3, <2>2 DEF before
<1>4. CASE n # 1
  <2> DEFINE m == 2 * (n - 1) - 1
             L(k) == IF k % 2 = 1 THEN Shown(s[(k + 1) \div 2]) ELSE Say(";")
             T == {L(k) : k \in 1 .. m + 2}
  <2>1. m \in Nat /\ m >= 1 /\ 2 * n - 1 = m + 2
    BY <1>1, <1>4
  <2>2. Separated(s) = [k \in 1 .. m + 2 |-> L(k)]
    BY <1>0, <2>1 DEF Separated
  <2>3. Separated(before) = [k \in 1 .. m |-> L(k)]
    <3>1. \A k \in 1 .. m : k % 2 = 1 => (k + 1) \div 2 \in 1 .. n - 1
      BY <1>1, <1>4
    <3>2. \A k \in 1 .. m :
            (IF k % 2 = 1 THEN Shown(before[(k + 1) \div 2]) ELSE Say(";")) = L(k)
      BY <1>2, <3>1
    <3> QED BY <1>2, <3>2 DEF Separated
  <2>4. L(m + 1) = Say(";") /\ L(m + 2) = last
    <3>1. (m + 1) % 2 = 0 /\ (m + 2) % 2 = 1 /\ ((m + 2) + 1) \div 2 = n
      BY <1>1, <1>4
    <3> HIDE DEF m
    <3>2. L(m + 1) = Say(";")
      BY <2>1, <3>1, 0 # 1
    <3>3. L(m + 2) = last
      BY <1>0, <3>1
    <3> QED BY <3>2, <3>3
  <2>5. \A k \in 1 .. m + 2 : L(k) \in T
    OBVIOUS
  <2> HIDE DEF L, T, m
  <2>6. [k \in 1 .. m + 2 |-> L(k)] = [k \in 1 .. m |-> L(k)] \o <<L(m + 1), L(m + 2)>>
    BY <2>1, <2>5
  <2> QED BY <1>0, <1>2, <1>4, <2>2, <2>3, <2>4, <2>6 DEF before
<1> QED BY <1>0, <1>3, <1>4 DEF before
\* Printing keeps what is shown and ends with the truth.
LEMMA CallerStep ==
  ASSUME CallerInv, AnswersAreSLD, NoMoreMeansComplete, CommandNext PROVE CallerInv'
<1> USE DEF CallerInv
<1>1. PICK A : answers \in Seq(A)
  OBVIOUS
<1>2. PICK n \in Nat : n = Len(answers)
  BY <1>1
<1>3. SubSeq(answers, 1, n) = answers
  BY <1>1, <1>2, AllOfIt
<1>4. CASE CallNext
  <2>1. /\ step = "call" /\ step' = "wait" /\ screen' = screen /\ answers' = answers
        /\ started' /\ (running' \/ done')
    BY <1>4 DEF CallNext, NextFirst, NextAlternative, NextNone
  <2> QED BY <2>1 DEF Told
<1>5. CASE Working
  <2>1. step' = step /\ screen' = screen /\ running /\ step = "wait"
    BY <1>5 DEF Working, commandVars, RunStep, RunReturns
  <2>2. CASE RunStep
    BY <2>1, <2>2 DEF RunStep, queryVars, Told
  <2>3. CASE RunReturns /\ Fail
    BY <2>1, <2>3 DEF RunReturns, Told
  <2>4. CASE RunReturns /\ ~Fail
    <3>1. ~running' /\ ~done' /\ started' /\ answers' = Append(answers, Bindings)
      BY <2>1, <2>4 DEF RunReturns
    <3>2. answers' \in Seq(A \cup {Bindings}) /\ Len(answers') = n + 1 /\ answers' # <<>>
      BY <1>1, <1>2, <3>1
    <3>3. SubSeq(answers', 1, n) = answers
      <4>1. /\ SubSeq(answers', 1, n) \in Seq(A \cup {Bindings})
            /\ Len(SubSeq(answers', 1, n)) = n
            /\ \A k \in 1 .. n : SubSeq(answers', 1, n)[k] = answers'[k]
        BY <1>2, <3>2, Prefix
      <4>2. \A k \in 1 .. n : answers'[k] = answers[k]
        BY <1>1, <1>2, <3>1
      <4>3. answers \in Seq(A \cup {Bindings})
        BY <1>1
      <4> QED BY <1>2, <4>1, <4>2, <4>3, SeqEqual
    <3>4. Told(Len(answers) - 1)'
      <4>1. screen = Separated(answers)
        BY <1>2, <1>3, <2>1 DEF Told
      <4>2. Len(answers') - 1 = n
        BY <1>2, <3>2
      <4> QED BY <2>1, <3>3, <4>1, <4>2 DEF Told
    <3> QED BY <2>1, <3>1, <3>2, <3>4
  <2> QED BY <1>5, <2>2, <2>3, <2>4 DEF Working
<1>6. ASSUME NEW lines, NEW next, Println(lines, next)
      PROVE  /\ UNCHANGED <<answers, running, done, started, meaning>>
             /\ screen' = screen \o lines /\ step' = next
  BY <1>6 DEF Println, allVars, queryVars
<1>7. Returned(FALSE) => /\ step = "wait" /\ ~running /\ done /\ answers = meaning
                         /\ screen = Separated(answers)
  BY <1>2, <1>3 DEF Returned, Idle, AnswersAreSLD, Told
<1>8. Returned(TRUE) => /\ step = "wait" /\ ~running /\ ~done /\ started /\ n >= 1
                        /\ screen = Separated(SubSeq(answers, 1, n - 1))
  <2>1. Returned(TRUE) => step = "wait" /\ ~running /\ ~done
    BY DEF Returned, Idle
  <2>2. Returned(TRUE) => answers # <<>> /\ Told(Len(answers) - 1)
    BY <2>1
  <2>3. answers # <<>> => n >= 1
    BY <1>1, <1>2
  <2> QED BY <1>2, <2>1, <2>2, <2>3 DEF Told
<1>9. First <=> screen = <<>>
  BY DEF First
<1>10. CASE NoAnswer
  <2>1. answers = <<>> /\ meaning = <<>>
    BY <1>1, <1>7, <1>9, <1>10, NothingSeparated DEF NoAnswer
  <2>2. screen' = <<Say("false.")>> /\ step' = "end" /\ meaning' = meaning
    BY <1>6, <1>9, <1>10 DEF NoAnswer
  <2>3. OutputIsTrue'
    BY <2>1, <2>2 DEF OutputIsTrue, AllOf
  <2> QED BY <1>6, <1>7, <1>10, <2>2, <2>3 DEF NoAnswer
<1>11. ASSUME Returned(TRUE), screen = <<>> PROVE n = 1
  <2>1. SubSeq(answers, 1, n - 1) \in Seq(A) /\ Len(SubSeq(answers, 1, n - 1)) = n - 1
    BY <1>1, <1>2, <1>8, <1>11, Prefix
  <2>2. SubSeq(answers, 1, n - 1) = <<>>
    BY <1>8, <1>11, <2>1, NothingSeparated
  <2> QED BY <1>8, <1>11, <2>1, <2>2
<1>12. CASE OnlyAnswer
  <2>1. n = 1 /\ Idle /\ started /\ Answer = Shown(answers[1])
    BY <1>2, <1>8, <1>9, <1>11, <1>12 DEF OnlyAnswer, Returned, Answer
  <2>2. /\ screen' = <<Answer, Say(IF MayHaveMore THEN "(more)" ELSE "(1 solution)")>>
        /\ step' = "end" /\ meaning' = meaning
    <3> DEFINE lines == <<Answer, Say(IF MayHaveMore THEN "(more)" ELSE "(1 solution)")>>
    <3>1. screen = <<>> /\ Println(lines, "end")
      BY <1>9, <1>12 DEF OnlyAnswer
    <3>2. lines \in Seq({lines[1], lines[2]})
      OBVIOUS
    <3> HIDE DEF lines
    <3>3. <<>> \o lines = lines
      BY <3>2, FirstLines
    <3>4. screen' = lines /\ step' = "end" /\ meaning' = meaning
      BY <1>6, <3>1, <3>3
    <3> QED BY <3>4 DEF lines
  <2>3. Len(meaning) >= 1 /\ meaning[1] = answers[1]
    BY <1>2, <2>1 DEF AnswersAreSLD
  <2>4. meaning # <<>>
    BY <2>3
  <2>5. ~MayHaveMore => Len(meaning) = 1
    BY <1>2, <2>1 DEF NoMoreMeansComplete
  <2>6. OutputIsTrue'
    BY <2>1, <2>2, <2>3, <2>4, <2>5 DEF OutputIsTrue
  <2> QED BY <1>6, <1>8, <1>12, <2>2, <2>6 DEF OnlyAnswer
<1>13. CASE FirstAnswer \/ AnotherAnswer
  <2>1. Returned(TRUE) /\ answers # <<>> /\ Answer = Shown(answers[n]) /\ step' = "call"
    BY <1>1, <1>2, <1>6, <1>8, <1>13 DEF FirstAnswer, AnotherAnswer, Answer
  <2>2. screen' = IF screen = <<>> THEN <<Answer>> ELSE screen \o <<Say(";"), Answer>>
    <3>1. <<>> \o <<Answer>> = <<Answer>>
      <4>1. <<Answer>> \in Seq({Answer})
        OBVIOUS
      <4> QED BY <4>1, FirstLines
    <3> QED BY <1>6, <1>9, <1>13, <3>1 DEF FirstAnswer, AnotherAnswer
  <2>3. screen = <<>> <=> SubSeq(answers, 1, n - 1) = <<>>
    <3>1. SubSeq(answers, 1, n - 1) \in Seq(A)
      BY <1>1, <1>2, <1>8, <2>1, Prefix
    <3> QED BY <1>8, <2>1, <3>1, NothingSeparated
  <2>4. screen' = Separated(answers)
    BY <1>1, <1>2, <1>8, <2>1, <2>2, <2>3, OneMoreSeparated
  <2>5. UNCHANGED <<answers, running, done, started>>
    BY <1>6, <1>13 DEF FirstAnswer, AnotherAnswer
  <2> QED BY <1>2, <1>3, <1>8, <2>1, <2>4, <2>5 DEF Told
<1>14. CASE NoMoreAnswers
  <2>1. answers = meaning /\ answers # <<>> /\ screen = Separated(meaning)
    BY <1>1, <1>7, <1>9, <1>14, NothingSeparated DEF NoMoreAnswers
  <2>2. screen' = screen \o <<Say(".")>> /\ step' = "end" /\ meaning' = meaning
    BY <1>6, <1>14 DEF NoMoreAnswers
  <2>3. screen \o <<Say(".")>> = Append(screen, Say("."))
    <3>1. PICK L : screen \in Seq(L)
      BY <1>1, <2>1, SeparatedIsSeq
    <3> QED BY <3>1
  <2>4. OutputIsTrue'
    BY <2>1, <2>2, <2>3 DEF OutputIsTrue, AllOf
  <2> QED BY <1>6, <1>7, <1>14, <2>2, <2>4 DEF NoMoreAnswers
<1> QED BY <1>4, <1>5, <1>10, <1>12, <1>13, <1>14 DEF CommandNext
\* "false.", the answers and "(1 solution)" are true of the query, if the
\* answers Next returns are, and if it says so when there are no more: runQuery
\* prints every answer, in order, and each once (main.go:42).
THEOREM OutputFollows ==
  CommandSpec /\ []AnswersAreSLD /\ []NoMoreMeansComplete => []OutputIsTrue
<1> DEFINE Right == AnswersAreSLD /\ NoMoreMeansComplete
<1>1. CommandInit => CallerInv
  <2> SUFFICES ASSUME CommandInit PROVE CallerInv
    OBVIOUS
  <2>1. /\ answers = <<>> /\ screen = <<>> /\ step = "call"
        /\ ~running /\ ~done
    BY DEF CommandInit, QueryInit
  <2>2. <<>> \in Seq({}) /\ Len(<<>>) = 0
    OBVIOUS
  <2>3. SubSeq(<<>>, 1, Len(<<>>)) = <<>>
    BY <2>2, AllOfIt
  <2>4. Told(Len(answers))
    BY <2>1, <2>2, <2>3, NothingSeparated DEF Told
  <2> QED BY <2>1, <2>2, <2>4 DEF CallerInv
<1>2. CallerInv /\ Right /\ [CommandNext]_<<allVars, commandVars>> => CallerInv'
  <2> SUFFICES ASSUME CallerInv, Right, UNCHANGED <<allVars, commandVars>>
               PROVE  CallerInv'
    BY CallerStep
  <2> QED BY DEF CallerInv, Told, OutputIsTrue, allVars, queryVars, commandVars
<1>3. CallerInv => OutputIsTrue
  BY DEF CallerInv, OutputIsTrue
<1> QED BY <1>1, <1>2, <1>3, PTL DEF CommandSpec
=============================================================================
