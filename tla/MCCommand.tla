----------------------------- MODULE MCCommand -----------------------------
(***************************************************************************)
(* The command line on the programs and queries of MCQuery, and whether    *)
(* their code keeps to the discipline that the proofs suppose.             *)
(***************************************************************************)
EXTENDS Command, MCQuery, Discipline

\* What a clause that begins at pc may count on: the arguments of its procedure,
\* those its choice instruction saves, or, for the query, nothing.
ArgumentsAt(p, pc) ==
  {0 .. p.Arity[f + 1] - 1 : f \in {g \in DOMAIN p.Labels : p.Labels[g] = pc}}
  \cup {0 .. i.Arg2 - 1 : i \in {j \in ToSet(p.Code) :
          j.Op \in {"TRY_ME_ELSE", "RETRY_ME_ELSE"} /\ j.Arg1 = pc}}
  \cup {{} : q \in {p.start} \cap {pc}}

\* The note of pc, if control reaches it, given those of the instructions before.
NoteAt(p, before, pc) ==
  LET entry == ArgumentsAt(p, pc) IN
  IF entry # {} THEN {[Noted(dx) EXCEPT !.top = (pc = p.start)] : dx \in entry}
  ELSE IF pc = 0 \/ p.Code[pc].Op \in {"EXECUTE", "PROCEED"} THEN {}
  ELSE { IF pc = Len(p.Code) THEN [n EXCEPT !.dx = {}] ELSE After(p, p.Code[pc], n) :
           n \in before[pc] }

\* The notes of a program, by one pass over its code.
Notes(p) ==
  LET Extend(before, pc) == Append(before, NoteAt(p, before, pc))
      notes == Pass(Extend, <<>>, [k \in 1 .. Len(p.Code) + 1 |-> k - 1])
  IN  Once(notes, LAMBDA ns :
        [pc \in {q \in 0 .. Len(p.Code) : ns[q + 1] # {}} |-> CHOOSE n \in ns[pc + 1] : TRUE])

\* What CompileProgram and CompileQuery emit keeps to the discipline, with every
\* order in which Go may range over its maps, and the query's variables are in
\* its frame when it ends: no register is read before it holds a term, no block
\* is left open, and every clause finds the frame it returns to (compiler.go).
CompiledIsDisciplined ==
  ~started => \E at \in {Notes(prog)} : Certified(prog, at) /\ HoldsAnswers(prog, at)
=============================================================================
