# claudeWAM in TLA+

A verification project for this repository: the Warren Abstract Machine of
`machine.go`, `heap.go`, `unify.go` and `exec.go`, the tokeniser and parser of
`parse.go`, the clause compiler of `classify.go` and `compiler.go` and the one of
`compiler_l0.go`, the query interface of `interpret.go`, the printer of
`print.go` and the command line of `main.go`. TLC checks the models on small
instances; TLAPS proves, for every size of the arrays, the machine's types and
that `unify` solves its equations for every program, its backtracking for every
cut-free program, that cuts are final as long as nothing is pushed over what they
cut off, and for every program that keeps to the discipline of compiled code that
no register dangles, that Go panics for lack of space only and that answers are
read from the right frame; and for every text that the parser stays within its
tokens and closes what it opened.

## The system

| Component | State | Operations | Interacts with |
|---|---|---|---|
| Machine (`machine.go`, `exec.go`) | registers X, P, CP, E, B, HB, B0, S, Mode, Fail; frames, choice points | 34 instructions, `backtrack`, `Run` | executes a `Program`; calls heap and unify |
| Heap and trail (`heap.go`, `cell.go`) | Heap/H, Trail/TR | `deref`, `push`, `newVar`, `newStr`, `bind`, `trailIfNeeded`, `unwindTrail`, `tidyTrail` | called by the machine and unify |
| Unification (`unify.go`) | the push-down list of one call | `unify` | `deref`, `bind` |
| Compiler (`classify.go`, `compiler.go`) | code, labels, registers in use, variables seen | `CompileProgram`, `CompileQuery` | terms in, `Program` out; no link to the machine |
| Terms, atoms (`term.go`, `atoms.go`) | intern tables | `Atom`, `Func`, `collectVarNames` | shared by compiler, machine, printer |
| Query (`interpret.go`) | `started`, `done`, the machine | `NewQuery`, `Next`, `MayHaveMore`, `Interpret` | compiles, loads, calls `Run` and `backtrack`, prints bindings |
| Printer (`print.go`) | structures seen | `ReadTerm`, `readList` | reads the heap |
| Parser (`parse.go`) | position in the text, position in the tokens, Go call stack | `tokenise`, `ParseClauses`, `MustParseQuery` | terms to the compiler |
| L0 compiler (`compiler_l0.go`) | registers of variables, work queue, registers seen | `CompileQueryL0`, `CompileProgramL0` | used by its tests, which run its code on the machine |
| Command line (`main.go`) | lines printed | `runQuery`, `printBindings` | a caller of Query |

The program is sequential: one goroutine, nothing persisted, no messages and no
timeouts. What is hard is state that is destructively updated and must be
undone exactly:

- bindings are made in place, recorded on the trail only if they are older than
  the current choice point (`addr < HB`), and undone by unwinding; HB must be
  right after every try, retry and trust;
- the heap is cut back on backtracking while registers that are not arguments,
  and all Y slots, keep what they held;
- frames live in a slice that is never truncated, while choice points refer to
  frames their clause has left;
- the caller of `Next` resumes a machine that has stopped, by making it
  backtrack;
- the compiler decides, in an order Go's maps do not fix, which register holds
  what, and correctness depends on no two uses meeting;
- arrays are finite, and an index out of range ends the process;
- the parser indexes its tokens unchecked and is lenient about commas, and there
  is no error but a panic.

What makes each component correct: the machine with its trail behaves as if
backtracking took up a saved immutable store (`BacktrackingIsPersistent`,
`ChoicesNest`, `TrailSound`), a cut is final (`CutIsFinal`), and each iteration of
`unify` keeps the solutions of what was to be unified (`UnifySolves`); compiled code
never leaves a block unfinished or reads a dangling register (`ClosedAtCalls`,
`NoDanglingRead`), unifies complete terms only (`UnifiesWhole`), indexes nothing that is not there (`PanicsAtLimits`), makes no
circle of variables for `deref` to follow (`DerefDescends`) and ends a query in
the query's own frame (`AnswersLand`); together, a query's answers are those of resolution
(`AnswersAreSLD`) and the end is reported exactly (`NoMoreMeansComplete`), so that
what the command line prints is true (`OutputIsTrue`) and it ends (`CommandEnds`).
The parser reads what was written (`ReadsWhatIsWritten`), accepts what its grammar
says and nothing else (`ReadsTheGrammar`), never looks past its tokens
(`TokensSuffice`), ends on every text (`ParseEnds`) and closes its brackets in order
(`BracketsNest`). The code of chapter 2
unifies the two terms it was compiled from (`L0Unifies`).

## Modules

| Module | Models | Notes |
|---|---|---|
| `Cells` | `cell.go` | a cell is a record of tag and value; `ValueSpace` stands for 2^61 |
| `WAM` | `machine.go`, `heap.go`, `unify.go`, `exec.go` | one action per instruction |
| `Backtracking` | nothing: an abstract specification | what the README calls Bowen's design; `WAM` refines it |
| `Unification` | nothing: what `unify` is for | the solutions of the heap and the push-down list, over any universe of terms, circular ones included |
| `Syntax`, `Terms`, `Atoms` | `term.go`, `atoms.go` | trees; operators on them, `String` included; intern tables given whole |
| `Tokeniser`, `Parser` | `parse.go` | one action per branch of `tokenise`, and per step of the recursive descent |
| `Nesting` | nothing: an abstract specification | a pushdown automaton for brackets and full stops; `Parser` refines it |
| `Grammar` | nothing: the reference | the trees a token sequence can be read as, and the texts that write a tree |
| `Compiler` | `classify.go`, `compiler.go` | operators from terms to code |
| `CompilerL0` | `compiler_l0.go` | the three steps as operators |
| `ReadTerm` | `print.go`, `deref` | operators from the heap to trees; `Endless` says when `readList` has no end |
| `SLD` | nothing: the reference | answers of a query by resolution over an immutable substitution |
| `Discipline` | nothing: what `compiler.go` guarantees of its code | the rules a bytecode verifier would check, on `WAM`'s programs |
| `Query` | `interpret.go` | extends `WAM` with the caller's view; in the runs its operator constants `Solve`, `Reading`, `NeverEnds` and `UpToNames` are those of `SLD` and `ReadTerm` |
| `Command` | `main.go` | extends `Query` with the caller `runQuery` |
| `MCAnyCode`, `MCCutCode`, `MCQuery`, `MCCommand`, `MCParser`, `MCCompilerL0`, `MCDivergences`, `TermPairs` | | programs, queries, texts and terms for TLC |
| `WAMProofs`, `TrailProofs`, `UnifyProofs` | | theorems about `WAM`, for any code |
| `DisciplineFacts`, `DisciplineCode`, `DisciplineProofs` | | theorems about `WAM`, for code that keeps to the discipline |
| `QueryProofs` | | the same for `Query`, and theorems about `Command` |
| `ParserProofs` | | theorems about `Parser` |

How the machine's state corresponds to the code: a variable is the Go field of
the same name. Slices are sequences, so frame `E` is `envFrames[E+1]`. Three
variables are not fields: `chase` is the local of `deref` when an instruction
begins by dereferencing a register, `pdl` is the local of `unify`, and `panic`
says that an index check failed. An instruction that neither dereferences nor
unifies is one action; the others are a first action that fetches the
instruction, one action for each iteration of the loop (`ChaseStep`;
`UnifyDeref`, `UnifySame`, `UnifyBind`, `UnifyArgs`, `UnifyFail`), and for
`GET_STRUCTURE`, `GET_LIST` and `PUT_UNSAFE_VALUE` one that completes it. So a
binding or a loop without end is a sequence of steps that properties can see.
`GET_CONSTANT` dereferences before `unify` does so again; the model leaves that
to `unify`, which reaches the same cell. What a panicking instruction had
written before its panic is not modelled: nothing runs after it.

Where Go ranges over a map the order is a choice. Compilation is a function of
that choice: `Assignments(clause)` are all the ways variables may get
registers, and `QueryPrograms` all the programs that may result. Two listings
that `compiler_test.go` expects are checked as assumptions of `MCQuery`
(`CompilesQuerySection2_2`, `CompilesProgramSection2_3`), for either order.

`Query` starts with the clauses compiled and loaded, as `NewQuery` leaves them.
`Next` is split where it calls `Run`: `NextFirst`, `NextAlternative` or
`NextNone` begins a call, `RunStep` is a step of the machine, `RunReturns` the
end, reading the answer from the Y slots of the frame `E`. `RunReturns` is not
enabled when the answer cannot be read in finite time: a circle of pairs, which
`readList` follows for ever (circles through a structure are cut off by `seen`).
In `Query` the caller is free to stop. `Command` is a caller: its actions are
what `runQuery` does between two calls of `Next`, and `step` is where it is; the
flag `-all` is open until the first answer, the only place it is read. What
`runQuery` prints is a sequence of lines, a line being a text or one answer's
bindings. `Interpret` asks as `-all` does.

In `Parser` the Go calls are explicit. `doing` is the function about to run or
`return`, and each element of `stack` is a call that waits: for a head or goal
(`parseClause`), an argument (the same loop in `parseCompound` and `parseTerm`), an
element or a tail (`parseList`). `peek`, `next` and `expect` are the guards `Sees`
and the number of tokens an action consumes. All panics are `refused`. The
tokeniser runs to its end first, as `newParser` does.

## Runs

Passing:

| Run | What it checks and shows | Bounds |
|---|---|---|
| `any_code` | The machine on code no compiler emitted: a template with five gaps for binding and choice instructions, and one with three gaps for building terms below a choice point and in a frame that EXECUTE leaves, filled in all ways. `TypeOK`, `TrailSound`, `ChoicesNest`, `PopsToPrevious`, `UnifySolves`, and that `WAM` refines `Backtracking` | heap 7, trail 4, 2 X registers, slices 4; the solutions are looked for among all terms of depth two; labels point back into the code, so retries repeat and the limits, hence panics, are reached |
| `cut_code` | Two choice points, bindings above each, a cut (`NECK_CUT`, or `GET_LEVEL` and `CUT`), failure: `CutIsFinal` | heap 6, trail 3, slices 4 |
| `command` | 676 compiled programs: those of `interpret_test.go` and `compiler_test.go` (one element shorter), conjunctions that backtrack, lists, structures, a missing procedure, the largest integer, answers that are circular through a list, through a structure and through both, and `eq(s, t)` for all pairs of 26 terms over two variables with an acyclic unifier, and four that are too large; with and without `-all`. `AnswersAreSLD`, `NoMoreMeansComplete`, `ClosedAtCalls`, `NoDanglingRead`, `UnifiesWhole`, `AnswersLand`, `DerefDescends`, `PanicsAtLimits`, `OutputIsTrue`, `CommandEnds`; and that all of them keep to the discipline (`CompiledIsDisciplined`), with the notes that one pass over the code finds | heap and trail 48, 16 X registers, slices 8: large enough that all but the four, and those whose answer is a circular list, run to their end, where all answers are compared; the four use up the heap, the X registers, the frames and the push-down list; terms to unify of depth two, nested, with shared variables, and lists |
| `parser` | Facts, rules and pairs of clauses over terms of depth three in four layouts, what `String` prints of them, texts cut off inside, and all token sequences of up to four tokens after `f(` and `f([`, and of up to five after `p`. `TokensSuffice`, `ReadsWhatIsWritten`, `ReadsTheGrammar`, `ParseEnds`, and that `Parser` refines `Nesting` (`BracketsNest`) | the short sequences reach every pair of a waiting call and a next token, which is all that a choice of the parser depends on; `MaxInt` 99 stands for 2^63 - 1 |
| `chapter2` | The code for one term, then the code matching another, for all pairs of 87 terms with an acyclic unifier, and those of `compiler_l0_test.go`: `L0Unifies`. The listings its tests expect are assumptions (`CompilesQueryL0`, `CompilesProgramL0`, `FlattensAtoms`) | heap 32; nested structures, shared, repeated and anonymous variables, constants |

The bounds are enough because what the properties tell apart is whether a cell
is above or below a mark, and which of two or three choice points a mark
belongs to; three live choice points with bindings between them, retried and
popped in all orders, are within `any_code`'s. `TypeOK` includes `B0 = -1`: no
instruction ever sets the cut barrier, so `NECK_CUT` removes all choice points.

Violations, each a place where the code does not do what it says:

| Run | What the run shows |
|---|---|
| `cut_resurrects` | after a cut, TRUST_ME pops to the slice position below, where the choice point that was cut away still lies, not to the recorded `B` |
| `nested_list` | `?- eq(L, [a,b])`: the inner pair is built between `PUT_LIST` and the outer pair's cells; the answer is another list |
| `quoted_functor` | `v(X, g('X'(a)))`: a quoted functor with the name of a variable counts as seen, and an unset register is unified |
| `shared_subterm` | a structure that occurs twice in an answer prints as `...` |
| `clobbered_register` | `freshReg` returns an argument register of the goal being compiled when the head has fewer arguments |
| `no_return` | `p :- q(a).`: no permanent variable, so CALL, no ALLOCATE and no PROCEED; `Next` never returns |
| `constant_stack` | tail calls leave their frames in the slice, and it grows |

The programs of `command` avoid these (so rules have a permanent variable, and
goals have lists of one pair), because the passing properties are about
everything else.

`CHECK_DEADLOCK FALSE` is everywhere because the machine really stops: `Run`
returns, and after the last answer a query has nothing left to do.

Fairness: all of the program is loops and calls on one goroutine, which nothing
suspends, so each specification with a liveness property assumes weak fairness of
its whole next-state relation, or of the machine's part of it: `FairSpec` of
`Parser`, `FairCommandSpec` (the caller `runQuery` does not stop either), and
`FairQuerySpec`, which assumes nothing of the caller. `CommandEnds` is
also satisfied by a panic, which ends the process, and by the one case in which
the command is known not to end, a circular list in an answer. Whether it is that
case is said by the reference (`ListsEnd` in `SLD`, `Unprinted` in `Command`) and not by
the printer. Queries of either kind are in the run: `Circular`, with a circle of pairs,
and `Winding`, where each circle passes through a structure, `seen` cuts it off, the
command must end, and the answer must be the term with `...` where a structure
is met inside itself.

`ReadsTheGrammar` compares the parser with a grammar that is Prolog's but for two
things the code does: commas between arguments may be missing and one may follow
the last, and what follows a query's first compound is not looked at.
`L0Unifies` reads the answer from X1, as the tests do: program code uses the
registers from 2 on again, so that the query's `VarRegs` do not survive it.

Every property is shown to depend on the code by a mutation of it: the operators
marked "Mutation" (an off-by-one in the trail condition, a TRUST_ME that keeps
HB or the choice point, a trail top not reset, a register not restored, a comment
without end, a comma not looked at, a register shared by two anonymous
variables) each make one property fail.

## Proofs

Twenty theorems, in six groups. Those about `WAM` hold for every `HeapSize`, `TrailSize`,
`NumXRegs`, `MaxStack` and every set of `Programs`, from `SizesAssumption`,
`ProgramsAssumption` and `ValueSpaceAssumption`. The second group carries the
hypothesis `NoCuts`: no program holds `NECK_CUT` or `CUT`, as none the compiler
emits does. The fifth supposes more of the code.

1. `TypeCorrect` (`WAMProofs`): `[]TypeOK`. One lemma per group of instructions;
   `TypeOK` is inductive as it stands, because it already says that frames
   continue in older frames and choice points in existing ones. For cuts,
   `TidyTR` chooses the trail top at which `tidyTrail`'s loop stops; that there is
   one, and that all above it is to go (`TidyTRIs`), is the well-ordering of the
   naturals, applied to the trail tops above which all entries are to go.
2. `ChoicesAreNested`, `TrailIsSound` and `ImplementsBowen` (`TrailProofs`):
   `[]ChoicesNest`, `[]TrailSound` and `BacktrackingIsPersistent`.
   None is inductive alone. That HB is the top choice point's
   heap mark is what makes a trailed address lie below the mark, hence be undone
   by going back to it; that trailed cells are bound is what makes a newly
   trailed address new. The inductive invariant is
   `TrailInv == TypeOK /\ prog \in Programs /\ ChoicesNest /\ TrailSound`, where
   `ChoicesNest` is `MarksNest`, the part of it that a cut leaves true, and `NoneCut`.
   The proof sorts the steps: those that let the heap grow, those that bind one
   variable (trailed if and only if it is below HB), and those that push,
   restore or pop a choice point.

   For the refinement, the mapping takes the heap below H as the store, and for each
   choice point the store that unwinding to it would give. A step that grows the
   heap or binds is a `Work` step because it changes none of these snapshots: an
   address below a choice point's mark is below HB, so binding it is trailed,
   and unwinding takes it back. A restore unwinds exactly to the top snapshot.

   `UncutPopsToPrevious` follows from the same invariant: the
   defect that `cut_resurrects` shows needs a cut. `QueryTypeCorrect`,
   `QueryTrailIsSound` and `QueryImplementsBowen` (`QueryProofs`) say the same of
   `QuerySpec`, in which a caller makes a machine that has stopped backtrack,
   which is no step of `Run`. What the invariants need in addition is that a
   machine outside `Run` is not in the middle of `deref` (`Rested`).
3. `CutsAreFinal` (`TrailProofs`): for all code, cuts included,
   `Spec /\ NonePushedOverCut => CutIsFinal`. A cut lowers `B` and leaves HB and the
   slice as they are, so HB is the mark of a choice point that is gone and
   `ChoicesNest` is false. What stays true is `MarksNest`: HB is not below the marks
   of the choice points that are left, so that everything they need is trailed, though
   not everything that is trailed is needed. `tidyTrail` drops entries from the top, and
   stops at the first one that is below a mark that remains (`TidyStops`,
   `CutKeeps`). The hypothesis `NonePushedOverCut` speaks of the behaviour, not of
   the code: a choice point is pushed only when `B` is the last of the slice, that
   is, when no choice point that was cut off lies below. It cannot be left out, since that
   is exactly the situation of `cut_resurrects`; the programs of `cut_code`, which
   cut and fail, satisfy it. Theorem and run say nothing of the level: `Cut` in
   `Backtracking` may go to any. In the code `CUT` goes to what `GET_LEVEL` has put
   in its slot, and `NECK_CUT` always to `B0 = -1`.
4. `UnifyIsRight` (`UnifyProofs`): `UnifySolves` for all code. A solution assigns a
   term to every heap cell such that what the cells and the push-down list say is
   true. The set `Values` of terms is any set, so the theorem is about all of them at
   once: in one without infinite terms, a heap with a circle has no solution. The
   property says of each iteration of `unify`: if it goes
   on, the solutions of heap and push-down list together are those there were;
   if it fails there were none. It is not conditional on an occurs check, which the code
   does not make. Its one condition is that the terms compared are complete
   (`Whole`): a reference into a block that has not been built says nothing.
   Of arbitrary code that need not hold; of code that keeps to the discipline it
   always does (`UnifiesWhole`, in the next group), and `QueriesUnify`
   puts the two together for `QuerySpec`. `QueryUnifies` is the conditional form, for
   any code under any caller of `Next`.
5. `DisciplineIsEnough`, `DisciplinePanicsAtLimits` and `DisciplineDerefDescends`
   (`DisciplineProofs`): `[](ClosedAtCalls /\ NoDanglingRead /\ UnifiesWhole)`,
   `[]PanicsAtLimits` and `DerefDescends` for programs that are `Disciplined`. Of arbitrary code these
   are false, and of the compiler, which is recursive, nothing can be proved here.
   So `Discipline` states what its code is like, the way a bytecode verifier
   would check it: every instruction that control can reach has a note (which
   registers and slots hold a term, how many cells the open block lacks, whether
   the clause has its frame), it may use only what its note grants, and what it
   leaves must be what the next note says. TLC checks that the code of every
   program of `command` has such notes, with every register assignment
   (`CompiledIsDisciplined`); the theorems do the rest, for programs of any size.

   The notes are about the code, the inductive invariant about the machine. It is
   `TrailInv` and `Kept`, whose parts are: the note of the current instruction is
   true (`Current`); every choice point, with the trail unwound and the heap cut
   back to it, would find a closed heap, its arguments in it and the start of a
   clause (`SavedHolds`; that binding leaves this true is what `TrailInv` is for); and
   wherever control will return to, now or from a choice point, the slots that the code
   there reads hold a term (`SlotsHold`). Slots are not trailed, and a frame
   may be returned to from several choice points, so a slot written after a
   choice point was pushed still holds, when the machine goes back, a cell of a
   heap that is gone. What saves this is that a clause writes a slot only
   before it counts on it, and that the slots an older choice point counts on are
   among those that a newer one, and the current code, do (`Agree`, `Spares`).
   The frames that can be returned to are the least set closed under `CE` (`Live`).

   The discipline excludes cuts, TRY, RETRY, TRUST, SET_LIST and DEALLOCATE, none of
   which the compiler emits, and three things it does emit, which the runs
   `no_return`, `nested_list` and `quoted_functor` are about: a clause that calls
   without a frame of its own, a block begun inside another, and a register that is
   read before it is set.

   `QueriesAreDisciplined` and `CommandIsDisciplined` (`QueryProofs`) carry these
   results over to `QuerySpec` and `CommandSpec` and add `AnswersLand`: a query ends
   with the oldest frame, its own, as the current one. The hypothesis
   `HoldsAnswers`, that the compiler has given every variable of the query a
   slot, is part of `CompiledIsDisciplined`. That the command
   line is one of the callers holds by construction (`CommandIsACaller`): each of its actions is one
   of `Query`'s or leaves that state alone. `OutputFollows`: what `runQuery` prints is true if
   the answers it gets are, however many; its hypotheses `AnswersAreSLD` and
   `NoMoreMeansComplete` are only model-checked. The invariant `CallerInv` says how
   many of the answers are on the screen at each point of the loop.
6. `TokensAlwaysSuffice` (`ParserProofs`): `[]TokensSuffice` for every set of
   `Inputs`. The invariant `ScanInv` says that the position is in the tokens, and
   that EOF is the kind of the last token and of no other. So a step that has seen
   a kind other than EOF leaves a token to look at, and the only ones that consume
   a token unseen refuse the text.

   `ParserNests`: `BracketsNest`, a refinement. The mapping reads the open brackets off
   the calls that wait. Each step of the parser then reads the one or two tokens
   it consumes as the automaton would, or is a loop looking again at what
   follows, which the automaton does not see. The invariant `NestInv` adds to
   `ScanInv` that a clause's call is the first to wait and no other
   is, so that its full stop leaves nothing open, that the argument loop runs with its
   own call on top, and that nothing waits before the text is tokenised.

Only model-checked: that what the
compilers emit is right (`AnswersAreSLD`, `NoMoreMeansComplete`, `L0Unifies`) and
disciplined (`CompiledIsDisciplined`), and that the parser reads the right trees
(`ReadsWhatIsWritten`, `ReadsTheGrammar`), because `Compiler`, `CompilerL0`,
`ReadTerm`, `SLD` and `Grammar` consist of `RECURSIVE` operators, and induction over
those is out of the prover's reach; and liveness (`CommandEnds`, `ParseEnds`).
`Query` takes such operators as constants, so that its proofs need not know them.

## Not modelled

- The `String` methods of cells, functors and instructions; the layout of printed
  lines and the order of the names in a line.
- The growth of the intern tables: they are given whole. `Atom` and `Func` only
  append, and nothing reads a table before a name is in it.
- Texts beyond ASCII: the tokeniser takes bytes for runes.
- Integers of 2^61 and more, which `INT` cuts to 61 bits: the models' integers
  stop at the largest value a cell holds. There are no negative ones, since the
  tokeniser has no sign.
- Unifying two circular terms: `unify` has no end on some, nor has the reference.
  Queries build circular terms, but never unify two.

## Plan

In order; done in this version: all.

1. `Cells`, `WAM`, `Backtracking`; `any_code`, `cut_code`.
2. `WAMProofs`, `TrailProofs`.
3. `Terms`, `Atoms`, `Compiler`; the listings of `compiler_test.go`.
4. `ReadTerm`, `SLD`, `Query`, `Command`; `command`.
5. `MCDivergences`: where the code differs from what it says.
6. `Tokeniser`, `Parser`, `Grammar`, `ParserProofs`; `parser`.
7. `CompilerL0`; `chapter2`.
8. `Discipline` and its proofs: the heap of compiled code is closed, variables
   refer to older cells, panics are at limits.
9. `QueryProofs`: the theorems under a caller of `Next`, the query's own frame,
   and what the command line prints.
10. `Unification`, `UnifyProofs`: what `unify` keeps, for any code and under the
    discipline.
11. Cuts in the proofs: `CutsAreFinal`.
12. `Nesting`: that a return finds the call that waits for it, and closes its bracket.

What could come next: the pushing over cut choice points, if the code is changed
to pop to the recorded `B`; then `NonePushedOverCut` can be dropped.
