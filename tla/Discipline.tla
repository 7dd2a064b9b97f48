----------------------------- MODULE Discipline -----------------------------
(***************************************************************************)
(* The discipline of compiled code, as a bytecode verifier would check it: *)
(* a program keeps to it if each instruction that control can reach can be *)
(* given a note of what holds there (at[pc], pc 0-based) such that every   *)
(* instruction finds what it needs and leaves what the next one's note     *)
(* says.  No part of the repository checks this; compiler.go is written so *)
(* that it holds.  A note is a record of                                   *)
(*   need    how many cells the block that is open still lacks             *)
(*   block   "set" if SET_* push them, "unify" if UNIFY_* push or read     *)
(*           them, "none" if no block is open                              *)
(*   open    the X registers that refer to the open block                  *)
(*   dx      the other X registers that hold a term                        *)
(*   env     whether the current frame is the clause's own                 *)
(*   slots   the Y slots of that frame                                     *)
(*   dy      those that hold a term                                        *)
(*   top     whether this is the query, which returns to nobody            *)
(***************************************************************************)
EXTENDS WAM

\* At the start of a clause: only the registers dx hold a term.
Noted(dx) ==
  [need |-> 0, block |-> "none", open |-> {}, dx |-> dx, env |-> FALSE, slots |-> {},
   dy |-> {}, top |-> FALSE]

\* The instructions that fill a block, and with how many cells.
Sets    == {"SET_VARIABLE", "SET_VALUE", "SET_CONSTANT", "SET_VOID"}
Unifies == {"UNIFY_VARIABLE", "UNIFY_VALUE", "UNIFY_CONSTANT", "UNIFY_VOID"}
Filling(i) == IF i.Op \in {"SET_VOID", "UNIFY_VOID"} THEN i.Arg1
              ELSE IF i.Op \in Sets \cup Unifies THEN 1 ELSE 0

\* Those that open one, the size of the block, and the registers that will
\* refer to it.
Opens == {"PUT_STRUCTURE", "PUT_LIST", "GET_STRUCTURE", "GET_LIST"}
BlockSize(p, i) ==
  IF i.Op \in {"PUT_STRUCTURE", "GET_STRUCTURE"} THEN p.Arity[i.Arg1 + 1] ELSE 2
Opened(i) ==
  CASE i.Op = "PUT_STRUCTURE" -> {i.Arg2}
    [] i.Op = "PUT_LIST" -> {i.Arg1}
    [] OTHER -> {}

\* The registers given a term at once.
Given(i) ==
  CASE i.Op \in {"SET_VARIABLE", "UNIFY_VARIABLE", "GET_VARIABLE"} -> {i.Arg1}
    [] i.Op = "PUT_VARIABLE" -> {i.Arg1, i.Arg2}
    [] i.Op \in {"PUT_VALUE", "PUT_UNSAFE_VALUE", "PUT_CONSTANT"} -> {i.Arg2}
    [] OTHER -> {}

\* The registers that may be read.
Known(n) == n.dx \cup {-s : s \in n.dy}

\* What holds after instruction i, which found n.
Blocked(n, size, block, regs) ==
  IF size = 0 THEN [n EXCEPT !.need = 0, !.block = "none", !.open = {},
                             !.dx = @ \cup regs]
  ELSE [n EXCEPT !.need = size, !.block = block, !.open = regs, !.dx = @ \ regs]

\* Which instructions will fill the block.
BlockKind(i) == IF i.Op \in {"PUT_STRUCTURE", "PUT_LIST"} THEN "set" ELSE "unify"

\* The X registers and the Y slots given a term at once, which n then knows.
GivenX(i) == Given(i) \cap Nat
GivenY(i) == {-r : r \in Given(i) \ Nat}
WithGiven(i, n) == [n EXCEPT !.dx = @ \cup GivenX(i), !.dy = @ \cup GivenY(i)]

\* The note of the instruction after i.
After(p, i, n) ==
  CASE i.Op \in Opens -> Blocked(n, BlockSize(p, i), BlockKind(i), Opened(i))
    [] i.Op \in Sets \cup Unifies ->
         Blocked(WithGiven(i, n), n.need - Filling(i), n.block, n.open)
    [] i.Op = "ALLOCATE" -> [n EXCEPT !.env = TRUE, !.slots = 1 .. i.Arg1]
    [] i.Op = "CALL" -> [n EXCEPT !.dx = {}]
    [] OTHER -> WithGiven(i, n)

-----------------------------------------------------------------------------
(* The rules.  at is the note of every instruction that can be reached, and *)
(* of the address after the last one, where the program ends.               *)

\* A note that contradicts nothing: slots are those of the clause's own frame,
\* and registers refer to a block only while SET_* fill one.
IsNote(n) ==
  /\ n = [need |-> n.need, block |-> n.block, open |-> n.open, dx |-> n.dx,
          env |-> n.env, slots |-> n.slots, dy |-> n.dy, top |-> n.top]
  /\ n.need \in Nat /\ n.block \in {"set", "unify", "none"}
  /\ n.env \in BOOLEAN /\ n.top \in BOOLEAN
  /\ n.open \subseteq Nat /\ n.dx \subseteq Nat
  /\ n.slots \subseteq Nat \ {0} /\ n.dy \subseteq n.slots
  /\ n.slots # {} => n.env
  /\ n.block # "set" => n.open = {}
  /\ n.need = 0 => n.block = "none"

\* Only backtracking leads to an instruction that changes the alternative or
\* drops it.
IsRetry(p, q) == q < Len(p.Code) /\ p.Code[q + 1].Op \in {"RETRY_ME_ELSE", "TRUST_ME"}

\* Control may go on at q when what holds is n.
Continues(p, at, q, n) ==
  /\ q \in DOMAIN at
  /\ ~IsRetry(p, q)
  /\ at[q].dx \subseteq n.dx
  /\ at[q] = [n EXCEPT !.dx = at[q].dx]

\* A clause may begin at q, with its arguments in the registers dx.
Begins(at, q, dx) == q \in DOMAIN at /\ at[q].dx \subseteq dx /\ at[q] = Noted(at[q].dx)

\* The operands make sense: no cut, no second-level choice instruction; a
\* functor has an arity, a constant is one, and a block is built in an X register.
Legal(p, i) ==
  /\ i.Op \notin {"DEALLOCATE", "TRY", "RETRY", "TRUST", "NECK_CUT", "GET_LEVEL",
                  "CUT", "SET_LIST"}
  /\ i.Op \in {"PUT_STRUCTURE", "GET_STRUCTURE", "CALL", "EXECUTE"} => i.Arg1 < Len(p.Arity)
  /\ i.Op \in {"SET_CONSTANT", "UNIFY_CONSTANT", "GET_CONSTANT", "PUT_CONSTANT"} =>
       CellOf(i.Arg1).tag \in {TagATM, TagINT}
  /\ Opened(i) \subseteq Nat

\* Blocks are filled one at a time, by the instructions meant for them.
FillsBlock(i, n) ==
  IF i.Op \in Sets \cup Unifies
  THEN /\ n.block = (IF i.Op \in Sets THEN "set" ELSE "unify")
       /\ Filling(i) <= n.need
  ELSE n.need = 0

\* What is read holds a term; a Y slot is written once, in the clause's own
\* frame, which has it, and no register that refers to an open block is.
UsesRegs(i, n) ==
  /\ ReadRegs(i) \subseteq Known(n)
  /\ Given(i) \cap n.open = {}
  /\ \A r \in Given(i) : r < 0 => -r \in n.slots \ n.dy

\* Frames and control: a clause that calls or ends by EXECUTE has a frame of its
\* own, one that ends by PROCEED has none; the query calls after it has
\* allocated its frame, if it needs one.
Controls(p, at, pc) ==
  LET i == p.Code[pc + 1]
      n == at[pc]
  IN  /\ i.Op = "EXECUTE" => n.env /\ ~n.top
      /\ i.Op = "ALLOCATE" => ~n.env /\ (n.top => at[Len(p.Code)].env)
      /\ i.Op \in {"PROCEED", "TRY_ME_ELSE", "RETRY_ME_ELSE"} => ~n.env /\ ~n.top
      /\ i.Op = "CALL" => n.env = (n.top => at[Len(p.Code)].env)
      /\ i.Op \in {"CALL", "EXECUTE"} /\ i.Arg1 \in DOMAIN p.Labels =>
           LET q == p.Labels[i.Arg1]
           IN  Begins(at, q, 0 .. i.Arg2 - 1) /\ ~IsRetry(p, q)
      /\ i.Op = "TRY_ME_ELSE" =>
           0 .. i.Arg2 - 1 \subseteq n.dx /\ Begins(at, i.Arg1, 0 .. i.Arg2 - 1)
      /\ i.Op = "RETRY_ME_ELSE" => Begins(at, i.Arg1, n.dx)
      /\ i.Op \notin {"EXECUTE", "PROCEED"} => Continues(p, at, pc + 1, After(p, i, n))

\* The instruction at pc keeps to the rules.
Allowed(p, at, pc) ==
  LET i == p.Code[pc + 1]
      n == at[pc]
  IN  Legal(p, i) /\ FillsBlock(i, n) /\ UsesRegs(i, n) /\ Controls(p, at, pc)

\* The notes at show that program p keeps to the discipline: the query starts
\* with nothing, ends where the code ends, and every instruction in between
\* that has a note is allowed.
Certified(p, at) ==
  LET end == Len(p.Code) IN
  /\ DOMAIN at \subseteq 0 .. end /\ {p.start, end} \subseteq DOMAIN at
  /\ \A pc \in DOMAIN at : IsNote(at[pc])
  /\ at[p.start] = [Noted({}) EXCEPT !.top = TRUE] /\ ~IsRetry(p, p.start)
  /\ at[end] = [Noted({}) EXCEPT !.top = TRUE, !.env = at[end].env, !.slots = at[end].slots,
                                !.dy = at[end].dy]
  /\ \A pc \in DOMAIN at \ {end} : Allowed(p, at, pc)

\* The query's variables are in its frame when it has succeeded.
HoldsAnswers(p, at) ==
  \A v \in DOMAIN p.varRegs : p.varRegs[v] \in {-s : s \in at[Len(p.Code)].dy}

\* All programs keep to the discipline.
Disciplined == \A p \in Programs : \E at : Certified(p, at)

=============================================================================
