---------------------------- MODULE Backtracking ----------------------------
(***************************************************************************)
(* What backtracking promises, without heap top, trail, HB or unwinding:   *)
(* the README's comparison with Bowen's compiler, whose substitution is    *)
(* immutable, so that to backtrack is to take up an older one.             *)
(*                                                                         *)
(* A choice point keeps a copy of the whole store, the argument registers, *)
(* the current frame and the continuation.  Between choices the store only *)
(* grows, and a cell it holds changes only when its variable is bound.     *)
(***************************************************************************)
EXTENDS Sequences, Cells

VARIABLES
  store,        \* the live cells, a function on 0 .. n-1
  args,         \* the argument registers
  env, cont,    \* current frame and continuation
  saved         \* the choice points, oldest first

vars == <<store, args, env, cont, saved>>

\* s is a record of the current state, with some prefix of the registers.
IsSnapshot(s) ==
  /\ s.store = store
  /\ s.env = env
  /\ s.cont = cont
  /\ \A k \in DOMAIN s.args : s.args[k] = args[k - 1]

Init == store = <<>> /\ saved = <<>>

Work ==
  /\ DOMAIN store \subseteq DOMAIN store'
  /\ \A a \in DOMAIN store : store'[a] = store[a] \/ store[a] = REF(a)
  /\ UNCHANGED saved

Save ==
  /\ Len(saved') = Len(saved) + 1
  /\ SubSeq(saved', 1, Len(saved)) = saved
  /\ IsSnapshot(saved'[Len(saved')])
  /\ UNCHANGED <<store, args, env, cont>>

Resumed(s) ==
  /\ store' = s.store
  /\ env' = s.env
  /\ cont' = s.cont
  /\ \A k \in DOMAIN s.args : args'[k - 1] = s.args[k]

Drop == saved # <<>> /\ saved' = SubSeq(saved, 1, Len(saved) - 1)

Resume == saved # <<>> /\ Resumed(saved[Len(saved)]) /\ (UNCHANGED saved \/ Drop)

Discard == Drop /\ UNCHANGED <<store, args, env, cont>>

Next == Work \/ Save \/ Resume \/ Discard

Spec == Init /\ [][Next]_vars

\* The same with cut, which may discard several choice points at once.
Cut ==
  /\ \E n \in 0 .. Len(saved) - 1 : saved' = SubSeq(saved, 1, n)
  /\ UNCHANGED <<store, args, env, cont>>

CutSpec == Init /\ [][Next \/ Cut]_vars
=============================================================================
