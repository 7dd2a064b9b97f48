------------------------------- MODULE Atoms -------------------------------
(***************************************************************************)
(* The intern tables of atoms.go: a name's id is its position, from 0.     *)
(* They are given whole, as they are once a program has been compiled,     *)
(* because only that different names have different ids matters.           *)
(***************************************************************************)
EXTENDS Integers, Functions

CONSTANTS
  AtomNames,   \* the atoms, in id order
  Functors     \* the functors, <<name, arity>>, in id order

ASSUME TablesAssumption ==
  /\ IsInjective(AtomNames)
  /\ IsInjective(Functors)

AtomId(name) == (CHOOSE k \in DOMAIN AtomNames : AtomNames[k] = name) - 1
AtomName(id) == AtomNames[id + 1]

FuncId(name, arity) ==
  (CHOOSE k \in DOMAIN Functors : Functors[k] = <<name, arity>>) - 1
FuncEntry(id) == Functors[id + 1]
=============================================================================
