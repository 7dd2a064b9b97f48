------------------------------- MODULE Syntax -------------------------------
(***************************************************************************)
(* The syntax trees of term.go, which the parser hands to the compiler.    *)
(* All kinds of term are records with the same fields, so that any two can *)
(* be compared.                                                            *)
(***************************************************************************)

Node(kind, name, val, args) ==
  [kind |-> kind, name |-> name, val |-> val, args |-> args]

Var(name)               == Node("Var", name, 0, <<>>)
Atom(name)              == Node("Atom", name, 0, <<>>)
Integer(val)            == Node("Integer", "", val, <<>>)
Compound(functor, args) == Node("Compound", functor, 0, args)

Clause(head, body) == [Head |-> head, Body |-> body]

\* The parser's terms for [], and for [h | t].
Nil        == Atom("[]")
Pair(h, t) == Compound(".", <<h, t>>)
=============================================================================
