------------------------------- MODULE ReadTerm -------------------------------
(***************************************************************************)
(* print.go: the printed form of a cell, as a tree.  A variable prints as  *)
(* its address, and a list that does not end in [] or nil as a List whose  *)
(* last part is the rest, marked Tail.                                     *)
(*                                                                         *)
(* Go's map seen is shared by the whole traversal, so readTerm returns it: *)
(* the result is a record of the tree and the structures met so far.       *)
(***************************************************************************)
EXTENDS Terms, Cells, Atoms, SequencesExt

PrintedVar(addr)    == Node("Var", "_", addr, <<>>)
PrintedList(parts)  == Node("List", "", 0, parts)
PrintedTail(t)      == Node("Tail", "", 0, <<t>>)
Ellipsis            == Node("Ellipsis", "...", 0, <<>>)
Unprintable         == Node("Unknown", "?", 0, <<>>)

RECURSIVE Deref(_, _)
Deref(heap, cell) ==
  Once(cell, LAMBDA c :
    IF IsREF(c) /\ heap[c.val] # c THEN Deref(heap, heap[c.val]) ELSE c)

EndsList(c) ==
  \E name \in {"[]", "nil"} \cap ToSet(AtomNames) : c = ATM(AtomId(name))

RECURSIVE ReadCell(_, _, _), ReadCells(_, _, _), ReadList(_, _, _, _)

ReadCell(heap, cell, seen) ==
  Once(cell, LAMBDA c :
  LET plain(t) == [tree |-> t, seen |-> seen]
      functor  == FuncEntry(heap[c.val].val)
      Args     == ReadCells(heap, [k \in 1 .. functor[2] |-> heap[c.val + k]],
                            seen \cup {c.val})
  IN  CASE c.tag = TagREF -> plain(PrintedVar(c.val))
        [] c.tag = TagATM -> plain(Atom(AtomName(c.val)))
        [] c.tag = TagINT -> plain(Integer(c.val))
        [] c.tag = TagSTR /\ c.val \in seen -> plain(Ellipsis)
        [] c.tag = TagSTR /\ c.val \notin seen ->
             IF functor[2] = 0
             THEN [tree |-> Atom(functor[1]), seen |-> seen \cup {c.val}]
             ELSE Once(Args, LAMBDA args :
                    [tree |-> Compound(functor[1], args.trees), seen |-> args.seen])
        [] c.tag = TagLIS -> ReadList(heap, c, <<>>, seen)
        [] c.tag \notin {TagREF, TagATM, TagINT, TagSTR, TagLIS} -> plain(Unprintable))

ReadCells(heap, cs, seen) ==
  Pass(LAMBDA acc, c :
         Once(ReadCell(heap, Deref(heap, c), acc.seen), LAMBDA r :
           [trees |-> Append(acc.trees, r.tree), seen |-> r.seen]),
       [trees |-> <<>>, seen |-> seen], cs)

\* readList: parts are the elements before cell c.
ReadList(heap, c, parts, seen) ==
  Once(Deref(heap, c), LAMBDA d :
    CASE EndsList(d) -> [tree |-> PrintedList(parts), seen |-> seen]
      [] ~EndsList(d) /\ d.tag # TagLIS ->
           Once(ReadCell(heap, d, seen), LAMBDA rest :
             [tree |-> PrintedList(Append(parts, PrintedTail(rest.tree))),
              seen |-> rest.seen])
      [] d.tag = TagLIS ->
           Once(ReadCell(heap, Deref(heap, heap[d.val]), seen), LAMBDA elem :
             ReadList(heap, heap[d.val + 1], Append(parts, elem.tree), elem.seen)))

\* The cells that readTerm and readList visit from c.
Parts(heap, c) ==
  CASE c.tag = TagSTR -> {Deref(heap, heap[c.val + k]) : k \in 1 .. FuncEntry(heap[c.val].val)[2]}
    [] c.tag = TagLIS -> {Deref(heap, heap[c.val]), Deref(heap, heap[c.val + 1])}
    [] OTHER -> {}

RECURSIVE Within(_, _)
Within(heap, cells) ==
  LET more == cells \cup UNION {Parts(heap, c) : c \in cells}
  IN  IF more = cells THEN cells ELSE Within(heap, more)

\* Only structures are marked as seen: pairs that lead from one to another in
\* a circle are read for ever.
RECURSIVE Circle(_, _)
Circle(heap, pairs) ==
  LET leading == {c \in pairs : Parts(heap, c) \cap pairs # {}}
  IN  IF leading = pairs THEN pairs # {} ELSE Circle(heap, leading)

\* Mutation: structures are not marked as seen.
EndlessUnseen(heap, c) ==
  Circle(heap, {d \in Within(heap, {Deref(heap, c)}) : d.tag \in {TagLIS, TagSTR}})

Endless(heap, c) == Circle(heap, {d \in Within(heap, {Deref(heap, c)}) : d.tag = TagLIS})

ReadTerm(heap, c) == ReadCell(heap, Deref(heap, c), {}).tree
=============================================================================
