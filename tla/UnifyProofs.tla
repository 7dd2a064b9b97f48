---------------------------- MODULE UnifyProofs ----------------------------
(***************************************************************************)
(* unify solves what it is given: the steps of its loop leave the set of   *)
(* solutions as it is.                                                     *)
(***************************************************************************)
EXTENDS WAMProofs, Unification

\* A list of pairs with more pairs on top says what both say.
LEMMA MorePairs ==
  ASSUME NEW v, NEW s \in Seq(Cell), NEW n \in Nat, NEW t \in Seq(Cell), Len(t) = 2 * n
  PROVE  \A st : st = s \o t =>
           (PairsSay(v, st) <=>
              /\ PairsSay(v, s)
              /\ \A k \in 1 .. n : Meaning(v, t[2 * k - 1]) = Meaning(v, t[2 * k]))
<1>1. PICK l \in Nat : l = Len(s)
  OBVIOUS
<1>2. /\ s \o t \in Seq(Cell) /\ Len(s \o t) = l + 2 * n
      /\ \A k \in 1 .. l : (s \o t)[k] = s[k]
      /\ \A k \in 1 .. 2 * n : (s \o t)[l + k] = t[k]
  BY <1>1
<1>3. PICK st, m : st = s \o t /\ m = l + 2 * n
  OBVIOUS
<1>m. /\ m \in Nat /\ m = l + 2 * n
      /\ PairsSay(v, st) <=> \A k \in 1 .. m - 1 :
                               (m - k) % 2 = 1 => Meaning(v, st[k]) = Meaning(v, st[k + 1])
  <2>1. m \in Nat /\ m = l + 2 * n /\ Len(st) = m
    BY <1>2, <1>3
  <2> QED BY <2>1 DEF PairsSay
<1>4. ASSUME PairsSay(v, st) PROVE PairsSay(v, s)
  <2> SUFFICES ASSUME NEW k \in 1 .. l - 1, (l - k) % 2 = 1
               PROVE  Meaning(v, s[k]) = Meaning(v, s[k + 1])
    BY <1>1 DEF PairsSay
  <2>1. k \in 1 .. m - 1 /\ (m - k) % 2 = 1
    BY <1>m
  <2>2. Meaning(v, st[k]) = Meaning(v, st[k + 1])
    BY <1>m, <1>4, <2>1
  <2>3. k \in 1 .. l /\ k + 1 \in 1 .. l
    OBVIOUS
  <2> QED BY <1>2, <1>3, <2>2, <2>3
<1>5. ASSUME PairsSay(v, st), NEW k \in 1 .. n
      PROVE  Meaning(v, t[2 * k - 1]) = Meaning(v, t[2 * k])
  <2>1. PICK j \in Nat : j = l + 2 * k - 1
    OBVIOUS
  <2>2. j \in 1 .. m - 1 /\ (m - j) % 2 = 1
    BY <1>m, <2>1
  <2>3. Meaning(v, st[j]) = Meaning(v, st[j + 1])
    BY <1>m, <1>5, <2>2
  <2>4. /\ 2 * k - 1 \in 1 .. 2 * n /\ l + (2 * k - 1) = j
        /\ 2 * k \in 1 .. 2 * n /\ l + 2 * k = j + 1
    BY <2>1
  <2> QED BY <1>2, <1>3, <2>3, <2>4
<1>6. ASSUME PairsSay(v, s), \A k \in 1 .. n : Meaning(v, t[2 * k - 1]) = Meaning(v, t[2 * k])
      PROVE  PairsSay(v, st)
  <2> SUFFICES ASSUME NEW j \in 1 .. m - 1, (m - j) % 2 = 1
               PROVE  Meaning(v, st[j]) = Meaning(v, st[j + 1])
    BY <1>m
  <2>1. CASE j <= l
    <3>1. j \in 1 .. l - 1 /\ (l - j) % 2 = 1
      BY <1>m, <2>1
    <3>2. Meaning(v, s[j]) = Meaning(v, s[j + 1])
      BY <1>1, <1>6, <3>1 DEF PairsSay
    <3>3. j \in 1 .. l /\ j + 1 \in 1 .. l
      BY <3>1
    <3> QED BY <1>2, <1>3, <3>2, <3>3
  <2>2. CASE j > l
    <3>1. PICK k \in 1 .. n : j = l + 2 * k - 1
      <4>1. PICK k \in Int : k = (j + 1 - l) \div 2
        OBVIOUS
      <4>2. j = l + 2 * k - 1 /\ k \in 1 .. n
        BY <1>m, <2>2, <4>1
      <4> QED BY <4>2
    <3>2. /\ 2 * k - 1 \in 1 .. 2 * n /\ l + (2 * k - 1) = j
          /\ 2 * k \in 1 .. 2 * n /\ l + 2 * k = j + 1
      BY <3>1
    <3>3. st[j] = t[2 * k - 1] /\ st[j + 1] = t[2 * k]
      BY <1>2, <1>3, <3>2
    <3> QED BY <1>6, <3>3
  <2> QED BY <2>1, <2>2
<1> QED BY <1>3, <1>4, <1>5, <1>6

\* unify's list is the pair on top and the rest.
LEMMA TopPair ==
  ASSUME TypeOK, Unifying, NEW v
  PROVE  PairsSay(v, pdl) <=> PairsSay(v, Rest) /\ Meaning(v, D1) = Meaning(v, D2)
<1>1. pdl \in Seq(Cell) /\ Len(pdl) >= 2 /\ D1 \in Cell /\ D2 \in Cell /\ Rest \in Seq(Cell)
  BY PdlFacts
<1>2. PICK n \in Nat : n = Len(pdl) - 2 /\ Len(pdl) = n + 2
  BY <1>1
<1>3. Len(Rest) = n /\ \A k \in 1 .. n : Rest[k] = pdl[k]
  BY <1>1, <1>2 DEF Rest
<1>4. D1 = pdl[n + 1] /\ D2 = pdl[n + 2]
  BY <1>1, <1>2 DEF D1, D2
<1>5. PairsSay(v, pdl) <=>
        \A k \in 1 .. n + 1 : (n + 2 - k) % 2 = 1 => Meaning(v, pdl[k]) = Meaning(v, pdl[k + 1])
  BY <1>2 DEF PairsSay
<1>6. PairsSay(v, Rest) <=>
        \A k \in 1 .. n - 1 : (n - k) % 2 = 1 => Meaning(v, pdl[k]) = Meaning(v, pdl[k + 1])
  <2>1. \A k \in 1 .. n - 1 : Rest[k] = pdl[k] /\ Rest[k + 1] = pdl[k + 1]
    BY <1>3
  <2> QED BY <1>3, <2>1 DEF PairsSay
<1>7. \A k \in 1 .. n + 1 : (n + 2 - k) % 2 = 1 <=> k = n + 1 \/ (k \in 1 .. n - 1 /\ (n - k) % 2 = 1)
  OBVIOUS
<1>8. n + 1 \in 1 .. n + 1 /\ 1 .. n - 1 \subseteq 1 .. n + 1 /\ (n + 1) + 1 = n + 2
  OBVIOUS
<1> QED BY <1>4, <1>5, <1>6, <1>7, <1>8

-----------------------------------------------------------------------------
(* What the steps of the loop do to the meaning of a cell. *)

\* A step that leaves the heap alone changes no meaning.
LEMMA SameMeaning ==
  ASSUME UNCHANGED <<Heap, H, prog>>, NEW v
  PROVE  /\ \A c : Meaning(v, c)' = Meaning(v, c)
         /\ HeapSays(v)' <=> HeapSays(v)
         /\ \A s : PairsSay(v, s)' <=> PairsSay(v, s)
<1>1. \A c : Meaning(v, c)' = Meaning(v, c)
  BY DEF Meaning
<1>2. HeapSays(v)' <=> HeapSays(v)
  BY <1>1 DEF HeapSays
<1>3. \A s : PairsSay(v, s)' <=> PairsSay(v, s)
  BY <1>1 DEF PairsSay
<1> QED BY <1>1, <1>2, <1>3

\* A cell that lands keeps its meaning when a variable is bound.
LEMMA BoundMeaning ==
  ASSUME NEW b, Heap[b].tag = TagREF, NEW t, Heap' = [Heap EXCEPT ![b] = t], prog' = prog,
         Heap \in [Addr -> Cell], NEW c, Lands(c), NEW v
  PROVE  Meaning(v, c)' = Meaning(v, c)
<1>1. c.tag = TagSTR => Heap'[c.val] = Heap[c.val]
  BY DEF Lands, TagSTR, TagREF, TagFUN, TagLIS
<1> QED BY <1>1 DEF Meaning

\* Bind adds the equation between its two cells.
LEMMA BindSays ==
  ASSUME TypeOK, Unifying, Whole, Comparing, D1 # D2, IsREF(D1) \/ IsREF(D2), Bind(Heap, D1, D2),
         H' = H, prog' = prog, NEW v
  PROVE  /\ HeapSays(v)' <=> HeapSays(v) /\ Meaning(v, D1) = Meaning(v, D2)
         /\ \A s : s = Rest => (PairsSay(v, s)' <=> PairsSay(v, s))
<1>1. PICK n \in Nat : n = Len(pdl) - 2 /\ Len(pdl) = n + 2
  BY PdlFacts
<1>2. /\ Heap \in [Addr -> Cell] /\ H \in Nat /\ H <= HeapSize /\ HeapSize \in Nat
      /\ D1 \in Cell /\ D2 \in Cell
  BY PdlFacts, SizesAssumption DEF HeapOK
<1>3. Lands(D1) /\ Lands(D2)
  <2>1. D1 = pdl[n + 1] /\ D2 = pdl[n + 2] /\ n + 1 \in 1 .. Len(pdl) /\ n + 2 \in 1 .. Len(pdl)
    BY <1>1 DEF D1, D2
  <2> QED BY <2>1 DEF Whole
<1>4. PICK b, t : /\ b = BoundAddr(D1, D2) /\ t = BoundTo(D1, D2)
                  /\ \/ D1 = REF(b) /\ t = D2
                     \/ D2 = REF(b) /\ t = D1
  BY <1>2 DEF BoundAddr, BoundTo, BindsFirst, IsREF, REF, Cell
<1>5. b \in 0 .. H - 1 /\ b \in Addr /\ Heap[b] = REF(b) /\ Lands(t)
  <2>1. b \in Nat /\ b < H
    BY <1>2, <1>3, <1>4 DEF REF, Lands, Cell
  <2>2. Heap[b] = REF(b)
    BY <1>4 DEF Comparing, Resolved, IsREF, REF
  <2> QED BY <1>2, <1>3, <1>4, <2>1, <2>2 DEF Addr
<1>6. Heap' = [Heap EXCEPT ![b] = t]
  BY <1>4 DEF Bind
<1>7. \A c : Lands(c) => Meaning(v, c)' = Meaning(v, c)
  <2>1. Heap[b].tag = TagREF
    BY <1>5 DEF REF
  <2> QED BY <1>2, <1>6, <2>1, BoundMeaning
<1>8. Meaning(v, REF(b)) = v[b]
  BY DEF Meaning, REF, TagREF, TagSTR, TagLIS
<1>9. (Meaning(v, D1) = Meaning(v, D2)) <=> v[b] = Meaning(v, t)
  BY <1>4, <1>8
<1>10. \A a \in 0 .. H - 1 : /\ a \in Addr /\ Lands(Heap[a])
                             /\ Heap'[a] = IF a = b THEN t ELSE Heap[a]
  <2>1. \A a \in 0 .. H - 1 : a \in Addr /\ Lands(Heap[a])
    BY <1>2 DEF Addr, Whole
  <2> QED BY <1>2, <1>6, <2>1
<1>11. \A a \in 0 .. H - 1 :
         Meaning(v, Heap[a])' = IF a = b THEN Meaning(v, t) ELSE Meaning(v, Heap[a])
  <2> SUFFICES ASSUME NEW a \in 0 .. H - 1
               PROVE  Meaning(v, Heap[a])' = IF a = b THEN Meaning(v, t) ELSE Meaning(v, Heap[a])
    OBVIOUS
  <2>1. PICK c : c = Heap'[a]
    OBVIOUS
  <2>2. Lands(c) /\ Meaning(v, Heap[a])' = Meaning(v, c)'
    BY <1>5, <1>10, <2>1
  <2> QED BY <1>7, <1>10, <2>1, <2>2
<1>12. HeapSays(v)' <=> HeapSays(v) /\ v[b] = Meaning(v, t)
  <2>1. HeapSays(v)' <=> \A a \in 0 .. H - 1 : v[a] = Meaning(v, Heap[a])'
    BY DEF HeapSays
  <2>2. v[b] = Meaning(v, Heap[b])
    BY <1>5, <1>8
  <2> QED BY <1>5, <1>11, <2>1, <2>2 DEF HeapSays
<1>13. \A k \in 1 .. Len(Rest) : Lands(Rest[k])
  <2>1. Len(Rest) = n /\ \A k \in 1 .. n : Rest[k] = pdl[k] /\ k \in 1 .. Len(pdl)
    BY <1>1, PdlFacts DEF Rest
  <2> QED BY <2>1 DEF Whole
<1>14. ASSUME NEW s, s = Rest PROVE PairsSay(v, s)' <=> PairsSay(v, s)
  <2>1. \A k \in 1 .. Len(s) - 1 : k \in 1 .. Len(s) /\ k + 1 \in 1 .. Len(s)
    BY <1>1, <1>14, PdlFacts
  <2>2. \A k \in 1 .. Len(s) - 1 : /\ Meaning(v, s[k])' = Meaning(v, s[k])
                                   /\ Meaning(v, s[k + 1])' = Meaning(v, s[k + 1])
    BY <1>7, <1>13, <1>14, <2>1
  <2> QED BY <2>2 DEF PairsSay
<1> QED BY <1>9, <1>12, <1>14
\* Two structures with the same functor, or two lists, are equal if what the
\* pairs pushed in their place hold is.
LEMMA ArgsSay ==
  ASSUME TypeOK, Unifying, Whole, UnifyArgs, NEW v, HeapSays(v)
  PROVE  PairsSay(v, pdl)' <=> PairsSay(v, pdl)
<1>1. PICK x, y, r, p2 : x = D1.val /\ y = D2.val /\ r = Rest /\ p2 = pdl'
  OBVIOUS
<1>2. /\ x \in Nat /\ y \in Nat /\ r \in Seq(Cell) /\ H \in Nat /\ HeapOK /\ Len(pdl) >= 2
      /\ Heap \in [Addr -> Cell] /\ Len(pdl) \in Nat /\ H <= HeapSize
  BY <1>1, PdlFacts, SizesAssumption DEF Cell, HeapOK
<1>3. Lands(D1) /\ Lands(D2)
  <2>1. D1 = pdl[Len(pdl) - 1] /\ Len(pdl) - 1 \in 1 .. Len(pdl) /\ Len(pdl) \in 1 .. Len(pdl)
    BY <1>2 DEF D1
  <2> QED BY <2>1 DEF Whole, D2
<1>4. PICK a1 \in Int, a2 \in Int, n \in Nat :
        /\ a1 >= -1 /\ a2 >= -1 /\ a1 + n < H /\ a2 + n < H
        /\ p2 = r \o CellPairs(a1, a2, n)
        /\ (Meaning(v, D1) = Meaning(v, D2)) <=> \A k \in 1 .. n : v[a1 + k] = v[a2 + k]
  <2>1. CASE /\ BothSTR /\ STRInRange /\ SameFunctor /\ ArityInRange
             /\ pdl' = Rest \o CellPairs(D1.val, D2.val, prog.Arity[Heap[D1.val].val + 1])
    <3>1. PICK f, n : /\ f = Heap[x].val /\ f = Heap[y].val /\ n = prog.Arity[f + 1]
                      /\ f < Len(prog.Arity)
      BY <1>1, <2>1 DEF SameFunctor, ArityInRange
    <3>2. /\ x < H /\ Heap[x].tag = TagFUN /\ x + n < H /\ y + n < H
          /\ D1.tag = TagSTR /\ D2.tag = TagSTR
      <4>1. D1.tag = TagSTR /\ D2.tag = TagSTR
        BY <2>1 DEF BothSTR
      <4>2. /\ D1.val < H /\ Heap[D1.val].tag = TagFUN
            /\ D1.val + prog.Arity[Heap[D1.val].val + 1] < H
            /\ D2.val + prog.Arity[Heap[D2.val].val + 1] < H
        BY <1>3, <4>1 DEF Lands, TagREF, TagSTR, TagLIS
      <4> QED BY <1>1, <3>1, <4>1, <4>2
    <3>3. n \in Nat
      <4>1. f \in Nat
        <5>1. x \in Addr
          BY <1>2, <3>2, SizesAssumption DEF Addr
        <5> QED BY <1>2, <3>1, <5>1 DEF Cell
      <4>2. prog.Arity \in Seq(Nat)
        BY DEF TypeOK, ControlOK, IsProgram
      <4> QED BY <3>1, <4>1, <4>2, SMTT(30)
    <3>4. /\ Meaning(v, D1) = <<TagSTR, f, Parts(v, x, n)>>
          /\ Meaning(v, D2) = <<TagSTR, f, Parts(v, y, n)>>
      BY <1>1, <3>1, <3>2 DEF Meaning, TagREF, TagSTR, TagLIS
    <3>5. (Meaning(v, D1) = Meaning(v, D2)) <=> \A k \in 1 .. n : v[x + k] = v[y + k]
      <4>1. (Parts(v, x, n) = Parts(v, y, n)) <=> \A k \in 1 .. n : v[x + k] = v[y + k]
        BY DEF Parts
      <4> QED BY <3>4, <4>1
    <3>6. /\ x \in Int /\ y \in Int /\ x >= -1 /\ y >= -1
          /\ p2 = r \o CellPairs(x, y, n)
      <4>1. prog.Arity[Heap[D1.val].val + 1] = n
        BY <1>1, <3>1
      <4> QED BY <1>1, <1>2, <2>1, <4>1
    <3> QED BY <3>2, <3>3, <3>5, <3>6
  <2>2. CASE BothLIS /\ PairInRange /\ pdl' = Rest \o CellPairs(D1.val - 1, D2.val - 1, 2)
    <3>1. x + 1 < H /\ y + 1 < H
      BY <1>1, <1>2, <1>3, <2>2 DEF BothLIS, Lands, TagREF, TagSTR, TagLIS
    <3>2. /\ Meaning(v, D1) = <<TagLIS, v[x], v[x + 1]>>
          /\ Meaning(v, D2) = <<TagLIS, v[y], v[y + 1]>>
      BY <1>1, <2>2 DEF Meaning, BothLIS, TagREF, TagSTR, TagLIS
    <3>3. PICK a1 \in Int, a2 \in Int, n \in Nat : a1 = x - 1 /\ a2 = y - 1 /\ n = 2
      BY <1>2
    <3>4. /\ a1 + 1 = x /\ a1 + 2 = x + 1 /\ a2 + 1 = y /\ a2 + 2 = y + 1
          /\ \A k \in 1 .. n : k = 1 \/ k = 2
      BY <1>2, <3>3
    <3>5. (Meaning(v, D1) = Meaning(v, D2)) <=> \A k \in 1 .. n : v[a1 + k] = v[a2 + k]
      BY <3>2, <3>3, <3>4
    <3>6. a1 >= -1 /\ a2 >= -1 /\ a1 + n < H /\ a2 + n < H
      BY <1>2, <3>1, <3>3
    <3>7. p2 = r \o CellPairs(a1, a2, n)
      <4>1. D1.val - 1 = a1 /\ D2.val - 1 = a2 /\ n = 2
        BY <1>1, <3>3
      <4> QED BY <1>1, <2>2, <4>1
    <3> QED BY <3>5, <3>6, <3>7
  <2> QED BY <2>1, <2>2 DEF UnifyArgs
<1>5. PICK t : t = CellPairs(a1, a2, n)
  OBVIOUS
<1>6. t \in Seq(Cell) /\ Len(t) = 2 * n
  <2>1. a1 + n < HeapSize /\ a2 + n < HeapSize
    BY <1>2, <1>4, SizesAssumption
  <2>2. Len(CellPairs(a1, a2, n)) = 2 * n
    BY DEF CellPairs
  <2> QED BY <1>2, <1>4, <1>5, <2>1, <2>2, CellPairsType
<1>7. \A k \in 1 .. n : t[2 * k - 1] = Heap[a1 + k] /\ t[2 * k] = Heap[a2 + k]
  <2> SUFFICES ASSUME NEW k \in 1 .. n
               PROVE  t[2 * k - 1] = Heap[a1 + k] /\ t[2 * k] = Heap[a2 + k]
    OBVIOUS
  <2>1. /\ 2 * k - 1 \in 1 .. 2 * n /\ (2 * k - 1) % 2 = 1 /\ ((2 * k - 1) + 1) \div 2 = k
        /\ 2 * k \in 1 .. 2 * n /\ (2 * k) % 2 = 0 /\ (2 * k) \div 2 = k
    OBVIOUS
  <2> QED BY <1>5, <2>1 DEF CellPairs
<1>8. \A k \in 1 .. n : /\ Meaning(v, Heap[a1 + k]) = v[a1 + k]
                        /\ Meaning(v, Heap[a2 + k]) = v[a2 + k]
  <2>1. \A k \in 1 .. n : a1 + k \in 0 .. H - 1 /\ a2 + k \in 0 .. H - 1
    BY <1>2, <1>4
  <2> QED BY <2>1 DEF HeapSays
<1>9. PairsSay(v, p2) <=>
        PairsSay(v, r) /\ \A k \in 1 .. n : Meaning(v, t[2 * k - 1]) = Meaning(v, t[2 * k])
  <2>1. p2 = r \o t /\ r \in Seq(Cell) /\ t \in Seq(Cell) /\ n \in Nat /\ Len(t) = 2 * n
    BY <1>2, <1>4, <1>5, <1>6
  <2> QED BY <2>1, MorePairs
<1>10. (\A k \in 1 .. n : Meaning(v, t[2 * k - 1]) = Meaning(v, t[2 * k])) <=>
         Meaning(v, D1) = Meaning(v, D2)
  BY <1>4, <1>7, <1>8
<1>11. PairsSay(v, pdl)' <=> PairsSay(v, p2)
  <2>1. UNCHANGED <<Heap, H, prog>>
    BY DEF UnifyArgs, heapVars, status
  <2>2. PairsSay(v, p2)' <=> PairsSay(v, p2)
    BY <2>1, SameMeaning
  <2> QED BY <1>1, <2>2
<1> QED BY <1>1, <1>9, <1>10, <1>11, TopPair

\* A step of deref leaves the meaning of the cell that is dereferenced.
LEMMA DerefSays ==
  ASSUME TypeOK, Unifying, Whole, UnifyDeref, NEW v, HeapSays(v)
  PROVE  PairsSay(v, pdl)' <=> PairsSay(v, pdl)
<1>1. PICK m \in Nat : m = Len(pdl) /\ m >= 2 /\ pdl \in Seq(Cell)
  BY PdlFacts
<1>2. PICK j \in 1 .. m : /\ IsREF(pdl[j])
                          /\ pdl' = [pdl EXCEPT ![j] = Heap[pdl[j].val]]
  <2>1. D1 = pdl[m - 1] /\ D2 = pdl[m] /\ m - 1 \in 1 .. m /\ m \in 1 .. m
    BY <1>1 DEF D1, D2
  <2> QED BY <1>1, <2>1 DEF UnifyDeref, Resolved
<1>3. pdl[j] \in Cell /\ pdl[j].val \in Nat /\ pdl[j].val < H /\ H \in Nat
  <2>1. pdl[j] \in Cell
    BY <1>1
  <2> QED BY <1>1, <1>2, <2>1, PdlFacts, SMTT(30) DEF Whole, Lands, IsREF, Cell, HeapOK
<1>4. PICK p2 : p2 = pdl'
  OBVIOUS
<1>5. Meaning(v, Heap[pdl[j].val]) = Meaning(v, pdl[j])
  <2>1. Meaning(v, pdl[j]) = v[pdl[j].val]
    BY <1>2 DEF Meaning, IsREF, TagREF, TagSTR, TagLIS
  <2>2. pdl[j].val \in 0 .. H - 1
    BY <1>3
  <2> QED BY <2>1, <2>2 DEF HeapSays
<1>6. Len(p2) = m /\ \A k \in 1 .. m : Meaning(v, p2[k]) = Meaning(v, pdl[k])
  BY <1>1, <1>2, <1>4, <1>5
<1>7. PairsSay(v, p2) <=> PairsSay(v, pdl)
  <2>1. \A k \in 1 .. m - 1 : k \in 1 .. m /\ k + 1 \in 1 .. m
    OBVIOUS
  <2> QED BY <1>1, <1>6, <2>1 DEF PairsSay
<1>8. PairsSay(v, p2)' <=> PairsSay(v, p2)
  <2>1. UNCHANGED <<Heap, H, prog>>
    BY DEF UnifyDeref, heapVars, status
  <2> QED BY <2>1, SameMeaning
<1> QED BY <1>4, <1>7, <1>8

\* Two cells that clash have no meaning in common.
LEMMA ClashSays ==
  ASSUME TypeOK, Unifying, Whole, UnifyFail, NEW v
  PROVE  Meaning(v, D1) # Meaning(v, D2)
<1>1. PICK c, d : c = D1 /\ d = D2 /\ c \in Cell /\ d \in Cell
  BY PdlFacts
<1>2. /\ c # d /\ c.tag # TagREF /\ d.tag # TagREF
      /\ c.tag = d.tag => c.val # d.val
  BY <1>1 DEF UnifyFail, IsREF, Cell
<1>3. CASE c.tag # d.tag
  <2>1. Meaning(v, c)[1] = c.tag /\ Meaning(v, d)[1] = d.tag
    BY <1>2 DEF Meaning, TagREF, TagSTR, TagLIS
  <2> QED BY <1>1, <1>3, <2>1
<1>4. CASE c.tag = d.tag /\ c.tag = TagSTR
  <2>1. Heap[c.val].val # Heap[d.val].val
    <3>1. Len(pdl) - 1 \in 1 .. Len(pdl) /\ Len(pdl) \in 1 .. Len(pdl)
      BY PdlFacts
    <3>2. Lands(c) /\ Lands(d)
      BY <1>1, <3>1 DEF Whole, D1, D2
    <3>3. /\ c.val < H /\ d.val < H /\ c.val \in Nat /\ d.val \in Nat
          /\ Heap[c.val].tag = TagFUN /\ Heap[d.val].tag = TagFUN
      BY <1>1, <1>4, <3>2 DEF Lands, Cell, TagREF, TagSTR, TagLIS
    <3>4. Heap[c.val] \in Cell /\ Heap[d.val] \in Cell
      BY <3>3, PdlFacts, SizesAssumption DEF HeapOK, Addr
    <3>5. Heap[c.val] # Heap[d.val]
      BY <1>1, <1>2, <1>4 DEF UnifyFail, BothSTR, SameFunctor
    <3> QED BY <3>3, <3>4, <3>5 DEF Cell
  <2>2. Meaning(v, c)[2] = Heap[c.val].val /\ Meaning(v, d)[2] = Heap[d.val].val
    BY <1>4 DEF Meaning, TagREF, TagSTR, TagLIS
  <2> QED BY <1>1, <2>1, <2>2
<1>5. CASE c.tag = d.tag /\ c.tag # TagSTR
  <2>1. c.tag # TagLIS
    BY <1>1, <1>2, <1>5 DEF UnifyFail, BothLIS
  <2>2. Meaning(v, c)[2] = c.val /\ Meaning(v, d)[2] = d.val
    BY <1>2, <1>5, <2>1 DEF Meaning
  <2> QED BY <1>1, <1>2, <1>5, <2>2
<1> QED BY <1>3, <1>4, <1>5

-----------------------------------------------------------------------------
(* The loop. *)

\* One iteration.
LEMMA UnifyStepSolves ==
  ASSUME TypeOK, Unifying, ~Fail, Whole, Unify
  PROVE  Solutions = IF Fail' THEN {} ELSE Solutions'
<1>1. H' = H /\ prog' = prog
  BY DEF Unify, UnifyDeref, UnifySame, UnifyBind, UnifyArgs, UnifyFail, heapVars, status
<1>f. TypeOK'
  BY UnifyType
<1>2. CASE UnifyFail
  <2>1. Fail' = TRUE
    BY <1>2 DEF UnifyFail
  <2>2. \A v : ~PairsSay(v, pdl)
    BY <1>2, ClashSays, TopPair
  <2> QED BY <2>1, <2>2 DEF Solutions
<1>3. CASE ~UnifyFail
  <2>1. Fail' = FALSE
    <3>1. Fail' = Fail
      BY <1>3 DEF Unify, UnifyDeref, UnifySame, UnifyBind, UnifyArgs, status
    <3> QED BY <3>1 DEF TypeOK, ControlOK
  <2>2. ASSUME NEW v
        PROVE  (HeapSays(v) /\ PairsSay(v, pdl)) <=> (HeapSays(v)' /\ PairsSay(v, pdl)')
    <3>1. CASE UnifyDeref \/ UnifyArgs
      <4>1. UNCHANGED <<Heap, H, prog>>
        BY <3>1 DEF UnifyDeref, UnifyArgs, heapVars, status
      <4> QED BY <3>1, <4>1, SameMeaning, DerefSays, ArgsSay
    <3>2. CASE UnifySame
      <4>1. UNCHANGED <<Heap, H, prog>> /\ pdl' = Rest /\ D1 = D2
        BY <3>2 DEF UnifySame, heapVars, status
      <4>2. PICK s : s = Rest
        OBVIOUS
      <4>3. PairsSay(v, s)' <=> PairsSay(v, s)
        BY <4>1, SameMeaning
      <4>4. PairsSay(v, pdl)' <=> PairsSay(v, s)'
        BY <4>1, <4>2
      <4> QED BY <4>1, <4>2, <4>3, <4>4, SameMeaning, TopPair
    <3>3. CASE UnifyBind
      <4>1. /\ Comparing /\ D1 # D2 /\ (IsREF(D1) \/ IsREF(D2)) /\ Bind(Heap, D1, D2)
            /\ pdl' = Rest
        BY <3>3 DEF UnifyBind
      <4>2. PICK s : s = Rest
        OBVIOUS
      <4>3. /\ HeapSays(v)' <=> HeapSays(v) /\ Meaning(v, D1) = Meaning(v, D2)
            /\ PairsSay(v, s)' <=> PairsSay(v, s)
        BY <1>1, <4>1, <4>2, BindSays
      <4>4. PairsSay(v, pdl)' <=> PairsSay(v, s)'
        BY <4>1, <4>2
      <4> QED BY <4>2, <4>3, <4>4, TopPair
    <3> QED BY <1>3, <3>1, <3>2, <3>3 DEF Unify
  <2>3. Solutions' = { v \in [0 .. H - 1 -> Values] : HeapSays(v)' /\ PairsSay(v, pdl)' }
    BY <1>1 DEF Solutions
  <2> QED BY <2>1, <2>2, <2>3 DEF Solutions
<1> QED BY <1>2, <1>3

\* Only unify's loop runs while there are pairs left, if nothing panics.
LEMMA OnlyUnify ==
  ASSUME TypeOK, Unifying, ~Fail, Next, ~panic' PROVE Unify
<1>1. ~Ready /\ ~Chasing
  <2>1. PICK n \in Nat : n = Len(pdl) /\ n >= 2 /\ ~(n < 2)
    BY DEF Unifying, TypeOK, LoopsOK
  <2>2. chase = <<>>
    BY <2>1 DEF TypeOK, LoopsOK
  <2> QED BY <2>1, <2>2 DEF Ready, Chasing
<1>2. \A op : ~At(op)
  BY <1>1 DEF At
<1>3. ~Build
  BY <1>2 DEF Build, PutStructure, SetVariable, SetValue, SetConstant, SetList, SetVoid,
     PutVariable, PutValue, PutConstant, PutList, GetVariable, GetLevel, UnifyWrite, DataStep
<1>4. ~Match
  BY <1>1, <1>2 DEF Match, UnifyVariableRead, UnifyVoidRead, UnifyRead, GetUnify, StartChase,
     ChaseStep, GetStructure, GetList, PutUnsafeValue, ReadStep, Chased
<1>5. ~Control
  BY <1>2 DEF Control, Allocate, Deallocate, Call, Execute, Proceed
<1>6. ~Choice
  BY <1>2 DEF Choice, TryMeElse, Try, RetryMeElse, TrustMe, Retry, Trust, NeckCut, Cut
<1>7. ~Backtrack /\ ~Panic
  BY DEF Backtrack, Panic
<1> QED BY <1>3, <1>4, <1>5, <1>6, <1>7 DEF Next

\* unify runs only while nothing has failed.
Matching == Len(pdl) >= 2 => ~Fail

\* A failure leaves no pair behind: unify drops them all.
LEMMA StillMatching ==
  ASSUME TypeOK, Matching, [Next]_vars PROVE Matching'
<1>1. CASE UNCHANGED <<pdl, Fail>>
  BY <1>1 DEF Matching
<1>2. CASE Build \/ Control \/ Choice
  <2>1. \E op : At(op)
    BY <1>2 DEF Build, PutStructure, SetVariable, SetValue, SetConstant, SetList, SetVoid,
       PutVariable, PutValue, PutConstant, PutList, GetVariable, GetLevel, UnifyWrite, DataStep,
       Control, Allocate, Deallocate, Call, Execute, Proceed,
       Choice, TryMeElse, Try, RetryMeElse, TrustMe, Retry, Trust, NeckCut, Cut
  <2>2. pdl' = pdl
    BY <1>2 DEF Build, PutStructure, SetVariable, SetValue, SetConstant, SetList, SetVoid,
       PutVariable, PutValue, PutConstant, PutList, GetVariable, GetLevel, UnifyWrite, DataStep,
       Control, Allocate, Deallocate, Call, Execute, Proceed,
       Choice, TryMeElse, Try, PushChoice, RetryMeElse, TrustMe, Retry, Trust, NeckCut, Cut, CutTo,
       loopVars
  <2>3. ~(Len(pdl) >= 2)
    <3>1. Len(pdl) < 2 /\ Len(pdl) \in Nat
      BY <2>1 DEF At, Ready, TypeOK, LoopsOK
    <3> QED BY <3>1
  <2> QED BY <2>2, <2>3 DEF Matching
<1>3. CASE UnifyVariableRead \/ UnifyVoidRead \/ UnifyRead \/ GetUnify \/ StartChase
  <2>1. ~Fail /\ Fail' = Fail
    BY <1>3 DEF UnifyVariableRead, UnifyVoidRead, UnifyRead, GetUnify, StartChase, ReadStep, At,
       Ready, status
  <2> QED BY <2>1 DEF Matching
<1>4. CASE ChaseStep \/ GetStructure \/ GetList \/ PutUnsafeValue
  <2>1. Chasing /\ pdl' = pdl
    BY <1>4 DEF ChaseStep, GetStructure, GetList, PutUnsafeValue, Chased
  <2>2. ~(Len(pdl) >= 2)
    <3>1. chase # <<>>
      BY <2>1 DEF Chasing
    <3>2. Len(pdl) < 2 /\ Len(pdl) \in Nat
      BY <3>1 DEF TypeOK, LoopsOK
    <3> QED BY <3>2
  <2> QED BY <2>1, <2>2 DEF Matching
<1>5. CASE Unify
  <2>1. CASE UnifyFail
    BY <2>1 DEF UnifyFail, Matching
  <2>2. CASE ~UnifyFail
    <3>1. Fail' = Fail /\ Len(pdl) >= 2
      BY <1>5, <2>2 DEF Unify, UnifyDeref, UnifySame, UnifyBind, UnifyArgs, Comparing, Unifying,
         status
    <3> QED BY <3>1 DEF Matching
  <2> QED BY <2>1, <2>2
<1>6. CASE Backtrack \/ Panic
  <2>1. pdl' = pdl /\ (Fail' = FALSE \/ Fail' = Fail)
    BY <1>6 DEF Backtrack, TakeAlternative, Panic, loopVars, status
  <2> QED BY <2>1 DEF Matching
<1> QED BY <1>1, <1>2, <1>3, <1>4, <1>5, <1>6 DEF Next, Match, vars, loopVars, status

\* What UnifySolves says of a step.
UnifyAction ==
  Unifying /\ Whole /\ ~panic' => Solutions = IF Fail' THEN {} ELSE Solutions'

\* A step says so if nothing has failed while unify runs.
LEMMA StepSolves ==
  ASSUME TypeOK, Matching, [Next]_vars PROVE UnifyAction
<1> SUFFICES ASSUME Unifying, Whole, ~panic'
             PROVE  Solutions = IF Fail' THEN {} ELSE Solutions'
  BY DEF UnifyAction
<1>1. ~Fail
  BY DEF Matching, Unifying
<1>2. CASE Next
  BY <1>1, <1>2, OnlyUnify, UnifyStepSolves
<1>3. CASE UNCHANGED vars
  <2>1. UNCHANGED <<Heap, H, prog, pdl>> /\ ~Fail'
    BY <1>1, <1>3 DEF vars, heapVars, loopVars, status
  <2>2. \A v : /\ HeapSays(v)' <=> HeapSays(v)
               /\ PairsSay(v, pdl)' <=> PairsSay(v, pdl)
    <3> SUFFICES ASSUME NEW v PROVE /\ HeapSays(v)' <=> HeapSays(v)
                                    /\ PairsSay(v, pdl)' <=> PairsSay(v, pdl)
      OBVIOUS
    <3>1. PICK s : s = pdl /\ s = pdl'
      BY <2>1
    <3>2. PairsSay(v, s)' <=> PairsSay(v, s)
      BY <2>1, SameMeaning
    <3> QED BY <2>1, <3>1, <3>2, SameMeaning
  <2> QED BY <2>1, <2>2 DEF Solutions
<1> QED BY <1>2, <1>3

\* Initially there is nothing to unify.
LEMMA InitMatches == Init => Matching
  BY DEF Init, Matching

\* Whatever code the machine runs, and whatever its cells stand for, each
\* iteration of unify's loop (unify.go:21) keeps the solutions of what it was
\* given, and it fails only if there are none.
THEOREM UnifyIsRight == Spec => UnifySolves
<1> DEFINE Inv == TypeOK /\ prog \in Programs /\ Matching
<1>1. Init => Inv
  BY InitType, InitMatches
<1>2. Inv /\ [Next]_vars => Inv'
  BY StepType, StillMatching
<1>3. Inv /\ [Next]_vars => UnifyAction
  BY StepSolves
<1> QED BY <1>1, <1>2, <1>3, PTL DEF Spec, UnifySolves, UnifyAction
=============================================================================
