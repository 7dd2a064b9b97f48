---------------------------- MODULE ParserProofs ----------------------------
(***************************************************************************)
(* That the parser never looks past its last token, for every input.  The  *)
(* texts of tokens play no part, so the invariant only says that they form *)
(* some set.                                                               *)
(***************************************************************************)
EXTENDS Parser, SequenceTheorems, TLAPS

TokensOf(T) == Seq([kind : Kind, text : T])

\* The last token, and no other, is the end of the text.
OneEnd ==
  /\ \E T : toks \in TokensOf(T)
  /\ \A k \in 1 .. Len(toks) - 1 : toks[k].kind # "EOF"

PositionOK ==
  ~refused => IF Tokenised THEN pos \in 1 .. Len(toks) ELSE pos = 1

ScanInv == OneEnd /\ PositionOK

-----------------------------------------------------------------------------
\* What toks holds after Token.
LEMMA TokenAdded ==
  ASSUME OneEnd, ~Tokenised, NEW kind \in Kind, NEW text, NEW next,
         Token(kind, text, next)
  PROVE  /\ OneEnd'
         /\ Len(toks') = Len(toks) + 1
         /\ toks'[Len(toks')].kind = kind
<1>1. PICK T : toks \in TokensOf(T)
  BY DEF OneEnd
<1> DEFINE U == T \cup {text}
           new == [kind |-> kind, text |-> text]
<1>2. toks \in TokensOf(U)
  <2>1. [kind : Kind, text : T] \subseteq [kind : Kind, text : U]
    OBVIOUS
  <2> QED
    BY <1>1, <2>1, SeqMonotonic DEF TokensOf
<1>3. new \in [kind : Kind, text : U]
  OBVIOUS
<1>4. toks' = Append(toks, new)
  BY DEF Token
<1>5. toks' \in TokensOf(U)
  BY <1>2, <1>3, <1>4 DEF TokensOf
<1>6. /\ Len(toks') = Len(toks) + 1
      /\ toks'[Len(toks')] = new
      /\ \A k \in 1 .. Len(toks) : toks'[k] = toks[k]
      /\ Len(toks) \in Nat
  BY <1>2, <1>3, <1>4 DEF TokensOf
<1>7. \A k \in 1 .. Len(toks) : toks[k].kind # "EOF"
  <2> SUFFICES ASSUME NEW k \in 1 .. Len(toks) PROVE toks[k].kind # "EOF"
    OBVIOUS
  <2>1. CASE k = Len(toks)
    <3>1. toks # <<>>
      BY <2>1, <1>6
    <3> QED
      BY <2>1, <3>1 DEF Tokenised
  <2>2. CASE k # Len(toks)
    BY <2>2, <1>6 DEF OneEnd
  <2> QED
    BY <2>1, <2>2
<1>8. \A k \in 1 .. Len(toks') - 1 : toks'[k].kind # "EOF"
  BY <1>6, <1>7
<1> QED
  BY <1>5, <1>6, <1>8 DEF OneEnd

\* The tokeniser's loop and the parser are not yet, and no longer, at work.
LEMMA ScanKeeps ==
  ASSUME ScanInv, Scan, UNCHANGED parseVars
  PROVE  ScanInv'
<1> USE DEF parseVars
<1>1. ~Tokenised
  BY DEF Scan, SkipSpace, SkipComment, ScanTurnstile, StartsTurnstile, ScanPunctuation,
         ScanInteger, ScanAtom, ScanVar, ScanQuoted, RefuseChar, EndScan, Here, Scanning
<1>2. ASSUME NEW next, Skip(next) PROVE ScanInv'
  BY <1>2 DEF Skip, ScanInv, OneEnd, PositionOK, Tokenised
<1>3. ASSUME NEW kind \in Kind, NEW text, NEW next, Token(kind, text, next) PROVE ScanInv'
  <2>1. /\ OneEnd'
        /\ Len(toks') = Len(toks) + 1
        /\ toks'[Len(toks')].kind = kind
    BY <1>1, <1>3, TokenAdded DEF ScanInv
  <2>2. Len(toks) \in Nat
    BY DEF ScanInv, OneEnd, TokensOf
  <2>3. PositionOK'
    BY <1>1, <1>3, <2>1, <2>2 DEF ScanInv, PositionOK, Token
  <2> QED
    BY <2>1, <2>3 DEF ScanInv
<1>4. CASE SkipSpace
  BY <1>4, <1>2 DEF SkipSpace
<1>5. CASE SkipComment
  BY <1>5, <1>2 DEF SkipComment
<1>6. CASE ScanTurnstile
  BY <1>6, <1>3 DEF ScanTurnstile, Kind
<1>7. CASE ScanPunctuation
  BY <1>7, <1>3 DEF ScanPunctuation, Here, Kind
<1>8. CASE ScanInteger
  BY <1>8, <1>3 DEF ScanInteger, Kind
<1>9. CASE ScanAtom
  BY <1>9, <1>3 DEF ScanAtom, Kind
<1>10. CASE ScanVar
  BY <1>10, <1>3 DEF ScanVar, Kind
<1>11. CASE ScanQuoted
  BY <1>11, <1>3 DEF ScanQuoted, Kind
<1>12. CASE RefuseChar
  BY <1>12 DEF RefuseChar, ScanInv, OneEnd, PositionOK, Tokenised
<1>13. CASE EndScan
  BY <1>13, <1>3 DEF EndScan, Kind
<1> QED
  BY <1>4, <1>5, <1>6, <1>7, <1>8, <1>9, <1>10, <1>11, <1>12, <1>13 DEF Scan

-----------------------------------------------------------------------------
\* What is consumed has been seen, and is not the end.
LEMMA SeenLeavesToken ==
  ASSUME OneEnd, Tokenised, pos \in 1 .. Len(toks), NEW kind, Sees(<<kind>>), kind # "EOF"
  PROVE  pos + 1 \in 1 .. Len(toks)
<1>1. toks[pos].kind = kind
  BY DEF Sees
<1>2. PICK T : toks \in TokensOf(T)
  BY DEF OneEnd
<1>3. Len(toks) \in Nat
  BY <1>2 DEF TokensOf
<1> QED
  BY <1>1, <1>3 DEF Tokenised

\* So does a step that has seen two, the second other than EOF.
LEMMA TwoSeenLeaveToken ==
  ASSUME OneEnd, Tokenised, pos \in 1 .. Len(toks), NEW k1, NEW k2, Sees(<<k1, k2>>), k2 # "EOF"
  PROVE  pos + 2 \in 1 .. Len(toks)
<1>1. pos + 1 <= Len(toks) /\ toks[pos + 1].kind = k2
  BY DEF Sees
<1>2. PICK T : toks \in TokensOf(T)
  BY DEF OneEnd
<1>3. Len(toks) \in Nat
  BY <1>2 DEF TokensOf
<1> QED
  BY <1>1, <1>3 DEF Tokenised

\* Every step of the parser leaves the end unconsumed, or refuses.
LEMMA ParseKeeps ==
  ASSUME ScanInv, Parse
  PROVE  ScanInv'
<1>1. Tokenised /\ ~refused
  BY DEF Parse, NextClause, AllClauses, EndClause, NextGoal, EndQuery, BareCompound, Leaf,
         OpenArgs, NextArg, AddArg, CloseArgs, EmptyList, OpenList, NextElement, ListTail,
         CloseList, Refuse, Resumes, Doing
<1>2. pos \in 1 .. Len(toks)
  BY <1>1 DEF ScanInv, PositionOK
<1>3. ASSUME NEW n, NEW f, NEW frames, Go(n, f, frames), pos + n \in 1 .. Len(toks)
      PROVE  ScanInv'
  <2>1. toks' = toks /\ refused' = refused /\ pos' = pos + n
    BY <1>3 DEF Go, scanVars
  <2>2. OneEnd'
    BY <2>1 DEF ScanInv, OneEnd
  <2>3. PositionOK'
    BY <1>1, <1>3, <2>1 DEF PositionOK, Tokenised
  <2> QED
    BY <2>2, <2>3 DEF ScanInv
<1>4. ASSUME NEW n, NEW f, NEW frames, Call(n, f, frames), pos + n \in 1 .. Len(toks)
      PROVE  ScanInv'
  BY <1>3, <1>4 DEF Call
<1>5. ASSUME NEW n, NEW t, NEW frames, Return(n, t, frames), pos + n \in 1 .. Len(toks)
      PROVE  ScanInv'
  BY <1>3, <1>5 DEF Return
<1>6. pos + 0 \in 1 .. Len(toks)
  BY <1>2
<1>7. ASSUME NEW k, k # "EOF", Sees(<<k>>) PROVE pos + 1 \in 1 .. Len(toks)
  BY <1>1, <1>2, <1>7, SeenLeavesToken DEF ScanInv
<1>8. ASSUME NEW k1, NEW k2, k2 # "EOF", Sees(<<k1, k2>>) PROVE pos + 2 \in 1 .. Len(toks)
  BY <1>1, <1>2, <1>8, TwoSeenLeaveToken DEF ScanInv
<1>9. CASE NextClause
  BY <1>9, <1>4, <1>6 DEF NextClause
<1>10. CASE AllClauses
  BY <1>10, <1>4, <1>6 DEF AllClauses
<1>11. CASE EndClause
  <2>1. pos + 1 \in 1 .. Len(toks)
    BY <1>11, <1>7 DEF EndClause
  <2> QED
    BY <1>11, <2>1, <1>3 DEF EndClause
<1>12. CASE NextGoal
  <2>1. pos + 1 \in 1 .. Len(toks)
    BY <1>12, <1>7 DEF NextGoal
  <2> QED
    BY <1>12, <2>1, <1>4 DEF NextGoal
<1>13. CASE EndQuery
  BY <1>13, <1>3, <1>6 DEF EndQuery
<1>14. CASE BareCompound
  <2>1. pos + 1 \in 1 .. Len(toks)
    BY <1>14, <1>7 DEF BareCompound
  <2> QED
    BY <1>14, <2>1, <1>5 DEF BareCompound
<1>15. CASE Leaf
  <2>1. pos + 1 \in 1 .. Len(toks)
    BY <1>15, <1>7 DEF Leaf
  <2> QED
    BY <1>15, <2>1, <1>5 DEF Leaf
<1>16. CASE OpenArgs
  <2>1. pos + 2 \in 1 .. Len(toks)
    BY <1>16, <1>8 DEF OpenArgs
  <2> QED
    BY <1>16, <2>1, <1>4 DEF OpenArgs
<1>17. CASE NextArg
  BY <1>17, <1>4, <1>6 DEF NextArg
<1>18. CASE AddArg
  <2>1. CASE Sees(<<",">>)
    <3>1. pos + 1 \in 1 .. Len(toks)
      BY <2>1, <1>7
    <3> QED
      BY <1>18, <2>1, <3>1, <1>4 DEF AddArg
  <2>2. CASE ~Sees(<<",">>)
    BY <1>18, <2>2, <1>6, <1>4 DEF AddArg
  <2> QED
    BY <2>1, <2>2
<1>19. CASE CloseArgs
  <2>1. pos + 1 \in 1 .. Len(toks)
    BY <1>19, <1>7 DEF CloseArgs
  <2> QED
    BY <1>19, <2>1, <1>5 DEF CloseArgs
<1>20. CASE EmptyList
  <2>1. pos + 2 \in 1 .. Len(toks)
    BY <1>20, <1>8 DEF EmptyList
  <2> QED
    BY <1>20, <2>1, <1>5 DEF EmptyList
<1>21. CASE OpenList
  <2>1. pos + 1 \in 1 .. Len(toks)
    BY <1>21, <1>7 DEF OpenList
  <2> QED
    BY <1>21, <2>1, <1>4 DEF OpenList
<1>22. CASE NextElement
  <2>1. pos + 1 \in 1 .. Len(toks)
    BY <1>22, <1>7 DEF NextElement
  <2> QED
    BY <1>22, <2>1, <1>4 DEF NextElement
<1>23. CASE ListTail
  <2>1. pos + 1 \in 1 .. Len(toks)
    BY <1>23, <1>7 DEF ListTail
  <2> QED
    BY <1>23, <2>1, <1>4 DEF ListTail
<1>24. CASE CloseList
  <2>1. pos + 1 \in 1 .. Len(toks)
    BY <1>24, <1>7 DEF CloseList
  <2> QED
    BY <1>24, <2>1, <1>5 DEF CloseList
<1>25. CASE Refuse
  BY <1>25 DEF Refuse, ScanInv, OneEnd, PositionOK
<1> QED
  BY <1>9, <1>10, <1>11, <1>12, <1>13, <1>14, <1>15, <1>16, <1>17, <1>18, <1>19, <1>20,
     <1>21, <1>22, <1>23, <1>24, <1>25 DEF Parse

-----------------------------------------------------------------------------
\* Initially nothing is tokenised and the position is at the start.
LEMMA InitScanInv == Init => ScanInv
<1> SUFFICES ASSUME Init PROVE ScanInv
  OBVIOUS
<1>1. toks \in TokensOf({})
  BY DEF Init, TokensOf
<1> QED
  BY <1>1 DEF Init, ScanInv, OneEnd, PositionOK, Tokenised

\* The induction step.
LEMMA NextScanInv == ScanInv /\ [Next]_vars => ScanInv'
<1> SUFFICES ASSUME ScanInv, [Next]_vars PROVE ScanInv'
  OBVIOUS
<1>1. CASE Scan /\ UNCHANGED parseVars
  BY <1>1, ScanKeeps
<1>2. CASE Parse
  BY <1>2, ParseKeeps
<1>3. CASE UNCHANGED vars
  BY <1>3 DEF vars, scanVars, parseVars, ScanInv, OneEnd, PositionOK, Tokenised
<1> QED
  BY <1>1, <1>2, <1>3 DEF Next

\* For every text, however it is cut off: peek and next stay within toks, so
\* that what ends a parse is always one of the parser's own panics.
THEOREM TokensAlwaysSuffice == Spec => []TokensSuffice
<1>1. ScanInv => TokensSuffice
  BY DEF ScanInv, PositionOK, TokensSuffice
<1> QED
  BY <1>1, InitScanInv, NextScanInv, PTL DEF Spec

-----------------------------------------------------------------------------
Waits == {"head", "goal", "arg", "element", "tail"}
InClause == {"head", "goal"}

\* A clause is the first call to wait, and the only one that is not inside another.
CallsOK ==
  /\ \E S : stack \in Seq(S)
  /\ \A k \in 1 .. Len(stack) : stack[k].wait \in Waits
  /\ \A k \in 2 .. Len(stack) : stack[k].wait \notin InClause

DoingOK ==
  /\ doing \in {"clauses", "done"} => stack = <<>>
  /\ doing = "args" => stack # <<>> /\ Top.wait = "arg"
  /\ ~Tokenised => stack = <<>> /\ doing # "done"

NestInv == ScanInv /\ CallsOK /\ DoingOK

\* What is open is read off the waiting calls one by one.
LEMMA OpenIs ==
  ASSUME CallsOK
  PROVE  /\ Len(stack) \in Nat
         /\ Open \in Seq({"clause", "(", "["})
         /\ Len(Open) = Len(stack)
         /\ \A k \in 1 .. Len(stack) : Open[k] = Opened(stack[k].wait)
         /\ stack = <<>> <=> Open = <<>>
<1>1. Len(stack) \in Nat
  BY DEF CallsOK
<1>2. \A w : Opened(w) \in {"clause", "(", "["}
  BY DEF Opened
<1>3. Open \in Seq({"clause", "(", "["}) /\ Len(Open) = Len(stack)
  BY <1>1, <1>2 DEF Open
<1>4. \A k \in 1 .. Len(stack) : Open[k] = Opened(stack[k].wait)
  BY <1>1 DEF Open
<1>5. stack = <<>> <=> Len(stack) = 0
  BY DEF CallsOK
<1>6. Open = <<>> <=> Len(Open) = 0
  BY <1>3
<1> QED
  BY <1>1, <1>3, <1>4, <1>5, <1>6

\* A call that begins to wait opens its bracket.
LEMMA PushOpens ==
  ASSUME CallsOK, NEW f, f.wait \in Waits, f.wait \in InClause => stack = <<>>,
         stack' = Push(f)
  PROVE  /\ CallsOK'
         /\ Open' = Append(Open, Opened(f.wait))
         /\ stack' # <<>> /\ Top' = f
<1>1. PICK S : stack \in Seq(S)
  BY DEF CallsOK
<1> DEFINE U == S \cup {f}
<1>2. stack \in Seq(U)
  BY <1>1, SeqMonotonic
<1>3. /\ stack' \in Seq(U)
      /\ Len(stack) \in Nat
      /\ Len(stack') = Len(stack) + 1
      /\ stack'[Len(stack) + 1] = f
      /\ \A k \in 1 .. Len(stack) : stack'[k] = stack[k]
  BY <1>2 DEF Push
<1> HIDE DEF U
<1>4. \A k \in 1 .. Len(stack') : stack'[k].wait \in Waits
  <2> TAKE k \in 1 .. Len(stack')
  <2> QED
    BY <1>3 DEF CallsOK
<1>5. \A k \in 2 .. Len(stack') : stack'[k].wait \notin InClause
  <2> SUFFICES ASSUME NEW k \in 2 .. Len(stack') PROVE stack'[k].wait \notin InClause
    OBVIOUS
  <2>1. CASE k <= Len(stack)
    BY <2>1, <1>3 DEF CallsOK
  <2>2. CASE k = Len(stack) + 1
    <3>1. Len(stack) # 0
      BY <2>2
    <3> QED
      BY <3>1, <2>2, <1>2, <1>3
  <2> QED
    BY <2>1, <2>2, <1>3
<1>6. Open' = Append(Open, Opened(f.wait))
  <2>1. \A k \in 1 .. Len(stack) + 1 :
          Open'[k] = IF k = Len(stack) + 1 THEN Opened(f.wait) ELSE Open[k]
    <3>1. Open' = [k \in 1 .. Len(stack) + 1 |-> Opened(stack'[k].wait)]
      BY <1>3 DEF Open
    <3> QED
      BY <3>1, <1>3, OpenIs
  <2>2. Open' \in Seq({"clause", "(", "["}) /\ Len(Open') = Len(stack) + 1
    <3>1. \A w : Opened(w) \in {"clause", "(", "["}
      BY DEF Opened
    <3>2. Open' = [k \in 1 .. Len(stack) + 1 |-> Opened(stack'[k].wait)]
      BY <1>3 DEF Open
    <3> QED
      BY <3>1, <3>2, <1>3
  <2>3. Opened(f.wait) \in {"clause", "(", "["}
    BY DEF Opened
  <2>4. PICK o \in Seq({"clause", "(", "["}) : o = Open' 
    BY <2>2
  <2>5. PICK e \in {"clause", "(", "["} : e = Opened(f.wait)
    BY <2>3
  <2>6. PICK g \in Seq({"clause", "(", "["}) : g = Open /\ Len(g) = Len(stack)
    BY OpenIs
  <2>7. o = Append(g, e)
    BY <2>1, <2>2, <2>4, <2>5, <2>6
  <2> QED
    BY <2>4, <2>5, <2>6, <2>7
<1>7. CallsOK'
  BY <1>3, <1>4, <1>5 DEF CallsOK
<1>8. stack' # <<>> /\ Top' = f
  BY <1>3 DEF Top
<1> QED
  BY <1>6, <1>7, <1>8

\* A call that returns closes its bracket; a clause's, the last.
LEMMA PopCloses ==
  ASSUME CallsOK, stack # <<>>, stack' = Popped
  PROVE  /\ CallsOK'
         /\ Open # <<>> /\ Open[Len(Open)] = Opened(Top.wait)
         /\ Open' = SubSeq(Open, 1, Len(Open) - 1)
         /\ Top.wait \in InClause => stack' = <<>>
<1>1. PICK S : stack \in Seq(S)
  BY DEF CallsOK
<1>2. /\ stack' \in Seq(S)
      /\ Len(stack) \in Nat \ {0}
      /\ Len(stack') = Len(stack) - 1
      /\ \A k \in 1 .. Len(stack) - 1 : stack'[k] = stack[k]
  <2>1. Len(stack) \in Nat /\ Len(stack) # 0
    BY <1>1
  <2>2. PICK n \in Nat : n = Len(stack) - 1 /\ n + 1 = Len(stack)
    BY <2>1
  <2>3. stack' = SubSeq(stack, 1, n)
    BY <2>2 DEF Popped
  <2> QED
    BY <1>1, <2>1, <2>2, <2>3
<1>3. CallsOK'
  BY <1>2 DEF CallsOK
<1>4. Open # <<>> /\ Open[Len(Open)] = Opened(Top.wait)
  BY <1>2, OpenIs DEF Top
<1>5. Open' = SubSeq(Open, 1, Len(Open) - 1)
  <2>1. Open' = [k \in 1 .. Len(stack) - 1 |-> Opened(stack'[k].wait)]
    BY <1>2 DEF Open
  <2>2. \A w : Opened(w) \in {"clause", "(", "["}
    BY DEF Opened
  <2>3. Open' \in Seq({"clause", "(", "["}) /\ Len(Open') = Len(stack) - 1
    BY <2>1, <2>2, <1>2
  <2>4. \A k \in 1 .. Len(stack) - 1 : Open'[k] = Open[k]
    BY <2>1, <1>2, OpenIs
  <2>5. PICK o \in Seq({"clause", "(", "["}) : o = Open'
    BY <2>3
  <2>6. PICK g \in Seq({"clause", "(", "["}) : g = Open /\ Len(g) = Len(stack)
    BY OpenIs
  <2>7. o = SubSeq(g, 1, Len(g) - 1)
    BY <2>3, <2>4, <2>5, <2>6, <1>2
  <2> QED
    BY <2>5, <2>6, <2>7
<1>6. ASSUME Top.wait \in InClause PROVE stack' = <<>>
  <2>1. Len(stack) = 1
    BY <1>2, <1>6 DEF CallsOK, Top
  <2> QED
    BY <1>2, <2>1
<1> QED
  BY <1>3, <1>4, <1>5, <1>6

\* A call that goes on waiting, for its next part, keeps its bracket open.
LEMMA ReplaceStays ==
  ASSUME CallsOK, stack # <<>>, NEW f, f.wait \in Waits, Opened(f.wait) = Opened(Top.wait),
         stack' = Replace(f)
  PROVE  /\ CallsOK'
         /\ Open' = Open
         /\ stack' # <<>> /\ Top' = f
<1>1. PICK S : stack \in Seq(S)
  BY DEF CallsOK
<1> DEFINE U == S \cup {f}
<1>2. stack \in Seq(U) /\ f \in U
  BY <1>1, SeqMonotonic
<1> HIDE DEF U
<1>3. /\ Popped \in Seq(U)
      /\ Len(stack) \in Nat \ {0}
      /\ Len(Popped) = Len(stack) - 1
      /\ \A k \in 1 .. Len(stack) - 1 : Popped[k] = stack[k]
  BY <1>2 DEF Popped
<1>4. /\ stack' \in Seq(U)
      /\ Len(stack') = Len(stack)
      /\ stack'[Len(stack)] = f
      /\ \A k \in 1 .. Len(stack) - 1 : stack'[k] = stack[k]
  BY <1>2, <1>3 DEF Replace
<1>5. f.wait \in InClause => Top.wait \in InClause
  BY DEF Opened, InClause
<1>6. CallsOK'
  <2>1. \A k \in 1 .. Len(stack') : stack'[k].wait \in Waits
    <3> TAKE k \in 1 .. Len(stack')
    <3> QED
      BY <1>3, <1>4 DEF CallsOK
  <2>2. \A k \in 2 .. Len(stack') : stack'[k].wait \notin InClause
    <3> TAKE k \in 2 .. Len(stack')
    <3> QED
      BY <1>3, <1>4, <1>5 DEF CallsOK, Top
  <2> QED
    BY <1>4, <2>1, <2>2 DEF CallsOK
<1>7. Open' = Open
  <2>1. \A k \in 1 .. Len(stack) : Opened(stack'[k].wait) = Opened(stack[k].wait)
    <3> TAKE k \in 1 .. Len(stack)
    <3> QED
      BY <1>3, <1>4 DEF Top
  <2>2. Open' = [k \in 1 .. Len(stack) |-> Opened(stack'[k].wait)]
    BY <1>4 DEF Open
  <2> QED
    BY <2>1, <2>2 DEF Open
<1>8. stack' # <<>> /\ Top' = f
  BY <1>3, <1>4 DEF Top
<1> QED
  BY <1>6, <1>7, <1>8

-----------------------------------------------------------------------------
\* What the bracket automaton looks at besides brackets stays.
Onward == UNCHANGED <<toks, refused>> /\ ~refused /\ doing # "done" /\ doing' # "done"

Brackets == {"(", "[", ")", "]", "."}

\* A token that is no bracket.
LEMMA ReadsOther ==
  ASSUME Onward, NEW kind, kind \notin Brackets, pos <= Len(toks), toks[pos].kind = kind,
         pos' = pos + 1, Open' = Open
  PROVE  Nest!Next
<1>1. Nest!CanRead(Open, kind)
  BY DEF Nest!CanRead, Brackets
<1>2. Nest!After(Open, kind) = Open
  BY DEF Nest!After, Brackets
<1>3. Nest!Read
  BY <1>1, <1>2 DEF Nest!Read, Onward
<1> QED
  BY <1>3 DEF Nest!Next, Onward

\* An opening bracket of its own.
LEMMA ReadsOpening ==
  ASSUME Onward, pos <= Len(toks), toks[pos].kind = "[", pos' = pos + 1,
         Open' = Append(Open, "[")
  PROVE  Nest!Next
<1>1. Nest!CanRead(Open, "[")
  BY DEF Nest!CanRead
<1>2. Nest!After(Open, "[") = Append(Open, "[")
  BY DEF Nest!After
<1>3. Nest!Read
  BY <1>1, <1>2 DEF Nest!Read, Onward
<1> QED
  BY <1>3 DEF Nest!Next, Onward

\* The token that closes what is open.
LEMMA ReadsClosing ==
  ASSUME Onward, NEW kind \in {")", "]", "."}, pos <= Len(toks), toks[pos].kind = kind,
         Open # <<>>, Nest!Closer(Open[Len(Open)]) = kind,
         pos' = pos + 1, Open' = SubSeq(Open, 1, Len(Open) - 1)
  PROVE  Nest!Next
<1>1. Nest!CanRead(Open, kind)
  BY DEF Nest!CanRead
<1>2. Nest!After(Open, kind) = SubSeq(Open, 1, Len(Open) - 1)
  BY DEF Nest!After
<1>3. Nest!Read
  BY <1>1, <1>2 DEF Nest!Read, Onward
<1> QED
  BY <1>3 DEF Nest!Next, Onward

\* A name with its bracket.
LEMMA ReadsName ==
  ASSUME Onward, pos + 1 <= Len(toks), toks[pos].kind = "Atom", toks[pos + 1].kind = "(",
         pos' = pos + 2, Open' = Append(Open, "(")
  PROVE  Nest!Next
<1>1. Nest!CanRead(Open, "Atom") /\ Nest!After(Open, "Atom") = Open
  BY DEF Nest!CanRead, Nest!After
<1>2. Nest!CanRead(Open, "(") /\ Nest!After(Open, "(") = Append(Open, "(")
  BY DEF Nest!CanRead, Nest!After
<1>3. Nest!ReadTwo
  BY <1>1, <1>2 DEF Nest!ReadTwo, Onward
<1> QED
  BY <1>3 DEF Nest!Next, Onward

\* An empty list.
LEMMA ReadsNil ==
  ASSUME CallsOK, Onward, pos + 1 <= Len(toks), toks[pos].kind = "[", toks[pos + 1].kind = "]",
         pos' = pos + 2, Open' = Open
  PROVE  Nest!Next
<1> DEFINE between == Append(Open, "[")
<1>1. PICK g \in Seq({"clause", "(", "["}) : g = Open
  BY OpenIs
<1>2. /\ between # <<>>
      /\ between[Len(between)] = "["
      /\ SubSeq(between, 1, Len(between) - 1) = Open
  BY <1>1
<1> HIDE DEF between
<1>3. Nest!CanRead(Open, "[") /\ Nest!After(Open, "[") = between
  BY DEF Nest!CanRead, Nest!After, between
<1>4. Nest!CanRead(between, "]") /\ Nest!After(between, "]") = Open
  BY <1>2 DEF Nest!CanRead, Nest!After, Nest!Closer
<1>5. Nest!ReadTwo
  BY <1>3, <1>4 DEF Nest!ReadTwo, Onward
<1> QED
  BY <1>5 DEF Nest!Next, Onward

\* A step of the parser: it reads the one or two tokens it consumes as the
\* automaton does, begins or ends a clause or the text, or is refused; and only
\* a loop that looks again at what follows takes no step of the automaton.
LEMMA ParseNests ==
  ASSUME NestInv, Parse
  PROVE  CallsOK' /\ DoingOK' /\ [Nest!Next]_(Nest!vars)
<1> USE DEF NestInv
<1>1. Tokenised /\ ~refused /\ doing # "done"
  BY DEF Parse, NextClause, AllClauses, EndClause, NextGoal, EndQuery, BareCompound, Leaf,
         OpenArgs, NextArg, AddArg, CloseArgs, EmptyList, OpenList, NextElement, ListTail,
         CloseList, Refuse, Resumes, Doing
<1>2. pos \in 1 .. Len(toks)
  BY <1>1 DEF ScanInv, PositionOK
<1>3. ASSUME NEW n, NEW f, NEW frames, Go(n, f, frames), f # "done"
      PROVE  Onward /\ Tokenised' /\ pos' = pos + n /\ doing' = f /\ stack' = frames
  BY <1>1, <1>3 DEF Go, scanVars, Onward, Tokenised
<1>4. ASSUME NEW n, NEW f, NEW frames, Call(n, f, frames), f # "done"
      PROVE  Onward /\ Tokenised' /\ pos' = pos + n /\ doing' = f /\ stack' = frames
  BY <1>3, <1>4 DEF Call
<1>5. ASSUME NEW n, NEW t, NEW frames, Return(n, t, frames)
      PROVE  Onward /\ Tokenised' /\ pos' = pos + n /\ doing' = "return" /\ stack' = frames
  BY <1>3, <1>5 DEF Return
<1>6. ASSUME NEW kind, Sees(<<kind>>) PROVE pos <= Len(toks) /\ toks[pos].kind = kind
  BY <1>2, <1>6 DEF Sees
<1>7. ASSUME NEW k1, NEW k2, Sees(<<k1, k2>>)
      PROVE  pos + 1 <= Len(toks) /\ toks[pos].kind = k1 /\ toks[pos + 1].kind = k2
  BY <1>2, <1>7 DEF Sees
<1>8. ASSUME stack' = stack PROVE CallsOK' /\ Open' = Open
  BY <1>8 DEF CallsOK, Open
<1>9. ASSUME Tokenised', doing' \in {"compound", "term", "return"} PROVE DoingOK'
  BY <1>9 DEF DoingOK
<1>10. ASSUME Tokenised', doing' = "args", stack' # <<>>, Top'.wait = "arg" PROVE DoingOK'
  BY <1>10 DEF DoingOK, Top
<1>11. ASSUME Tokenised', stack' = <<>>, doing' \in {"clauses", "done"} PROVE DoingOK'
  BY <1>11 DEF DoingOK
<1>12. CASE NextClause
  <2> DEFINE f == Frame("head", "", <<>>)
  <2>1. /\ Onward /\ Tokenised' /\ pos' = pos + 0 /\ doing' = "compound"
        /\ stack' = Push(f) /\ stack = <<>>
    <3>1. Call(0, "compound", Push(f)) /\ doing = "clauses"
      BY <1>12 DEF NextClause, Doing
    <3> HIDE DEF f
    <3>2. /\ Onward /\ Tokenised' /\ pos' = pos + 0 /\ doing' = "compound"
          /\ stack' = Push(f)
      BY <3>1, <1>4
    <3> QED
      BY <3>1, <3>2 DEF DoingOK
  <2>2. f.wait = "head" /\ f.wait \in Waits
    BY DEF Frame, Waits
  <2> HIDE DEF f
  <2>3. CallsOK' /\ Open' = Append(Open, "clause") /\ Open = <<>>
    BY <2>1, <2>2, PushOpens, OpenIs DEF Opened
  <2>4. Nest!BeginClause
    BY <2>1, <2>3, <1>2 DEF Nest!BeginClause, Onward
  <2>5. Nest!Next
    BY <2>4, <1>1 DEF Nest!Next
  <2> QED
    BY <2>1, <2>3, <2>5, <1>9
<1>13. CASE AllClauses
  <2>1. /\ UNCHANGED <<toks, refused>> /\ Tokenised' /\ pos' = pos + 0 /\ doing' = "done"
        /\ stack' = stack /\ stack = <<>>
    BY <1>13, <1>1 DEF AllClauses, Doing, DoingOK, Call, Go, scanVars, Tokenised
  <2>2. Nest!Accept
    BY <2>1, <1>2, <1>8, OpenIs DEF Nest!Accept
  <2>3. Nest!Next
    BY <2>2, <1>1 DEF Nest!Next
  <2> QED
    BY <2>1, <2>3, <1>8, <1>11
<1>14. CASE EndClause
  <2>1. /\ Onward /\ Tokenised' /\ pos' = pos + 1 /\ doing' = "clauses" /\ stack' = Popped
        /\ stack # <<>> /\ Top.wait \in InClause
    BY <1>14, <1>3 DEF EndClause, Resumes, InClause
  <2>2. pos <= Len(toks) /\ toks[pos].kind = "."
    BY <1>14, <1>6 DEF EndClause
  <2>3. Opened(Top.wait) = "clause" /\ Nest!Closer("clause") = "."
    BY <2>1 DEF Opened, InClause, Nest!Closer
  <2>4. Nest!Next
    BY <2>1, <2>2, <2>3, PopCloses, ReadsClosing
  <2> QED
    BY <2>1, <2>4, PopCloses, <1>11
<1>15. CASE NextGoal
  <2> DEFINE f == Frame("goal", "", Items)
  <2>1. /\ Onward /\ Tokenised' /\ pos' = pos + 1 /\ doing' = "compound" /\ stack' = Replace(f)
        /\ stack # <<>> /\ Top.wait \in InClause
    <3>1. Call(1, "compound", Replace(f))
      BY <1>15 DEF NextGoal
    <3>2. stack # <<>> /\ Top.wait \in InClause
      BY <1>15 DEF NextGoal, Resumes, InClause
    <3> HIDE DEF f
    <3> QED
      BY <3>1, <3>2, <1>4
  <2>2. f.wait = "goal" /\ f.wait \in Waits /\ Opened(f.wait) = Opened(Top.wait)
    BY <2>1 DEF Frame, Waits, Opened, InClause
  <2> HIDE DEF f
  <2>3. CallsOK' /\ Open' = Open
    BY <2>1, <2>2, ReplaceStays
  <2>4. PICK kind \in {":-", ","} : pos <= Len(toks) /\ toks[pos].kind = kind
    BY <1>15, <1>6 DEF NextGoal
  <2>5. Nest!Next
    BY <2>1, <2>3, <2>4, ReadsOther DEF Brackets
  <2> QED
    BY <2>1, <2>3, <2>5, <1>9
<1>16. CASE EndQuery
  <2>1. /\ UNCHANGED <<toks, refused>> /\ Tokenised' /\ pos' = pos + 0 /\ doing' = "done"
        /\ stack' = stack /\ stack = <<>>
    BY <1>16, <1>1 DEF EndQuery, Go, scanVars, Tokenised
  <2>2. Nest!Accept
    BY <2>1, <1>2, <1>8, OpenIs DEF Nest!Accept
  <2>3. Nest!Next
    BY <2>2, <1>1 DEF Nest!Next
  <2> QED
    BY <2>1, <2>3, <1>8, <1>11
<1>17. CASE BareCompound
  <2>1. /\ Onward /\ Tokenised' /\ pos' = pos + 1 /\ doing' = "return" /\ stack' = stack
    BY <1>17, <1>5 DEF BareCompound
  <2>2. pos <= Len(toks) /\ toks[pos].kind = "Atom"
    BY <1>17, <1>6 DEF BareCompound
  <2>3. Nest!Next
    BY <2>1, <2>2, <1>8, ReadsOther DEF Brackets
  <2> QED
    BY <2>1, <2>3, <1>8, <1>9
<1>18. CASE Leaf
  <2>1. /\ Onward /\ Tokenised' /\ pos' = pos + 1 /\ doing' = "return" /\ stack' = stack
    BY <1>18, <1>5 DEF Leaf
  <2>2. PICK kind \in {"Var", "Int", "Atom"} : pos <= Len(toks) /\ toks[pos].kind = kind
    BY <1>18, <1>6 DEF Leaf
  <2>3. Nest!Next
    BY <2>1, <2>2, <1>8, ReadsOther DEF Brackets
  <2> QED
    BY <2>1, <2>3, <1>8, <1>9
<1>19. CASE OpenArgs
  <2> DEFINE f == Frame("arg", Text, <<>>)
  <2>1. /\ Onward /\ Tokenised' /\ pos' = pos + 2 /\ doing' = "args" /\ stack' = Push(f)
    BY <1>19, <1>4 DEF OpenArgs
  <2>2. f.wait = "arg" /\ f.wait \in Waits /\ f.wait \notin InClause /\ Opened(f.wait) = "("
    BY DEF Frame, Waits, InClause, Opened
  <2> HIDE DEF f
  <2>3. CallsOK' /\ Open' = Append(Open, "(") /\ stack' # <<>> /\ Top' = f
    BY <2>1, <2>2, PushOpens
  <2>4. pos + 1 <= Len(toks) /\ toks[pos].kind = "Atom" /\ toks[pos + 1].kind = "("
    BY <1>19, <1>7 DEF OpenArgs
  <2>5. Nest!Next
    BY <2>1, <2>3, <2>4, ReadsName
  <2>6. Top'.wait = "arg"
    BY <2>2, <2>3
  <2> QED
    BY <2>1, <2>3, <2>5, <2>6, <1>10
<1>20. CASE NextArg
  <2>1. /\ Onward /\ Tokenised' /\ pos' = pos + 0 /\ doing' = "term" /\ stack' = stack
    BY <1>20, <1>4 DEF NextArg
  <2>2. UNCHANGED Nest!vars
    BY <2>1, <1>2, <1>8 DEF Nest!vars, Onward
  <2> QED
    BY <2>1, <2>2, <1>8, <1>9
<1>21. CASE AddArg
  <2> DEFINE f == Frame("arg", Top.name, Items)
             n == IF Sees(<<",">>) THEN 1 ELSE 0
  <2>1. /\ Onward /\ Tokenised' /\ pos' = pos + n /\ doing' = "args" /\ stack' = Replace(f)
        /\ stack # <<>> /\ Top.wait = "arg"
    <3>1. Call(n, "args", Replace(f))
      BY <1>21 DEF AddArg
    <3>2. stack # <<>> /\ Top.wait = "arg"
      BY <1>21 DEF AddArg, Resumes
    <3> HIDE DEF f, n
    <3> QED
      BY <3>1, <3>2, <1>4
  <2>2. f.wait = "arg" /\ f.wait \in Waits /\ Opened(f.wait) = Opened(Top.wait)
    BY <2>1 DEF Frame, Waits
  <2> HIDE DEF f
  <2>3. CallsOK' /\ Open' = Open /\ stack' # <<>> /\ Top' = f
    BY <2>1, <2>2, ReplaceStays
  <2>4. CASE Sees(<<",">>)
    <3>1. pos <= Len(toks) /\ toks[pos].kind = ","
      BY <2>4, <1>6
    <3>2. pos' = pos + 1
      BY <2>1, <2>4
    <3>3. Nest!Next
      BY <2>1, <2>3, <3>1, <3>2, ReadsOther DEF Brackets
    <3> QED
      BY <2>1, <2>2, <2>3, <3>3, <1>10
  <2>5. CASE ~Sees(<<",">>)
    <3>1. pos' = pos
      <4>1. pos' = pos + 0
        BY <2>1, <2>5
      <4>2. pos \in Int
        BY <1>2
      <4> QED
        BY <4>1, <4>2
    <3>2. UNCHANGED Nest!vars
      BY <2>1, <2>3, <3>1 DEF Nest!vars, Onward
    <3> QED
      BY <2>1, <2>2, <2>3, <3>2, <1>10
  <2> QED
    BY <2>4, <2>5
<1>22. CASE CloseArgs
  <2>1. /\ Onward /\ Tokenised' /\ pos' = pos + 1 /\ doing' = "return" /\ stack' = Popped
        /\ stack # <<>> /\ Top.wait = "arg"
    BY <1>22, <1>5 DEF CloseArgs, Doing, DoingOK
  <2>2. pos <= Len(toks) /\ toks[pos].kind = ")"
    BY <1>22, <1>6 DEF CloseArgs
  <2>3. Nest!Closer(Opened(Top.wait)) = ")"
    BY <2>1 DEF Opened, Nest!Closer
  <2>4. Nest!Next
    BY <2>1, <2>2, <2>3, PopCloses, ReadsClosing
  <2> QED
    BY <2>1, <2>4, PopCloses, <1>9
<1>23. CASE EmptyList
  <2>1. /\ Onward /\ Tokenised' /\ pos' = pos + 2 /\ doing' = "return" /\ stack' = stack
    BY <1>23, <1>5 DEF EmptyList
  <2>2. pos + 1 <= Len(toks) /\ toks[pos].kind = "[" /\ toks[pos + 1].kind = "]"
    BY <1>23, <1>7 DEF EmptyList
  <2>3. Nest!Next
    BY <2>1, <2>2, <1>8, ReadsNil
  <2> QED
    BY <2>1, <2>3, <1>8, <1>9
<1>24. CASE OpenList
  <2> DEFINE f == Frame("element", "", <<>>)
  <2>1. /\ Onward /\ Tokenised' /\ pos' = pos + 1 /\ doing' = "term" /\ stack' = Push(f)
    BY <1>24, <1>4 DEF OpenList
  <2>2. f.wait \in Waits /\ f.wait \notin InClause /\ Opened(f.wait) = "["
    BY DEF Frame, Waits, InClause, Opened
  <2> HIDE DEF f
  <2>3. CallsOK' /\ Open' = Append(Open, "[")
    BY <2>1, <2>2, PushOpens
  <2>4. pos <= Len(toks) /\ toks[pos].kind = "["
    BY <1>24, <1>6 DEF OpenList
  <2>5. Nest!Next
    BY <2>1, <2>3, <2>4, ReadsOpening
  <2> QED
    BY <2>1, <2>3, <2>5, <1>9
<1>25. ASSUME NEW kind \in {",", "|"}, NEW w \in {"element", "tail"},
              Resumes("element"), Sees(<<kind>>), Call(1, "term", Replace(Frame(w, "", Items)))
       PROVE  CallsOK' /\ DoingOK' /\ Nest!Next
  <2> DEFINE f == Frame(w, "", Items)
  <2>1. /\ Onward /\ Tokenised' /\ pos' = pos + 1 /\ doing' = "term" /\ stack' = Replace(f)
        /\ stack # <<>> /\ Top.wait = "element"
    <3>1. stack # <<>> /\ Top.wait = "element"
      BY <1>25 DEF Resumes
    <3>2. Call(1, "term", Replace(f))
      BY <1>25
    <3> HIDE DEF f
    <3>3. /\ Onward /\ Tokenised' /\ pos' = pos + 1 /\ doing' = "term"
          /\ stack' = Replace(f)
      BY <3>2, <1>4
    <3> QED
      BY <3>1, <3>3
  <2>2. f.wait \in Waits /\ Opened(f.wait) = Opened(Top.wait)
    BY <2>1 DEF Frame, Waits, Opened
  <2> HIDE DEF f
  <2>3. CallsOK' /\ Open' = Open
    BY <2>1, <2>2, ReplaceStays
  <2>4. Nest!Next
    BY <2>1, <2>3, <1>25, <1>6, ReadsOther DEF Brackets
  <2> QED
    BY <2>1, <2>3, <2>4, <1>9
<1>26. CASE NextElement
  BY <1>26, <1>25 DEF NextElement
<1>27. CASE ListTail
  BY <1>27, <1>25 DEF ListTail
<1>28. CASE CloseList
  <2>1. /\ Onward /\ Tokenised' /\ pos' = pos + 1 /\ doing' = "return" /\ stack' = Popped
        /\ stack # <<>> /\ Top.wait \in {"element", "tail"}
    BY <1>28, <1>5 DEF CloseList, Resumes
  <2>2. pos <= Len(toks) /\ toks[pos].kind = "]"
    BY <1>28, <1>6 DEF CloseList
  <2>3. Nest!Closer(Opened(Top.wait)) = "]"
    BY <2>1 DEF Opened, Nest!Closer
  <2>4. Nest!Next
    BY <2>1, <2>2, <2>3, PopCloses, ReadsClosing
  <2> QED
    BY <2>1, <2>4, PopCloses, <1>9
<1>29. CASE Refuse
  <2>1. /\ UNCHANGED <<toks, doing, stack>> /\ refused' = TRUE /\ pos' \in {pos, pos + 1}
    BY <1>29 DEF Refuse
  <2>2. Nest!Refuse
    BY <2>1, <1>8 DEF Nest!Refuse
  <2>3. Nest!Next
    BY <2>2, <1>1 DEF Nest!Next
  <2>4. DoingOK'
    BY <2>1, <1>1 DEF DoingOK, Tokenised, Top
  <2> QED
    BY <2>1, <2>3, <2>4, <1>8
<1> QED
  BY <1>12, <1>13, <1>14, <1>15, <1>16, <1>17, <1>18, <1>19, <1>20, <1>21, <1>22, <1>23,
     <1>24, <1>26, <1>27, <1>28, <1>29 DEF Parse

\* While it looks for tokens nothing is read, or open.
LEMMA ScanNests ==
  ASSUME NestInv, Scan, UNCHANGED parseVars
  PROVE  CallsOK' /\ DoingOK' /\ [Nest!Next]_(Nest!vars)
<1> USE DEF NestInv
<1>1. ~Tokenised /\ ~refused
  BY DEF Scan, SkipSpace, SkipComment, ScanTurnstile, StartsTurnstile, ScanPunctuation,
         ScanInteger, ScanAtom, ScanVar, ScanQuoted, RefuseChar, EndScan, Here, Scanning
<1>2. /\ UNCHANGED <<pos, doing, stack>> /\ stack = <<>> /\ doing # "done" /\ pos = 1
  BY <1>1 DEF parseVars, DoingOK, ScanInv, PositionOK
<1>3. CallsOK' /\ DoingOK' /\ Open' = Open
  BY <1>1, <1>2 DEF CallsOK, DoingOK, Open
<1>4. PICK T : toks \in TokensOf(T)
  BY DEF ScanInv, OneEnd
<1>5. ASSUME NEW next, Skip(next) PROVE UNCHANGED Nest!vars
  BY <1>2, <1>3, <1>5 DEF Skip, Nest!vars
<1>6. ASSUME NEW kind, NEW text, NEW next, Token(kind, text, next) PROVE Nest!Next
  <2>1. PICK w : w = [kind |-> kind, text |-> text]
    OBVIOUS
  <2>2. PICK S : toks \in Seq(S) /\ w \in S
    <3>1. toks \in Seq([kind : Kind, text : T] \cup {w})
      BY <1>4, SeqMonotonic DEF TokensOf
    <3> QED
      BY <3>1
  <2>3. toks' = Append(toks, w)
    BY <1>6, <2>1 DEF Token
  <2>4. SubSeq(toks', 1, Len(toks)) = toks
    BY <2>2, <2>3
  <2>5. Nest!Tokenise
    BY <2>4, <1>2, <1>3, <1>6 DEF Nest!Tokenise, Token
  <2> QED
    BY <2>5, <1>1, <1>2 DEF Nest!Next
<1>7. CASE RefuseChar
  <2>1. Nest!Refuse
    BY <1>7, <1>2, <1>3 DEF RefuseChar, Nest!Refuse
  <2> QED
    BY <2>1, <1>1, <1>2, <1>3 DEF Nest!Next
<1>8. CASE SkipSpace \/ SkipComment
  BY <1>8, <1>3, <1>5 DEF SkipSpace, SkipComment
<1>9. CASE ScanTurnstile \/ ScanPunctuation
  BY <1>9, <1>3, <1>6 DEF ScanTurnstile, ScanPunctuation
<1>10. CASE ScanInteger \/ ScanAtom \/ ScanVar \/ ScanQuoted
  BY <1>10, <1>3, <1>6 DEF ScanInteger, ScanAtom, ScanVar, ScanQuoted
<1>11. CASE EndScan
  BY <1>11, <1>3, <1>6 DEF EndScan
<1> QED
  BY <1>7, <1>8, <1>9, <1>10, <1>11 DEF Scan

\* Nothing is open before the text is read.
LEMMA InitNests == Init => NestInv /\ Nest!Init
<1> SUFFICES ASSUME Init PROVE CallsOK /\ DoingOK /\ Nest!Init
  BY InitScanInv DEF NestInv
<1>1. stack = <<>> /\ toks = <<>> /\ pos = 1 /\ ~refused
  BY DEF Init
<1>2. doing # "done" /\ doing # "args"
  BY DEF Init
<1>3. CallsOK
  <2>1. stack \in Seq({})
    BY <1>1
  <2> QED
    BY <1>1, <2>1 DEF CallsOK
<1>4. Open = <<>>
  BY <1>1, <1>3, OpenIs
<1> QED
  BY <1>1, <1>2, <1>3, <1>4 DEF DoingOK, Nest!Init

\* The induction step, and the step of the automaton.
LEMMA NextNests == NestInv /\ [Next]_vars => NestInv' /\ [Nest!Next]_(Nest!vars)
<1> SUFFICES ASSUME NestInv, [Next]_vars PROVE CallsOK' /\ DoingOK' /\ [Nest!Next]_(Nest!vars)
  BY NextScanInv DEF NestInv
<1>1. CASE Scan /\ UNCHANGED parseVars
  BY <1>1, ScanNests
<1>2. CASE Parse
  BY <1>2, ParseNests
<1>3. CASE UNCHANGED vars
  BY <1>3 DEF vars, scanVars, parseVars, NestInv, CallsOK, DoingOK, Tokenised, Top, Open, Nest!vars
<1> QED
  BY <1>1, <1>2, <1>3 DEF Next

\* For every text: the parser is a pushdown automaton for nested brackets, so
\* that however the lists and compounds of parse.go call each other, and though
\* commas may be missing, a text with a bracket unclosed, or closed by the wrong
\* one, is refused.
THEOREM ParserNests == Spec => BracketsNest
<1>1. Init => Nest!Init
  BY InitNests
<1>2. Init => NestInv
  BY InitNests
<1>3. NestInv /\ [Next]_vars => NestInv'
  BY NextNests
<1>4. NestInv /\ [Next]_vars => [Nest!Next]_(Nest!vars)
  BY NextNests
<1> QED
  BY <1>1, <1>2, <1>3, <1>4, PTL DEF Spec, BracketsNest, Nest!Spec
=============================================================================
