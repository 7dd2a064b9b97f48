----------------------------- MODULE Tokeniser -----------------------------
(***************************************************************************)
(* tokenise of parse.go: from source text to tokens, one action per branch *)
(* of its loop.  Texts are ASCII.  The kind of a token of fixed spelling   *)
(* is that spelling; the last token has kind EOF.                          *)
(*                                                                         *)
(* Go's src[i:j] is SubSeq(src, i, j - 1) here, where positions count from *)
(* 1.                                                                      *)
(***************************************************************************)
EXTENDS Integers, Sequences

VARIABLES
  src,       \* the text
  i,         \* position of the next character
  toks,      \* the tokens found
  refused    \* the tokeniser or the parser has panicked

scanVars == <<src, i, toks, refused>>

Space  == {" ", "\t", "\n", "\f", "\r"}
Digit  == {"0", "1", "2", "3", "4", "5", "6", "7", "8", "9"}
Lower  == {"a", "b", "c", "d", "e", "f", "g", "h", "i", "j", "k", "l", "m",
           "n", "o", "p", "q", "r", "s", "t", "u", "v", "w", "x", "y", "z"}
Upper  == {"A", "B", "C", "D", "E", "F", "G", "H", "I", "J", "K", "L", "M",
           "N", "O", "P", "Q", "R", "S", "T", "U", "V", "W", "X", "Y", "Z"}
Symbol == {"+", "-", "*", "/", "=", "<", ">", "\\"}
Punctuation == {"(", ")", "[", "]", ",", "|", "."}
NameChar == Lower \cup Upper \cup Digit \cup {"_"}

Kind == Punctuation \cup {"Atom", "Var", "Int", ":-", "EOF"}

Char(k) == SubSeq(src, k, k)

\* The first position from k on whose character is one to Stop at.
First(k, Stop(_)) ==
  CHOOSE j \in k .. Len(src) + 1 :
    /\ j = Len(src) + 1 \/ Stop(Char(j))
    /\ \A m \in k .. j - 1 : ~Stop(Char(m))

Tokenised == toks # <<>> /\ toks[Len(toks)].kind = "EOF"
Scanning  == ~Tokenised /\ ~refused

Here(chars) == Scanning /\ i <= Len(src) /\ Char(i) \in chars

Skip(next) == i' = next /\ UNCHANGED <<src, toks, refused>>

Token(kind, text, next) ==
  /\ toks' = Append(toks, [kind |-> kind, text |-> text])
  /\ i' = next
  /\ UNCHANGED <<src, refused>>

\* Mutation: a comment hides everything after it.
SkipToTheEnd == Here({"%"}) /\ Skip(Len(src) + 1)

\* Mutation: the loop continues without i++.
SkipSpaceStays == Here(Space) /\ Skip(i)

SkipSpace   == Here(Space) /\ Skip(i + 1)
SkipComment == Here({"%"}) /\ Skip(First(i, LAMBDA c : c = "\n"))

StartsTurnstile == Here({":"}) /\ i < Len(src) /\ Char(i + 1) = "-"

ScanTurnstile   == StartsTurnstile /\ Token(":-", ":-", i + 2)
ScanPunctuation == Here(Punctuation) /\ Token(Char(i), Char(i), i + 1)

ScanInteger ==
  /\ Here(Digit)
  /\ LET j == First(i, LAMBDA c : c \notin Digit)
     IN  Token("Int", SubSeq(src, i, j - 1), j)

\* A symbol is an atom of one character.
ScanAtom ==
  /\ Here(Lower \cup Symbol)
  /\ LET j   == First(i, LAMBDA c : c \notin NameChar)
         end == IF j = i THEN i + 1 ELSE j
     IN  Token("Atom", SubSeq(src, i, end - 1), end)

ScanVar ==
  /\ Here(Upper \cup {"_"})
  /\ LET j == First(i, LAMBDA c : c \notin NameChar)
     IN  Token("Var", SubSeq(src, i, j - 1), j)

\* A quoted atom that is not closed extends to the end of the text.
ScanQuoted ==
  /\ Here({"'"})
  /\ LET j == First(i + 1, LAMBDA c : c = "'")
     IN  Token("Atom", SubSeq(src, i + 1, j - 1), j + 1)

RefuseChar ==
  /\ Scanning /\ i <= Len(src)
  /\ Char(i) \notin Space \cup Punctuation \cup NameChar \cup Symbol \cup {"%", "'"}
  /\ ~StartsTurnstile
  /\ refused' = TRUE
  /\ UNCHANGED <<src, i, toks>>

EndScan == Scanning /\ i > Len(src) /\ Token("EOF", "", i)

Scan == SkipSpace \/ SkipComment \/ ScanTurnstile \/ ScanPunctuation
  \/ ScanInteger \/ ScanAtom \/ ScanVar \/ ScanQuoted \/ RefuseChar \/ EndScan
=============================================================================
