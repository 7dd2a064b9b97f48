------------------------------- MODULE Cells -------------------------------
(***************************************************************************)
(* The tagged 64-bit word of cell.go: the low three bits are the tag, the  *)
(* upper 61 bits the value.  A cell is a record of the two.  ValueSpace    *)
(* stands for 2^61, the number of values the upper bits can hold.          *)
(***************************************************************************)
EXTENDS Integers

CONSTANT ValueSpace

ASSUME ValueSpaceAssumption == ValueSpace \in Nat \ {0}

TagREF == 0   \* unbound (pointing to itself) or bound variable
TagSTR == 1   \* pointer to a FUN cell
TagATM == 2
TagINT == 3
TagLIS == 4   \* pointer to a [head, tail] pair
TagFUN == 5   \* first cell of a structure block

Cell == [tag : 0 .. 7, val : Nat]

REF(addr) == [tag |-> TagREF, val |-> addr]
STR(addr) == [tag |-> TagSTR, val |-> addr]
LIS(addr) == [tag |-> TagLIS, val |-> addr]
ATM(id)   == [tag |-> TagATM, val |-> id]
FUN(id)   == [tag |-> TagFUN, val |-> id]
INT(n)    == [tag |-> TagINT, val |-> n % ValueSpace]

IsREF(c) == c.tag = TagREF

\* The Go conversions Cell(n) and int(c), which reinterpret the word: they
\* carry constants in instruction operands and levels in registers.
CellOf(n) == [tag |-> n % 8, val |-> (n \div 8) % ValueSpace]
IntOf(c)  == 8 * c.val + c.tag
=============================================================================
