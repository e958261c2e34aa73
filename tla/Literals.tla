------------------------------ MODULE Literals ------------------------------
(***************************************************************************)
(* Integer literals: ConstantLiteralExpr::fromString and the rule of the   *)
(* grammar for a unary minus.  The text of a literal is the number it      *)
(* denotes and the pairs of parentheses around it.                         *)
(*                                                                         *)
(* A literal is read when it is met; if the operand of a minus turns out   *)
(* to be a literal, the text of the operand is read once more, parentheses *)
(* and all, because 2147483648 is out of range without the minus.          *)
(***************************************************************************)
EXTENDS Integers

CONSTANTS
  MaxInt,    \* INT_MAX
  MaxChars   \* the longest text that is read, 10 for 32 bits

MinInt == -MaxInt - 1

(* INT_MIN has no more digits than are read. *)
ASSUME LiteralsAssumption ==
  /\ MaxInt \in Nat
  /\ MaxChars \in Nat \ {0}
  /\ 10 ^ MaxChars \in Nat
  /\ 10 ^ MaxChars > MaxInt + 1

ReadAs(i) == [valid |-> TRUE, value |-> i]
OutOfRange == [valid |-> FALSE, value |-> 0]

(* A number as an int, at most one turn away. *)
ToInt(i) == IF i > MaxInt THEN i - 2 * (MaxInt + 1)
            ELSE IF i < MinInt THEN i + 2 * (MaxInt + 1) ELSE i

TooLong(number, parens) ==
  2 * parens >= MaxChars \/ number >= 10 ^ (MaxChars - 2 * parens)

(* Seeded bug: the minus is not applied before the check. *)
InRange_Unsigned(number, minus) == number \in MinInt..MaxInt

InRange(number, minus) == (IF minus THEN -number ELSE number) \in MinInt..MaxInt

(* The stream reads no number, that is 0, from a text that begins with a   *)
(* parenthesis; the literal is the number without the minus.               *)
fromString(number, parens, minus) ==
  LET res == IF parens = 0 THEN number ELSE 0
  IN  IF TooLong(number, parens) \/ ~InRange(res, minus) THEN OutOfRange
      ELSE ReadAs(ToInt(res))

(* The value of the UnaryExpr around a literal: a subtraction in 32 bits. *)
Negated(literal) == IF literal.valid THEN ReadAs(ToInt(-literal.value)) ELSE literal

(* What the program says. *)
Denoted(number, minus) ==
  LET i == IF minus THEN -number ELSE number
  IN  IF i \in MinInt..MaxInt THEN ReadAs(i) ELSE OutOfRange
=============================================================================
