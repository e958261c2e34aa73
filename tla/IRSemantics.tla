------------------------------ MODULE IRSemantics ------------------------------
(***************************************************************************)
(* What LLVM says of the instructions that the local optimizations look at *)
(* (src/Alloca2Reg.cpp): the meaning of a function without loops, as the   *)
(* calls it makes and the memory it leaves.                                *)
(*                                                                         *)
(* Integers end at MaxInt in place of 2^31 - 1.  Memory has one global     *)
(* scalar, cell 0, and one global array, the cells from 1 on.  A call      *)
(* hands its argument and the memory to a function that knows nothing of   *)
(* its caller: it keeps both, writes the argument to the scalar, and       *)
(* returns what the scalar held.                                           *)
(***************************************************************************)
EXTENDS Integers, Sequences

CONSTANT MaxInt   \* the greatest integer

ASSUME SemanticsAssumption == MaxInt \in Nat \ {0}

MinInt == -MaxInt - 1
Ints == MinInt..MaxInt

(* The signed number that the low bits of an exact result stand for. *)
Wrap(n) == ((n - MinInt) % (2 * (MaxInt + 1))) + MinInt

Bit(b) == IF b THEN 1 ELSE 0

(* Operands: constants, the address of the scalar, results by number. *)
Const(n) == [k |-> "const", v |-> n]
Global == [k |-> "global", v |-> 0]
Ref(i) == [k |-> "ins", v |-> i]

Arithmetic == {"add", "sub", "mul", "sdiv"}
BinaryOps == Arithmetic \cup {"xor"}
Predicates == {"eq", "ne", "slt", "sle", "sgt", "sge"}
Computations == BinaryOps \cup Predicates
WithResult == Computations \cup {"phi", "gep", "load", "call"}
Terminators == {"br", "ret"}

(* C++ and sdiv round towards zero, \div towards minus infinity. *)
Quotient(x, y) ==
  LET Abs(n) == IF n < 0 THEN -n ELSE n
      q == Abs(x) \div Abs(y)
  IN  IF (x < 0) = (y < 0) THEN q ELSE -q

(* The exact result of an operation, y # 0 if it is a division. *)
Exact(op, x, y) ==
  CASE op = "add" -> x + y
    [] op = "sub" -> x - y
    [] op = "mul" -> x * y
    [] op = "sdiv" -> Quotient(x, y)
    [] op = "xor" -> (x + y) % 2           \* on i1 only: !x
    [] op = "eq" -> Bit(x = y)
    [] op = "ne" -> Bit(x # y)
    [] op = "slt" -> Bit(x < y)
    [] op = "sle" -> Bit(x <= y)
    [] op = "sgt" -> Bit(x > y)
    [] op = "sge" -> Bit(x >= y)

(* Division by zero, and the one quotient that is no integer. *)
Traps(op, x, y) == op = "sdiv" /\ (y = 0 \/ (x = MinInt /\ y = -1))

(* A function is a sequence of instructions [op, args, block, to]: to are  *)
(* the targets of a branch, or the blocks a phi takes its arguments from.  *)
(* Blocks are numbered; their instructions are consecutive, and branches   *)
(* go forward.  What is executed are the instructions live of function f   *)
(* with the operands arg.  The state of an execution is the instruction    *)
(* that comes next, pc, the block the last branch came from, the           *)
(* instructions executed and their results, the memory, and what has been  *)
(* seen from outside: the calls, and the memory at the end.                *)

(* The first instruction in S from i on, or n + 1. *)
First(S, i, n) ==
  IF \E j \in S : j >= i THEN CHOOSE j \in S : j >= i /\ \A k \in S : k >= i => j <= k
                         ELSE n + 1

Entered(f, live, b) == First(live, First({i \in DOMAIN f : f[i].block = b}, 1, Len(f)), Len(f))

Start(f, live, mem) ==
  [pc |-> Entered(f, live, 1), from |-> 0, done |-> {}, val |-> [i \in DOMAIN f |-> 0],
   mem |-> mem, out |-> <<"start">>]

Known(s, o) == o.k = "ins" => o.v \in s.done
Value(s, o) == IF o.k = "ins" THEN s.val[o.v] ELSE o.v

(* The places of the operands that an execution reads; a phi reads one. *)
Reads(f, arg, s) ==
  IF f[s.pc].op = "phi" THEN {j \in DOMAIN f[s.pc].to : f[s.pc].to[j] = s.from}
                        ELSE DOMAIN arg[s.pc]

Operand(arg, s, j) == Value(s, arg[s.pc][j])

(* LLVM leaves the execution undefined, or does not accept the function. *)
Stuck(f, arg, s) ==
  LET op == f[s.pc].op
      x == Operand(arg, s, 1)
      y == Operand(arg, s, 2)
  IN  \/ \E j \in Reads(f, arg, s) : ~Known(s, arg[s.pc][j])
      \/ op = "phi" /\ Reads(f, arg, s) = {}
      \/ op \in Computations /\ (x \notin Ints \/ y \notin Ints \/ Traps(op, x, y))
      \/ op \in {"load", "store"} /\ x \notin DOMAIN s.mem

Result(f, arg, s) ==
  LET op == f[s.pc].op IN
  CASE op \in Computations -> Wrap(Exact(op, Operand(arg, s, 1), Operand(arg, s, 2)))
    [] op = "phi" -> Operand(arg, s, CHOOSE j \in Reads(f, arg, s) : TRUE)
    [] op = "gep" -> 1 + Operand(arg, s, 1)
    [] op = "load" -> s.mem[Operand(arg, s, 1)]
    [] op = "call" -> s.mem[0]

Following(f, live, arg, s) ==
  CASE f[s.pc].op = "br" ->
         Entered(f, live, f[s.pc].to[IF Len(f[s.pc].to) = 1 \/ Operand(arg, s, 1) # 0 THEN 1 ELSE 2])
    [] f[s.pc].op = "ret" -> Len(f) + 1
    [] OTHER -> First(live, s.pc + 1, Len(f))

Values(f, arg, s) ==
  IF f[s.pc].op \in WithResult THEN [s.val EXCEPT ![s.pc] = Result(f, arg, s)] ELSE s.val

Memory(f, arg, s) ==
  CASE f[s.pc].op = "store" -> [s.mem EXCEPT ![Operand(arg, s, 1)] = Operand(arg, s, 2)]
    [] f[s.pc].op = "call" -> [s.mem EXCEPT ![0] = Operand(arg, s, 1)]
    [] OTHER -> s.mem

Output(f, arg, s) ==
  CASE f[s.pc].op = "call" -> Append(s.out, <<Operand(arg, s, 1), s.mem>>)
    [] f[s.pc].op = "ret" -> Append(s.out, s.mem)
    [] OTHER -> s.out

Trapped == << >>

Execute(f, live, arg, s) ==
  IF Stuck(f, arg, s) THEN [s EXCEPT !.pc = Len(f) + 1, !.out = Trapped]
  ELSE [pc |-> Following(f, live, arg, s),
        from |-> IF f[s.pc].op = "br" THEN f[s.pc].block ELSE s.from,
        done |-> s.done \cup {s.pc},
        val |-> Values(f, arg, s),
        mem |-> Memory(f, arg, s),
        out |-> Output(f, arg, s)]

Visit(f, live, arg, s, i) == IF s.pc = i THEN Execute(f, live, arg, s) ELSE s

(* An execution passes all instructions once, and executes the ones that   *)
(* it gets to.  There is one state behind each of them.                    *)
Execution(f, live, arg, mem) ==
  LET run[i \in 0..Len(f)] == IF i = 0 THEN {Start(f, live, mem)}
                              ELSE {Visit(f, live, arg, s, i) : s \in run[i - 1]}
  IN  run

Undefined == {Trapped}

(* What the function does on the memory mem, as a set of one element: the  *)
(* calls it makes and the memory it leaves, or Undefined.                  *)
Run(f, live, arg, mem) == {s.out : s \in Execution(f, live, arg, mem)[Len(f)]}
=============================================================================
