------------------------------ MODULE ExprTypes ------------------------------
(***************************************************************************)
(* Expression types: what VerifyAndBuildSymbols computes for an expression *)
(* next to what IRGenerator emits for it.                                  *)
(*                                                                         *)
(* Both visit an expression bottom up.  The stack holds the operands that  *)
(* are complete and not used yet; an action completes one more expression, *)
(* or the statement that uses them.  Since operands are described by their *)
(* types only, the bound on the stack does not bound expressions in size.  *)
(* Once there is an error nothing is generated, and the model stops.       *)
(***************************************************************************)
EXTENDS Literals, Sequences

CONSTANTS
  Numbers,   \* the numbers of the literals
  MaxParens, \* bound: pairs of parentheses around the operand of a minus
  Bounds,    \* the array bounds of variables, 0 for a scalar
  MaxStack   \* bound: operands waiting

ASSUME ExprAssumption ==
  Numbers \subseteq Nat /\ MaxParens \in Nat /\ Bounds \subseteq Nat /\ MaxStack \in Nat \ {0}

Type(prim, bound) == [prim |-> prim, bound |-> bound]
VoidType == Type("void", 0)
IntType == Type("int", 0)
BoolType == Type("bool", 0)
CharType == Type("char", 0)

VarTypes == {Type(p, n) : p \in {"int", "bool", "char"}, n \in Bounds}
ReturnTypes == {VoidType, IntType, BoolType, CharType}
ParamTypes == {IntType, BoolType, CharType}

IndexedType(t) == Type(t.prim, 0)

(* getLLVMType; the ExprValues of a void call stay empty. *)
LLVMType(t) ==
  [prim |-> [int |-> "i32", bool |-> "i1", char |-> "i8", void |-> "none"][t.prim],
   bound |-> t.bound]
None == LLVMType(VoidType)

VARIABLES
  stack,   \* [type, val]: the verifier's type, the type of the LLVM value
  errors,  \* the verifier has reported an error
  ill,     \* <<what, op>>: what is wrong with the operands of an instruction
  misread  \* the parentheses of the literals that were not read as written

exprVars == <<stack, errors, ill, misread>>

ExprInit == stack = << >> /\ errors = FALSE /\ ill = {} /\ misread = {}

Arg(i) == stack[Len(stack) - i]
Rest(n) == SubSeq(stack, 1, Len(stack) - n)

(* n operands are replaced by an expression.  ok: the verifier accepts it; *)
(* t, v: its type and the type of its value.                               *)
Complete(n, ok, t, v) ==
  /\ ~errors
  /\ Len(stack) - n < MaxStack
  /\ stack' = Append(Rest(n), [type |-> t, val |-> v])
  /\ errors' = ~ok

(* The n operands of the statement are used up. *)
Finish(n, ok) ==
  /\ ~errors
  /\ Len(stack) = n
  /\ stack' = << >>
  /\ errors' = ~ok

(* An instruction op is emitted with operands of these types, which should *)
(* be the ones it wants.                                                   *)
Emit(op, have, want) ==
  /\ ill' = ill \cup (IF None \in {have[i] : i \in DOMAIN have} THEN {<<"void", op>>}
                      ELSE IF have # want THEN {<<"mismatch", op>>} ELSE {})
                \cup (IF \E i \in DOMAIN have : have[i].bound > 0 THEN {<<"array", op>>} ELSE {})
  /\ UNCHANGED misread

NoCode == UNCHANGED <<ill, misread>>

-----------------------------------------------------------------------------
(* A literal out of range is reported and goes on as an int. *)
Literal(number, parens, minus, literal) ==
  /\ Complete(0, literal.valid, IntType, LLVMType(IntType))
  /\ misread' = misread \cup (IF literal = Denoted(number, minus) THEN {} ELSE {parens})
  /\ UNCHANGED ill

IntLiteral == \E n \in Numbers : Literal(n, 0, FALSE, fromString(n, 0, FALSE))

(* - and a literal, which is read again with the minus. *)
NegatedLiteral ==
  \E n \in Numbers, parens \in 0..MaxParens :
    Literal(n, parens, TRUE, Negated(fromString(n, parens, TRUE)))

BoolOrCharLiteral ==
  \E t \in {BoolType, CharType} : Complete(0, TRUE, t, LLVMType(t)) /\ NoCode

(* A variable is loaded with its declared type, an array as a whole; one   *)
(* that is not declared has type void.                                     *)
VarExpr ==
  /\ \/ \E t \in VarTypes : Complete(0, TRUE, t, LLVMType(t))
     \/ Complete(0, FALSE, VoidType, None)
  /\ NoCode

(* a[i].  Indexing a scalar is an error and keeps the scalar's type. *)
IndexedVarExpr ==
  /\ Len(stack) >= 1
  /\ \E t \in VarTypes :
       LET elem == IF t.bound = 0 THEN t ELSE IndexedType(t)
       IN  Complete(1, Arg(0).type = IntType /\ t.bound # 0, elem, LLVMType(elem))
  /\ Emit("index", <<Arg(0).val>>, <<LLVMType(IntType)>>)

UnaryExpr ==
  /\ Len(stack) >= 1
  /\ \E op \in {"neg", "not"} :
       LET t == Arg(0).type
           needs == IF op = "neg" THEN IntType ELSE BoolType
       IN  /\ Complete(1, t = needs, t, Arg(0).val)
           /\ Emit(op, <<Arg(0).val>>, <<LLVMType(needs)>>)

(* Seeded bug: the right operand is not checked. *)
LogicExpr_LeftOnly ==
  /\ Len(stack) >= 2
  /\ Complete(2, Arg(1).type = BoolType, Arg(1).type, LLVMType(BoolType))
  /\ Emit("logic", <<Arg(1).val, Arg(0).val>>, <<LLVMType(BoolType), LLVMType(BoolType)>>)

(* && and ||: both must be bool; the value is the phi. *)
LogicExpr ==
  /\ Len(stack) >= 2
  /\ Complete(2, Arg(1).type = BoolType /\ Arg(0).type = BoolType, Arg(1).type, LLVMType(BoolType))
  /\ Emit("logic", <<Arg(1).val, Arg(0).val>>, <<LLVMType(BoolType), LLVMType(BoolType)>>)

(* == and !=: the types must be equal and not those of an array. *)
EqualityExpr ==
  /\ Len(stack) >= 2
  /\ Complete(2, Arg(1).type = Arg(0).type /\ Arg(1).type.bound = 0, BoolType, LLVMType(BoolType))
  /\ Emit("equal", <<Arg(1).val, Arg(0).val>>, <<Arg(1).val, Arg(1).val>>)

(* Seeded bug: a comparison has the type of its operands. *)
IntBinaryExpr_Inherit ==
  /\ Len(stack) >= 2
  /\ LET ok == Arg(1).type = IntType /\ Arg(0).type = IntType
     IN  Complete(2, ok, Arg(1).type, LLVMType(BoolType))
  /\ Emit("int", <<Arg(1).val, Arg(0).val>>, <<LLVMType(IntType), LLVMType(IntType)>>)

(* < <= > >= and + - * /: both must be int. *)
IntBinaryExpr ==
  /\ Len(stack) >= 2
  /\ LET ok == Arg(1).type = IntType /\ Arg(0).type = IntType
     IN  \/ Complete(2, ok, BoolType, LLVMType(BoolType))
         \/ Complete(2, ok, Arg(1).type, Arg(1).val)
  /\ Emit("int", <<Arg(1).val, Arg(0).val>>, <<LLVMType(IntType), LLVMType(IntType)>>)

(* A call with as many arguments as the function has parameters, or not. *)
CallExpr ==
  \E ret \in ReturnTypes, params \in UNION {[1..n -> ParamTypes] : n \in 0..2}, args \in 0..2 :
    LET types == [i \in 1..args |-> Arg(args - i).type]
    IN  /\ Len(stack) >= args
        /\ Complete(args, types = params, ret, LLVMType(ret))
        /\ Emit("call", [i \in 1..args |-> Arg(args - i).val],
                        [i \in DOMAIN params |-> LLVMType(params[i])])

(* v = e: the value of the assignment is the value that is stored. *)
AssignmentExpr ==
  /\ Len(stack) >= 1
  /\ \E t \in VarTypes :
       /\ Complete(1, t = Arg(0).type, t, Arg(0).val)
       /\ Emit("assign", <<Arg(0).val>>, <<LLVMType(t)>>)

(* v[i] = e, with i below e on the stack. *)
IndexedAssignmentExpr ==
  /\ Len(stack) >= 2
  /\ \E t \in VarTypes :
       LET elem == IF t.bound = 0 THEN t ELSE IndexedType(t)
       IN  /\ Complete(2, Arg(1).type = IntType /\ t.bound # 0 /\ elem = Arg(0).type,
                       elem, Arg(0).val)
           /\ Emit("store", <<Arg(1).val, Arg(0).val>>, <<LLVMType(IntType), LLVMType(elem)>>)

ExprStatement == Len(stack) = 1 /\ Finish(1, TRUE) /\ NoCode

(* The condition of an if, a while or a for. *)
Condition ==
  /\ Len(stack) = 1
  /\ Finish(1, Arg(0).type = BoolType)
  /\ Emit("branch", <<Arg(0).val>>, <<LLVMType(BoolType)>>)

(* return in a function with result type t; a void function may not return *)
(* an expression and a function that is not void must.                     *)
ReturnStatement ==
  \E t \in ReturnTypes :
    \/ /\ Finish(0, t = VoidType)
       /\ Emit("ret", << >>, IF t = VoidType THEN << >> ELSE <<LLVMType(t)>>)
    \/ /\ Len(stack) = 1
       /\ Finish(1, t # VoidType /\ Arg(0).type = t)
       /\ Emit("ret", <<Arg(0).val>>, <<LLVMType(t)>>)

ExprNext ==
  \/ IntLiteral \/ NegatedLiteral \/ BoolOrCharLiteral \/ VarExpr \/ IndexedVarExpr
  \/ UnaryExpr \/ LogicExpr \/ EqualityExpr \/ IntBinaryExpr \/ CallExpr
  \/ AssignmentExpr \/ IndexedAssignmentExpr
  \/ ExprStatement \/ Condition \/ ReturnStatement

ExprSpec == ExprInit /\ [][ExprNext]_exprVars

-----------------------------------------------------------------------------
Types == VarTypes \cup ReturnTypes
Values == {LLVMType(t) : t \in Types}
Entries == [type : Types, val : Values]

ExprTypeOK ==
  /\ stack \in Seq(Entries)
  /\ Len(stack) <= MaxStack
  /\ errors \in BOOLEAN
  /\ misread \subseteq 0..MaxParens

(* As long as there is no error, the type the verifier gave an expression  *)
(* is the type of the value generated for it, at any depth: what the check *)
(* of an operand relies on is what the instruction finds.                  *)
ValuesMatchTypes ==
  ~errors => \A i \in DOMAIN stack : stack[i].val = LLVMType(stack[i].type)

(* An accepted program makes no ill-typed instruction, with two exceptions *)
(* the verifier lets through: two void calls are compared, and an array is *)
(* copied by an assignment.                                                *)
InstructionsWellTyped == ~errors => ill \subseteq {<<"void", "equal">>, <<"array", "assign">>}

(* An int literal, with the minus before it, is accepted if and only if    *)
(* its value is an int, and then the program gets this value.  The         *)
(* smallest int is a literal that is out of range without its minus.  The  *)
(* exception are literals in parentheses behind a minus: -(5) is read as   *)
(* 0, and -(123456789) is rejected.                                        *)
LiteralsExact == 0 \notin misread
=============================================================================
