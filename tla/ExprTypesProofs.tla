--------------------------- MODULE ExprTypesProofs ---------------------------
(***************************************************************************)
(* For every set of numbers and array bounds, every width of int and every *)
(* depth of the expressions: the types of the verifier are the types of    *)
(* the generated values, an accepted program has no ill-typed instruction, *)
(* and its literals have the values they denote.                           *)
(*                                                                         *)
(* ValuesMatchTypes and InstructionsWellTyped hold together only: the      *)
(* verifier looks at types, an instruction at values, and the first makes  *)
(* the checks of the verifier say something about the second.              *)
(***************************************************************************)
EXTENDS ExprTypes, TLAPS, SequenceTheorems

ExprInv ==
  /\ ExprTypeOK
  /\ ValuesMatchTypes
  /\ InstructionsWellTyped
  /\ LiteralsExact

-----------------------------------------------------------------------------
(* A literal is exactly what the program says unless its text has          *)
(* parentheses, with a minus and without.                                  *)
LEMMA PlainLiteral ==
  ASSUME NEW n \in Nat, NEW minus \in BOOLEAN
  PROVE  /\ InRange(n, minus) => ~TooLong(n, 0)
         /\ fromString(n, 0, minus) = IF InRange(n, minus) THEN ReadAs(ToInt(n)) ELSE OutOfRange
<1>1. ~(2 * 0 >= MaxChars) /\ MaxChars - 2 * 0 = MaxChars
  BY LiteralsAssumption
<1>2. TooLong(n, 0) <=> n >= 10 ^ MaxChars
  BY <1>1 DEF TooLong
<1>3. InRange(n, minus) => n <= MaxInt + 1
  BY LiteralsAssumption DEF InRange, MinInt
<1>4. InRange(n, minus) => ~TooLong(n, 0)
  BY <1>2, <1>3, LiteralsAssumption
<1> QED
  BY <1>4 DEF fromString

(* Without a sign in front of it a literal is what it denotes. *)
LEMMA UnsignedLiteral ==
  ASSUME NEW n \in Nat
  PROVE  fromString(n, 0, FALSE) = Denoted(n, FALSE)
<1>1. InRange(n, FALSE) <=> n \in MinInt..MaxInt
  BY DEF InRange
<1>2. n \in MinInt..MaxInt => ToInt(n) = n
  BY LiteralsAssumption DEF ToInt, MinInt
<1> QED
  BY <1>1, <1>2, PlainLiteral DEF Denoted

(* The number is 2^31 at most; it is read as -2^31 then, and the negation  *)
(* of that is the same again.                                              *)
LEMMA MinusLiteral ==
  ASSUME NEW n \in Nat
  PROVE  Negated(fromString(n, 0, TRUE)) = Denoted(n, TRUE)
<1>1. InRange(n, TRUE) <=> -n \in MinInt..MaxInt
  BY DEF InRange
<1>2. CASE ~InRange(n, TRUE)
  <2>1. fromString(n, 0, TRUE) = OutOfRange
    BY <1>2, PlainLiteral
  <2>2. Negated(OutOfRange) = OutOfRange
    BY DEF Negated, OutOfRange
  <2>3. Denoted(n, TRUE) = OutOfRange
    BY <1>1, <1>2 DEF Denoted
  <2> QED
    BY <2>1, <2>2, <2>3
<1>3. CASE InRange(n, TRUE)
  <2>1. fromString(n, 0, TRUE) = ReadAs(ToInt(n))
    BY <1>3, PlainLiteral
  <2>2. ToInt(-ToInt(n)) = -n
    <3>1. n \in 0..MaxInt + 1
      <4>1. -n \in MinInt..MaxInt
        BY <1>1, <1>3
      <4>2. MinInt \in Int /\ MaxInt \in Int /\ MinInt = -MaxInt - 1
        BY LiteralsAssumption DEF MinInt
      <4>3. MinInt <= -n
        BY <4>1, <4>2
      <4> QED
        BY <4>2, <4>3
    <3>2. CASE n <= MaxInt
      <4>1. ToInt(n) = n
        BY <3>1, <3>2, LiteralsAssumption DEF ToInt, MinInt
      <4>2. ToInt(-n) = -n
        BY <3>1, <3>2, LiteralsAssumption DEF ToInt, MinInt
      <4> QED
        BY <4>1, <4>2
    <3>3. CASE n = MaxInt + 1
      <4>1. ToInt(n) = -n
        BY <3>3, LiteralsAssumption DEF ToInt, MinInt
      <4>2. -(-n) = n
        OBVIOUS
      <4> QED
        BY <4>1, <4>2
    <3> QED
      BY <3>1, <3>2, <3>3, LiteralsAssumption
  <2>3. Negated(ReadAs(ToInt(n))) = ReadAs(ToInt(-ToInt(n)))
    BY DEF Negated, ReadAs
  <2>4. Denoted(n, TRUE) = ReadAs(-n)
    BY <1>1, <1>3 DEF Denoted
  <2> QED
    BY <2>1, <2>2, <2>3, <2>4
<1> QED
  BY <1>2, <1>3

-----------------------------------------------------------------------------
(* Facts about types. *)
LEMMA TypesOfLiterals ==
  /\ {VoidType, IntType, BoolType, CharType} \subseteq Types
  /\ VarTypes \subseteq Types
  /\ \A t \in VarTypes : IndexedType(t) \in Types
  /\ \A t \in Types : t.bound \in Nat
  /\ \A t \in Types : LLVMType(t) \in Values
  /\ None \in Values
  BY ExprAssumption DEF Values, None, Types, VarTypes, ReturnTypes, VoidType, IntType, BoolType, CharType,
     IndexedType, Type

(* Only void has no values. *)
LEMMA NoneIsVoid == \A t \in Types : LLVMType(t) = None => t = VoidType
  BY ExprAssumption DEF Types, VarTypes, ReturnTypes, VoidType, IntType, BoolType, CharType,
     LLVMType, None, Type

(* Values of the scalar types are no arrays. *)
LEMMA ScalarValues ==
  /\ LLVMType(IntType) # None /\ LLVMType(IntType).bound = 0
  /\ LLVMType(BoolType) # None /\ LLVMType(BoolType).bound = 0
  /\ LLVMType(CharType) # None /\ LLVMType(CharType).bound = 0
  BY DEF VoidType, IntType, BoolType, CharType, LLVMType, None, Type

(* The operands that an action uses are on the stack. *)
LEMMA Operands ==
  ASSUME ExprInv, NEW i \in Nat, i < Len(stack)
  PROVE  /\ Arg(i).type \in Types
         /\ Arg(i).val \in Values
         /\ ~errors => Arg(i).val = LLVMType(Arg(i).type)
<1>1. stack \in Seq(Entries) /\ Len(stack) \in Nat /\ DOMAIN stack = 1..Len(stack)
  BY DEF ExprInv, ExprTypeOK
<1>2. Len(stack) - i \in DOMAIN stack
  BY <1>1
<1>3. stack[Len(stack) - i] \in Entries
  BY <1>1, <1>2, ElementOfSeq
<1> QED
  BY <1>2, <1>3 DEF ExprInv, ValuesMatchTypes, Arg, Entries

(* An expression whose value has the type the verifier gives it, if it is  *)
(* accepted, keeps the stack as it should be.                              *)
LEMMA CompleteKeeps ==
  ASSUME ExprInv, NEW n \in Nat, n <= Len(stack), NEW ok \in BOOLEAN,
         NEW t \in Types, NEW v \in Values,
         ok => v = LLVMType(t),
         Complete(n, ok, t, v)
  PROVE  /\ stack' \in Seq(Entries) /\ Len(stack') <= MaxStack
         /\ errors' = ~ok /\ ~errors
         /\ ValuesMatchTypes'
<1>1. stack \in Seq(Entries) /\ Len(stack) \in Nat
  BY DEF ExprInv, ExprTypeOK
<1>2. Rest(n) \in Seq(Entries) /\ Len(Rest(n)) = Len(stack) - n
      /\ \A i \in 1..Len(stack) - n : Rest(n)[i] = stack[i]
  BY <1>1 DEF Rest
<1> DEFINE e == [type |-> t, val |-> v]
<1>3. e \in Entries
  BY DEF Entries
<1>4. stack' = Append(Rest(n), e) /\ errors' = ~ok /\ ~errors /\ Len(stack) - n < MaxStack
  BY DEF Complete
<1> HIDE DEF e
<1>5. /\ stack' \in Seq(Entries) /\ Len(stack') = Len(stack) - n + 1
      /\ \A i \in 1..Len(stack) - n : stack'[i] = Rest(n)[i]
      /\ stack'[Len(stack) - n + 1] = e
  BY <1>1, <1>2, <1>3, <1>4, AppendProperties
<1>6. Len(stack') <= MaxStack
  BY <1>1, <1>4, <1>5, ExprAssumption
<1>7. ASSUME ok, NEW i \in DOMAIN stack' PROVE stack'[i].val = LLVMType(stack'[i].type)
  <2>1. i \in 1..Len(stack) - n + 1
    BY <1>5, <1>7
  <2>2. CASE i = Len(stack) - n + 1
    <3>1. stack'[i] = e
      BY <1>5, <2>2
    <3> QED
      BY <1>7, <3>1 DEF e
  <2>3. CASE i # Len(stack) - n + 1
    <3>1. i \in 1..Len(stack) - n /\ i \in DOMAIN stack
      BY <1>1, <2>1, <2>3
    <3>2. stack'[i] = stack[i]
      BY <1>2, <1>5, <3>1
    <3> QED
      BY <1>4, <3>1, <3>2 DEF ExprInv, ValuesMatchTypes
  <2> QED
    BY <2>2, <2>3
<1> QED
  BY <1>4, <1>5, <1>6, <1>7 DEF ValuesMatchTypes

(* The end of every visitor: its result on the stack, or an error. *)
LEMMA FinishKeeps ==
  ASSUME ExprInv, NEW n \in Nat, NEW ok \in BOOLEAN, Finish(n, ok)
  PROVE  /\ stack' \in Seq(Entries) /\ Len(stack') <= MaxStack
         /\ errors' = ~ok /\ ~errors
         /\ ValuesMatchTypes'
  BY ExprAssumption DEF Finish, ValuesMatchTypes

(* An instruction that finds what it wants, without arrays, is not ill.    *)
LEMMA EmitClean ==
  ASSUME NEW op, NEW have, NEW want, Emit(op, have, want),
         have = want, \A i \in DOMAIN have : have[i] # None /\ have[i].bound = 0
  PROVE  ill' = ill /\ misread' = misread
  BY DEF Emit

(* What is left to show of an action. *)
LEMMA StepKeeps ==
  ASSUME ExprInv,
         stack' \in Seq(Entries), Len(stack') <= MaxStack, errors' \in BOOLEAN, ~errors,
         ValuesMatchTypes',
         misread' \subseteq 0..MaxParens, 0 \notin misread',
         errors' \/ ill' \subseteq ill \cup {<<"void", "equal">>, <<"array", "assign">>}
  PROVE  ExprInv'
  BY DEF ExprInv, ExprTypeOK, InstructionsWellTyped, LiteralsExact

-----------------------------------------------------------------------------
(* Nothing has been visited. *)
LEMMA ExprInvInit == ExprInit => ExprInv
<1> SUFFICES ASSUME ExprInit PROVE ExprInv
  OBVIOUS
<1>1. stack = << >> /\ errors = FALSE /\ ill = {} /\ misread = {}
  BY DEF ExprInit
<1>2. stack \in Seq(Entries) /\ Len(stack) = 0 /\ DOMAIN stack = {}
  BY <1>1
<1>3. ExprTypeOK
  <2>1. Len(stack) <= MaxStack
    BY <1>2, ExprAssumption
  <2>2. misread \subseteq 0..MaxParens
    BY <1>1
  <2> QED
    BY <1>1, <1>2, <2>1, <2>2 DEF ExprTypeOK
<1> QED
  BY <1>1, <1>2, <1>3 DEF ExprInv, ValuesMatchTypes, InstructionsWellTyped, LiteralsExact

(* An action that completes an expression.                                 *)
LEMMA ExpressionKeeps ==
  ASSUME ExprInv, NEW n \in Nat, n <= Len(stack), NEW ok \in BOOLEAN,
         NEW t \in Types, NEW v \in Values,
         ~errors /\ ok => v = LLVMType(t), Complete(n, ok, t, v),
         misread' = misread,
         ~errors /\ ok => ill' \subseteq ill \cup {<<"void", "equal">>, <<"array", "assign">>}
  PROVE  ExprInv'
<1>1. ~errors
  BY DEF Complete
<1>2. /\ stack' \in Seq(Entries) /\ Len(stack') <= MaxStack
      /\ errors' = ~ok
      /\ ValuesMatchTypes'
  BY <1>1, CompleteKeeps
<1>3. misread \subseteq 0..MaxParens /\ 0 \notin misread
  BY DEF ExprInv, ExprTypeOK, LiteralsExact
<1> QED
  BY <1>1, <1>2, <1>3, StepKeeps

(* And one that completes a statement.                                     *)
LEMMA StatementKeeps ==
  ASSUME ExprInv, NEW n \in Nat, NEW ok \in BOOLEAN, Finish(n, ok), misread' = misread,
         ~errors /\ ok => ill' = ill
  PROVE  ExprInv'
<1>1. /\ stack' \in Seq(Entries) /\ Len(stack') <= MaxStack
      /\ errors' = ~ok /\ ~errors
      /\ ValuesMatchTypes'
  BY FinishKeeps
<1>2. misread \subseteq 0..MaxParens /\ 0 \notin misread
  BY DEF ExprInv, ExprTypeOK, LiteralsExact
<1> QED
  BY <1>1, <1>2, StepKeeps

-----------------------------------------------------------------------------
(* The actions. *)
LEMMA LiteralsKeep == ExprInv /\ (IntLiteral \/ NegatedLiteral) => ExprInv'
<1> SUFFICES ASSUME ExprInv, IntLiteral \/ NegatedLiteral PROVE ExprInv'
  OBVIOUS
<1>0. PICK n \in Nat, parens \in 0..MaxParens, minus \in BOOLEAN : \E literal :
        /\ Literal(n, parens, minus, literal)
        /\ parens = 0 => literal = Denoted(n, minus)
        /\ literal.valid \in BOOLEAN
  <2>1. CASE IntLiteral
    <3>1. PICK n \in Numbers : Literal(n, 0, FALSE, fromString(n, 0, FALSE))
      BY <2>1 DEF IntLiteral
    <3>2. n \in Nat /\ 0 \in 0..MaxParens
      BY ExprAssumption
    <3>3. fromString(n, 0, FALSE) = Denoted(n, FALSE)
      BY <3>2, UnsignedLiteral
    <3>4. fromString(n, 0, FALSE).valid \in BOOLEAN
      BY DEF fromString, OutOfRange, ReadAs
    <3> QED
      BY <3>1, <3>2, <3>3, <3>4
  <2>2. CASE NegatedLiteral
    <3>1. PICK n \in Numbers, k \in 0..MaxParens :
            Literal(n, k, TRUE, Negated(fromString(n, k, TRUE)))
      BY <2>2 DEF NegatedLiteral
    <3>2. n \in Nat
      BY ExprAssumption
    <3>3. k = 0 => Negated(fromString(n, k, TRUE)) = Denoted(n, TRUE)
      BY <3>2, MinusLiteral
    <3>4. Negated(fromString(n, k, TRUE)).valid \in BOOLEAN
      BY DEF Negated, fromString, OutOfRange, ReadAs
    <3> QED
      BY <3>1, <3>2, <3>3, <3>4
  <2> QED
    BY <2>1, <2>2
<1>1. PICK literal :
        /\ Literal(n, parens, minus, literal)
        /\ parens = 0 => literal = Denoted(n, minus)
        /\ literal.valid \in BOOLEAN
  BY <1>0
<1>2. Complete(0, literal.valid, IntType, LLVMType(IntType)) /\ ill' = ill
  BY <1>1 DEF Literal
<1>3. 0 \in Nat /\ 0 <= Len(stack)
  BY DEF ExprInv, ExprTypeOK
<1>4. /\ stack' \in Seq(Entries) /\ Len(stack') <= MaxStack
      /\ errors' \in BOOLEAN /\ ~errors
      /\ ValuesMatchTypes'
  BY <1>1, <1>2, <1>3, CompleteKeeps, TypesOfLiterals
<1>5. misread' \subseteq 0..MaxParens /\ 0 \notin misread'
  BY <1>1 DEF Literal, ExprInv, ExprTypeOK, LiteralsExact
<1> QED
  BY <1>2, <1>4, <1>5, StepKeeps

(* Visitors of literals and names. *)
LEMMA NamesKeep == ExprInv /\ (BoolOrCharLiteral \/ VarExpr) => ExprInv'
<1> SUFFICES ASSUME ExprInv, BoolOrCharLiteral \/ VarExpr PROVE ExprInv'
  OBVIOUS
<1>1. 0 \in Nat /\ 0 <= Len(stack)
  BY DEF ExprInv, ExprTypeOK
<1>2. PICK ok \in BOOLEAN, t \in Types, v \in Values :
        Complete(0, ok, t, v) /\ (ok => v = LLVMType(t)) /\ NoCode
  <2>1. CASE BoolOrCharLiteral
    BY <2>1, TypesOfLiterals DEF BoolOrCharLiteral
  <2>2. CASE VarExpr
    BY <2>2, TypesOfLiterals DEF VarExpr
  <2> QED
    BY <2>1, <2>2
<1> QED
  BY <1>1, <1>2, ExpressionKeeps DEF NoCode

(* The visitor of an indexed name. *)
LEMMA IndexKeeps == ExprInv /\ IndexedVarExpr => ExprInv'
<1> SUFFICES ASSUME ExprInv, IndexedVarExpr PROVE ExprInv'
  OBVIOUS
<1>1. PICK t \in VarTypes, elem \in Types :
        Complete(1, Arg(0).type = IntType /\ t.bound # 0, elem, LLVMType(elem))
  BY TypesOfLiterals DEF IndexedVarExpr
<1>2. Emit("index", <<Arg(0).val>>, <<LLVMType(IntType)>>) /\ 0 < Len(stack) /\ 1 <= Len(stack)
  BY DEF IndexedVarExpr, ExprInv, ExprTypeOK
<1>3. misread' = misread
  BY <1>2 DEF Emit
<1>4. ~errors /\ Arg(0).type = IntType => ill' = ill
  <2> SUFFICES ASSUME ~errors, Arg(0).type = IntType PROVE ill' = ill
    OBVIOUS
  <2>1. Arg(0).val = LLVMType(IntType)
    BY <1>2, Operands
  <2> QED
    BY <1>2, <2>1, EmitClean, ScalarValues
<1> QED
  BY <1>1, <1>2, <1>3, <1>4, ExpressionKeeps, TypesOfLiterals

(* The visitor of a minus or a not. *)
LEMMA UnaryKeeps == ExprInv /\ UnaryExpr => ExprInv'
<1> SUFFICES ASSUME ExprInv, UnaryExpr PROVE ExprInv'
  OBVIOUS
<1>1. PICK op \in {"neg", "not"}, needs \in {IntType, BoolType} :
        /\ Complete(1, Arg(0).type = needs, Arg(0).type, Arg(0).val)
        /\ Emit(op, <<Arg(0).val>>, <<LLVMType(needs)>>)
  BY DEF UnaryExpr
<1>2. 0 < Len(stack) /\ 1 <= Len(stack) /\ ~errors
  BY <1>1 DEF UnaryExpr, ExprInv, ExprTypeOK, Complete
<1>3. Arg(0).type \in Types /\ Arg(0).val \in Values /\ Arg(0).val = LLVMType(Arg(0).type)
  BY <1>2, Operands
<1>4. Arg(0).type = needs => ill' = ill
  <2> SUFFICES ASSUME Arg(0).type = needs PROVE ill' = ill
    OBVIOUS
  <2>1. Arg(0).val = LLVMType(needs)
    BY <1>3
  <2>2. LLVMType(needs) # None /\ LLVMType(needs).bound = 0
    BY ScalarValues
  <2> QED
    BY <1>1, <2>1, <2>2, EmitClean
<1>5. misread' = misread
  BY <1>1 DEF Emit
<1> QED
  BY <1>1, <1>2, <1>3, <1>4, <1>5, ExpressionKeeps

(* The two operands of a binary expression. *)
LEMMA TwoOperands ==
  ASSUME ExprInv, ~errors, Len(stack) >= 2
  PROVE  /\ 2 <= Len(stack)
         /\ Arg(1).type \in Types /\ Arg(1).val \in Values
         /\ Arg(1).val = LLVMType(Arg(1).type)
         /\ Arg(0).type \in Types /\ Arg(0).val \in Values
         /\ Arg(0).val = LLVMType(Arg(0).type)
<1>1. 0 \in Nat /\ 1 \in Nat /\ 0 < Len(stack) /\ 1 < Len(stack) /\ 2 <= Len(stack)
  BY DEF ExprInv, ExprTypeOK
<1> QED
  BY <1>1, Operands

(* An instruction on two operands of one scalar type is well typed. *)
LEMMA EmitTwo ==
  ASSUME NEW op, NEW t \in {IntType, BoolType, CharType}, NEW a, NEW b,
         a = LLVMType(t), b = LLVMType(t),
         Emit(op, <<a, b>>, <<LLVMType(t), LLVMType(t)>>)
  PROVE  ill' = ill
  BY EmitClean, ScalarValues

(* The visitor of && and ||. *)
LEMMA LogicKeeps == ExprInv /\ LogicExpr => ExprInv'
<1> SUFFICES ASSUME ExprInv, LogicExpr PROVE ExprInv'
  OBVIOUS
<1> DEFINE ok == Arg(1).type = BoolType /\ Arg(0).type = BoolType
<1>1. /\ Complete(2, ok, Arg(1).type, LLVMType(BoolType))
      /\ Emit("logic", <<Arg(1).val, Arg(0).val>>, <<LLVMType(BoolType), LLVMType(BoolType)>>)
      /\ Len(stack) >= 2
  BY DEF LogicExpr
<1>2. ~errors /\ misread' = misread
  BY <1>1 DEF Complete, Emit
<1>3. ok => ill' = ill
  BY <1>1, <1>2, TwoOperands, EmitTwo
<1> QED
  BY <1>1, <1>2, <1>3, TwoOperands, ExpressionKeeps, TypesOfLiterals

(* The visitors of arithmetic and comparisons. *)
LEMMA IntBinaryKeeps == ExprInv /\ IntBinaryExpr => ExprInv'
<1> SUFFICES ASSUME ExprInv, IntBinaryExpr PROVE ExprInv'
  OBVIOUS
<1> DEFINE ok == Arg(1).type = IntType /\ Arg(0).type = IntType
<1>1. /\ \/ Complete(2, ok, BoolType, LLVMType(BoolType))
         \/ Complete(2, ok, Arg(1).type, Arg(1).val)
      /\ Emit("int", <<Arg(1).val, Arg(0).val>>, <<LLVMType(IntType), LLVMType(IntType)>>)
      /\ Len(stack) >= 2
  BY DEF IntBinaryExpr
<1>2. ~errors /\ misread' = misread
  BY <1>1 DEF Complete, Emit
<1>3. ok => ill' = ill
  BY <1>1, <1>2, TwoOperands, EmitTwo
<1>4. CASE Complete(2, ok, BoolType, LLVMType(BoolType))
  BY <1>1, <1>2, <1>3, <1>4, TwoOperands, ExpressionKeeps, TypesOfLiterals
<1>5. CASE Complete(2, ok, Arg(1).type, Arg(1).val)
  BY <1>1, <1>2, <1>3, <1>5, TwoOperands, ExpressionKeeps
<1> QED
  BY <1>1, <1>4, <1>5

(* Two values of the same type; None only if both are calls of void        *)
(* functions, which are the operands that are let through.                 *)
LEMMA EqualityKeeps == ExprInv /\ EqualityExpr => ExprInv'
<1> SUFFICES ASSUME ExprInv, EqualityExpr PROVE ExprInv'
  OBVIOUS
<1> DEFINE ok == Arg(1).type = Arg(0).type /\ Arg(1).type.bound = 0
<1>1. /\ Complete(2, ok, BoolType, LLVMType(BoolType))
      /\ Emit("equal", <<Arg(1).val, Arg(0).val>>, <<Arg(1).val, Arg(1).val>>)
      /\ Len(stack) >= 2
  BY DEF EqualityExpr
<1>2. ~errors /\ misread' = misread
  BY <1>1 DEF Complete, Emit
<1>3. ok => ill' \subseteq ill \cup {<<"void", "equal">>}
  <2> SUFFICES ASSUME ok PROVE ill' \subseteq ill \cup {<<"void", "equal">>}
    OBVIOUS
  <2>1. Arg(0).val = Arg(1).val /\ Arg(1).val.bound = 0
    BY <1>1, <1>2, TwoOperands DEF LLVMType
  <2> QED
    BY <1>1, <2>1 DEF Emit
<1> QED
  BY <1>1, <1>2, <1>3, TwoOperands, ExpressionKeeps, TypesOfLiterals

(* The visitor of a call. *)
LEMMA CallKeeps == ExprInv /\ CallExpr => ExprInv'
<1> SUFFICES ASSUME ExprInv, CallExpr PROVE ExprInv'
  OBVIOUS
<1>1. PICK ret \in ReturnTypes, params \in UNION {[1..n -> ParamTypes] : n \in 0..2},
           args \in 0..2 :
        /\ Len(stack) >= args
        /\ Complete(args, [i \in 1..args |-> Arg(args - i).type] = params, ret, LLVMType(ret))
        /\ Emit("call", [i \in 1..args |-> Arg(args - i).val],
                        [i \in DOMAIN params |-> LLVMType(params[i])])
  BY DEF CallExpr
<1> DEFINE ok == [i \in 1..args |-> Arg(args - i).type] = params
           have == [i \in 1..args |-> Arg(args - i).val]
           want == [i \in DOMAIN params |-> LLVMType(params[i])]
<1>2. args \in Nat /\ args <= Len(stack) /\ ~errors /\ misread' = misread
  BY <1>1 DEF ExprInv, ExprTypeOK, Complete, Emit
<1>3. ok => ill' = ill
  <2> SUFFICES ASSUME ok PROVE ill' = ill
    OBVIOUS
  <2>1. DOMAIN params = 1..args
    OBVIOUS
  <2>2. ASSUME NEW i \in 1..args
        PROVE  /\ have[i] = LLVMType(params[i])
               /\ params[i] \in {IntType, BoolType, CharType}
    <3>1. args - i \in Nat /\ args - i < Len(stack)
      BY <1>2 DEF ExprInv, ExprTypeOK
    <3>2. Arg(args - i).val = LLVMType(Arg(args - i).type)
      BY <1>2, <3>1, Operands
    <3>3. params[i] = Arg(args - i).type
      BY <2>1
    <3>4. params[i] \in ParamTypes
      BY <2>1
    <3> QED
      BY <3>2, <3>3, <3>4 DEF ParamTypes
  <2>3. have = want
    BY <2>1, <2>2
  <2>4. \A i \in DOMAIN have : have[i] # None /\ have[i].bound = 0
    BY <2>2, ScalarValues
  <2>5. Emit("call", have, want)
    BY <1>1
  <2> HIDE DEF have, want
  <2> QED
    BY <2>3, <2>4, <2>5, EmitClean
<1>4. ret \in Types /\ LLVMType(ret) \in Values
  BY TypesOfLiterals DEF Types
<1> QED
  BY <1>1, <1>2, <1>3, <1>4, ExpressionKeeps

(* A variable is never void, and so is no value that may be assigned to    *)
(* it; it may be an array.                                                 *)
LEMMA AssignmentKeeps == ExprInv /\ AssignmentExpr => ExprInv'
<1> SUFFICES ASSUME ExprInv, AssignmentExpr PROVE ExprInv'
  OBVIOUS
<1>1. PICK t \in VarTypes : /\ Complete(1, t = Arg(0).type, t, Arg(0).val)
                            /\ Emit("assign", <<Arg(0).val>>, <<LLVMType(t)>>)
  BY DEF AssignmentExpr
<1>2. 0 < Len(stack) /\ 1 <= Len(stack) /\ ~errors /\ misread' = misread
  BY <1>1 DEF AssignmentExpr, ExprInv, ExprTypeOK, Complete, Emit
<1>3. Arg(0).type \in Types /\ Arg(0).val \in Values /\ Arg(0).val = LLVMType(Arg(0).type)
  BY <1>2, Operands
<1>4. t \in Types /\ LLVMType(t) # None
  <2>1. t \in Types /\ t # VoidType
    BY TypesOfLiterals DEF VarTypes, VoidType, Type
  <2> QED
    BY <2>1, NoneIsVoid
<1>5. t = Arg(0).type => ill' \subseteq ill \cup {<<"array", "assign">>}
  BY <1>1, <1>3, <1>4 DEF Emit
<1> QED
  BY <1>1, <1>2, <1>3, <1>4, <1>5, ExpressionKeeps

(* The visitor of an assignment to an element. *)
LEMMA IndexedAssignmentKeeps == ExprInv /\ IndexedAssignmentExpr => ExprInv'
<1> SUFFICES ASSUME ExprInv, IndexedAssignmentExpr PROVE ExprInv'
  OBVIOUS
<1>1. PICK t \in VarTypes, elem \in Types :
        /\ t.bound # 0 => elem = IndexedType(t)
        /\ Complete(2, Arg(1).type = IntType /\ t.bound # 0 /\ elem = Arg(0).type,
                    elem, Arg(0).val)
        /\ Emit("store", <<Arg(1).val, Arg(0).val>>, <<LLVMType(IntType), LLVMType(elem)>>)
  BY TypesOfLiterals DEF IndexedAssignmentExpr
<1> DEFINE ok == Arg(1).type = IntType /\ t.bound # 0 /\ elem = Arg(0).type
<1>2. Len(stack) >= 2 /\ ~errors /\ misread' = misread
  BY <1>1 DEF IndexedAssignmentExpr, Complete, Emit
<1>3. ok => ill' = ill
  <2> SUFFICES ASSUME ok PROVE ill' = ill
    OBVIOUS
  <2>1. elem \in {IntType, BoolType, CharType}
    BY <1>1 DEF VarTypes, IndexedType, IntType, BoolType, CharType, Type
  <2>2. LLVMType(elem) # None /\ LLVMType(elem).bound = 0
    BY <2>1, ScalarValues
  <2>3. Arg(1).val = LLVMType(IntType) /\ Arg(0).val = LLVMType(elem)
    BY <1>2, TwoOperands
  <2> QED
    BY <1>1, <2>2, <2>3, EmitClean, ScalarValues
<1> QED
  BY <1>1, <1>2, <1>3, TwoOperands, ExpressionKeeps

(* The statements that use a value. *)
LEMMA StatementsKeep == ExprInv /\ (ExprStatement \/ Condition \/ ReturnStatement) => ExprInv'
<1> SUFFICES ASSUME ExprInv, ExprStatement \/ Condition \/ ReturnStatement PROVE ExprInv'
  OBVIOUS
<1>1. CASE ExprStatement
  BY <1>1, StatementKeeps DEF ExprStatement, NoCode
<1>2. ASSUME NEW op, NEW t \in {IntType, BoolType, CharType}, NEW n \in Nat, NEW ok \in BOOLEAN,
             Len(stack) = 1, Finish(n, ok), ok => Arg(0).type = t,
             Emit(op, <<Arg(0).val>>, <<LLVMType(t)>>)
      PROVE  ExprInv'
  <2>1. ~errors /\ misread' = misread /\ 0 < Len(stack)
    BY <1>2 DEF Finish, Emit
  <2>2. ok => ill' = ill
    BY <1>2, <2>1, Operands, EmitClean, ScalarValues
  <2> QED
    BY <1>2, <2>1, <2>2, StatementKeeps
<1>3. CASE Condition
  <2>1. /\ Len(stack) = 1 /\ Finish(1, Arg(0).type = BoolType)
        /\ Emit("branch", <<Arg(0).val>>, <<LLVMType(BoolType)>>)
    BY <1>3 DEF Condition
  <2> QED
    BY <1>2, <2>1
<1>4. CASE ReturnStatement
  <2>1. PICK t \in ReturnTypes :
          \/ /\ Finish(0, t = VoidType)
             /\ Emit("ret", << >>, IF t = VoidType THEN << >> ELSE <<LLVMType(t)>>)
          \/ /\ Len(stack) = 1
             /\ Finish(1, t # VoidType /\ Arg(0).type = t)
             /\ Emit("ret", <<Arg(0).val>>, <<LLVMType(t)>>)
    BY <1>4 DEF ReturnStatement
  <2>2. CASE /\ Finish(0, t = VoidType)
             /\ Emit("ret", << >>, IF t = VoidType THEN << >> ELSE <<LLVMType(t)>>)
    <3>1. t = VoidType => ill' = ill
      BY <2>2, EmitClean
    <3>2. misread' = misread
      BY <2>2 DEF Emit
    <3> QED
      BY <2>2, <3>1, <3>2, StatementKeeps
  <2>3. CASE /\ Len(stack) = 1
             /\ Finish(1, t # VoidType /\ Arg(0).type = t)
             /\ Emit("ret", <<Arg(0).val>>, <<LLVMType(t)>>)
    <3>1. CASE t = VoidType
      BY <2>3, <3>1, StatementKeeps DEF Emit
    <3>2. CASE t \in {IntType, BoolType, CharType}
      BY <1>2, <2>3, <3>2
    <3> QED
      BY <3>1, <3>2 DEF ReturnTypes
  <2> QED
    BY <2>1, <2>2, <2>3
<1> QED
  BY <1>1, <1>3, <1>4

(* Every step keeps the invariant. *)
LEMMA ExprInvStep == ExprInv /\ [ExprNext]_exprVars => ExprInv'
<1>1. ExprInv /\ UNCHANGED exprVars => ExprInv'
  BY DEF exprVars, ExprInv, ExprTypeOK, ValuesMatchTypes, InstructionsWellTyped, LiteralsExact
<1> QED
  BY <1>1, LiteralsKeep, NamesKeep, IndexKeeps, UnaryKeeps, LogicKeeps, EqualityKeeps,
     IntBinaryKeeps, CallKeeps, AssignmentKeeps, IndexedAssignmentKeeps, StatementsKeep
  DEF ExprNext

-----------------------------------------------------------------------------
(* The invariant of the types of expressions and their values.             *)
THEOREM ExprInvariant == ExprSpec => []ExprInv
  BY ExprInvInit, ExprInvStep, PTL DEF ExprSpec

(* In expressions of any depth, the type the verifier gave an expression   *)
(* is the type of its value.                                               *)
THEOREM ValuesHaveTypes == ExprSpec => []ValuesMatchTypes
<1>1. ExprInv => ValuesMatchTypes
  BY DEF ExprInv
<1> QED
  BY <1>1, ExprInvariant, PTL

(* What the verifier accepts makes no ill-typed instruction but the two    *)
(* it lets through.                                                        *)
THEOREM AcceptedIsWellTyped == ExprSpec => []InstructionsWellTyped
<1>1. ExprInv => InstructionsWellTyped
  BY DEF ExprInv
<1> QED
  BY <1>1, ExprInvariant, PTL

(* For every width of int, a literal with or without a minus is accepted   *)
(* if and only if it is an int, and has the value it denotes.              *)
THEOREM LiteralsAreExact == ExprSpec => []LiteralsExact
<1>1. ExprInv => LiteralsExact
  BY DEF ExprInv
<1> QED
  BY <1>1, ExprInvariant, PTL
=============================================================================
