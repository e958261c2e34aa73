------------------------------ MODULE IRGenerator ------------------------------
(***************************************************************************)
(* The control-flow lowering of src/IRGenerator.cpp: how the visitor turns *)
(* one MiniC function into basic blocks, terminators and short-circuit     *)
(* phi nodes.                                                              *)
(*                                                                         *)
(* The C++ program is a recursive visitor.  Its call stack is the variable *)
(* stack: a frame is a visitor that is suspended in a call of accept(),    *)
(* named for the place where it resumes, with the blocks it holds in local *)
(* variables.  The abstract syntax tree is not given in advance: each time *)
(* a visitor calls accept() on a child, the child's class is chosen        *)
(* nondeterministically among those the grammar and the verifier allow at  *)
(* that place, so one run explores every function body up to the bounds.   *)
(*                                                                         *)
(* Straight-line instructions are not kept: all that matters of them is    *)
(* the block in which the IRBuilder puts them.                             *)
(***************************************************************************)
EXTENDS Integers, Sequences, CFG

CONSTANTS
  MaxBlocks,   \* bound: basic blocks of the function
  MaxDepth     \* bound: nested accept() calls

ASSUME BoundsAssumption == MaxBlocks \in Nat \ {0} /\ MaxDepth \in Nat \ {0, 1}

VARIABLES
  isVoid,          \* the function's return type is void
  nblocks,         \* blocks created so far; block 1 is "entry"
  term,            \* block -> the terminators appended to it, in order; a
                   \* terminator is the sequence of its successors
  insert,          \* TheBuilder->GetInsertBlock()
  breakTargets,    \* IRGenerator::BreakTargets
  continueTargets, \* IRGenerator::ContinueTargets
  val,             \* block that defines the value of the last visited expression
  uses,            \* <<def, use>>: an operand defined in block def is used in
                   \* another block use
  phis,            \* the short-circuit phis: [at, in], in a pair of blocks
  stack            \* the suspended visitors, innermost last

vars == <<isVoid, nblocks, term, insert, breakTargets, continueTargets,
          val, uses, phis, stack>>

Blocks == 1..nblocks

StmtKinds == {"stmt", "scope", "ret.expr", "drop",
              "if.cond", "if.then", "ifelse.cond", "ifelse.then", "ifelse.else",
              "for.init", "for.cond", "for.body", "for.iter",
              "while.cond", "while.body"}
ExprKinds == {"expr", "unary", "binary.lhs", "binary.rhs", "logic.lhs", "logic.rhs"}
FrameKinds == {"func"} \cup StmtKinds \cup ExprKinds

Frame(at, on) == [at |-> at, on |-> on]

-----------------------------------------------------------------------------
(***************************************************************************)
(* The IRBuilder and the C++ call stack.                                   *)
(***************************************************************************)
Top == stack[Len(stack)]
At(kind) == stack # << >> /\ Top.at = kind

(* GetInsertBlock()->getTerminator() is non-null. *)
Terminated == term[insert] # << >>

(* The call returns to the visitor below it. *)
Leave == stack' = [i \in 1..(Len(stack) - 1) |-> stack[i]]

(* The visitor goes on, and next resumes in frame f. *)
Resume(f) == stack' = [stack EXCEPT ![Len(stack)] = f]

(* The visitor calls accept() on a child, and will resume in frame f. *)
Accept(f, child) ==
  /\ Len(stack) < MaxDepth
  /\ stack' = Append([stack EXCEPT ![Len(stack)] = f], Frame(child, << >>))

(* k new blocks follow the existing ones, and terminator t is appended to  *)
(* the insertion block: an IRBuilder appends whatever is there already.    *)
AppendAndCreate(t, k) ==
  /\ nblocks + k <= MaxBlocks
  /\ nblocks' = nblocks + k
  /\ term' = [b \in 1..(nblocks + k) |->
                IF b = insert THEN Append(term[b], t)
                ELSE IF b <= nblocks THEN term[b] ELSE << >>]

(* The code with terminator t appended to block b. *)
Appended(code, b, t) == [code EXCEPT ![b] = Append(@, t)]

AppendTerminator(t) ==
  /\ term' = Appended(term, insert, t)
  /\ UNCHANGED nblocks

(* Seeded bug: the branch is emitted behind a break, continue or return. *)
BranchIfOpen_Always(b) == AppendTerminator(<<b>>)

(* if (!TheBuilder->GetInsertBlock()->getTerminator()) CreateBr(b) *)
BranchIfOpen(b) ==
  IF Terminated THEN UNCHANGED <<nblocks, term>> ELSE AppendTerminator(<<b>>)

(* Seeded bug: the blocks are not inserted into the function. *)
CreateBlocks_Detached(k) ==
  nblocks + k <= MaxBlocks /\ nblocks' = nblocks + k /\ UNCHANGED term

CreateBlocks(k) ==
  /\ nblocks + k <= MaxBlocks
  /\ nblocks' = nblocks + k
  /\ term' = [b \in 1..(nblocks + k) |-> IF b <= nblocks THEN term[b] ELSE << >>]

PushTargets(exit, next) ==
  /\ breakTargets' = Append(breakTargets, exit)
  /\ continueTargets' = Append(continueTargets, next)

(* Seeded bug: one of the vectors is forgotten at the end of a loop. *)
PopTargets_BreakOnly ==
  /\ breakTargets' = [i \in 1..(Len(breakTargets) - 1) |-> breakTargets[i]]
  /\ UNCHANGED continueTargets

PopTargets ==
  /\ breakTargets' = [i \in 1..(Len(breakTargets) - 1) |-> breakTargets[i]]
  /\ continueTargets' = [i \in 1..(Len(continueTargets) - 1) |-> continueTargets[i]]

(* Operands defined in the blocks ds are used at the insertion point; uses *)
(* within one block are in order and are not recorded.                     *)
Use(ds) == uses' = uses \cup {<<d, insert>> : d \in ds \ {insert}}

targets == <<breakTargets, continueTargets>>
values == <<val, uses, phis>>

-----------------------------------------------------------------------------
(***************************************************************************)
(* visitFuncDecl creates the entry block, stores the parameters there and  *)
(* visits the body's scope.                                                *)
(***************************************************************************)
Init ==
  /\ isVoid \in BOOLEAN
  /\ nblocks = 1
  /\ term = [b \in {1} |-> << >>]
  /\ insert = 1
  /\ breakTargets = << >>
  /\ continueTargets = << >>
  /\ val = 1
  /\ uses = {}
  /\ phis = {}
  /\ stack = <<Frame("func", << >>), Frame("scope", << >>)>>

(* The end of visitFuncDecl: a void function gets its implicit return. *)
FinishFuncDecl ==
  /\ At("func")
  /\ Leave
  /\ IF ~Terminated /\ isVoid THEN AppendTerminator(<< >>)
                              ELSE UNCHANGED <<nblocks, term>>
  /\ UNCHANGED <<isVoid, insert, targets, values>>

(* Seeded bug: the loop does not stop. *)
VisitScopeChild_GoOn ==
  /\ At("scope")
  /\ Accept(Top, "stmt")
  /\ UNCHANGED <<isVoid, nblocks, term, insert, targets, values>>

(* visitScope: the next child.  Once a child has emitted a terminator the  *)
(* loop stops, and the children left are never visited.                    *)
VisitScopeChild ==
  /\ At("scope")
  /\ ~Terminated
  /\ Accept(Top, "stmt")
  /\ UNCHANGED <<isVoid, nblocks, term, insert, targets, values>>

(* visitScope returns: after a terminator, or at the end of its children.  *)
(* The verifier lets the body of a non-void function end with a return     *)
(* statement only, so that scope has no other end.                         *)
LeaveScope ==
  /\ At("scope")
  /\ Terminated \/ isVoid \/ Len(stack) > 2
  /\ Leave
  /\ UNCHANGED <<isVoid, nblocks, term, insert, targets, values>>

(* A scope among the statements: accept() goes to visitScope. *)
VisitScope ==
  /\ At("stmt")
  /\ Resume(Frame("scope", << >>))
  /\ UNCHANGED <<isVoid, nblocks, term, insert, targets, values>>

VisitExprStmt ==
  /\ At("stmt")
  /\ Accept(Frame("drop", << >>), "expr")
  /\ UNCHANGED <<isVoid, nblocks, term, insert, targets, values>>

FinishExprStmt ==
  /\ At("drop")
  /\ Leave
  /\ UNCHANGED <<isVoid, nblocks, term, insert, targets, values>>

-----------------------------------------------------------------------------
(***************************************************************************)
(* visitIfStmt.  The condition is visited before any block is created.     *)
(***************************************************************************)
VisitIfStmt ==
  /\ At("stmt")
  /\ \E cond \in {"if.cond", "ifelse.cond"} : Accept(Frame(cond, << >>), "expr")
  /\ UNCHANGED <<isVoid, nblocks, term, insert, targets, values>>

IfElseCond ==
  LET thenBB == nblocks + 1  elseBB == nblocks + 2  afterBB == nblocks + 3
  IN  /\ At("ifelse.cond")
      /\ AppendAndCreate(<<thenBB, elseBB>>, 3)
      /\ Use({val})
      /\ insert' = thenBB
      /\ Accept(Frame("ifelse.then", <<elseBB, afterBB>>), "stmt")
      /\ UNCHANGED <<isVoid, targets, val, phis>>

IfElseThen ==
  LET elseBB == Top.on[1]  afterBB == Top.on[2]
  IN  /\ At("ifelse.then")
      /\ BranchIfOpen(afterBB)
      /\ insert' = elseBB
      /\ Accept(Frame("ifelse.else", <<afterBB>>), "stmt")
      /\ UNCHANGED <<isVoid, targets, values>>

IfCond ==
  LET thenBB == nblocks + 1  afterBB == nblocks + 2
  IN  /\ At("if.cond")
      /\ AppendAndCreate(<<thenBB, afterBB>>, 2)
      /\ Use({val})
      /\ insert' = thenBB
      /\ Accept(Frame("if.then", <<afterBB>>), "stmt")
      /\ UNCHANGED <<isVoid, targets, val, phis>>

(* Both forms end alike: fall through to the after block and go on there. *)
FinishIfStmt ==
  LET afterBB == Top.on[1]
  IN  /\ At("if.then") \/ At("ifelse.else")
      /\ BranchIfOpen(afterBB)
      /\ insert' = afterBB
      /\ Leave
      /\ UNCHANGED <<isVoid, targets, values>>

-----------------------------------------------------------------------------
(***************************************************************************)
(* visitForStmt.  A frame holds <<condBB, bodyBB, iterBB, exitBB>>.  The   *)
(* targets are pushed before the init expression is visited.  Each of the  *)
(* three expressions may be absent.                                        *)
(***************************************************************************)
VisitForStmt ==
  LET on == <<nblocks + 1, nblocks + 2, nblocks + 3, nblocks + 4>>
  IN  /\ At("stmt")
      /\ CreateBlocks(4)
      /\ PushTargets(on[4], on[3])
      /\ \/ Accept(Frame("for.init", on), "expr")
         \/ Resume(Frame("for.init", on))
      /\ UNCHANGED <<isVoid, insert, values>>

ForInit ==
  LET condBB == Top.on[1]
  IN  /\ At("for.init")
      /\ AppendTerminator(<<condBB>>)
      /\ insert' = condBB
      /\ Accept(Frame("for.cond", Top.on), "expr")
      /\ UNCHANGED <<isVoid, targets, values>>

(* No condition: the condition block branches straight to the body. *)
ForInitNoCond ==
  LET condBB == Top.on[1]  bodyBB == Top.on[2]
  IN  /\ At("for.init")
      /\ term' = Appended(Appended(term, insert, <<condBB>>), condBB, <<bodyBB>>)
      /\ insert' = bodyBB
      /\ Accept(Frame("for.body", Top.on), "stmt")
      /\ UNCHANGED <<isVoid, nblocks, targets, values>>

ForCond ==
  LET bodyBB == Top.on[2]  exitBB == Top.on[4]
  IN  /\ At("for.cond")
      /\ AppendTerminator(<<bodyBB, exitBB>>)
      /\ Use({val})
      /\ insert' = bodyBB
      /\ Accept(Frame("for.body", Top.on), "stmt")
      /\ UNCHANGED <<isVoid, targets, val, phis>>

ForBody ==
  LET iterBB == Top.on[3]
  IN  /\ At("for.body")
      /\ BranchIfOpen(iterBB)
      /\ insert' = iterBB
      /\ \/ Accept(Frame("for.iter", Top.on), "expr")
         \/ Resume(Frame("for.iter", Top.on))
      /\ UNCHANGED <<isVoid, targets, values>>

FinishForStmt ==
  LET condBB == Top.on[1]  exitBB == Top.on[4]
  IN  /\ At("for.iter")
      /\ AppendTerminator(<<condBB>>)
      /\ PopTargets
      /\ insert' = exitBB
      /\ Leave
      /\ UNCHANGED <<isVoid, values>>

-----------------------------------------------------------------------------
(***************************************************************************)
(* visitWhileStmt.  A frame holds <<condBB, bodyBB, exitBB>>.              *)
(***************************************************************************)
VisitWhileStmt ==
  LET on == <<nblocks + 1, nblocks + 2, nblocks + 3>>
  IN  /\ At("stmt")
      /\ AppendAndCreate(<<on[1]>>, 3)
      /\ PushTargets(on[3], on[1])
      /\ insert' = on[1]
      /\ Accept(Frame("while.cond", on), "expr")
      /\ UNCHANGED <<isVoid, values>>

WhileCond ==
  LET bodyBB == Top.on[2]  exitBB == Top.on[3]
  IN  /\ At("while.cond")
      /\ AppendTerminator(<<bodyBB, exitBB>>)
      /\ Use({val})
      /\ insert' = bodyBB
      /\ Accept(Frame("while.body", Top.on), "stmt")
      /\ UNCHANGED <<isVoid, targets, val, phis>>

FinishWhileStmt ==
  LET condBB == Top.on[1]  exitBB == Top.on[3]
  IN  /\ At("while.body")
      /\ BranchIfOpen(condBB)
      /\ PopTargets
      /\ insert' = exitBB
      /\ Leave
      /\ UNCHANGED <<isVoid, values>>

-----------------------------------------------------------------------------
(***************************************************************************)
(* visitBreakStmt, visitContinueStmt, visitReturnStmt.  The verifier has   *)
(* rejected a break or continue with no enclosing loop and a return whose  *)
(* expression does not match the function's return type.                   *)
(***************************************************************************)
InLoop == \E i \in DOMAIN stack : stack[i].at \in {"for.body", "while.body"}

VisitBreakStmt ==
  /\ At("stmt")
  /\ InLoop
  /\ AppendTerminator(<<breakTargets[Len(breakTargets)]>>)
  /\ Leave
  /\ UNCHANGED <<isVoid, insert, targets, values>>

VisitContinueStmt ==
  /\ At("stmt")
  /\ InLoop
  /\ AppendTerminator(<<continueTargets[Len(continueTargets)]>>)
  /\ Leave
  /\ UNCHANGED <<isVoid, insert, targets, values>>

VisitReturnStmt ==
  /\ At("stmt")
  /\ IF isVoid
       THEN Leave /\ AppendTerminator(<< >>)
       ELSE Accept(Frame("ret.expr", << >>), "expr") /\ UNCHANGED <<nblocks, term>>
  /\ UNCHANGED <<isVoid, insert, targets, values>>

FinishReturnStmt ==
  /\ At("ret.expr")
  /\ AppendTerminator(<< >>)
  /\ Use({val})
  /\ Leave
  /\ UNCHANGED <<isVoid, insert, targets, val, phis>>

-----------------------------------------------------------------------------
(***************************************************************************)
(* Expressions.  A literal or a scalar variable puts its value in the      *)
(* insertion block.  Unary operators, indexing and one-argument calls      *)
(* visit one operand and use it; other binary operators, assignments to an *)
(* element and longer argument lists visit two operands and use both after *)
(* the second.                                                             *)
(***************************************************************************)
VisitLeafExpr ==
  /\ At("expr")
  /\ val' = insert
  /\ Leave
  /\ UNCHANGED <<isVoid, nblocks, term, insert, targets, uses, phis>>

VisitOperator ==
  /\ At("expr")
  /\ \E f \in {"unary", "binary.lhs", "logic.lhs"} : Accept(Frame(f, << >>), "expr")
  /\ UNCHANGED <<isVoid, nblocks, term, insert, targets, values>>

FinishUnaryExpr ==
  /\ At("unary")
  /\ Use({val})
  /\ val' = insert
  /\ Leave
  /\ UNCHANGED <<isVoid, nblocks, term, insert, targets, phis>>

(* ExprValues[left] stays available while the right operand is visited. *)
BinaryLeft ==
  /\ At("binary.lhs")
  /\ Accept(Frame("binary.rhs", <<val>>), "expr")
  /\ UNCHANGED <<isVoid, nblocks, term, insert, targets, values>>

FinishBinaryExpr ==
  /\ At("binary.rhs")
  /\ Use({Top.on[1], val})
  /\ val' = insert
  /\ Leave
  /\ UNCHANGED <<isVoid, nblocks, term, insert, targets, phis>>

(* && and ||: the left value decides between the block of the right        *)
(* operand and the out block.  The frame holds <<currentBB, outBB>>.       *)
LogicLeft ==
  LET slowBB == nblocks + 1  outBB == nblocks + 2
  IN  /\ At("logic.lhs")
      /\ \E t \in {<<slowBB, outBB>>, <<outBB, slowBB>>} : AppendAndCreate(t, 2)
      /\ Use({val})
      /\ insert' = slowBB
      /\ Accept(Frame("logic.rhs", <<insert, outBB>>), "expr")
      /\ UNCHANGED <<isVoid, targets, val, phis>>

(* Seeded bug: the phi takes the right value from the block where the      *)
(* right operand began, which was created just before the out block.       *)
slowEndBB_Start == Top.on[2] - 1

(* The right operand may have moved the insertion point: the phi takes its *)
(* value from the block where that operand ended.                          *)
slowEndBB == insert

(* Seeded bug: the value of the right operand is taken for the result. *)
LogicValue_Right == val

(* The result is the phi, in the out block. *)
LogicValue == Top.on[2]

FinishLogicExpr ==
  LET currentBB == Top.on[1]  outBB == Top.on[2]
  IN  /\ At("logic.rhs")
      /\ AppendTerminator(<<outBB>>)
      /\ phis' = phis \cup {[at |-> outBB, in |-> <<currentBB, slowEndBB>>]}
      /\ Use({val})
      /\ insert' = outBB
      /\ val' = LogicValue
      /\ Leave
      /\ UNCHANGED <<isVoid, targets>>

-----------------------------------------------------------------------------
Next ==
  \/ FinishFuncDecl
  \/ VisitScopeChild \/ LeaveScope \/ VisitScope
  \/ VisitExprStmt \/ FinishExprStmt
  \/ VisitIfStmt \/ IfElseCond \/ IfElseThen \/ IfCond \/ FinishIfStmt
  \/ VisitForStmt \/ ForInit \/ ForInitNoCond \/ ForCond \/ ForBody \/ FinishForStmt
  \/ VisitWhileStmt \/ WhileCond \/ FinishWhileStmt
  \/ VisitBreakStmt \/ VisitContinueStmt \/ VisitReturnStmt \/ FinishReturnStmt
  \/ VisitLeafExpr \/ VisitOperator \/ FinishUnaryExpr
  \/ BinaryLeft \/ FinishBinaryExpr \/ LogicLeft \/ FinishLogicExpr

Spec == Init /\ [][Next]_vars

(* The function has been lowered. *)
Done == stack = << >>

-----------------------------------------------------------------------------
(***************************************************************************)
(* Properties.                                                             *)
(***************************************************************************)
(* The graph of the blocks, as far as they have been terminated. *)
Graph ==
  [b \in Blocks |-> UNION {{t[i] : i \in DOMAIN t} : t \in {term[b][k] : k \in DOMAIN term[b]}}]

(* A frame's blocks: how many of them each kind of frame holds. *)
FrameSize(at) ==
  IF at \in {"for.init", "for.cond", "for.body", "for.iter"} THEN 4
  ELSE IF at \in {"while.cond", "while.body"} THEN 3
  ELSE IF at \in {"ifelse.then", "logic.rhs"} THEN 2
  ELSE IF at \in {"if.then", "ifelse.else", "binary.rhs"} THEN 1 ELSE 0

(* Every variable has its type; every block named anywhere exists, and the *)
(* call stack holds well-formed frames.                                    *)
TypeOK ==
  /\ isVoid \in BOOLEAN
  /\ nblocks \in 1..MaxBlocks
  /\ term \in [Blocks -> Seq(Seq(Blocks))]
  /\ insert \in Blocks
  /\ breakTargets \in Seq(Blocks)
  /\ continueTargets \in Seq(Blocks)
  /\ val \in Blocks
  /\ uses \subseteq Blocks \X Blocks
  /\ \A phi \in phis : phi.at \in Blocks /\ phi.in \in Blocks \X Blocks
  /\ stack \in Seq([at : FrameKinds, on : Seq(Blocks)])
  /\ \A i \in DOMAIN stack : Len(stack[i].on) = FrameSize(stack[i].at)

(* No block is terminated twice, whatever mix of break, continue, return   *)
(* and fall-through ends the statements nested in it; the entry block is   *)
(* never a branch target; and when visitFuncDecl returns, every block has  *)
(* its terminator, the after and exit blocks of statements that never      *)
(* complete included.                                                      *)
WellFormed ==
  /\ \A b \in Blocks : Len(term[b]) <= 1 /\ 1 \notin Graph[b]
  /\ Done => \A b \in Blocks : term[b] # << >>

(* Frames in which the visitor may be resumed with a terminated block, since *)
(* the statement below it may end in a break, a continue or a return.        *)
AnyEnd == {"func", "scope", "if.then", "ifelse.then", "ifelse.else", "for.body", "while.body"}

(* Whoever emits an instruction next finds an open block: no operand,      *)
(* branch or phi is ever put behind a terminator.                          *)
BuilderAtOpenBlock ==
  stack # << >> /\ Top.at \notin AnyEnd => ~Terminated

(* Break and continue go to the innermost loop that encloses them in the   *)
(* source: the two vectors mirror the loops on the call stack, whichever   *)
(* statement ended their bodies, and are empty when the function is done.  *)
LoopKinds == {"for.init", "for.cond", "for.body", "for.iter", "while.cond", "while.body"}

Loops(i) == {j \in 1..i : stack[j].at \in LoopKinds}
LoopDepth(i) == Cardinality(Loops(i))
ExitBB(f) == f.on[Len(f.on)]
NextBB(f) == f.on[IF Len(f.on) = 4 THEN 3 ELSE 1]

TargetsMatchLoops ==
  /\ Len(breakTargets) = LoopDepth(Len(stack))
  /\ Len(continueTargets) = LoopDepth(Len(stack))
  /\ \A i \in Loops(Len(stack)) :
       /\ breakTargets[LoopDepth(i)] = ExitBB(stack[i])
       /\ continueTargets[LoopDepth(i)] = NextBB(stack[i])

(* A short-circuit phi has exactly one incoming value for each predecessor *)
(* of its block, also when the right operand has blocks of its own.        *)
PhiMatchesPreds ==
  Done => \A phi \in phis :
            /\ Preds(Graph, phi.at) = {phi.in[1], phi.in[2]}
            /\ phi.in[1] # phi.in[2]

(* A value kept in ExprValues while other operands are visited is still    *)
(* defined on every path to the instruction that uses it.                  *)
OperandsDominateUses ==
  Done => \A use \in uses : Dominates(Graph, 1, use[1], use[2])

(* The lowered graph has only natural loops: each cycle is entered through *)
(* a header that dominates it, which is what findLoops looks for.          *)
LoopsAreNatural == Done => Reducible(Graph, 1)
=============================================================================
