-------------------------- MODULE IRGeneratorProofs --------------------------
(***************************************************************************)
(* Proofs about IRGenerator for functions of any size, nested to any       *)
(* depth.  First the code and the call stack: types, well-formed blocks,   *)
(* an open insertion block, and break and continue targets that mirror the *)
(* loops (IInv).  Then the graph: complete phis, definitions that dominate *)
(* their uses and loops that are natural (GraphInv).  The second part      *)
(* rests on regions of blocks with one way in, through a block d: no       *)
(* branch that a suspended visitor is still to append can make another, so *)
(* d dominates the region for good.                                        *)
(***************************************************************************)
EXTENDS IRGenerator, CFGProofs, FiniteSetTheorems, SequenceTheorems, TLAPS

(* The blocks in a frame that wait for code: they have no terminator, and  *)
(* the insertion point moves to each of them later.                        *)
PendingIx(at) ==
  {k \in 1..4 :
     \/ at = "for.init"
     \/ at = "for.cond" /\ k > 1
     \/ at = "for.body" /\ k > 2
     \/ at = "for.iter" /\ k > 3
     \/ at = "while.cond" /\ k \in {2, 3}
     \/ at = "while.body" /\ k = 3
     \/ at = "ifelse.then" /\ k < 3
     \/ at \in {"if.then", "ifelse.else"} /\ k = 1
     \/ at = "logic.rhs" /\ k = 2}

(* The blocks in a frame that are not the entry, since they are branched to. *)
TargetIx(at) ==
  {k \in 1..FrameSize(at) : at # "binary.rhs" /\ (at = "logic.rhs" => k = 2)}

FrameOK(f) ==
  /\ Len(f.on) = FrameSize(f.at)
  /\ \A k \in TargetIx(f.at) : f.on[k] # 1

Frames(n) == {f \in [at : FrameKinds, on : Seq(1..n)] : FrameOK(f)}

(* Types, with the targets of branches other than the entry block. *)
Types ==
  /\ isVoid \in BOOLEAN
  /\ nblocks \in 1..MaxBlocks
  /\ term \in [Blocks -> Seq(Seq(2..nblocks))]
  /\ insert \in Blocks
  /\ breakTargets \in Seq(2..nblocks)
  /\ continueTargets \in Seq(2..nblocks)
  /\ val \in Blocks
  /\ uses \subseteq Blocks \X Blocks
  /\ \A phi \in phis : phi.at \in Blocks /\ phi.in \in Blocks \X Blocks
  /\ stack \in Seq(Frames(nblocks))

(* visitFuncDecl is at the bottom, with the scope of the body on it, and a *)
(* statement is visited only by those who expect it to end in any way.     *)
Shape ==
  /\ \A i \in 1..Len(stack) : stack[i].at = "func" <=> i = 1
  /\ Len(stack) > 1 => stack[2].at = "scope"
  /\ \A i \in 2..Len(stack) : stack[i].at \in StmtKinds => stack[i - 1].at \in AnyEnd

(* The pending blocks as pairs of a frame's place on the stack and the     *)
(* block's place in the frame.                                             *)
Slots == {s \in (1..Len(stack)) \X (1..4) : s[2] \in PendingIx(stack[s[1]].at)}
Slot(s) == stack[s[1]].on[s[2]]

(* The blocks that have no terminator. *)
Open == {b \in Blocks : term[b] = << >>}

(* No block is terminated twice; the blocks without a terminator, besides  *)
(* the insertion block, are exactly the pending ones, and these differ.    *)
OnceTerminated == \A b \in Blocks : Len(term[b]) <= 1
OpenPending == Open \ {insert} = {Slot(s) : s \in Slots}
SlotsDiffer == \A s, t \in Slots : Slot(s) = Slot(t) => s = t

Pendings == OnceTerminated /\ OpenPending /\ SlotsDiffer

(* A function that returns a value ends behind a return, a void function   *)
(* gets one.                                                               *)
EndsTerminated == Done \/ (At("func") /\ ~isVoid) => Terminated

OpenBlocks == Pendings /\ BuilderAtOpenBlock /\ EndsTerminated

IInv == Types /\ Shape /\ OpenBlocks /\ TargetsMatchLoops

-----------------------------------------------------------------------------
(***************************************************************************)
(* The call stack.                                                         *)
(***************************************************************************)
(* A visitor that has just been called holds no block.                     *)
LEMMA NothingPending == PendingIx("stmt") = {} /\ PendingIx("expr") = {}
  BY DEF PendingIx

(* Leave takes the top off the stack and nothing else.                     *)
LEMMA LeaveEffect ==
  ASSUME NEW F, stack \in Seq(F), stack # << >>, Leave
  PROVE  /\ stack' \in Seq(F) /\ Len(stack) \in Nat \ {0}
         /\ Len(stack') = Len(stack) - 1
         /\ \A i \in 1..(Len(stack) - 1) : stack'[i] = stack[i]
         /\ stack' = << >> <=> Len(stack) = 1
<1>1. Len(stack) \in Nat \ {0}
  BY EmptySeq
<1>2. /\ stack' \in Seq(F)
      /\ Len(stack') = Len(stack) - 1
      /\ \A i \in 1..(Len(stack) - 1) : stack'[i] = stack[i]
  BY <1>1 DEF Leave
<1> QED
  BY <1>1, <1>2, EmptySeq

(* Resume(f) replaces the top by f.                                        *)
LEMMA ResumeEffect ==
  ASSUME NEW F, stack \in Seq(F), stack # << >>, NEW f \in F, Resume(f)
  PROVE  /\ stack' \in Seq(F) /\ Len(stack) \in Nat \ {0}
         /\ Len(stack') = Len(stack)
         /\ \A i \in 1..Len(stack) : stack'[i] = IF i = Len(stack) THEN f ELSE stack[i]
         /\ stack' # << >>
  BY DEF Resume

(* Accept(f, child) replaces the top by f and puts the child's frame on    *)
(* it.                                                                     *)
LEMMA AcceptEffect ==
  ASSUME NEW F, stack \in Seq(F), stack # << >>, NEW f \in F,
         NEW child, Frame(child, << >>) \in F, Accept(f, child)
  PROVE  /\ stack' \in Seq(F) /\ Len(stack) \in Nat \ {0}
         /\ Len(stack') = Len(stack) + 1
         /\ \A i \in 1..Len(stack) : stack'[i] = IF i = Len(stack) THEN f ELSE stack[i]
         /\ stack'[Len(stack) + 1] = Frame(child, << >>)
         /\ stack' # << >>
<1> DEFINE s == [stack EXCEPT ![Len(stack)] = f]
<1>1. s \in Seq(F) /\ Len(s) = Len(stack)
      /\ \A i \in 1..Len(stack) : s[i] = IF i = Len(stack) THEN f ELSE stack[i]
  OBVIOUS
<1>2. stack' = Append(s, Frame(child, << >>))
  BY DEF Accept
<1> HIDE DEF s
<1> QED
  BY <1>1, <1>2

(* More blocks only make room. *)
LEMMA Grow ==
  ASSUME NEW m \in Nat, NEW n \in Nat, m <= n
  PROVE  /\ 1..m \subseteq 1..n
         /\ Seq(2..m) \subseteq Seq(2..n)
         /\ Seq(Seq(2..m)) \subseteq Seq(Seq(2..n))
         /\ Frames(m) \subseteq Frames(n)
         /\ Seq(Frames(m)) \subseteq Seq(Frames(n))
<1>1. Seq(2..m) \subseteq Seq(2..n)
  BY SeqMonotonic
<1>2. Seq(Seq(2..m)) \subseteq Seq(Seq(2..n))
  BY <1>1, SeqMonotonic
<1>3. Seq(1..m) \subseteq Seq(1..n)
  BY SeqMonotonic
<1>4. Frames(m) \subseteq Frames(n)
  BY <1>3 DEF Frames
<1> QED
  BY <1>1, <1>2, <1>4, SeqMonotonic

(* What the frames hold. *)
LEMMA FrameSizes ==
  /\ \A at \in {"func", "scope", "stmt", "ret.expr", "drop", "if.cond", "ifelse.cond", "expr",
              "unary", "binary.lhs", "logic.lhs"} : at \in FrameKinds /\ FrameSize(at) = 0
  /\ \A at \in {"for.init", "for.cond", "for.body", "for.iter"} :
       at \in FrameKinds /\ FrameSize(at) = 4
  /\ \A at \in {"while.cond", "while.body"} : at \in FrameKinds /\ FrameSize(at) = 3
  /\ \A at \in {"ifelse.then", "logic.rhs"} : at \in FrameKinds /\ FrameSize(at) = 2
  /\ \A at \in {"if.then", "ifelse.else", "binary.rhs"} : at \in FrameKinds /\ FrameSize(at) = 1
  BY DEF FrameSize, FrameKinds, StmtKinds, ExprKinds

(* What makes a record a well-formed frame.                                *)
LEMMA FrameIn ==
  ASSUME NEW n \in Nat \ {0}, NEW at \in FrameKinds, NEW on \in Seq(1..n),
         Len(on) = FrameSize(at), \A k \in TargetIx(at) : on[k] # 1
  PROVE  Frame(at, on) \in Frames(n)
  BY DEF Frame, Frames, FrameOK

(* The frames that hold no block.                                          *)
LEMMA EmptyFrames ==
  ASSUME NEW n \in Nat \ {0}
  PROVE  \A at \in {"func", "scope", "stmt", "ret.expr", "drop", "if.cond", "ifelse.cond", "expr",
                    "unary", "binary.lhs", "logic.lhs"} : Frame(at, << >>) \in Frames(n)
<1>1. \A at \in {"func", "scope", "stmt", "ret.expr", "drop", "if.cond", "ifelse.cond", "expr",
                 "unary", "binary.lhs", "logic.lhs"} :
        at \in FrameKinds /\ FrameSize(at) = 0 /\ TargetIx(at) = {}
  BY FrameSizes DEF TargetIx
<1> QED
  BY <1>1, FrameIn, EmptySeq

(* The frames built of new blocks, none of which is the entry.             *)
LEMMA NewFrames ==
  ASSUME NEW n \in Nat \ {0}, NEW a \in 2..n
  PROVE  /\ \A b \in 2..n, c \in 2..n, d \in 2..n :
              \A at \in {"for.init", "for.cond", "for.body", "for.iter"} :
                Frame(at, <<a, b, c, d>>) \in Frames(n)
         /\ \A b \in 2..n, c \in 2..n : \A at \in {"while.cond", "while.body"} :
              Frame(at, <<a, b, c>>) \in Frames(n)
         /\ \A b \in 2..n : Frame("ifelse.then", <<a, b>>) \in Frames(n)
         /\ \A at \in {"if.then", "ifelse.else"} : Frame(at, <<a>>) \in Frames(n)
         /\ \A x \in 1..n : Frame("logic.rhs", <<x, a>>) \in Frames(n)
<1>1. ASSUME NEW b \in 2..n, NEW c \in 2..n, NEW d \in 2..n,
             NEW at \in {"for.init", "for.cond", "for.body", "for.iter"}
      PROVE  Frame(at, <<a, b, c, d>>) \in Frames(n)
  <2>1. <<a, b, c, d>> \in Seq(1..n) /\ Len(<<a, b, c, d>>) = 4
    OBVIOUS
  <2>2. \A k \in TargetIx(at) : <<a, b, c, d>>[k] # 1
    BY FrameSizes DEF TargetIx
  <2> QED
    BY <2>1, <2>2, FrameSizes, FrameIn
<1>2. ASSUME NEW b \in 2..n, NEW c \in 2..n, NEW at \in {"while.cond", "while.body"}
      PROVE  Frame(at, <<a, b, c>>) \in Frames(n)
  <2>1. <<a, b, c>> \in Seq(1..n) /\ Len(<<a, b, c>>) = 3
    OBVIOUS
  <2>2. \A k \in TargetIx(at) : <<a, b, c>>[k] # 1
    BY FrameSizes DEF TargetIx
  <2> QED
    BY <2>1, <2>2, FrameSizes, FrameIn
<1>3. ASSUME NEW b \in 2..n PROVE Frame("ifelse.then", <<a, b>>) \in Frames(n)
  <2>1. <<a, b>> \in Seq(1..n) /\ Len(<<a, b>>) = 2
    OBVIOUS
  <2>2. \A k \in TargetIx("ifelse.then") : <<a, b>>[k] # 1
    BY FrameSizes DEF TargetIx
  <2> QED
    BY <2>1, <2>2, FrameSizes, FrameIn
<1>4. ASSUME NEW at \in {"if.then", "ifelse.else"} PROVE Frame(at, <<a>>) \in Frames(n)
  <2>1. <<a>> \in Seq(1..n) /\ Len(<<a>>) = 1
    OBVIOUS
  <2>2. \A k \in TargetIx(at) : <<a>>[k] # 1
    BY FrameSizes DEF TargetIx
  <2> QED
    BY <2>1, <2>2, FrameSizes, FrameIn
<1>5. ASSUME NEW x \in 1..n PROVE Frame("logic.rhs", <<x, a>>) \in Frames(n)
  <2>1. <<x, a>> \in Seq(1..n) /\ Len(<<x, a>>) = 2
    OBVIOUS
  <2>2. \A k \in TargetIx("logic.rhs") : <<x, a>>[k] # 1
    BY FrameSizes DEF TargetIx
  <2> QED
    BY <2>1, <2>2, FrameSizes, FrameIn
<1> QED
  BY <1>1, <1>2, <1>3, <1>4, <1>5

(* What a well-formed frame of each kind holds, as its visitor reads it.   *)
LEMMA OldFrames ==
  ASSUME NEW n \in Nat \ {0}, NEW f \in Frames(n)
  PROVE  /\ f.at \in {"for.init", "for.cond", "for.body", "for.iter"} =>
              /\ f.on[1] \in 2..n /\ f.on[2] \in 2..n /\ f.on[3] \in 2..n /\ f.on[4] \in 2..n
              /\ f.on = <<f.on[1], f.on[2], f.on[3], f.on[4]>>
         /\ f.at \in {"while.cond", "while.body"} =>
              /\ f.on[1] \in 2..n /\ f.on[2] \in 2..n /\ f.on[3] \in 2..n
              /\ f.on = <<f.on[1], f.on[2], f.on[3]>>
         /\ f.at = "ifelse.then" => f.on[1] \in 2..n /\ f.on[2] \in 2..n
         /\ f.at \in {"if.then", "ifelse.else"} => f.on[1] \in 2..n
         /\ f.at = "binary.rhs" => f.on[1] \in 1..n
         /\ f.at = "logic.rhs" => f.on[1] \in 1..n /\ f.on[2] \in 2..n
<1>1. f.on \in Seq(1..n) /\ Len(f.on) = FrameSize(f.at) /\ \A k \in TargetIx(f.at) : f.on[k] # 1
  BY DEF Frames, FrameOK
<1>2. ASSUME f.at \in {"for.init", "for.cond", "for.body", "for.iter"}
      PROVE  /\ f.on[1] \in 2..n /\ f.on[2] \in 2..n /\ f.on[3] \in 2..n /\ f.on[4] \in 2..n
             /\ f.on = <<f.on[1], f.on[2], f.on[3], f.on[4]>>
  <2>1. Len(f.on) = 4 /\ TargetIx(f.at) = 1..4
    BY <1>1, <1>2, FrameSizes DEF TargetIx
  <2>2. /\ f.on[1] \in 2..n /\ f.on[2] \in 2..n /\ f.on[3] \in 2..n /\ f.on[4] \in 2..n
    BY <1>1, <2>1, SMTT(30)
  <2> DEFINE on == <<f.on[1], f.on[2], f.on[3], f.on[4]>>
  <2>3. on \in Seq(1..n) /\ Len(on) = 4 /\ \A i \in 1..4 : f.on[i] = on[i]
    BY <2>2
  <2> HIDE DEF on
  <2>4. f.on \in Seq(1..n) /\ Len(f.on) = Len(on) /\ \A i \in 1..Len(f.on) : f.on[i] = on[i]
    BY <1>1, <2>1, <2>3
  <2>5. f.on = on
    BY <2>3, <2>4, SeqEqual, Zenon
  <2> QED
    BY <2>2, <2>5 DEF on
<1>3. ASSUME f.at \in {"while.cond", "while.body"}
      PROVE  /\ f.on[1] \in 2..n /\ f.on[2] \in 2..n /\ f.on[3] \in 2..n
             /\ f.on = <<f.on[1], f.on[2], f.on[3]>>
  <2>1. Len(f.on) = 3 /\ TargetIx(f.at) = 1..3
    BY <1>1, <1>3, FrameSizes DEF TargetIx
  <2>2. /\ f.on[1] \in 2..n /\ f.on[2] \in 2..n /\ f.on[3] \in 2..n
    BY <1>1, <2>1
  <2> DEFINE on == <<f.on[1], f.on[2], f.on[3]>>
  <2>3. on \in Seq(1..n) /\ Len(on) = 3 /\ \A i \in 1..3 : f.on[i] = on[i]
    BY <2>2
  <2> HIDE DEF on
  <2>4. f.on \in Seq(1..n) /\ Len(f.on) = Len(on) /\ \A i \in 1..Len(f.on) : f.on[i] = on[i]
    BY <1>1, <2>1, <2>3
  <2>5. f.on = on
    BY <2>3, <2>4, SeqEqual, Zenon
  <2> QED
    BY <2>2, <2>5 DEF on
<1>4. ASSUME f.at \in {"ifelse.then", "if.then", "ifelse.else", "binary.rhs", "logic.rhs"}
      PROVE  /\ f.at \in {"ifelse.then", "if.then", "ifelse.else"} => f.on[1] \in 2..n
             /\ f.at \in {"binary.rhs", "logic.rhs"} => f.on[1] \in 1..n
             /\ f.at \in {"ifelse.then", "logic.rhs"} => f.on[2] \in 2..n
  BY <1>1, <1>4, FrameSizes, SMTT(30) DEF TargetIx
<1> QED
  BY <1>2, <1>3, <1>4

(* A loop keeps its blocks until it ends. *)
LEMMA SameFrame ==
  ASSUME NEW n \in Nat \ {0}, NEW f \in Frames(n)
  PROVE  /\ f.at \in {"for.init", "for.cond", "for.body", "for.iter"} =>
              \A at \in {"for.init", "for.cond", "for.body", "for.iter"} : Frame(at, f.on) \in Frames(n)
         /\ f.at \in {"while.cond", "while.body"} =>
              \A at \in {"while.cond", "while.body"} : Frame(at, f.on) \in Frames(n)
<1>1. ASSUME f.at \in {"for.init", "for.cond", "for.body", "for.iter"},
             NEW at \in {"for.init", "for.cond", "for.body", "for.iter"}
      PROVE  Frame(at, f.on) \in Frames(n)
  <2>1. f.on = <<f.on[1], f.on[2], f.on[3], f.on[4]>>
    BY <1>1, OldFrames
  <2>2. Frame(at, <<f.on[1], f.on[2], f.on[3], f.on[4]>>) \in Frames(n)
    BY <1>1, OldFrames, NewFrames
  <2> QED
    BY <2>1, <2>2
<1>2. ASSUME f.at \in {"while.cond", "while.body"}, NEW at \in {"while.cond", "while.body"}
      PROVE  Frame(at, f.on) \in Frames(n)
  <2>1. f.on = <<f.on[1], f.on[2], f.on[3]>>
    BY <1>2, OldFrames
  <2>2. Frame(at, <<f.on[1], f.on[2], f.on[3]>>) \in Frames(n)
    BY <1>2, OldFrames, NewFrames
  <2> QED
    BY <2>1, <2>2
<1> QED
  BY <1>1, <1>2

-----------------------------------------------------------------------------
(***************************************************************************)
(* Types.                                                                  *)
(***************************************************************************)
(* The visitor that runs has a well-formed frame.                          *)
LEMMA AtTop ==
  ASSUME Types, NEW at, At(at)
  PROVE  /\ Len(stack) \in Nat \ {0} /\ stack # << >> /\ Top = stack[Len(stack)]
         /\ Top \in Frames(nblocks) /\ Top.at = at
  BY EmptySeq, ElementOfSeq DEF Types, At, Top

(* The stack stays well-formed when the visitor goes on with such a frame. *)
LEMMA GoOnTyped ==
  ASSUME Types, stack # << >>, NEW n \in Nat, nblocks <= n, NEW f \in Frames(n),
         Resume(f) \/ Accept(f, "expr") \/ Accept(f, "stmt")
  PROVE  stack' \in Seq(Frames(n))
<1>1. nblocks \in Nat \ {0} /\ n \in Nat \ {0}
  BY DEF Types
<1>2. stack \in Seq(Frames(n))
  BY <1>1, Grow DEF Types
<1>3. Frame("expr", << >>) \in Frames(n) /\ Frame("stmt", << >>) \in Frames(n)
  BY <1>1, EmptyFrames
<1> QED
  BY <1>2, <1>3, ResumeEffect, AcceptEffect

(* And when it returns.                                                    *)
LEMMA LeaveTyped ==
  ASSUME Types, stack # << >>, Leave
  PROVE  stack' \in Seq(Frames(nblocks))
  BY LeaveEffect DEF Types

(* A terminator appended to a block leaves the code of all blocks typed.   *)
LEMMA AppendedTyped ==
  ASSUME NEW S, NEW code \in [Blocks -> Seq(S)], NEW b \in Blocks, NEW t \in S
  PROVE  Appended(code, b, t) \in [Blocks -> Seq(S)]
  BY DEF Appended

(* The terminator appended to the insertion block.                         *)
LEMMA AppendTyped ==
  ASSUME Types, NEW t \in Seq(2..nblocks), AppendTerminator(t)
  PROVE  nblocks' = nblocks /\ term' \in [Blocks -> Seq(Seq(2..nblocks))]
  BY AppendedTyped DEF Types, AppendTerminator

(* New blocks, with or without a terminator that branches to them.         *)
LEMMA CreateTyped ==
  ASSUME Types, NEW k \in 1..4, NEW t \in Seq(2..(nblocks + k)),
         AppendAndCreate(t, k) \/ CreateBlocks(k)
  PROVE  /\ nblocks' = nblocks + k /\ nblocks' \in 1..MaxBlocks /\ nblocks <= nblocks'
         /\ term' \in [1..nblocks' -> Seq(Seq(2..nblocks'))]
<1> DEFINE T == Seq(Seq(2..nblocks'))
<1>1. nblocks \in 1..MaxBlocks /\ nblocks' = nblocks + k /\ nblocks + k <= MaxBlocks
  BY DEF Types, AppendAndCreate, CreateBlocks
<1>2. nblocks' \in 1..MaxBlocks /\ nblocks <= nblocks'
  BY <1>1, BoundsAssumption
<1>3. insert \in Blocks /\ \A b \in Blocks : term[b] \in T
  BY <1>1, <1>2, Grow DEF Types
<1>4. << >> \in T /\ \A s \in T : Append(s, t) \in T
  BY <1>1, EmptySeq
<1> HIDE DEF T
<1>5. ASSUME AppendAndCreate(t, k) PROVE term' \in [1..nblocks' -> T]
  <2>1. term' = [b \in 1..nblocks' |-> IF b = insert THEN Append(term[b], t)
                                      ELSE IF b <= nblocks THEN term[b] ELSE << >>]
    BY <1>1, <1>5 DEF AppendAndCreate
  <2>2. ASSUME NEW b \in 1..nblocks' PROVE term'[b] \in T
    BY <1>1, <1>2, <1>3, <1>4, <2>1 DEF Blocks
  <2> QED
    BY <2>1, <2>2
<1>6. ASSUME CreateBlocks(k) PROVE term' \in [1..nblocks' -> T]
  <2>1. term' = [b \in 1..nblocks' |-> IF b <= nblocks THEN term[b] ELSE << >>]
    BY <1>1, <1>6 DEF CreateBlocks
  <2>2. ASSUME NEW b \in 1..nblocks' PROVE term'[b] \in T
    BY <1>1, <1>2, <1>3, <1>4, <2>1 DEF Blocks
  <2> QED
    BY <2>1, <2>2
<1> QED
  BY <1>1, <1>2, <1>5, <1>6 DEF T

(* New blocks alone.                                                       *)
LEMMA CreateBlocksTyped ==
  ASSUME Types, NEW k \in 1..4, CreateBlocks(k)
  PROVE  /\ nblocks' = nblocks + k /\ nblocks' \in 1..MaxBlocks /\ nblocks <= nblocks'
         /\ term' \in [1..nblocks' -> Seq(Seq(2..nblocks'))]
  BY CreateTyped, EmptySeq

(* Older blocks, targets and values are still blocks after others are made. *)
LEMMA KeepTyped ==
  ASSUME Types, nblocks' \in 1..MaxBlocks, nblocks <= nblocks'
  PROVE  /\ Blocks \subseteq Blocks'
         /\ breakTargets \in Seq(2..nblocks') /\ continueTargets \in Seq(2..nblocks')
         /\ val \in Blocks' /\ insert \in Blocks'
         /\ uses \subseteq Blocks' \X Blocks'
         /\ \A phi \in phis : phi.at \in Blocks' /\ phi.in \in Blocks' \X Blocks'
<1>1. nblocks \in Nat /\ nblocks' \in Nat
  BY DEF Types
<1>2. Blocks \subseteq Blocks'
  BY <1>1 DEF Blocks
<1> QED
  BY <1>1, <1>2, Grow DEF Types

(* Steps that change the stack only.                                       *)
LEMMA QuietTyped ==
  ASSUME Types, UNCHANGED <<isVoid, nblocks, term, insert, targets, values>>,
         stack' \in Seq(Frames(nblocks))
  PROVE  Types'
  BY DEF Types, targets, values, Blocks

(* A branch for the block that may be terminated.                          *)
LEMMA BranchTyped ==
  ASSUME Types, NEW b \in 2..nblocks, BranchIfOpen(b)
  PROVE  nblocks' = nblocks /\ term' \in [Blocks -> Seq(Seq(2..nblocks))]
<1>1. <<b>> \in Seq(2..nblocks)
  OBVIOUS
<1> QED
  BY <1>1, AppendTyped DEF BranchIfOpen, Types

(* Steps that change the code, the insertion point and the stack.          *)
LEMMA CodeTyped ==
  ASSUME Types, UNCHANGED <<isVoid, nblocks, targets, values>>, insert' \in Blocks,
         term' \in [Blocks -> Seq(Seq(2..nblocks))], stack' \in Seq(Frames(nblocks))
  PROVE  Types'
  BY DEF Types, targets, values, Blocks

(* The operands that are used.                                             *)
LEMMA UseTyped ==
  ASSUME Types, NEW ds, ds \subseteq Blocks, Use(ds)
  PROVE  uses' \subseteq Blocks \X Blocks
  BY DEF Types, Use

(* Types are kept by the visitors that call others and emit nothing.       *)
LEMMA TypesStepQuiet ==
  ASSUME Types,
         \/ VisitScopeChild \/ LeaveScope \/ VisitScope \/ VisitExprStmt \/ FinishExprStmt
         \/ VisitIfStmt \/ VisitOperator
  PROVE  Types'
<1>0. nblocks \in Nat \ {0} /\ nblocks <= nblocks
  BY DEF Types
<1>1. CASE VisitScopeChild
  BY <1>0, <1>1, AtTop, GoOnTyped, QuietTyped DEF VisitScopeChild
<1>2. CASE LeaveScope
  BY <1>2, AtTop, LeaveTyped, QuietTyped DEF LeaveScope
<1>3. CASE VisitScope
  BY <1>0, <1>3, AtTop, EmptyFrames, GoOnTyped, QuietTyped DEF VisitScope
<1>4. CASE VisitExprStmt
  BY <1>0, <1>4, AtTop, EmptyFrames, GoOnTyped, QuietTyped DEF VisitExprStmt
<1>5. CASE FinishExprStmt
  BY <1>5, AtTop, LeaveTyped, QuietTyped DEF FinishExprStmt
<1>6. CASE VisitIfStmt
  BY <1>0, <1>6, AtTop, EmptyFrames, GoOnTyped, QuietTyped DEF VisitIfStmt
<1>7. CASE VisitOperator
  BY <1>0, <1>7, AtTop, EmptyFrames, GoOnTyped, QuietTyped DEF VisitOperator
<1> QED
  BY <1>1, <1>2, <1>3, <1>4, <1>5, <1>6, <1>7

(* Types are kept by the expressions without control flow.                 *)
LEMMA TypesStepExpr ==
  ASSUME Types, VisitLeafExpr \/ FinishUnaryExpr \/ BinaryLeft \/ FinishBinaryExpr
  PROVE  Types'
<1>0. nblocks \in Nat \ {0} /\ nblocks <= nblocks /\ val \in Blocks /\ insert \in Blocks
  BY DEF Types
<1>1. CASE VisitLeafExpr
  <2>1. stack' \in Seq(Frames(nblocks))
    BY <1>1, AtTop, LeaveTyped DEF VisitLeafExpr
  <2> QED
    BY <1>1, <2>1 DEF VisitLeafExpr, Types, targets, values, Blocks
<1>2. CASE FinishUnaryExpr
  <2>1. stack' \in Seq(Frames(nblocks))
    BY <1>2, AtTop, LeaveTyped DEF FinishUnaryExpr
  <2>2. uses' \subseteq Blocks \X Blocks
    BY <1>0, <1>2, UseTyped DEF FinishUnaryExpr
  <2> QED
    BY <1>2, <2>1, <2>2 DEF FinishUnaryExpr, Types, targets, values, Blocks
<1>3. CASE BinaryLeft
  <2>1. Frame("binary.rhs", <<val>>) \in Frames(nblocks)
    <3>1. <<val>> \in Seq(1..nblocks) /\ Len(<<val>>) = 1 /\ TargetIx("binary.rhs") = {}
      BY <1>0 DEF TargetIx, Blocks
    <3> QED
      BY <1>0, <3>1, FrameSizes, FrameIn
  <2> QED
    BY <1>0, <1>3, <2>1, AtTop, GoOnTyped, QuietTyped DEF BinaryLeft
<1>4. CASE FinishBinaryExpr
  <2>1. stack' \in Seq(Frames(nblocks)) /\ Top.on[1] \in Blocks
    BY <1>0, <1>4, AtTop, OldFrames, LeaveTyped DEF FinishBinaryExpr, Blocks
  <2>2. uses' \subseteq Blocks \X Blocks
    BY <1>0, <1>4, <2>1, UseTyped DEF FinishBinaryExpr
  <2> QED
    BY <1>4, <2>1, <2>2 DEF FinishBinaryExpr, Types, targets, values, Blocks
<1> QED
  BY <1>1, <1>2, <1>3, <1>4

(* Types are kept by visitIfStmt.                                          *)
LEMMA TypesStepIf ==
  ASSUME Types, IfElseCond \/ IfElseThen \/ IfCond \/ FinishIfStmt
  PROVE  Types'
<1>0. nblocks \in Nat \ {0} /\ nblocks <= nblocks /\ val \in Blocks
  BY DEF Types
<1>1. CASE IfElseCond
  <2> DEFINE t == <<nblocks + 1, nblocks + 2>>
             f == Frame("ifelse.then", <<nblocks + 2, nblocks + 3>>)
             m == nblocks + 3
  <2>1. /\ AppendAndCreate(t, 3) /\ Use({val}) /\ insert' = nblocks + 1
        /\ Accept(f, "stmt") /\ UNCHANGED <<isVoid, targets, val, phis>>
    BY <1>1 DEF IfElseCond
  <2>2. m \in Nat \ {0} /\ nblocks <= m /\ nblocks + 1 \in 2..m /\ nblocks + 2 \in 2..m /\ nblocks + 3 \in 2..m
    BY <1>0
  <2>3. t \in Seq(2..m)
    BY <2>2
  <2> HIDE DEF m
  <2>4. f \in Frames(m)
    BY <2>2, NewFrames
  <2> HIDE DEF t, f
  <2>5. /\ nblocks' = m /\ nblocks' \in 1..MaxBlocks /\ nblocks <= nblocks'
        /\ term' \in [1..nblocks' -> Seq(Seq(2..nblocks'))]
    BY <2>1, <2>3, CreateTyped DEF m
  <2>6. stack' \in Seq(Frames(m))
    BY <1>1, <2>1, <2>2, <2>4, AtTop, GoOnTyped DEF IfElseCond
  <2>7. uses' \subseteq Blocks \X Blocks
    BY <1>0, <2>1, UseTyped
  <2>8. insert' \in 1..m
    BY <2>1, <2>2
  <2> QED
    BY <1>0, <2>1, <2>5, <2>6, <2>7, <2>8, KeepTyped DEF Types, targets, Blocks
<1>2. CASE IfElseThen
  <2>1. Top.on[1] \in 2..nblocks /\ Top.on[2] \in 2..nblocks
    BY <1>0, <1>2, AtTop, OldFrames DEF IfElseThen
  <2>2. nblocks' = nblocks /\ term' \in [Blocks -> Seq(Seq(2..nblocks))]
    BY <1>2, <2>1, BranchTyped DEF IfElseThen
  <2>3. stack' \in Seq(Frames(nblocks))
    BY <1>0, <1>2, <2>1, AtTop, NewFrames, GoOnTyped DEF IfElseThen
  <2>4. insert' \in Blocks
    BY <1>0, <1>2, <2>1 DEF IfElseThen, Blocks
  <2> QED
    BY <1>2, <2>2, <2>3, <2>4, CodeTyped DEF IfElseThen
<1>3. CASE IfCond
  <2> DEFINE t == <<nblocks + 1, nblocks + 2>>
             f == Frame("if.then", <<nblocks + 2>>)
             m == nblocks + 2
  <2>1. /\ AppendAndCreate(t, 2) /\ Use({val}) /\ insert' = nblocks + 1
        /\ Accept(f, "stmt") /\ UNCHANGED <<isVoid, targets, val, phis>>
    BY <1>3 DEF IfCond
  <2>2. m \in Nat \ {0} /\ nblocks <= m /\ nblocks + 1 \in 2..m /\ nblocks + 2 \in 2..m
    BY <1>0
  <2>3. t \in Seq(2..m)
    BY <2>2
  <2> HIDE DEF m
  <2>4. f \in Frames(m)
    BY <2>2, NewFrames
  <2> HIDE DEF t, f
  <2>5. /\ nblocks' = m /\ nblocks' \in 1..MaxBlocks /\ nblocks <= nblocks'
        /\ term' \in [1..nblocks' -> Seq(Seq(2..nblocks'))]
    BY <2>1, <2>3, CreateTyped DEF m
  <2>6. stack' \in Seq(Frames(m))
    BY <1>3, <2>1, <2>2, <2>4, AtTop, GoOnTyped DEF IfCond
  <2>7. uses' \subseteq Blocks \X Blocks
    BY <1>0, <2>1, UseTyped
  <2>8. insert' \in 1..m
    BY <2>1, <2>2
  <2> QED
    BY <1>0, <2>1, <2>5, <2>6, <2>7, <2>8, KeepTyped DEF Types, targets, Blocks
<1>4. CASE FinishIfStmt
  <2>1. Top.on[1] \in 2..nblocks /\ stack # << >>
    BY <1>0, <1>4, AtTop, OldFrames DEF FinishIfStmt
  <2>2. nblocks' = nblocks /\ term' \in [Blocks -> Seq(Seq(2..nblocks))]
    BY <1>4, <2>1, BranchTyped DEF FinishIfStmt
  <2>3. stack' \in Seq(Frames(nblocks))
    BY <1>4, <2>1, LeaveTyped DEF FinishIfStmt
  <2>4. insert' \in Blocks
    BY <1>0, <1>4, <2>1 DEF FinishIfStmt, Blocks
  <2> QED
    BY <1>4, <2>2, <2>3, <2>4, CodeTyped DEF FinishIfStmt
<1> QED
  BY <1>1, <1>2, <1>3, <1>4

-----------------------------------------------------------------------------
(* Where there is a loop, there is a target. *)
LEMMA LoopsFinite ==
  ASSUME NEW i \in Nat
  PROVE  IsFiniteSet(Loops(i)) /\ LoopDepth(i) \in Nat
<1>1. IsFiniteSet(1..i) /\ Loops(i) \in SUBSET (1..i)
  BY FS_Interval DEF Loops
<1>2. IsFiniteSet(Loops(i))
  BY <1>1, FS_Subset
<1> QED
  BY <1>2, FS_CardinalityType DEF LoopDepth

(* Inside a loop both target vectors have a last element.                  *)
LEMMA LoopHasTarget ==
  ASSUME Types, TargetsMatchLoops, NEW i \in 1..Len(stack), stack[i].at \in LoopKinds
  PROVE  /\ Len(breakTargets) \in Nat \ {0} /\ breakTargets[Len(breakTargets)] \in 2..nblocks
         /\ Len(continueTargets) \in Nat \ {0}
         /\ continueTargets[Len(continueTargets)] \in 2..nblocks
<1>1. Len(stack) \in Nat
  BY DEF Types
<1>2. Loops(Len(stack)) # {}
  BY <1>1 DEF Loops
<1>3. LoopDepth(Len(stack)) \in Nat \ {0}
  BY <1>1, <1>2, LoopsFinite, FS_EmptySet DEF LoopDepth
<1>4. Len(breakTargets) \in Nat \ {0} /\ Len(continueTargets) \in Nat \ {0}
  BY <1>3 DEF TargetsMatchLoops
<1> QED
  BY <1>4, ElementOfSeq, SMTT(30) DEF Types

(* The vectors stay typed when a loop adds its targets.                    *)
LEMMA PushTyped ==
  ASSUME NEW n \in Nat, breakTargets \in Seq(2..n), continueTargets \in Seq(2..n),
         NEW exit \in 2..n, NEW next \in 2..n, PushTargets(exit, next)
  PROVE  breakTargets' \in Seq(2..n) /\ continueTargets' \in Seq(2..n)
  BY DEF PushTargets

(* A vector without its last element.                                      *)
LEMMA PopSeq ==
  ASSUME NEW S, NEW s \in Seq(S), Len(s) \in Nat \ {0}
  PROVE  LET front == [i \in 1..(Len(s) - 1) |-> s[i]]
         IN  /\ front \in Seq(S) /\ Len(front) = Len(s) - 1
             /\ \A i \in 1..(Len(s) - 1) : front[i] = s[i]
  OBVIOUS

(* The vectors stay typed when a loop removes its targets.                 *)
LEMMA PopTyped ==
  ASSUME Types, Len(breakTargets) \in Nat \ {0}, Len(continueTargets) \in Nat \ {0}, PopTargets
  PROVE  breakTargets' \in Seq(2..nblocks) /\ continueTargets' \in Seq(2..nblocks)
<1>1. breakTargets \in Seq(2..nblocks) /\ continueTargets \in Seq(2..nblocks)
  BY DEF Types
<1> QED
  BY <1>1, PopSeq DEF PopTargets

(* Types are kept by visitForStmt.                                         *)
LEMMA TypesStepFor ==
  ASSUME Types, TargetsMatchLoops,
         VisitForStmt \/ ForInit \/ ForInitNoCond \/ ForCond \/ ForBody \/ FinishForStmt
  PROVE  Types'
<1>0. nblocks \in Nat \ {0} /\ nblocks <= nblocks /\ val \in Blocks /\ insert \in Blocks
  BY DEF Types
<1>1. CASE VisitForStmt
  <2> DEFINE on == <<nblocks + 1, nblocks + 2, nblocks + 3, nblocks + 4>>
             f == Frame("for.init", on)
             m == nblocks + 4
  <2>1. /\ CreateBlocks(4) /\ PushTargets(nblocks + 4, nblocks + 3)
        /\ Accept(f, "expr") \/ Resume(f)
        /\ UNCHANGED <<isVoid, insert, values>>
    BY <1>1 DEF VisitForStmt
  <2>2. /\ m \in Nat \ {0} /\ nblocks <= m /\ nblocks + 1 \in 2..m /\ nblocks + 2 \in 2..m
        /\ nblocks + 3 \in 2..m /\ nblocks + 4 \in 2..m
    BY <1>0
  <2> HIDE DEF m
  <2>3. f \in Frames(m)
    BY <2>2, NewFrames
  <2> HIDE DEF f
  <2>4. CreateBlocks(4)
    BY <2>1
  <2>5. /\ nblocks' = m /\ nblocks' \in 1..MaxBlocks /\ nblocks <= nblocks'
        /\ term' \in [1..nblocks' -> Seq(Seq(2..nblocks'))]
    BY <2>4, CreateBlocksTyped DEF m
  <2>6. stack' \in Seq(Frames(m))
    BY <1>1, <2>1, <2>2, <2>3, AtTop, GoOnTyped DEF VisitForStmt
  <2>7. breakTargets' \in Seq(2..m) /\ continueTargets' \in Seq(2..m)
    BY <2>1, <2>2, <2>5, KeepTyped, PushTyped
  <2> QED
    BY <2>1, <2>5, <2>6, <2>7, KeepTyped DEF Types, values, Blocks
<1>2. CASE ForInit
  <2>1. Top \in Frames(nblocks) /\ Top.at = "for.init" /\ stack # << >>
    BY <1>2, AtTop DEF ForInit
  <2>2. Top.on[1] \in 2..nblocks /\ Frame("for.cond", Top.on) \in Frames(nblocks)
    BY <1>0, <2>1, OldFrames, SameFrame
  <2>3. <<Top.on[1]>> \in Seq(2..nblocks)
    BY <2>2
  <2>4. nblocks' = nblocks /\ term' \in [Blocks -> Seq(Seq(2..nblocks))]
    BY <1>2, <2>3, AppendTyped DEF ForInit
  <2>5. stack' \in Seq(Frames(nblocks)) /\ insert' \in Blocks
    BY <1>0, <1>2, <2>1, <2>2, GoOnTyped DEF ForInit, Blocks
  <2> QED
    BY <1>2, <2>4, <2>5, CodeTyped DEF ForInit
<1>3. CASE ForInitNoCond
  <2>1. Top \in Frames(nblocks) /\ Top.at = "for.init" /\ stack # << >>
    BY <1>3, AtTop DEF ForInitNoCond
  <2>2. /\ Top.on[1] \in 2..nblocks /\ Top.on[2] \in 2..nblocks
        /\ Frame("for.body", Top.on) \in Frames(nblocks)
    BY <1>0, <2>1, OldFrames, SameFrame
  <2>3. <<Top.on[1]>> \in Seq(2..nblocks) /\ <<Top.on[2]>> \in Seq(2..nblocks)
    BY <2>2
  <2> DEFINE once == Appended(term, insert, <<Top.on[1]>>)
  <2>4. term' = Appended(once, Top.on[1], <<Top.on[2]>>)
    BY <1>3 DEF ForInitNoCond
  <2>5. term \in [Blocks -> Seq(Seq(2..nblocks))] /\ Top.on[1] \in Blocks
    BY <1>0, <2>2 DEF Types, Blocks
  <2>6. once \in [Blocks -> Seq(Seq(2..nblocks))]
    BY <1>0, <2>3, <2>5, AppendedTyped
  <2> HIDE DEF once
  <2>7. term' \in [Blocks -> Seq(Seq(2..nblocks))]
    BY <2>3, <2>4, <2>5, <2>6, AppendedTyped
  <2>8. stack' \in Seq(Frames(nblocks)) /\ insert' \in Blocks
    BY <1>0, <1>3, <2>1, <2>2, GoOnTyped DEF ForInitNoCond, Blocks
  <2> QED
    BY <1>3, <2>7, <2>8, CodeTyped DEF ForInitNoCond
<1>4. CASE ForCond
  <2>1. Top \in Frames(nblocks) /\ Top.at = "for.cond" /\ stack # << >>
    BY <1>4, AtTop DEF ForCond
  <2>2. /\ Top.on[2] \in 2..nblocks /\ Top.on[4] \in 2..nblocks
        /\ Frame("for.body", Top.on) \in Frames(nblocks)
    BY <1>0, <2>1, OldFrames, SameFrame
  <2>3. <<Top.on[2], Top.on[4]>> \in Seq(2..nblocks)
    BY <2>2
  <2>4. nblocks' = nblocks /\ term' \in [Blocks -> Seq(Seq(2..nblocks))]
    BY <1>4, <2>3, AppendTyped DEF ForCond
  <2>5. stack' \in Seq(Frames(nblocks)) /\ insert' \in Blocks
    BY <1>0, <1>4, <2>1, <2>2, GoOnTyped DEF ForCond, Blocks
  <2>6. uses' \subseteq Blocks \X Blocks
    BY <1>0, <1>4, UseTyped DEF ForCond
  <2>7. UNCHANGED <<isVoid, targets, val, phis>>
    BY <1>4 DEF ForCond
  <2> QED
    BY <2>4, <2>5, <2>6, <2>7 DEF Types, targets, Blocks
<1>5. CASE ForBody
  <2>1. Top \in Frames(nblocks) /\ Top.at = "for.body" /\ stack # << >>
    BY <1>5, AtTop DEF ForBody
  <2>2. Top.on[3] \in 2..nblocks /\ Frame("for.iter", Top.on) \in Frames(nblocks)
    BY <1>0, <2>1, OldFrames, SameFrame
  <2>3. nblocks' = nblocks /\ term' \in [Blocks -> Seq(Seq(2..nblocks))]
    BY <1>5, <2>2, BranchTyped DEF ForBody
  <2>4. stack' \in Seq(Frames(nblocks)) /\ insert' \in Blocks
    BY <1>0, <1>5, <2>1, <2>2, GoOnTyped DEF ForBody, Blocks
  <2> QED
    BY <1>5, <2>3, <2>4, CodeTyped DEF ForBody
<1>6. CASE FinishForStmt
  <2>1. /\ Top \in Frames(nblocks) /\ Top.at = "for.iter" /\ stack # << >>
        /\ Len(stack) \in Nat \ {0} /\ Top = stack[Len(stack)]
    BY <1>6, AtTop DEF FinishForStmt
  <2>2. Top.on[1] \in 2..nblocks /\ Top.on[4] \in 2..nblocks
    BY <1>0, <2>1, OldFrames
  <2>3. <<Top.on[1]>> \in Seq(2..nblocks)
    BY <2>2
  <2>4. nblocks' = nblocks /\ term' \in [Blocks -> Seq(Seq(2..nblocks))]
    BY <1>6, <2>3, AppendTyped DEF FinishForStmt
  <2>5. stack' \in Seq(Frames(nblocks)) /\ insert' \in Blocks
    BY <1>0, <1>6, <2>1, <2>2, LeaveTyped DEF FinishForStmt, Blocks
  <2>6. breakTargets' \in Seq(2..nblocks) /\ continueTargets' \in Seq(2..nblocks)
    BY <1>6, <2>1, LoopHasTarget, PopTyped DEF FinishForStmt, LoopKinds
  <2>7. UNCHANGED <<isVoid, values>>
    BY <1>6 DEF FinishForStmt
  <2> QED
    BY <2>4, <2>5, <2>6, <2>7 DEF Types, values, Blocks
<1> QED
  BY <1>1, <1>2, <1>3, <1>4, <1>5, <1>6

(* Types are kept by visitWhileStmt.                                       *)
LEMMA TypesStepWhile ==
  ASSUME Types, TargetsMatchLoops, VisitWhileStmt \/ WhileCond \/ FinishWhileStmt
  PROVE  Types'
<1>0. nblocks \in Nat \ {0} /\ nblocks <= nblocks /\ val \in Blocks /\ insert \in Blocks
  BY DEF Types
<1>1. CASE VisitWhileStmt
  <2> DEFINE t == <<nblocks + 1>>
             f == Frame("while.cond", <<nblocks + 1, nblocks + 2, nblocks + 3>>)
             m == nblocks + 3
  <2>1. /\ AppendAndCreate(t, 3) /\ PushTargets(nblocks + 3, nblocks + 1)
        /\ insert' = nblocks + 1 /\ Accept(f, "expr") /\ UNCHANGED <<isVoid, values>>
    BY <1>1 DEF VisitWhileStmt
  <2>2. /\ m \in Nat \ {0} /\ nblocks <= m /\ nblocks + 1 \in 2..m /\ nblocks + 2 \in 2..m
        /\ nblocks + 3 \in 2..m
    BY <1>0
  <2>3. t \in Seq(2..m)
    BY <2>2
  <2> HIDE DEF m
  <2>4. f \in Frames(m)
    BY <2>2, NewFrames
  <2> HIDE DEF t, f
  <2>5. /\ nblocks' = m /\ nblocks' \in 1..MaxBlocks /\ nblocks <= nblocks'
        /\ term' \in [1..nblocks' -> Seq(Seq(2..nblocks'))]
    BY <2>1, <2>3, CreateTyped DEF m
  <2>6. stack' \in Seq(Frames(m))
    BY <1>1, <2>1, <2>2, <2>4, AtTop, GoOnTyped DEF VisitWhileStmt
  <2>7. breakTargets' \in Seq(2..m) /\ continueTargets' \in Seq(2..m)
    BY <2>1, <2>2, <2>5, KeepTyped, PushTyped
  <2>8. insert' \in 1..m
    BY <2>1, <2>2
  <2> QED
    BY <2>1, <2>5, <2>6, <2>7, <2>8, KeepTyped DEF Types, values, Blocks
<1>2. CASE WhileCond
  <2>1. Top \in Frames(nblocks) /\ Top.at = "while.cond" /\ stack # << >>
    BY <1>2, AtTop DEF WhileCond
  <2>2. /\ Top.on[2] \in 2..nblocks /\ Top.on[3] \in 2..nblocks
        /\ Frame("while.body", Top.on) \in Frames(nblocks)
    BY <1>0, <2>1, OldFrames, SameFrame
  <2>3. <<Top.on[2], Top.on[3]>> \in Seq(2..nblocks)
    BY <2>2
  <2>4. nblocks' = nblocks /\ term' \in [Blocks -> Seq(Seq(2..nblocks))]
    BY <1>2, <2>3, AppendTyped DEF WhileCond
  <2>5. stack' \in Seq(Frames(nblocks)) /\ insert' \in Blocks
    BY <1>0, <1>2, <2>1, <2>2, GoOnTyped DEF WhileCond, Blocks
  <2>6. uses' \subseteq Blocks \X Blocks
    BY <1>0, <1>2, UseTyped DEF WhileCond
  <2>7. UNCHANGED <<isVoid, targets, val, phis>>
    BY <1>2 DEF WhileCond
  <2> QED
    BY <2>4, <2>5, <2>6, <2>7 DEF Types, targets, Blocks
<1>3. CASE FinishWhileStmt
  <2>1. /\ Top \in Frames(nblocks) /\ Top.at = "while.body" /\ stack # << >>
        /\ Len(stack) \in Nat \ {0} /\ Top = stack[Len(stack)]
    BY <1>3, AtTop DEF FinishWhileStmt
  <2>2. Top.on[1] \in 2..nblocks /\ Top.on[3] \in 2..nblocks
    BY <1>0, <2>1, OldFrames
  <2>3. nblocks' = nblocks /\ term' \in [Blocks -> Seq(Seq(2..nblocks))]
    BY <1>3, <2>2, BranchTyped DEF FinishWhileStmt
  <2>4. stack' \in Seq(Frames(nblocks)) /\ insert' \in Blocks
    BY <1>0, <1>3, <2>1, <2>2, LeaveTyped DEF FinishWhileStmt, Blocks
  <2>5. breakTargets' \in Seq(2..nblocks) /\ continueTargets' \in Seq(2..nblocks)
    BY <1>3, <2>1, LoopHasTarget, PopTyped DEF FinishWhileStmt, LoopKinds
  <2>6. UNCHANGED <<isVoid, values>>
    BY <1>3 DEF FinishWhileStmt
  <2> QED
    BY <2>3, <2>4, <2>5, <2>6 DEF Types, values, Blocks
<1> QED
  BY <1>1, <1>2, <1>3

(* Types are kept by break, continue, return and the end of the function.  *)
LEMMA TypesStepJump ==
  ASSUME Types, TargetsMatchLoops,
         \/ VisitBreakStmt \/ VisitContinueStmt \/ VisitReturnStmt \/ FinishReturnStmt
         \/ FinishFuncDecl
  PROVE  Types'
<1>0. /\ nblocks \in Nat \ {0} /\ nblocks <= nblocks /\ val \in Blocks /\ insert \in Blocks
      /\ term \in [Blocks -> Seq(Seq(2..nblocks))] /\ << >> \in Seq(2..nblocks)
  BY EmptySeq DEF Types
<1>1. CASE VisitBreakStmt
  <2> DEFINE b == breakTargets[Len(breakTargets)]
  <2>1. stack' \in Seq(Frames(nblocks))
    BY <1>1, AtTop, LeaveTyped DEF VisitBreakStmt
  <2>2. b \in 2..nblocks
    BY <1>1, LoopHasTarget DEF VisitBreakStmt, InLoop, Types, LoopKinds
  <2>3. AppendTerminator(<<b>>) /\ UNCHANGED <<isVoid, insert, targets, values>>
    BY <1>1 DEF VisitBreakStmt
  <2> HIDE DEF b
  <2>4. <<b>> \in Seq(2..nblocks)
    BY <2>2
  <2>5. nblocks' = nblocks /\ term' \in [Blocks -> Seq(Seq(2..nblocks))]
    BY <2>3, <2>4, AppendTyped
  <2> QED
    BY <1>0, <2>1, <2>3, <2>5, CodeTyped
<1>2. CASE VisitContinueStmt
  <2> DEFINE b == continueTargets[Len(continueTargets)]
  <2>1. stack' \in Seq(Frames(nblocks))
    BY <1>2, AtTop, LeaveTyped DEF VisitContinueStmt
  <2>2. b \in 2..nblocks
    BY <1>2, LoopHasTarget DEF VisitContinueStmt, InLoop, Types, LoopKinds
  <2>3. AppendTerminator(<<b>>) /\ UNCHANGED <<isVoid, insert, targets, values>>
    BY <1>2 DEF VisitContinueStmt
  <2> HIDE DEF b
  <2>4. <<b>> \in Seq(2..nblocks)
    BY <2>2
  <2>5. nblocks' = nblocks /\ term' \in [Blocks -> Seq(Seq(2..nblocks))]
    BY <2>3, <2>4, AppendTyped
  <2> QED
    BY <1>0, <2>1, <2>3, <2>5, CodeTyped
<1>3. CASE VisitReturnStmt
  <2>1. UNCHANGED <<isVoid, insert, targets, values>>
    BY <1>3 DEF VisitReturnStmt
  <2>2. CASE isVoid
    <3>1. stack' \in Seq(Frames(nblocks))
      BY <1>3, <2>2, AtTop, LeaveTyped DEF VisitReturnStmt
    <3>2. nblocks' = nblocks /\ term' \in [Blocks -> Seq(Seq(2..nblocks))]
      BY <1>0, <1>3, <2>2, AppendTyped DEF VisitReturnStmt
    <3> QED
      BY <1>0, <2>1, <3>1, <3>2, CodeTyped
  <2>3. CASE ~isVoid
    <3>1. stack' \in Seq(Frames(nblocks))
      BY <1>0, <1>3, <2>3, AtTop, EmptyFrames, GoOnTyped DEF VisitReturnStmt
    <3> QED
      BY <1>3, <2>1, <2>3, <3>1, QuietTyped DEF VisitReturnStmt
  <2> QED
    BY <2>2, <2>3
<1>4. CASE FinishReturnStmt
  <2>1. stack' \in Seq(Frames(nblocks))
    BY <1>4, AtTop, LeaveTyped DEF FinishReturnStmt
  <2>2. nblocks' = nblocks /\ term' \in [Blocks -> Seq(Seq(2..nblocks))]
    BY <1>0, <1>4, AppendTyped DEF FinishReturnStmt
  <2>3. uses' \subseteq Blocks \X Blocks
    BY <1>0, <1>4, UseTyped DEF FinishReturnStmt
  <2>4. UNCHANGED <<isVoid, insert, targets, val, phis>>
    BY <1>4 DEF FinishReturnStmt
  <2> QED
    BY <2>1, <2>2, <2>3, <2>4 DEF Types, targets, Blocks
<1>5. CASE FinishFuncDecl
  <2>1. stack' \in Seq(Frames(nblocks))
    BY <1>5, AtTop, LeaveTyped DEF FinishFuncDecl
  <2>2. nblocks' = nblocks /\ term' \in [Blocks -> Seq(Seq(2..nblocks))]
    BY <1>0, <1>5, AppendTyped DEF FinishFuncDecl
  <2> QED
    BY <1>0, <1>5, <2>1, <2>2, CodeTyped DEF FinishFuncDecl
<1> QED
  BY <1>1, <1>2, <1>3, <1>4, <1>5

(* Types are kept by the short-circuit operators.                          *)
LEMMA TypesStepLogic ==
  ASSUME Types, LogicLeft \/ FinishLogicExpr
  PROVE  Types'
<1>0. nblocks \in Nat \ {0} /\ nblocks <= nblocks /\ val \in Blocks /\ insert \in Blocks
  BY DEF Types
<1>1. CASE LogicLeft
  <2> DEFINE f == Frame("logic.rhs", <<insert, nblocks + 2>>)
             m == nblocks + 2
  <2>1. PICK t \in {<<nblocks + 1, nblocks + 2>>, <<nblocks + 2, nblocks + 1>>} : AppendAndCreate(t, 2)
    BY <1>1 DEF LogicLeft
  <2>2. /\ Use({val}) /\ insert' = nblocks + 1
        /\ Accept(f, "expr") /\ UNCHANGED <<isVoid, targets, val, phis>>
    BY <1>1 DEF LogicLeft
  <2>3. /\ m \in Nat \ {0} /\ nblocks <= m /\ nblocks + 1 \in 2..m /\ nblocks + 2 \in 2..m
        /\ insert \in 1..m
    BY <1>0 DEF Blocks
  <2> HIDE DEF m
  <2>4. t \in Seq(2..m)
    <3>1. <<nblocks + 1, nblocks + 2>> \in Seq(2..m) /\ <<nblocks + 2, nblocks + 1>> \in Seq(2..m)
      BY <2>3
    <3> QED
      BY <3>1
  <2>5. f \in Frames(m)
    BY <2>3, NewFrames
  <2> HIDE DEF f
  <2>6. /\ nblocks' = m /\ nblocks' \in 1..MaxBlocks /\ nblocks <= nblocks'
        /\ term' \in [1..nblocks' -> Seq(Seq(2..nblocks'))]
    BY <2>1, <2>4, CreateTyped DEF m
  <2>7. stack' \in Seq(Frames(m))
    BY <1>1, <2>2, <2>3, <2>5, AtTop, GoOnTyped DEF LogicLeft
  <2>8. uses' \subseteq Blocks \X Blocks
    BY <1>0, <2>2, UseTyped
  <2>9. insert' \in 1..m
    BY <2>2, <2>3
  <2> QED
    BY <1>0, <2>2, <2>6, <2>7, <2>8, <2>9, KeepTyped DEF Types, targets, Blocks
<1>2. CASE FinishLogicExpr
  <2>1. Top \in Frames(nblocks) /\ Top.at = "logic.rhs" /\ stack # << >>
    BY <1>2, AtTop DEF FinishLogicExpr
  <2>2. Top.on[1] \in Blocks /\ Top.on[2] \in 2..nblocks /\ Top.on[2] \in Blocks
    BY <1>0, <2>1, OldFrames DEF Blocks
  <2>3. <<Top.on[2]>> \in Seq(2..nblocks)
    BY <2>2
  <2>4. nblocks' = nblocks /\ term' \in [Blocks -> Seq(Seq(2..nblocks))]
    BY <1>2, <2>3, AppendTyped DEF FinishLogicExpr
  <2>5. stack' \in Seq(Frames(nblocks))
    BY <1>2, <2>1, LeaveTyped DEF FinishLogicExpr
  <2>6. uses' \subseteq Blocks \X Blocks
    BY <1>0, <1>2, UseTyped DEF FinishLogicExpr
  <2>7. \A phi \in phis' : phi.at \in Blocks /\ phi.in \in Blocks \X Blocks
    BY <1>0, <1>2, <2>2 DEF FinishLogicExpr, slowEndBB, Types
  <2>8. insert' \in Blocks /\ val' \in Blocks /\ UNCHANGED <<isVoid, targets>>
    BY <1>2, <2>2 DEF FinishLogicExpr, LogicValue
  <2> QED
    BY <2>4, <2>5, <2>6, <2>7, <2>8 DEF Types, targets, Blocks
<1> QED
  BY <1>1, <1>2

(* Types are kept by every step; the targets show where break goes.        *)
LEMMA TypesStep ==
  ASSUME Types, TargetsMatchLoops, [Next]_vars
  PROVE  Types'
<1>1. CASE UNCHANGED vars
  BY <1>1, QuietTyped DEF vars, targets, values, Types
<1>2. CASE Next
  BY <1>2, TypesStepQuiet, TypesStepExpr, TypesStepIf, TypesStepFor, TypesStepWhile,
     TypesStepJump, TypesStepLogic DEF Next
<1> QED
  BY <1>1, <1>2

-----------------------------------------------------------------------------
(***************************************************************************)
(* What happens to the frames when a visitor returns or goes on.           *)
(***************************************************************************)
GoesOn(f) == Resume(f) \/ Accept(f, "expr") \/ Accept(f, "stmt")

(* The frames after a return.                                              *)
LEMMA StackLeave ==
  ASSUME Types, NEW at, At(at), Leave
  PROVE  /\ Len(stack) \in Nat \ {0} /\ stack[Len(stack)].at = at
         /\ Len(stack') = Len(stack) - 1
         /\ \A i \in 1..(Len(stack) - 1) : stack'[i] = stack[i]
         /\ stack' = << >> <=> Len(stack) = 1
  BY AtTop, LeaveEffect DEF Types

(* The frames when the visitor resumes elsewhere.                          *)
LEMMA StackResume ==
  ASSUME Types, NEW at, At(at), NEW f, Resume(f)
  PROVE  /\ Len(stack') = Len(stack) /\ stack'[Len(stack)] = f
         /\ \A i \in 1..(Len(stack) - 1) : stack'[i] = stack[i]
<1> DEFINE F == Frames(nblocks) \cup {f}
<1>1. stack # << >> /\ stack \in Seq(F) /\ f \in F
  BY AtTop, SeqMonotonic DEF Types
<1> HIDE DEF F
<1> QED
  BY <1>1, ResumeEffect

(* The frames when the visitor calls another.                              *)
LEMMA StackAccept ==
  ASSUME Types, NEW at, At(at), NEW f, NEW child, Accept(f, child)
  PROVE  /\ Len(stack') = Len(stack) + 1 /\ stack'[Len(stack)] = f
         /\ stack'[Len(stack) + 1] = Frame(child, << >>)
         /\ \A i \in 1..(Len(stack) - 1) : stack'[i] = stack[i]
<1> DEFINE F == Frames(nblocks) \cup {f, Frame(child, << >>)}
<1>1. stack # << >> /\ stack \in Seq(F) /\ f \in F /\ Frame(child, << >>) \in F
  BY AtTop, SeqMonotonic DEF Types
<1> HIDE DEF F
<1> QED
  BY <1>1, AcceptEffect

(* Both together: the frames below the top stay, and the top becomes f.    *)
LEMMA StackGoOn ==
  ASSUME Types, NEW at, At(at), NEW f, GoesOn(f)
  PROVE  /\ Len(stack) \in Nat \ {0} /\ stack[Len(stack)].at = at
         /\ \A i \in 1..(Len(stack) - 1) : stack'[i] = stack[i]
         /\ stack'[Len(stack)] = f
         /\ \/ Len(stack') = Len(stack)
            \/ /\ Len(stack') = Len(stack) + 1
               /\ stack'[Len(stack) + 1] \in {Frame("expr", << >>), Frame("stmt", << >>)}
  BY AtTop, StackResume, StackAccept DEF GoesOn

-----------------------------------------------------------------------------
(***************************************************************************)
(* The shape of the call stack.                                            *)
(***************************************************************************)
(* A return keeps the shape of the stack.                                  *)
LEMMA ShapeLeave ==
  ASSUME Types, Shape, NEW at, At(at), Leave
  PROVE  Shape'
<1>1. /\ Len(stack) \in Nat \ {0} /\ Len(stack') = Len(stack) - 1
      /\ \A i \in 1..(Len(stack) - 1) : stack'[i] = stack[i]
  BY StackLeave
<1>2. \A i \in 1..Len(stack') : stack'[i].at = "func" <=> i = 1
  BY <1>1 DEF Shape
<1>3. Len(stack') > 1 => stack'[2].at = "scope"
  BY <1>1 DEF Shape
<1>4. \A i \in 2..Len(stack') : stack'[i].at \in StmtKinds => stack'[i - 1].at \in AnyEnd
  BY <1>1 DEF Shape
<1> QED
  BY <1>2, <1>3, <1>4 DEF Shape

(* A visitor that goes on keeps it, if it expects of a statement any end.  *)
LEMMA ShapeGoOn ==
  ASSUME Types, Shape, NEW at, At(at), NEW f,
         at # "func", f.at # "func", at = "scope" => f.at = "scope",
         f.at \in StmtKinds => at \in StmtKinds,
         Resume(f) \/ Accept(f, "expr") \/ (Accept(f, "stmt") /\ f.at \in AnyEnd)
  PROVE  Shape'
<1>1. "stmt" # "func" /\ "expr" # "func" /\ "expr" \notin StmtKinds
  BY DEF StmtKinds
<1>2. Frame("stmt", << >>).at = "stmt" /\ Frame("expr", << >>).at = "expr"
  BY DEF Frame
<1>3. Len(stack) > 1
  BY StackGoOn DEF Shape, GoesOn
<1> DEFINE n == Len(stack)
<1>4. /\ n \in Nat /\ stack[n].at = at /\ stack'[n] = f
      /\ \A i \in 1..(n - 1) : stack'[i] = stack[i]
      /\ \/ Len(stack') = n
         \/ Len(stack') = n + 1 /\ stack'[n + 1].at = "expr"
         \/ Len(stack') = n + 1 /\ stack'[n + 1].at = "stmt" /\ f.at \in AnyEnd
  BY <1>2, AtTop, StackResume, StackAccept
<1> HIDE DEF n
<1>5. \A i \in 1..Len(stack') : stack'[i].at = "func" <=> i = 1
  BY <1>1, <1>3, <1>4 DEF Shape, n
<1>6. Len(stack') > 1 => stack'[2].at = "scope"
  BY <1>3, <1>4 DEF Shape, n
<1>7. ASSUME NEW i \in 2..Len(stack'), stack'[i].at \in StmtKinds
      PROVE  stack'[i - 1].at \in AnyEnd
  BY <1>1, <1>3, <1>4, <1>7 DEF Shape, n
<1> QED
  BY <1>5, <1>6, <1>7 DEF Shape

(* Every step keeps the shape of the stack.                                *)
LEMMA ShapeStep ==
  ASSUME Types, Shape, [Next]_vars
  PROVE  Shape'
<1> USE DEF Frame, StmtKinds, ExprKinds, AnyEnd
<1>1. CASE VisitScopeChild
  BY <1>1, ShapeGoOn, AtTop DEF VisitScopeChild
<1>2. CASE VisitScope
  BY <1>2, ShapeGoOn DEF VisitScope
<1>3. CASE VisitExprStmt
  BY <1>3, ShapeGoOn DEF VisitExprStmt
<1>4. CASE VisitIfStmt
  BY <1>4, ShapeGoOn DEF VisitIfStmt
<1>5. CASE IfElseCond
  BY <1>5, ShapeGoOn DEF IfElseCond
<1>6. CASE IfElseThen
  BY <1>6, ShapeGoOn DEF IfElseThen
<1>7. CASE IfCond
  BY <1>7, ShapeGoOn DEF IfCond
<1>8. CASE VisitForStmt
  BY <1>8, ShapeGoOn DEF VisitForStmt
<1>9. CASE ForInit
  BY <1>9, ShapeGoOn DEF ForInit
<1>10. CASE ForInitNoCond
  BY <1>10, ShapeGoOn DEF ForInitNoCond
<1>11. CASE ForCond
  BY <1>11, ShapeGoOn DEF ForCond
<1>12. CASE ForBody
  BY <1>12, ShapeGoOn DEF ForBody
<1>13. CASE VisitWhileStmt
  BY <1>13, ShapeGoOn DEF VisitWhileStmt
<1>14. CASE WhileCond
  BY <1>14, ShapeGoOn DEF WhileCond
<1>15. CASE VisitReturnStmt
  BY <1>15, ShapeGoOn, ShapeLeave DEF VisitReturnStmt
<1>16. CASE VisitOperator
  BY <1>16, ShapeGoOn DEF VisitOperator
<1>17. CASE BinaryLeft
  BY <1>17, ShapeGoOn DEF BinaryLeft
<1>18. CASE LogicLeft
  BY <1>18, ShapeGoOn DEF LogicLeft
<1>19. CASE \/ FinishFuncDecl \/ LeaveScope \/ FinishExprStmt \/ FinishIfStmt \/ FinishForStmt
            \/ FinishWhileStmt \/ VisitBreakStmt \/ VisitContinueStmt \/ FinishReturnStmt
            \/ VisitLeafExpr \/ FinishUnaryExpr \/ FinishBinaryExpr \/ FinishLogicExpr
  BY <1>19, ShapeLeave DEF FinishFuncDecl, LeaveScope, FinishExprStmt, FinishIfStmt, FinishForStmt,
     FinishWhileStmt, VisitBreakStmt, VisitContinueStmt, FinishReturnStmt, VisitLeafExpr,
     FinishUnaryExpr, FinishBinaryExpr, FinishLogicExpr
<1>20. CASE UNCHANGED vars
  BY <1>20 DEF vars, Shape
<1> QED
  BY <1>1, <1>2, <1>3, <1>4, <1>5, <1>6, <1>7, <1>8, <1>9, <1>10, <1>11, <1>12, <1>13, <1>14,
     <1>15, <1>16, <1>17, <1>18, <1>19, <1>20 DEF Next

-----------------------------------------------------------------------------
(***************************************************************************)
(* The targets mirror the loops.                                           *)
(***************************************************************************)
(* The loops on the stack after a return.                                  *)
LEMMA LoopsLeave ==
  ASSUME Types, NEW at, At(at), Leave
  PROVE  /\ Loops(Len(stack))' = Loops(Len(stack)) \ {Len(stack)}
         /\ \A i \in 1..(Len(stack) - 1) : Loops(i)' = Loops(i) /\ stack'[i] = stack[i]
<1>1. Len(stack) \in Nat \ {0} /\ Len(stack') = Len(stack) - 1
      /\ \A i \in 1..(Len(stack) - 1) : stack'[i] = stack[i]
  BY StackLeave
<1> QED
  BY <1>1 DEF Loops

(* The loops on the stack when the visitor goes on.                        *)
LEMMA LoopsGoOn ==
  ASSUME Types, NEW at, At(at), NEW f, GoesOn(f)
  PROVE  /\ Loops(Len(stack))' = IF f.at \in LoopKinds THEN Loops(Len(stack)) \cup {Len(stack)}
                                                      ELSE Loops(Len(stack)) \ {Len(stack)}
         /\ \A i \in 1..(Len(stack) - 1) : Loops(i)' = Loops(i) /\ stack'[i] = stack[i]
         /\ (Loops(Len(stack)) \cap {Len(stack)} = {} <=> at \notin LoopKinds)
<1> DEFINE n == Len(stack)
<1>1. /\ n \in Nat \ {0} /\ stack[n].at = at /\ stack'[n] = f
      /\ \A i \in 1..(n - 1) : stack'[i] = stack[i]
      /\ \/ Len(stack') = n
         \/ Len(stack') = n + 1 /\ stack'[n + 1].at \notin LoopKinds
  BY StackGoOn DEF Frame, LoopKinds
<1>2. Loops(n) = {j \in 1..n : stack[j].at \in LoopKinds}
  BY DEF Loops
<1>3. Loops(Len(stack))' = {j \in 1..Len(stack') : stack'[j].at \in LoopKinds}
  BY DEF Loops
<1>4. \A i \in 1..(n - 1) : Loops(i)' = Loops(i)
  BY <1>1 DEF Loops
<1> HIDE DEF n
<1>5. CASE f.at \in LoopKinds
  <2>1. Loops(Len(stack))' = Loops(n) \cup {n}
    BY <1>1, <1>2, <1>3, <1>5
  <2> QED
    BY <1>1, <1>2, <1>4, <1>5, <2>1 DEF n
<1>6. CASE f.at \notin LoopKinds
  <2>1. Loops(Len(stack))' = Loops(n) \ {n}
    BY <1>1, <1>2, <1>3, <1>6, SMTT(30)
  <2> QED
    BY <1>1, <1>2, <1>4, <1>6, <2>1 DEF n
<1> QED
  BY <1>5, <1>6

(* A visitor other than a loop's returns.                                  *)
LEMMA TargetsLeave ==
  ASSUME Types, TargetsMatchLoops, NEW at, At(at), at \notin LoopKinds, Leave, UNCHANGED targets
  PROVE  TargetsMatchLoops'
<1>1. Len(stack) \in Nat \ {0} /\ Len(stack) \notin Loops(Len(stack))
      /\ Loops(Len(stack)) \subseteq 1..Len(stack)
  BY StackLeave DEF Loops
<1>2. Loops(Len(stack))' = Loops(Len(stack))
  BY <1>1, LoopsLeave
<1>3. \A i \in Loops(Len(stack)) : Loops(i)' = Loops(i) /\ stack'[i] = stack[i]
  BY <1>1, LoopsLeave
<1> QED
  BY <1>2, <1>3 DEF TargetsMatchLoops, LoopDepth, ExitBB, NextBB, targets

(* A visitor goes on with the blocks it had.                               *)
LEMMA TargetsGoOn ==
  ASSUME Types, TargetsMatchLoops, NEW at, At(at), NEW f, GoesOn(f), UNCHANGED targets,
         at \in LoopKinds <=> f.at \in LoopKinds, at \in LoopKinds => f.on = Top.on
  PROVE  TargetsMatchLoops'
<1> DEFINE n == Len(stack)
<1>1. n \in Nat \ {0} /\ Loops(n) \subseteq 1..n /\ (n \in Loops(n) <=> at \in LoopKinds)
      /\ stack'[n] = f /\ Top = stack[n]
  BY StackGoOn DEF Loops, Top
<1>2. Loops(Len(stack))' = Loops(n)
  BY <1>1, LoopsGoOn
<1>3. ASSUME NEW i \in Loops(n)
      PROVE  Loops(i)' = Loops(i) /\ stack'[i].on = stack[i].on
  <2>1. CASE i < n
    BY <1>1, <2>1, LoopsGoOn
  <2>2. CASE i = n
    <3>1. \A j \in 1..i : stack'[j].at \in LoopKinds <=> stack[j].at \in LoopKinds
      BY <1>1, <2>2, StackGoOn
    <3>2. Loops(i)' = Loops(i)
      BY <3>1 DEF Loops
    <3> QED
      BY <1>1, <1>3, <2>2, <3>2
  <2> QED
    BY <1>1, <2>1, <2>2
<1> QED
  BY <1>2, <1>3 DEF TargetsMatchLoops, LoopDepth, ExitBB, NextBB, targets

(* A loop puts its targets on both vectors. *)
LEMMA TargetsPush ==
  ASSUME Types, TargetsMatchLoops, At("stmt"), NEW f, f.at \in LoopKinds, GoesOn(f),
         PushTargets(ExitBB(f), NextBB(f))
  PROVE  TargetsMatchLoops'
<1> DEFINE d == Len(breakTargets)
<1>1. /\ d \in Nat /\ Len(continueTargets) = d /\ LoopDepth(Len(stack)) = d
      /\ Len(stack) \in Nat \ {0} /\ IsFiniteSet(Loops(Len(stack)))
  BY AtTop, LoopsFinite DEF Types, TargetsMatchLoops
<1>2. Loops(Len(stack)) \subseteq 1..(Len(stack) - 1)
  BY <1>1, StackGoOn DEF Loops, LoopKinds
<1>3. Loops(Len(stack))' = Loops(Len(stack)) \cup {Len(stack)}
  BY LoopsGoOn
<1>4. LoopDepth(Len(stack))' = d + 1
  <2>1. Len(stack) \notin Loops(Len(stack)) /\ Cardinality(Loops(Len(stack))) = d
    BY <1>1, <1>2 DEF LoopDepth
  <2>2. Cardinality(Loops(Len(stack)) \cup {Len(stack)}) = d + 1
    BY <1>1, <2>1, FS_AddElement
  <2> QED
    BY <1>3, <2>2 DEF LoopDepth
<1>5. /\ Len(breakTargets') = d + 1 /\ breakTargets'[d + 1] = ExitBB(f)
      /\ Len(continueTargets') = d + 1 /\ continueTargets'[d + 1] = NextBB(f)
      /\ \A k \in 1..d : breakTargets'[k] = breakTargets[k] /\ continueTargets'[k] = continueTargets[k]
  BY <1>1 DEF PushTargets, Types
<1>6. ASSUME NEW i \in Loops(Len(stack))'
      PROVE  breakTargets'[LoopDepth(i)'] = ExitBB(stack'[i]) /\ continueTargets'[LoopDepth(i)'] = NextBB(stack'[i])
  <2>1. CASE i \in Loops(Len(stack))
    <3>1. i \in 1..(Len(stack) - 1) /\ Loops(i)' = Loops(i) /\ stack'[i] = stack[i]
      BY <1>2, <2>1, LoopsGoOn
    <3>2. LoopDepth(i) \in 1..d
      <4>1. Loops(i) \in SUBSET Loops(Len(stack)) /\ i \in Loops(i)
        BY <1>1, <2>1, <3>1 DEF Loops
      <4> QED
        BY <1>1, <4>1, FS_Subset, FS_EmptySet, FS_CardinalityType DEF LoopDepth
    <3> QED
      BY <1>5, <2>1, <3>1, <3>2 DEF TargetsMatchLoops, LoopDepth
  <2>2. CASE i = Len(stack)
    <3>1. Loops(i)' = Loops(Len(stack))'
      BY <1>1, <2>2, StackGoOn DEF Loops, Frame, LoopKinds
    <3>2. stack'[i] = f
      BY <2>2, StackGoOn
    <3> QED
      BY <1>4, <1>5, <3>1, <3>2 DEF LoopDepth
  <2> QED
    BY <1>3, <1>6, <2>1, <2>2
<1> QED
  BY <1>4, <1>5, <1>6 DEF TargetsMatchLoops

(* And takes them off. *)
LEMMA TargetsPop ==
  ASSUME Types, TargetsMatchLoops, NEW at, At(at), at \in LoopKinds, Leave, PopTargets
  PROVE  TargetsMatchLoops'
<1> DEFINE d == Len(breakTargets)
<1>1. /\ Len(stack) \in Nat \ {0} /\ Len(stack) \in Loops(Len(stack))
      /\ d \in Nat \ {0} /\ Len(continueTargets) = d /\ LoopDepth(Len(stack)) = d
      /\ IsFiniteSet(Loops(Len(stack)))
  BY StackLeave, LoopHasTarget, LoopsFinite DEF TargetsMatchLoops, Loops
<1>2. Loops(Len(stack))' = Loops(Len(stack)) \ {Len(stack)}
  BY LoopsLeave
<1>3. LoopDepth(Len(stack))' = d - 1
  BY <1>1, <1>2, FS_RemoveElement DEF LoopDepth
<1>4. /\ Len(breakTargets') = d - 1 /\ Len(continueTargets') = d - 1
      /\ \A k \in 1..(d - 1) : breakTargets'[k] = breakTargets[k] /\ continueTargets'[k] = continueTargets[k]
  BY <1>1, PopSeq DEF PopTargets, Types
<1>5. ASSUME NEW i \in Loops(Len(stack)) \ {Len(stack)}
      PROVE  breakTargets'[LoopDepth(i)'] = ExitBB(stack'[i]) /\ continueTargets'[LoopDepth(i)'] = NextBB(stack'[i])
  <2>1. i \in 1..(Len(stack) - 1)
    BY <1>1 DEF Loops
  <2>2. Loops(i)' = Loops(i) /\ stack'[i] = stack[i]
    BY <2>1, LoopsLeave
  <2>3. LoopDepth(i) \in 1..(d - 1)
    <3> DEFINE L == Loops(Len(stack)) \ {Len(stack)}
    <3>1. Loops(i) \in SUBSET L /\ i \in Loops(i)
      BY <1>1, <2>1 DEF Loops
    <3>2. IsFiniteSet(L) /\ Cardinality(L) = d - 1
      BY <1>1, FS_RemoveElement DEF LoopDepth
    <3> HIDE DEF L
    <3> QED
      BY <1>1, <3>1, <3>2, FS_Subset, FS_EmptySet, FS_CardinalityType DEF LoopDepth
  <2> QED
    BY <1>4, <2>2, <2>3 DEF TargetsMatchLoops, LoopDepth
<1> QED
  BY <1>2, <1>3, <1>4, <1>5 DEF TargetsMatchLoops

(* Every step keeps the targets and the loops in line.                     *)
LEMMA TargetsStep ==
  ASSUME Types, TargetsMatchLoops, [Next]_vars
  PROVE  TargetsMatchLoops'
<1> USE DEF GoesOn, Frame, LoopKinds
<1>1. CASE VisitScopeChild
  BY <1>1, TargetsGoOn, AtTop DEF VisitScopeChild
<1>2. CASE VisitScope
  BY <1>2, TargetsGoOn DEF VisitScope
<1>3. CASE VisitExprStmt
  BY <1>3, TargetsGoOn DEF VisitExprStmt
<1>4. CASE VisitIfStmt
  BY <1>4, TargetsGoOn DEF VisitIfStmt
<1>5. CASE IfElseCond
  BY <1>5, TargetsGoOn DEF IfElseCond
<1>6. CASE IfElseThen
  BY <1>6, TargetsGoOn DEF IfElseThen
<1>7. CASE IfCond
  BY <1>7, TargetsGoOn DEF IfCond
<1>8. CASE VisitForStmt
  <2> DEFINE f == Frame("for.init", <<nblocks + 1, nblocks + 2, nblocks + 3, nblocks + 4>>)
  <2>1. At("stmt") /\ GoesOn(f) /\ PushTargets(nblocks + 4, nblocks + 3)
    BY <1>8 DEF VisitForStmt
  <2>2. f.at \in LoopKinds /\ ExitBB(f) = nblocks + 4 /\ NextBB(f) = nblocks + 3
    BY DEF ExitBB, NextBB
  <2> QED
    BY <2>1, <2>2, TargetsPush
<1>9. CASE ForInit
  BY <1>9, TargetsGoOn DEF ForInit
<1>10. CASE ForInitNoCond
  BY <1>10, TargetsGoOn DEF ForInitNoCond
<1>11. CASE ForCond
  BY <1>11, TargetsGoOn DEF ForCond
<1>12. CASE ForBody
  BY <1>12, TargetsGoOn DEF ForBody
<1>13. CASE VisitWhileStmt
  <2> DEFINE f == Frame("while.cond", <<nblocks + 1, nblocks + 2, nblocks + 3>>)
  <2>1. At("stmt") /\ GoesOn(f) /\ PushTargets(nblocks + 3, nblocks + 1)
    BY <1>13 DEF VisitWhileStmt
  <2>2. f.at \in LoopKinds /\ ExitBB(f) = nblocks + 3 /\ NextBB(f) = nblocks + 1
    BY DEF ExitBB, NextBB
  <2> QED
    BY <2>1, <2>2, TargetsPush
<1>14. CASE WhileCond
  BY <1>14, TargetsGoOn DEF WhileCond
<1>15. CASE VisitReturnStmt
  BY <1>15, TargetsGoOn, TargetsLeave DEF VisitReturnStmt
<1>16. CASE VisitOperator
  BY <1>16, TargetsGoOn DEF VisitOperator
<1>17. CASE BinaryLeft
  BY <1>17, TargetsGoOn DEF BinaryLeft
<1>18. CASE LogicLeft
  BY <1>18, TargetsGoOn DEF LogicLeft
<1>19. CASE \/ FinishFuncDecl \/ LeaveScope \/ FinishExprStmt \/ FinishIfStmt
            \/ VisitBreakStmt \/ VisitContinueStmt \/ FinishReturnStmt
            \/ VisitLeafExpr \/ FinishUnaryExpr \/ FinishBinaryExpr \/ FinishLogicExpr
  BY <1>19, TargetsLeave DEF FinishFuncDecl, LeaveScope, FinishExprStmt, FinishIfStmt,
     VisitBreakStmt, VisitContinueStmt, FinishReturnStmt, VisitLeafExpr,
     FinishUnaryExpr, FinishBinaryExpr, FinishLogicExpr
<1>20. CASE FinishForStmt \/ FinishWhileStmt
  BY <1>20, TargetsPop DEF FinishForStmt, FinishWhileStmt
<1>21. CASE UNCHANGED vars
  BY <1>21, SMTT(30) DEF vars, targets, TargetsMatchLoops, LoopDepth, Loops, ExitBB, NextBB
<1> QED
  BY <1>1, <1>2, <1>3, <1>4, <1>5, <1>6, <1>7, <1>8, <1>9, <1>10, <1>11, <1>12, <1>13, <1>14,
     <1>15, <1>16, <1>17, <1>18, <1>19, <1>20, <1>21 DEF Next

-----------------------------------------------------------------------------
(***************************************************************************)
(* Pending blocks.  First how the slots follow the stack.                  *)
(***************************************************************************)
(* The pending blocks of a frame, and those of the frames below the top. *)
Held(f) == {f.on[k] : k \in PendingIx(f.at)}
HeldDiffer(f) == \A k, l \in PendingIx(f.at) : f.on[k] = f.on[l] => k = l
Below == {Slot(s) : s \in {r \in Slots : r[1] # Len(stack)}}

(* The pending blocks are those of the top frame and those below it.       *)
LEMMA SlotsAtTop ==
  ASSUME Types, NEW at, At(at)
  PROVE  /\ {Slot(s) : s \in Slots} = Below \cup Held(Top)
         /\ SlotsDiffer => Below \cap Held(Top) = {} /\ HeldDiffer(Top)
<1>1. Len(stack) \in Nat \ {0} /\ stack[Len(stack)] = Top
  BY AtTop
<1>2. ASSUME NEW k \in PendingIx(Top.at)
      PROVE  <<Len(stack), k>> \in Slots /\ Slot(<<Len(stack), k>>) = Top.on[k]
  <2>1. k \in 1..4
    BY <1>2 DEF PendingIx
  <2> QED
    BY <1>1, <1>2, <2>1 DEF Slots, Slot
<1>3. ASSUME NEW s \in Slots, s[1] = Len(stack)
      PROVE  s[2] \in PendingIx(Top.at) /\ Slot(s) = Top.on[s[2]]
  BY <1>1, <1>3 DEF Slots, Slot
<1>4. {Slot(s) : s \in Slots} = Below \cup Held(Top)
  <2>1. ASSUME NEW s \in Slots PROVE Slot(s) \in Below \cup Held(Top)
    BY <1>3 DEF Below, Held
  <2>2. ASSUME NEW k \in PendingIx(Top.at) PROVE Top.on[k] \in {Slot(s) : s \in Slots}
    BY <1>2, <2>2
  <2> QED
    BY <2>1, <2>2 DEF Below, Held
<1>5. ASSUME SlotsDiffer PROVE HeldDiffer(Top)
  BY <1>2, <1>5 DEF SlotsDiffer, HeldDiffer
<1>6. ASSUME SlotsDiffer PROVE Below \cap Held(Top) = {}
  <2>1. ASSUME NEW s \in Slots, s[1] # Len(stack), NEW k \in PendingIx(Top.at), Slot(s) = Top.on[k]
        PROVE  FALSE
    <3> DEFINE t == <<Len(stack), k>>
    <3>1. t \in Slots /\ Slot(t) = Slot(s) /\ t[1] = Len(stack)
      BY <1>2, <2>1
    <3> HIDE DEF t
    <3> QED
      BY <1>6, <2>1, <3>1 DEF SlotsDiffer
  <2> QED
    BY <2>1 DEF Below, Held
<1> QED
  BY <1>4, <1>5, <1>6

(* After a return only those below are left.                               *)
LEMMA SlotsLeave ==
  ASSUME Types, NEW at, At(at), Leave
  PROVE  /\ {Slot(s) : s \in Slots}' = Below
         /\ SlotsDiffer => SlotsDiffer'
<1>1. /\ Len(stack) \in Nat \ {0} /\ Len(stack') = Len(stack) - 1 /\ stack[Len(stack)].at = at
      /\ \A i \in 1..(Len(stack) - 1) : stack'[i] = stack[i]
  BY StackLeave
<1>2. Slots' = {s \in (1..Len(stack')) \X (1..4) : s[2] \in PendingIx(stack'[s[1]].at)}
  BY DEF Slots
<1>3. Slots' = {s \in Slots : s[1] # Len(stack)}
  BY <1>1, <1>2 DEF Slots
<1>4. \A s \in Slots' : s[1] \in 1..(Len(stack) - 1)
  BY <1>1, <1>2
<1>5. \A s \in Slots' : Slot(s)' = Slot(s)
  BY <1>1, <1>4 DEF Slot
<1> QED
  BY <1>3, <1>5 DEF Below, SlotsDiffer

(* When the visitor goes on with frame f, those of f are added.            *)
LEMMA SlotsGoOn ==
  ASSUME Types, NEW at, At(at), NEW f, GoesOn(f)
  PROVE  /\ {Slot(s) : s \in Slots}' = Below \cup Held(f)
         /\ SlotsDiffer /\ Below \cap Held(f) = {} /\ HeldDiffer(f) => SlotsDiffer'
<1>1. /\ Len(stack) \in Nat \ {0} /\ stack[Len(stack)].at = at /\ stack'[Len(stack)] = f
      /\ \A i \in 1..(Len(stack) - 1) : stack'[i] = stack[i]
      /\ \/ Len(stack') = Len(stack)
         \/ Len(stack') = Len(stack) + 1 /\ PendingIx(stack'[Len(stack) + 1].at) = {}
  BY StackGoOn, NothingPending DEF Frame
<1>2. Slots' = {s \in (1..Len(stack')) \X (1..4) : s[2] \in PendingIx(stack'[s[1]].at)}
  BY DEF Slots
<1>3. PendingIx(f.at) \subseteq 1..4
  BY DEF PendingIx
<1>4. ASSUME NEW s \in Slots'
      PROVE  \/ s \in Slots /\ s[1] \in 1..(Len(stack) - 1)
             \/ s[1] = Len(stack) /\ s[2] \in PendingIx(f.at) /\ s = <<Len(stack), s[2]>>
  <2>1. CASE s[1] \in 1..(Len(stack) - 1)
    BY <1>1, <1>2, <1>4, <2>1 DEF Slots
  <2>2. CASE s[1] = Len(stack)
    BY <1>1, <1>2, <1>4, <2>2
  <2> QED
    BY <1>1, <1>2, <1>4, <2>1, <2>2, SMTT(30)
<1>5. ASSUME NEW s \in Slots, s[1] # Len(stack)
      PROVE  s \in Slots' /\ Slot(s)' = Slot(s) /\ s[1] \in 1..(Len(stack) - 1)
  BY <1>1, <1>2, <1>5 DEF Slots, Slot
<1>6. ASSUME NEW k \in PendingIx(f.at)
      PROVE  <<Len(stack), k>> \in Slots'
  BY <1>1, <1>2, <1>3, <1>6
<1>7. ASSUME NEW s \in Slots', s[1] = Len(stack)
      PROVE  Slot(s)' = f.on[s[2]]
  BY <1>1, <1>7 DEF Slot
<1>8. {Slot(s) : s \in Slots}' = Below \cup Held(f)
  <2>1. ASSUME NEW s \in Slots' PROVE Slot(s)' \in Below \cup Held(f)
    BY <1>1, <1>4, <1>5, <1>7 DEF Below, Held
  <2>2. ASSUME NEW b \in Below \cup Held(f) PROVE \E s \in Slots' : Slot(s)' = b
    <3>1. CASE b \in Below
      BY <1>5, <3>1 DEF Below
    <3>2. CASE b \in Held(f)
      <4>1. PICK k \in PendingIx(f.at) : b = f.on[k]
        BY <3>2 DEF Held
      <4> DEFINE s == <<Len(stack), k>>
      <4>2. s \in Slots' /\ s[1] = Len(stack) /\ s[2] = k
        BY <1>6
      <4>3. \A r \in Slots' : r[1] = Len(stack) => Slot(r)' = f.on[r[2]]
        BY <1>7
      <4> HIDE DEF s
      <4> QED
        BY <4>1, <4>2, <4>3
    <3> QED
      BY <3>1, <3>2
  <2>3. {Slot(s) : s \in Slots}' = {Slot(s)' : s \in Slots'}
    OBVIOUS
  <2> QED
    BY <2>1, <2>2, <2>3
<1>9. ASSUME SlotsDiffer, Below \cap Held(f) = {}, HeldDiffer(f)
      PROVE  SlotsDiffer'
  <2> SUFFICES ASSUME NEW s \in Slots', NEW t \in Slots', Slot(s)' = Slot(t)' PROVE s = t
    BY DEF SlotsDiffer
  <2>1. CASE s[1] # Len(stack) /\ t[1] # Len(stack)
    BY <1>4, <1>5, <1>9, <2>1 DEF SlotsDiffer
  <2>2. CASE s[1] = Len(stack) /\ t[1] = Len(stack)
    BY <1>1, <1>4, <1>7, <1>9, <2>2 DEF HeldDiffer
  <2>3. ASSUME NEW r \in Slots', NEW q \in Slots', r[1] # Len(stack), q[1] = Len(stack)
        PROVE  Slot(r)' # Slot(q)'
    <3>1. Slot(r)' \in Below
      BY <1>4, <1>5, <2>3 DEF Below
    <3>2. Slot(q)' \in Held(f)
      BY <1>1, <1>4, <1>7, <2>3 DEF Held
    <3> QED
      BY <1>9, <3>1, <3>2
  <2> QED
    BY <2>1, <2>2, <2>3
<1> QED
  BY <1>8, <1>9

-----------------------------------------------------------------------------
(***************************************************************************)
(* Then which blocks are open.                                             *)
(***************************************************************************)
(* A block that was open is terminated once by a terminator appended to    *)
(* it.                                                                     *)
LEMMA OneTerminator ==
  ASSUME NEW t
  PROVE  Append(<< >>, t) # << >> /\ Len(Append(<< >>, t)) = 1
<1>1. << >> \in Seq({t})
  OBVIOUS
<1> QED
  BY <1>1, EmptySeq

(* A terminator for the open insertion block, or a branch if it is open.   *)
LEMMA Closes ==
  ASSUME Types, OnceTerminated,
         \/ ~Terminated /\ \E t : AppendTerminator(t)
         \/ \E b : BranchIfOpen(b)
  PROVE  OnceTerminated' /\ Open' = Open \ {insert}
<1>1. /\ insert \in Blocks /\ term[insert] \in Seq(Seq(2..nblocks)) /\ Len(term[insert]) <= 1
      /\ DOMAIN term = Blocks
  BY DEF Types, OnceTerminated
<1>2. CASE Terminated /\ \E b : BranchIfOpen(b)
  BY <1>2 DEF Terminated, BranchIfOpen, OnceTerminated, Open, Blocks
<1>3. ASSUME ~Terminated, NEW t, AppendTerminator(t)
      PROVE  OnceTerminated' /\ Open' = Open \ {insert}
  <2>1. /\ nblocks' = nblocks /\ \A b \in Blocks \ {insert} : term'[b] = term[b]
        /\ term'[insert] = Append(<< >>, t)
    BY <1>1, <1>3 DEF AppendTerminator, Appended, Terminated
  <2>2. term'[insert] # << >> /\ Len(term'[insert]) <= 1 /\ Blocks' = Blocks
    BY <2>1, OneTerminator DEF Blocks
  <2>3. Open' = Open \ {insert}
    BY <1>1, <2>1, <2>2 DEF Open, Blocks
  <2>4. OnceTerminated'
    <3>1. ASSUME NEW b \in Blocks' PROVE Len(term'[b]) <= 1
      BY <2>1, <2>2 DEF OnceTerminated
    <3> QED
      BY <3>1 DEF OnceTerminated
  <2> QED
    BY <2>3, <2>4
<1> QED
  BY <1>2, <1>3 DEF BranchIfOpen

(* New blocks are open.                                                    *)
LEMMA Creates ==
  ASSUME Types, OnceTerminated, NEW k \in 1..4,
         CreateBlocks(k)
  PROVE  /\ OnceTerminated' /\ nblocks' = nblocks + k
         /\ Open' = Open \cup ((nblocks + 1)..(nblocks + k))
<1>1. nblocks \in Nat /\ nblocks' = nblocks + k
  BY DEF Types, CreateBlocks
<1>2. \A b \in Blocks' : term'[b] = IF b <= nblocks THEN term[b] ELSE << >>
  BY <1>1 DEF CreateBlocks, Blocks
<1> QED
  BY <1>1, <1>2, EmptySeq DEF OnceTerminated, Open, Blocks

(* New blocks, and the insertion block branches to them.                   *)
LEMMA ClosesAndCreates ==
  ASSUME Types, OnceTerminated, ~Terminated, NEW k \in 1..4, NEW t, AppendAndCreate(t, k)
  PROVE  /\ OnceTerminated' /\ nblocks' = nblocks + k
         /\ Open' = (Open \ {insert}) \cup ((nblocks + 1)..(nblocks + k))
<1>1. nblocks \in Nat /\ nblocks' = nblocks + k /\ insert \in Blocks
  BY DEF Types, AppendAndCreate
<1>2. \A b \in Blocks' : term'[b] = IF b = insert THEN Append(<< >>, t)
                                    ELSE IF b <= nblocks THEN term[b] ELSE << >>
  BY <1>1 DEF AppendAndCreate, Blocks, Terminated
<1>3. term'[insert] # << >> /\ Len(term'[insert]) <= 1
  <2>1. term'[insert] = Append(<< >>, t)
    BY <1>1, <1>2 DEF Blocks
  <2> QED
    BY <2>1, OneTerminator
<1>4. \A b \in Blocks' \ {insert} : IF b \in Blocks THEN term'[b] = term[b]
                                   ELSE term'[b] = << >> /\ Len(term'[b]) <= 1
  BY <1>1, <1>2, EmptySeq DEF Blocks
<1>5. Open' = (Open \ {insert}) \cup ((nblocks + 1)..(nblocks + k))
  BY <1>1, <1>3, <1>4 DEF Open, Blocks
<1>6. OnceTerminated'
  <2>1. ASSUME NEW b \in Blocks' PROVE Len(term'[b]) <= 1
    BY <1>3, <1>4 DEF OnceTerminated
  <2> QED
    BY <2>1 DEF OnceTerminated
<1> QED
  BY <1>1, <1>5, <1>6

(* Pending blocks have been created.                                       *)
LEMMA HeldBlocks ==
  ASSUME Types
  PROVE  Below \subseteq Blocks
<1>1. ASSUME NEW s \in Slots PROVE Slot(s) \in Blocks
  <2>1. s[1] \in 1..Len(stack) /\ s[2] \in PendingIx(stack[s[1]].at) /\ stack[s[1]] \in Frames(nblocks)
    BY ElementOfSeq DEF Slots, Types
  <2> DEFINE f == stack[s[1]]
  <2>2. f \in Frames(nblocks) /\ s[2] \in PendingIx(f.at) /\ Slot(s) = f.on[s[2]]
    BY <2>1 DEF Slot
  <2> HIDE DEF f
  <2>3. f.on \in Seq(Blocks) /\ Len(f.on) = FrameSize(f.at)
    BY <2>2 DEF Frames, FrameOK, Blocks
  <2>4. s[2] \in 1..FrameSize(f.at)
    BY <2>2, FrameSizes DEF PendingIx
  <2> QED
    BY <2>2, <2>3, <2>4
<1> QED
  BY <1>1 DEF Below

-----------------------------------------------------------------------------
(***************************************************************************)
(* Both together.                                                          *)
(***************************************************************************)
(* What the invariant says at the top of the stack.                        *)
LEMMA AtOpen ==
  ASSUME Types, OpenBlocks, NEW at, At(at)
  PROVE  /\ OnceTerminated /\ Open \ {insert} = Below \cup Held(Top)
         /\ Below \cap Held(Top) = {} /\ HeldDiffer(Top)
         /\ insert \in Blocks /\ (insert \in Open <=> ~Terminated)
         /\ at \notin AnyEnd => ~Terminated
  BY SlotsAtTop, AtTop DEF OpenBlocks, Pendings, OpenPending, Open, Terminated, BuilderAtOpenBlock, Types

(* The invariant is kept when the visitor goes on with frame f: the        *)
(* insertion point is an open block, and the open blocks besides are the   *)
(* pending ones.                                                           *)
LEMMA OpenGoOn ==
  ASSUME Types, Shape, OpenBlocks, NEW at, At(at), NEW f, GoesOn(f), f.at # "func",
         OnceTerminated', insert' \in Open', Open' \ {insert'} = Below \cup Held(f),
         Below \cap Held(f) = {}, HeldDiffer(f)
  PROVE  OpenBlocks'
<1>1. Pendings'
  BY SlotsGoOn DEF OpenBlocks, Pendings, OpenPending
<1>2. Terminated' = FALSE
  BY DEF Open, Terminated
<1>3. ~Done' /\ ~At("func")'
  <2>1. Len(stack') # 0 /\ stack'[Len(stack')].at # "func"
    BY StackGoOn DEF Frame
  <2> QED
    BY <2>1, EmptySeq DEF Done, At, Top
<1> QED
  BY <1>1, <1>2, <1>3 DEF OpenBlocks, BuilderAtOpenBlock, EndsTerminated

(* The invariant is kept when the visitor returns: a statement to one that *)
(* expects any end, an expression with the insertion point at an open      *)
(* block.                                                                  *)
LEMMA OpenLeave ==
  ASSUME Types, Shape, OpenBlocks, NEW at, At(at), Leave,
         OnceTerminated', Open' \ {insert'} = Below,
         at \in ExprKinds => insert' \in Open',
         isVoid' = isVoid,
         at = "func" => Terminated',
         at = "scope" => Terminated' \/ isVoid \/ Len(stack) > 2,
         at \in FrameKinds
  PROVE  OpenBlocks'
<1>1. Pendings'
  BY SlotsLeave DEF OpenBlocks, Pendings, OpenPending
<1>2. insert' \in Open' => Terminated' = FALSE
  BY DEF Open, Terminated
<1>3. /\ Len(stack) \in Nat \ {0} /\ stack[Len(stack)].at = at /\ Len(stack') = Len(stack) - 1
      /\ \A i \in 1..(Len(stack) - 1) : stack'[i] = stack[i]
      /\ stack' = << >> <=> Len(stack) = 1
  BY StackLeave
<1>4. at = "func" <=> Len(stack) = 1
  BY <1>3 DEF Shape
<1>5. Top' = stack[Len(stack) - 1] \/ stack' = << >>
  BY <1>3 DEF Top
<1>6. BuilderAtOpenBlock'
  <2>1. CASE at \in ExprKinds
    BY <1>2, <2>1 DEF BuilderAtOpenBlock
  <2>2. CASE at \in StmtKinds
    <3>1. Len(stack) \in 2..Len(stack)
      BY <1>3, <1>4, <2>2 DEF StmtKinds
    <3>2. stack[Len(stack) - 1].at \in AnyEnd
      BY <1>3, <2>2, <3>1 DEF Shape
    <3> QED
      BY <1>5, <3>2 DEF BuilderAtOpenBlock
  <2>3. CASE at = "func"
    BY <1>3, <1>4, <2>3 DEF BuilderAtOpenBlock
  <2> QED
    BY <2>1, <2>2, <2>3 DEF FrameKinds
<1>7. EndsTerminated'
  <2>1. ASSUME Done' PROVE Terminated'
    BY <1>3, <1>4, <2>1 DEF Done
  <2>2. ASSUME At("func")', ~isVoid' PROVE Terminated'
    <3>1. Len(stack) > 1 /\ stack[Len(stack) - 1].at = "func"
      BY <1>3, <1>5, <2>2 DEF At
    <3>2. Len(stack) = 2
      BY <1>3, <3>1 DEF Shape
    <3> QED
      BY <1>3, <2>2, <3>2 DEF Shape
  <2> QED
    BY <2>1, <2>2 DEF EndsTerminated
<1> QED
  BY <1>1, <1>6, <1>7 DEF OpenBlocks

(* Each kind of frame in full. *)
NoneHeld == {"func", "scope", "stmt", "ret.expr", "drop", "if.cond", "ifelse.cond", "expr",
             "unary", "binary.lhs", "binary.rhs", "logic.lhs"}

(* Frames with no pending block.                                           *)
LEMMA HeldNone ==
  ASSUME NEW f, f.at \in NoneHeld
  PROVE  Held(f) = {} /\ HeldDiffer(f)
<1>1. PendingIx(f.at) = {}
  BY DEF PendingIx, NoneHeld
<1> QED
  BY <1>1 DEF Held, HeldDiffer

(* Frames with one.                                                        *)
LEMMA HeldOne ==
  ASSUME NEW f, NEW k, PendingIx(f.at) = {k}
  PROVE  Held(f) = {f.on[k]} /\ HeldDiffer(f)
  BY DEF Held, HeldDiffer

(* Frames with all but the first of four.                                  *)
LEMMA HeldThree ==
  ASSUME NEW f, PendingIx(f.at) = {2, 3, 4}
  PROVE  /\ Held(f) = {f.on[2], f.on[3], f.on[4]}
         /\ HeldDiffer(f) <=> f.on[2] # f.on[3] /\ f.on[2] # f.on[4] /\ f.on[3] # f.on[4]
  BY DEF Held, HeldDiffer

(* Frames with four.                                                       *)
LEMMA HeldFour ==
  ASSUME NEW f, PendingIx(f.at) = 1..4
  PROVE  /\ Held(f) = {f.on[1], f.on[2], f.on[3], f.on[4]}
         /\ HeldDiffer(f) <=> /\ f.on[1] # f.on[2] /\ f.on[1] # f.on[3] /\ f.on[1] # f.on[4]
                              /\ f.on[2] # f.on[3] /\ f.on[2] # f.on[4] /\ f.on[3] # f.on[4]
<1>1. 1..4 = {1, 2, 3, 4}
  OBVIOUS
<1> QED
  BY <1>1 DEF Held, HeldDiffer

(* The pending blocks of each kind of frame.                               *)
LEMMA HeldBy ==
  ASSUME NEW f
  PROVE  /\ f.at \in NoneHeld => Held(f) = {} /\ HeldDiffer(f)
         /\ f.at \in {"if.then", "ifelse.else"} => Held(f) = {f.on[1]} /\ HeldDiffer(f)
         /\ f.at = "logic.rhs" => Held(f) = {f.on[2]} /\ HeldDiffer(f)
         /\ f.at = "while.body" => Held(f) = {f.on[3]} /\ HeldDiffer(f)
         /\ f.at = "for.iter" => Held(f) = {f.on[4]} /\ HeldDiffer(f)
         /\ f.at = "ifelse.then" =>
              Held(f) = {f.on[1], f.on[2]} /\ (HeldDiffer(f) <=> f.on[1] # f.on[2])
         /\ f.at = "while.cond" =>
              Held(f) = {f.on[2], f.on[3]} /\ (HeldDiffer(f) <=> f.on[2] # f.on[3])
         /\ f.at = "for.body" =>
              Held(f) = {f.on[3], f.on[4]} /\ (HeldDiffer(f) <=> f.on[3] # f.on[4])
         /\ f.at = "for.cond" =>
              /\ Held(f) = {f.on[2], f.on[3], f.on[4]}
              /\ HeldDiffer(f) <=> f.on[2] # f.on[3] /\ f.on[2] # f.on[4] /\ f.on[3] # f.on[4]
         /\ f.at = "for.init" =>
              /\ Held(f) = {f.on[1], f.on[2], f.on[3], f.on[4]}
              /\ HeldDiffer(f) <=> /\ f.on[1] # f.on[2] /\ f.on[1] # f.on[3] /\ f.on[1] # f.on[4]
                                   /\ f.on[2] # f.on[3] /\ f.on[2] # f.on[4] /\ f.on[3] # f.on[4]
<1>1. /\ f.at \in {"if.then", "ifelse.else"} => PendingIx(f.at) = {1}
      /\ f.at = "logic.rhs" => PendingIx(f.at) = {2}
      /\ f.at = "while.body" => PendingIx(f.at) = {3}
      /\ f.at = "for.iter" => PendingIx(f.at) = {4}
  BY DEF PendingIx
<1>2. /\ f.at = "ifelse.then" => PendingIx(f.at) = {1, 2}
      /\ f.at = "while.cond" => PendingIx(f.at) = {2, 3}
      /\ f.at = "for.body" => PendingIx(f.at) = {3, 4}
  BY DEF PendingIx
<1>3. /\ f.at = "for.cond" => PendingIx(f.at) = {2, 3, 4}
      /\ f.at = "for.init" => PendingIx(f.at) = 1..4
  BY DEF PendingIx
<1>4. f.at \in NoneHeld => Held(f) = {} /\ HeldDiffer(f)
  BY HeldNone
<1>5. /\ f.at \in {"if.then", "ifelse.else"} => Held(f) = {f.on[1]} /\ HeldDiffer(f)
      /\ f.at = "logic.rhs" => Held(f) = {f.on[2]} /\ HeldDiffer(f)
      /\ f.at = "while.body" => Held(f) = {f.on[3]} /\ HeldDiffer(f)
      /\ f.at = "for.iter" => Held(f) = {f.on[4]} /\ HeldDiffer(f)
  BY <1>1, HeldOne
<1>6. /\ f.at = "ifelse.then" =>
           Held(f) = {f.on[1], f.on[2]} /\ (HeldDiffer(f) <=> f.on[1] # f.on[2])
      /\ f.at = "while.cond" =>
           Held(f) = {f.on[2], f.on[3]} /\ (HeldDiffer(f) <=> f.on[2] # f.on[3])
      /\ f.at = "for.body" =>
           Held(f) = {f.on[3], f.on[4]} /\ (HeldDiffer(f) <=> f.on[3] # f.on[4])
  <2>1. ASSUME f.at = "ifelse.then"
        PROVE  Held(f) = {f.on[1], f.on[2]} /\ (HeldDiffer(f) <=> f.on[1] # f.on[2])
    <3>1. PendingIx(f.at) = {1, 2} /\ 1 # 2
      BY <1>2, <2>1
    <3> QED
      BY <3>1 DEF Held, HeldDiffer
  <2>2. ASSUME f.at = "while.cond"
        PROVE  Held(f) = {f.on[2], f.on[3]} /\ (HeldDiffer(f) <=> f.on[2] # f.on[3])
    <3>1. PendingIx(f.at) = {2, 3} /\ 2 # 3
      BY <1>2, <2>2
    <3> QED
      BY <3>1 DEF Held, HeldDiffer
  <2>3. ASSUME f.at = "for.body"
        PROVE  Held(f) = {f.on[3], f.on[4]} /\ (HeldDiffer(f) <=> f.on[3] # f.on[4])
    <3>1. PendingIx(f.at) = {3, 4} /\ 3 # 4
      BY <1>2, <2>3
    <3> QED
      BY <3>1 DEF Held, HeldDiffer
  <2> QED
    BY <2>1, <2>2, <2>3, Zenon
<1>7. f.at = "for.cond" =>
        /\ Held(f) = {f.on[2], f.on[3], f.on[4]}
        /\ HeldDiffer(f) <=> f.on[2] # f.on[3] /\ f.on[2] # f.on[4] /\ f.on[3] # f.on[4]
  BY <1>3, HeldThree
<1>8. f.at = "for.init" =>
        /\ Held(f) = {f.on[1], f.on[2], f.on[3], f.on[4]}
        /\ HeldDiffer(f) <=> /\ f.on[1] # f.on[2] /\ f.on[1] # f.on[3] /\ f.on[1] # f.on[4]
                             /\ f.on[2] # f.on[3] /\ f.on[2] # f.on[4] /\ f.on[3] # f.on[4]
  BY <1>3, HeldFour
<1> QED
  BY <1>4, <1>5, <1>6, <1>7, <1>8

(* A visitor that emits nothing calls another.                             *)
LEMMA OpenQuiet ==
  ASSUME Types, Shape, OpenBlocks, NEW at, At(at), ~Terminated, at \in NoneHeld, NEW f, GoesOn(f),
         f.at \in NoneHeld, f.at # "func", UNCHANGED <<nblocks, term, insert>>
  PROVE  OpenBlocks'
<1>1. Top.at = at
  BY AtTop
<1>2. Open' = Open /\ OnceTerminated'
  BY DEF Open, OnceTerminated, Blocks, OpenBlocks, Pendings
<1>3. Held(Top) = {} /\ Held(f) = {} /\ HeldDiffer(f)
  BY <1>1, HeldBy
<1> QED
  BY <1>2, <1>3, AtOpen, OpenGoOn

(* The invariant is kept by the visitors that call others and emit         *)
(* nothing.                                                                *)
LEMMA OpenStepQuiet ==
  ASSUME Types, Shape, OpenBlocks,
         \/ VisitScopeChild \/ VisitScope \/ VisitExprStmt \/ VisitIfStmt
         \/ (VisitReturnStmt /\ ~isVoid) \/ VisitOperator \/ BinaryLeft
  PROVE  OpenBlocks'
<1> USE DEF NoneHeld, AnyEnd, Frame, GoesOn
<1>1. CASE VisitScopeChild
  BY <1>1, OpenQuiet, AtTop DEF VisitScopeChild
<1>2. CASE VisitScope
  BY <1>2, OpenQuiet, AtOpen DEF VisitScope
<1>3. CASE VisitExprStmt
  BY <1>3, OpenQuiet, AtOpen DEF VisitExprStmt
<1>4. CASE VisitIfStmt
  BY <1>4, OpenQuiet, AtOpen DEF VisitIfStmt
<1>5. CASE VisitReturnStmt /\ ~isVoid
  BY <1>5, OpenQuiet, AtOpen DEF VisitReturnStmt
<1>6. CASE VisitOperator
  BY <1>6, OpenQuiet, AtOpen DEF VisitOperator
<1>7. CASE BinaryLeft
  BY <1>7, OpenQuiet, AtOpen DEF BinaryLeft
<1> QED
  BY <1>1, <1>2, <1>3, <1>4, <1>5, <1>6, <1>7

(* A visitor that emits nothing returns. *)
LEMMA OpenReturn ==
  ASSUME Types, Shape, OpenBlocks, NEW at, At(at), at \in NoneHeld \ {"func"}, at \in FrameKinds, Leave,
         at = "scope" => Terminated \/ isVoid \/ Len(stack) > 2,
         UNCHANGED <<isVoid, nblocks, term, insert>>
  PROVE  OpenBlocks'
<1>1. Top.at = at
  BY AtTop
<1>2. Open' = Open /\ OnceTerminated' /\ Terminated' = Terminated
  BY DEF Open, OnceTerminated, Blocks, OpenBlocks, Pendings, Terminated
<1>3. Held(Top) = {}
  BY <1>1, HeldBy
<1>4. at \in ExprKinds => at \notin AnyEnd
  BY DEF ExprKinds, AnyEnd
<1>5. Open' \ {insert'} = Below /\ (at \in ExprKinds => insert' \in Open')
  BY <1>2, <1>3, <1>4, AtOpen
<1>6. at = "scope" => Terminated' \/ isVoid \/ Len(stack) > 2
  BY <1>2
<1> QED
  BY <1>2, <1>5, <1>6, OpenLeave

(* A visitor that closes the insertion block returns. *)
LEMMA OpenCloseReturn ==
  ASSUME Types, Shape, OpenBlocks, NEW at, At(at), at \in {"stmt", "ret.expr"}, Leave,
         NEW t, AppendTerminator(t), UNCHANGED <<isVoid, insert>>
  PROVE  OpenBlocks'
<1>1. Top.at = at /\ at \in FrameKinds \ ExprKinds
  BY AtTop DEF FrameKinds, StmtKinds, ExprKinds
<1>2. ~Terminated
  BY AtOpen DEF AnyEnd
<1>3. Open' = Open \ {insert} /\ OnceTerminated'
  BY <1>2, Closes DEF OpenBlocks, Pendings
<1>4. Held(Top) = {}
  BY <1>1, HeldBy DEF NoneHeld
<1> QED
  BY <1>1, <1>3, <1>4, AtOpen, OpenLeave

(* The invariant is kept by visitors that hold no block and return.        *)
LEMMA OpenStepReturn ==
  ASSUME Types, Shape, OpenBlocks,
         \/ LeaveScope \/ FinishExprStmt \/ VisitLeafExpr \/ FinishUnaryExpr \/ FinishBinaryExpr
         \/ VisitBreakStmt \/ VisitContinueStmt \/ (VisitReturnStmt /\ isVoid) \/ FinishReturnStmt
  PROVE  OpenBlocks'
<1>1. CASE \/ LeaveScope \/ FinishExprStmt \/ VisitLeafExpr \/ FinishUnaryExpr \/ FinishBinaryExpr
  <2>1. \A at \in {"scope", "drop", "expr", "unary", "binary.rhs"} :
          at \in FrameKinds /\ at \in NoneHeld \ {"func"}
    BY DEF FrameKinds, StmtKinds, ExprKinds, NoneHeld
  <2> QED
    BY <1>1, <2>1, OpenReturn
    DEF LeaveScope, FinishExprStmt, VisitLeafExpr, FinishUnaryExpr, FinishBinaryExpr
<1>2. CASE VisitBreakStmt \/ VisitContinueStmt \/ (VisitReturnStmt /\ isVoid) \/ FinishReturnStmt
  BY <1>2, OpenCloseReturn
  DEF VisitBreakStmt, VisitContinueStmt, VisitReturnStmt, FinishReturnStmt
<1> QED
  BY <1>1, <1>2

(* The invariant is kept by the end of visitFuncDecl.                      *)
LEMMA OpenStepFuncDecl ==
  ASSUME Types, Shape, OpenBlocks, FinishFuncDecl
  PROVE  OpenBlocks'
<1>1. At("func") /\ Leave /\ UNCHANGED <<isVoid, insert>> /\ Top.at = "func"
  BY AtTop DEF FinishFuncDecl
<1>2. "func" \in FrameKinds \ ExprKinds
  BY DEF FrameKinds, ExprKinds
<1>3. Held(Top) = {} /\ Open \ {insert} = Below /\ OnceTerminated /\ insert \in Blocks
  BY <1>1, AtOpen, HeldBy DEF NoneHeld
<1>4. CASE ~Terminated /\ isVoid
  <2>1. AppendTerminator(<< >>)
    BY <1>4 DEF FinishFuncDecl
  <2>2. Open' = Open \ {insert} /\ OnceTerminated' /\ nblocks' = nblocks
    BY <1>3, <1>4, <2>1, Closes DEF AppendTerminator
  <2>3. Terminated'
    BY <1>1, <1>3, <2>2 DEF Open, Terminated, Blocks
  <2> QED
    BY <1>1, <1>2, <1>3, <2>2, <2>3, OpenLeave
<1>5. CASE ~(~Terminated /\ isVoid)
  <2>1. UNCHANGED <<nblocks, term, insert>> /\ Terminated
    BY <1>1, <1>5 DEF FinishFuncDecl, OpenBlocks, EndsTerminated
  <2>2. Open' = Open /\ OnceTerminated' /\ Terminated'
    BY <1>3, <2>1 DEF Open, OnceTerminated, Blocks, Terminated
  <2> QED
    BY <1>1, <1>2, <1>3, <2>1, <2>2, OpenLeave
<1> QED
  BY <1>4, <1>5

(* The blocks that follow the first n. *)
LEMMA NewBlocks ==
  ASSUME NEW n \in Nat
  PROVE  /\ (n + 1)..(n + 2) = {n + 1, n + 2}
         /\ (n + 1)..(n + 3) = {n + 1, n + 2, n + 3}
         /\ (n + 1)..(n + 4) = {n + 1, n + 2, n + 3, n + 4}
<1>1. ASSUME NEW k \in 2..4, NEW x PROVE x \in (n + 1)..(n + k) <=> x \in Int /\ n < x /\ x <= n + k
  OBVIOUS
<1>2. \A x : x \in (n + 1)..(n + 2) <=> x \in {n + 1, n + 2}
  BY <1>1
<1>3. \A x : x \in (n + 1)..(n + 3) <=> x \in {n + 1, n + 2, n + 3}
  BY <1>1
<1>4. \A x : x \in (n + 1)..(n + 4) <=> x \in {n + 1, n + 2, n + 3, n + 4}
  BY <1>1
<1> QED
  BY <1>2, <1>3, <1>4

(* New blocks become pending, but the one where the insertion point goes. *)
LEMMA OpenStepCreate ==
  ASSUME Types, Shape, OpenBlocks, IfElseCond \/ IfCond \/ VisitWhileStmt \/ LogicLeft
  PROVE  OpenBlocks'
<1> USE DEF GoesOn
<1>1. CASE IfElseCond
  <2> DEFINE f == Frame("ifelse.then", <<nblocks + 2, nblocks + 3>>)
  <2>1. At("ifelse.cond") /\ GoesOn(f) /\ insert' = nblocks + 1
    BY <1>1 DEF IfElseCond
  <2>2. Held(Top) = {} /\ ~Terminated
    BY <2>1, AtTop, AtOpen, HeldBy DEF NoneHeld, AnyEnd
  <2>3. nblocks \in Nat /\ (nblocks + 1)..(nblocks + 3) = {nblocks + 1, nblocks + 2, nblocks + 3}
    BY NewBlocks DEF Types
  <2>4. OnceTerminated' /\ Open' = (Open \ {insert}) \cup {nblocks + 1, nblocks + 2, nblocks + 3}
    BY <1>1, <2>2, <2>3, ClosesAndCreates DEF IfElseCond, OpenBlocks, Pendings
  <2>5. Held(f) = {nblocks + 2, nblocks + 3} /\ HeldDiffer(f) /\ f.at # "func"
    BY <2>3, HeldBy DEF Frame
  <2>6. Open \ {insert} = Below /\ Below \cap {nblocks + 1, nblocks + 2, nblocks + 3} = {}
    BY <2>1, <2>2, <2>3, AtOpen, HeldBlocks DEF Blocks
  <2>7. Open' \ {insert'} = Below \cup Held(f) /\ insert' \in Open' /\ Below \cap Held(f) = {}
    BY <2>1, <2>3, <2>4, <2>5, <2>6
  <2> HIDE DEF f
  <2> QED
    BY <2>1, <2>4, <2>5, <2>7, OpenGoOn
<1>2. CASE IfCond
  <2> DEFINE f == Frame("if.then", <<nblocks + 2>>)
  <2>1. At("if.cond") /\ GoesOn(f) /\ insert' = nblocks + 1
    BY <1>2 DEF IfCond
  <2>2. Held(Top) = {} /\ ~Terminated
    BY <2>1, AtTop, AtOpen, HeldBy DEF NoneHeld, AnyEnd
  <2>3. nblocks \in Nat /\ (nblocks + 1)..(nblocks + 2) = {nblocks + 1, nblocks + 2}
    BY NewBlocks DEF Types
  <2>4. OnceTerminated' /\ Open' = (Open \ {insert}) \cup {nblocks + 1, nblocks + 2}
    BY <1>2, <2>2, <2>3, ClosesAndCreates DEF IfCond, OpenBlocks, Pendings
  <2>5. Held(f) = {nblocks + 2} /\ HeldDiffer(f) /\ f.at # "func"
    BY <2>3, HeldBy DEF Frame
  <2>6. Open \ {insert} = Below /\ Below \cap {nblocks + 1, nblocks + 2} = {}
    BY <2>1, <2>2, <2>3, AtOpen, HeldBlocks DEF Blocks
  <2>7. Open' \ {insert'} = Below \cup Held(f) /\ insert' \in Open' /\ Below \cap Held(f) = {}
    BY <2>1, <2>3, <2>4, <2>5, <2>6
  <2> HIDE DEF f
  <2> QED
    BY <2>1, <2>4, <2>5, <2>7, OpenGoOn
<1>3. CASE VisitWhileStmt
  <2> DEFINE f == Frame("while.cond", <<nblocks + 1, nblocks + 2, nblocks + 3>>)
  <2>1. At("stmt") /\ GoesOn(f) /\ insert' = nblocks + 1
    BY <1>3 DEF VisitWhileStmt
  <2>2. Held(Top) = {} /\ ~Terminated
    BY <2>1, AtTop, AtOpen, HeldBy DEF NoneHeld, AnyEnd
  <2>3. nblocks \in Nat /\ (nblocks + 1)..(nblocks + 3) = {nblocks + 1, nblocks + 2, nblocks + 3}
    BY NewBlocks DEF Types
  <2>4. OnceTerminated' /\ Open' = (Open \ {insert}) \cup {nblocks + 1, nblocks + 2, nblocks + 3}
    BY <1>3, <2>2, <2>3, ClosesAndCreates DEF VisitWhileStmt, OpenBlocks, Pendings
  <2>5. Held(f) = {nblocks + 2, nblocks + 3} /\ HeldDiffer(f) /\ f.at # "func"
    BY <2>3, HeldBy DEF Frame
  <2>6. Open \ {insert} = Below /\ Below \cap {nblocks + 1, nblocks + 2, nblocks + 3} = {}
    BY <2>1, <2>2, <2>3, AtOpen, HeldBlocks DEF Blocks
  <2>7. Open' \ {insert'} = Below \cup Held(f) /\ insert' \in Open' /\ Below \cap Held(f) = {}
    BY <2>1, <2>3, <2>4, <2>5, <2>6
  <2> HIDE DEF f
  <2> QED
    BY <2>1, <2>4, <2>5, <2>7, OpenGoOn
<1>4. CASE LogicLeft
  <2> DEFINE f == Frame("logic.rhs", <<insert, nblocks + 2>>)
  <2>1. At("logic.lhs") /\ GoesOn(f) /\ insert' = nblocks + 1
    BY <1>4 DEF LogicLeft
  <2>2. Held(Top) = {} /\ ~Terminated
    BY <2>1, AtTop, AtOpen, HeldBy DEF NoneHeld, AnyEnd
  <2>3. nblocks \in Nat /\ (nblocks + 1)..(nblocks + 2) = {nblocks + 1, nblocks + 2}
    BY NewBlocks DEF Types
  <2>4. OnceTerminated' /\ Open' = (Open \ {insert}) \cup {nblocks + 1, nblocks + 2}
    BY <1>4, <2>2, <2>3, ClosesAndCreates DEF LogicLeft, OpenBlocks, Pendings
  <2>5. Held(f) = {nblocks + 2} /\ HeldDiffer(f) /\ f.at # "func"
    BY <2>3, HeldBy DEF Frame
  <2>6. Open \ {insert} = Below /\ Below \cap {nblocks + 1, nblocks + 2} = {}
    BY <2>1, <2>2, <2>3, AtOpen, HeldBlocks DEF Blocks
  <2>7. Open' \ {insert'} = Below \cup Held(f) /\ insert' \in Open' /\ Below \cap Held(f) = {}
    BY <2>1, <2>3, <2>4, <2>5, <2>6
  <2> HIDE DEF f
  <2> QED
    BY <2>1, <2>4, <2>5, <2>7, OpenGoOn
<1> QED
  BY <1>1, <1>2, <1>3, <1>4

(* visitForStmt creates four pending blocks and stays where it is.         *)
LEMMA OpenStepFor ==
  ASSUME Types, Shape, OpenBlocks, VisitForStmt
  PROVE  OpenBlocks'
<1> DEFINE on == <<nblocks + 1, nblocks + 2, nblocks + 3, nblocks + 4>>
           f == Frame("for.init", on)
           N == {nblocks + 1, nblocks + 2, nblocks + 3, nblocks + 4}
<1>1. At("stmt") /\ GoesOn(f) /\ CreateBlocks(4) /\ insert' = insert
  BY DEF VisitForStmt, GoesOn
<1>2. Held(Top) = {} /\ ~Terminated
  BY <1>1, AtTop, AtOpen, HeldBy DEF NoneHeld, AnyEnd
<1>3. nblocks \in Nat /\ (nblocks + 1)..(nblocks + 4) = N
  BY NewBlocks DEF Types
<1>4. OnceTerminated' /\ Open' = Open \cup N
  BY <1>1, <1>3, Creates DEF OpenBlocks, Pendings
<1>5. Held(f) = N /\ HeldDiffer(f) /\ f.at # "func"
  BY <1>3, HeldBy DEF Frame
<1>6. Open \ {insert} = Below /\ Below \cap N = {} /\ insert \in Open /\ insert \notin N
  BY <1>1, <1>2, <1>3, AtOpen, HeldBlocks DEF Blocks
<1>7. Open' \ {insert'} = Below \cup Held(f) /\ insert' \in Open' /\ Below \cap Held(f) = {}
  BY <1>1, <1>4, <1>5, <1>6
<1> HIDE DEF f
<1> QED
  BY <1>1, <1>4, <1>5, <1>7, OpenGoOn

(* The insertion point moves to a pending block of the frame. *)
LEMMA OpenStepMove ==
  ASSUME Types, Shape, OpenBlocks, IfElseThen \/ ForInit \/ ForCond \/ ForBody \/ WhileCond
  PROVE  OpenBlocks'
<1> USE DEF GoesOn
<1>1. CASE IfElseThen
  <2> DEFINE f == Frame("ifelse.else", <<Top.on[2]>>)
  <2>1. At("ifelse.then") /\ GoesOn(f) /\ insert' = Top.on[1] /\ Top.at = "ifelse.then"
    BY <1>1, AtTop DEF IfElseThen
  <2>2. OnceTerminated /\ Open \ {insert} = Below \cup Held(Top) /\ Below \cap Held(Top) = {}
        /\ HeldDiffer(Top)
    BY <2>1, AtOpen
  <2>3. OnceTerminated' /\ Open' = Open \ {insert}
    BY <1>1, <2>1, <2>2, AtOpen, Closes DEF IfElseThen, AnyEnd
  <2>4. Held(f) = Held(Top) \ {insert'} /\ insert' \in Held(Top) /\ HeldDiffer(f)
    BY <2>1, <2>2, HeldBy DEF Frame
  <2>5. Open' \ {insert'} = Below \cup Held(f) /\ insert' \in Open' /\ Below \cap Held(f) = {}
    BY <2>2, <2>3, <2>4
  <2>6. f.at # "func"
    BY DEF Frame
  <2> HIDE DEF f
  <2> QED
    BY <2>1, <2>3, <2>4, <2>5, <2>6, OpenGoOn
<1>2. CASE ForInit
  <2> DEFINE f == Frame("for.cond", Top.on)
  <2>1. At("for.init") /\ GoesOn(f) /\ insert' = Top.on[1] /\ Top.at = "for.init"
    BY <1>2, AtTop DEF ForInit
  <2>2. OnceTerminated /\ Open \ {insert} = Below \cup Held(Top) /\ Below \cap Held(Top) = {}
        /\ HeldDiffer(Top)
    BY <2>1, AtOpen
  <2>3. OnceTerminated' /\ Open' = Open \ {insert}
    BY <1>2, <2>1, <2>2, AtOpen, Closes DEF ForInit, AnyEnd
  <2>4. Held(f) = Held(Top) \ {insert'} /\ insert' \in Held(Top) /\ HeldDiffer(f)
    BY <2>1, <2>2, HeldBy DEF Frame
  <2>5. Open' \ {insert'} = Below \cup Held(f) /\ insert' \in Open' /\ Below \cap Held(f) = {}
    BY <2>2, <2>3, <2>4
  <2>6. f.at # "func"
    BY DEF Frame
  <2> HIDE DEF f
  <2> QED
    BY <2>1, <2>3, <2>4, <2>5, <2>6, OpenGoOn
<1>3. CASE ForCond
  <2> DEFINE f == Frame("for.body", Top.on)
  <2>1. At("for.cond") /\ GoesOn(f) /\ insert' = Top.on[2] /\ Top.at = "for.cond"
    BY <1>3, AtTop DEF ForCond
  <2>2. OnceTerminated /\ Open \ {insert} = Below \cup Held(Top) /\ Below \cap Held(Top) = {}
        /\ HeldDiffer(Top)
    BY <2>1, AtOpen
  <2>3. OnceTerminated' /\ Open' = Open \ {insert}
    BY <1>3, <2>1, <2>2, AtOpen, Closes DEF ForCond, AnyEnd
  <2>4. Held(f) = Held(Top) \ {insert'} /\ insert' \in Held(Top) /\ HeldDiffer(f)
    BY <2>1, <2>2, HeldBy DEF Frame
  <2>5. Open' \ {insert'} = Below \cup Held(f) /\ insert' \in Open' /\ Below \cap Held(f) = {}
    BY <2>2, <2>3, <2>4
  <2>6. f.at # "func"
    BY DEF Frame
  <2> HIDE DEF f
  <2> QED
    BY <2>1, <2>3, <2>4, <2>5, <2>6, OpenGoOn
<1>4. CASE ForBody
  <2> DEFINE f == Frame("for.iter", Top.on)
  <2>1. At("for.body") /\ GoesOn(f) /\ insert' = Top.on[3] /\ Top.at = "for.body"
    BY <1>4, AtTop DEF ForBody
  <2>2. OnceTerminated /\ Open \ {insert} = Below \cup Held(Top) /\ Below \cap Held(Top) = {}
        /\ HeldDiffer(Top)
    BY <2>1, AtOpen
  <2>3. OnceTerminated' /\ Open' = Open \ {insert}
    BY <1>4, <2>1, <2>2, AtOpen, Closes DEF ForBody, AnyEnd
  <2>4. Held(f) = Held(Top) \ {insert'} /\ insert' \in Held(Top) /\ HeldDiffer(f)
    BY <2>1, <2>2, HeldBy DEF Frame
  <2>5. Open' \ {insert'} = Below \cup Held(f) /\ insert' \in Open' /\ Below \cap Held(f) = {}
    BY <2>2, <2>3, <2>4
  <2>6. f.at # "func"
    BY DEF Frame
  <2> HIDE DEF f
  <2> QED
    BY <2>1, <2>3, <2>4, <2>5, <2>6, OpenGoOn
<1>5. CASE WhileCond
  <2> DEFINE f == Frame("while.body", Top.on)
  <2>1. At("while.cond") /\ GoesOn(f) /\ insert' = Top.on[2] /\ Top.at = "while.cond"
    BY <1>5, AtTop DEF WhileCond
  <2>2. OnceTerminated /\ Open \ {insert} = Below \cup Held(Top) /\ Below \cap Held(Top) = {}
        /\ HeldDiffer(Top)
    BY <2>1, AtOpen
  <2>3. OnceTerminated' /\ Open' = Open \ {insert}
    BY <1>5, <2>1, <2>2, AtOpen, Closes DEF WhileCond, AnyEnd
  <2>4. Held(f) = Held(Top) \ {insert'} /\ insert' \in Held(Top) /\ HeldDiffer(f)
    BY <2>1, <2>2, HeldBy DEF Frame
  <2>5. Open' \ {insert'} = Below \cup Held(f) /\ insert' \in Open' /\ Below \cap Held(f) = {}
    BY <2>2, <2>3, <2>4
  <2>6. f.at # "func"
    BY DEF Frame
  <2> HIDE DEF f
  <2> QED
    BY <2>1, <2>3, <2>4, <2>5, <2>6, OpenGoOn
<1> QED
  BY <1>1, <1>2, <1>3, <1>4, <1>5

(* Without a condition two blocks are closed at once. *)
LEMMA OpenStepNoCond ==
  ASSUME Types, Shape, OpenBlocks, ForInitNoCond
  PROVE  OpenBlocks'
<1> DEFINE f == Frame("for.body", Top.on)
           cond == Top.on[1]
           code == Appended(term, insert, <<cond>>)
<1>1. /\ At("for.init") /\ GoesOn(f) /\ nblocks' = nblocks /\ insert' = Top.on[2] /\ Top.at = "for.init"
      /\ term' = Appended(code, cond, <<insert'>>)
  BY AtTop DEF ForInitNoCond, GoesOn
<1>2. OnceTerminated /\ Open \ {insert} = Below \cup Held(Top) /\ Below \cap Held(Top) = {}
      /\ HeldDiffer(Top) /\ insert \in Open
  BY <1>1, AtOpen DEF AnyEnd
<1>3. Held(f) = Held(Top) \ {cond, insert'} /\ cond \in Held(Top) /\ insert' \in Held(Top)
      /\ cond # insert' /\ HeldDiffer(f)
  BY <1>1, <1>2, HeldBy DEF Frame
<1>4. /\ cond \in Blocks /\ insert \in Blocks /\ cond # insert /\ DOMAIN term = Blocks
      /\ term[insert] = << >> /\ term[cond] = << >>
  BY <1>2, <1>3 DEF Open, Types
<1> HIDE DEF cond, f
<1>5. /\ term'[insert] = Append(<< >>, <<cond>>) /\ term'[cond] = Append(<< >>, <<insert'>>)
      /\ \A b \in Blocks \ {insert, cond} : term'[b] = term[b]
  BY <1>1, <1>4 DEF Appended
<1>6. /\ term'[insert] # << >> /\ Len(term'[insert]) <= 1
      /\ term'[cond] # << >> /\ Len(term'[cond]) <= 1
  BY <1>5, OneTerminator
<1>7. Blocks' = Blocks
  BY <1>1 DEF Blocks
<1>8. OnceTerminated'
  <2>1. ASSUME NEW b \in Blocks' PROVE Len(term'[b]) <= 1
    BY <1>2, <1>5, <1>6, <1>7 DEF OnceTerminated
  <2> QED
    BY <2>1 DEF OnceTerminated
<1>9. Open' = Open \ {insert, cond}
  BY <1>4, <1>5, <1>6, <1>7 DEF Open
<1>10. Open' \ {insert'} = Below \cup Held(f) /\ insert' \in Open' /\ Below \cap Held(f) = {}
  BY <1>2, <1>3, <1>4, <1>9
<1>11. f.at # "func"
  BY DEF Frame, f
<1> QED
  BY <1>1, <1>3, <1>8, <1>10, <1>11, OpenGoOn

(* The last pending block of the frame takes the insertion point. *)
LEMMA OpenStepFinish ==
  ASSUME Types, Shape, OpenBlocks, FinishIfStmt \/ FinishForStmt \/ FinishWhileStmt \/ FinishLogicExpr
  PROVE  OpenBlocks'
<1> USE DEF GoesOn
<1>1. CASE FinishIfStmt
  <2>1. PICK at \in {"if.then", "ifelse.else"} :
          At(at) /\ Leave /\ isVoid' = isVoid /\ insert' = Top.on[1] /\ Top.at = at
    BY <1>1, AtTop DEF FinishIfStmt
  <2>2. OnceTerminated /\ Open \ {insert} = Below \cup Held(Top) /\ Below \cap Held(Top) = {}
    BY <2>1, AtOpen
  <2>3. OnceTerminated' /\ Open' = Open \ {insert}
    BY <1>1, <2>1, <2>2, AtOpen, Closes DEF FinishIfStmt, AnyEnd
  <2>4. Held(Top) = {insert'}
    BY <2>1, HeldBy
  <2>5. Open' \ {insert'} = Below /\ insert' \in Open'
    BY <2>2, <2>3, <2>4
  <2>6. at \in FrameKinds
    BY DEF FrameKinds, StmtKinds, ExprKinds
  <2> QED
    BY <2>1, <2>3, <2>5, <2>6, OpenLeave
<1>2. CASE FinishForStmt
  <2>1. PICK at \in {"for.iter"} :
          At(at) /\ Leave /\ isVoid' = isVoid /\ insert' = Top.on[4] /\ Top.at = at
    BY <1>2, AtTop DEF FinishForStmt
  <2>2. OnceTerminated /\ Open \ {insert} = Below \cup Held(Top) /\ Below \cap Held(Top) = {}
    BY <2>1, AtOpen
  <2>3. OnceTerminated' /\ Open' = Open \ {insert}
    BY <1>2, <2>1, <2>2, AtOpen, Closes DEF FinishForStmt, AnyEnd
  <2>4. Held(Top) = {insert'}
    BY <2>1, HeldBy
  <2>5. Open' \ {insert'} = Below /\ insert' \in Open'
    BY <2>2, <2>3, <2>4
  <2>6. at \in FrameKinds
    BY DEF FrameKinds, StmtKinds, ExprKinds
  <2> QED
    BY <2>1, <2>3, <2>5, <2>6, OpenLeave
<1>3. CASE FinishWhileStmt
  <2>1. PICK at \in {"while.body"} :
          At(at) /\ Leave /\ isVoid' = isVoid /\ insert' = Top.on[3] /\ Top.at = at
    BY <1>3, AtTop DEF FinishWhileStmt
  <2>2. OnceTerminated /\ Open \ {insert} = Below \cup Held(Top) /\ Below \cap Held(Top) = {}
    BY <2>1, AtOpen
  <2>3. OnceTerminated' /\ Open' = Open \ {insert}
    BY <1>3, <2>1, <2>2, AtOpen, Closes DEF FinishWhileStmt, AnyEnd
  <2>4. Held(Top) = {insert'}
    BY <2>1, HeldBy
  <2>5. Open' \ {insert'} = Below /\ insert' \in Open'
    BY <2>2, <2>3, <2>4
  <2>6. at \in FrameKinds
    BY DEF FrameKinds, StmtKinds, ExprKinds
  <2> QED
    BY <2>1, <2>3, <2>5, <2>6, OpenLeave
<1>4. CASE FinishLogicExpr
  <2>1. PICK at \in {"logic.rhs"} :
          At(at) /\ Leave /\ isVoid' = isVoid /\ insert' = Top.on[2] /\ Top.at = at
    BY <1>4, AtTop DEF FinishLogicExpr
  <2>2. OnceTerminated /\ Open \ {insert} = Below \cup Held(Top) /\ Below \cap Held(Top) = {}
    BY <2>1, AtOpen
  <2>3. OnceTerminated' /\ Open' = Open \ {insert}
    BY <1>4, <2>1, <2>2, AtOpen, Closes DEF FinishLogicExpr, AnyEnd
  <2>4. Held(Top) = {insert'}
    BY <2>1, HeldBy
  <2>5. Open' \ {insert'} = Below /\ insert' \in Open'
    BY <2>2, <2>3, <2>4
  <2>6. at \in FrameKinds
    BY DEF FrameKinds, StmtKinds, ExprKinds
  <2> QED
    BY <2>1, <2>3, <2>5, <2>6, OpenLeave
<1> QED
  BY <1>1, <1>2, <1>3, <1>4

(* Every step keeps the open blocks and the pending ones in line.          *)
LEMMA OpenStep ==
  ASSUME Types, Shape, OpenBlocks, [Next]_vars
  PROVE  OpenBlocks'
<1>1. CASE UNCHANGED vars
  <2>1. Pendings'
    BY <1>1 DEF vars, OpenBlocks, Pendings, OnceTerminated, OpenPending, SlotsDiffer, Open, Blocks,
       Slots, Slot
  <2>2. BuilderAtOpenBlock' /\ EndsTerminated'
    BY <1>1 DEF vars, OpenBlocks, BuilderAtOpenBlock, EndsTerminated, Top, At, Terminated, Done
  <2> QED
    BY <2>1, <2>2 DEF OpenBlocks
<1>2. CASE VisitScopeChild \/ VisitScope \/ VisitExprStmt \/ VisitIfStmt \/ VisitOperator \/ BinaryLeft
  BY <1>2, OpenStepQuiet
<1>3. CASE \/ LeaveScope \/ FinishExprStmt \/ VisitLeafExpr \/ FinishUnaryExpr \/ FinishBinaryExpr
           \/ VisitBreakStmt \/ VisitContinueStmt \/ FinishReturnStmt
  BY <1>3, OpenStepReturn
<1>4. CASE VisitReturnStmt
  BY <1>4, OpenStepQuiet, OpenStepReturn
<1>5. CASE FinishFuncDecl
  BY <1>5, OpenStepFuncDecl
<1>6. CASE IfElseCond \/ IfCond \/ VisitWhileStmt \/ LogicLeft \/ VisitForStmt
  BY <1>6, OpenStepCreate, OpenStepFor
<1>7. CASE IfElseThen \/ ForInit \/ ForCond \/ ForBody \/ WhileCond \/ ForInitNoCond
  BY <1>7, OpenStepMove, OpenStepNoCond
<1>8. CASE FinishIfStmt \/ FinishForStmt \/ FinishWhileStmt \/ FinishLogicExpr
  BY <1>8, OpenStepFinish
<1> QED
  BY <1>1, <1>2, <1>3, <1>4, <1>5, <1>6, <1>7, <1>8 DEF Next

-----------------------------------------------------------------------------
(***************************************************************************)
(* The invariant, and what follows from it.                                *)
(***************************************************************************)
(* The invariant holds when visitFuncDecl visits the body.                 *)
LEMMA IInvInit ==
  ASSUME Init
  PROVE  IInv
<1>1. /\ nblocks = 1 /\ term = [b \in {1} |-> << >>] /\ insert = 1 /\ val = 1
      /\ stack = <<Frame("func", << >>), Frame("scope", << >>)>>
      /\ Blocks = {1} /\ nblocks \in 1..MaxBlocks
  BY BoundsAssumption DEF Init, Blocks
<1>2. Len(stack) = 2 /\ stack[1].at = "func" /\ stack[2].at = "scope" /\ Top = stack[2]
  BY <1>1 DEF Frame, Top
<1>3. Types
  <2>1. Frame("func", << >>) \in Frames(1) /\ Frame("scope", << >>) \in Frames(1)
    BY EmptyFrames
  <2>2. stack \in Seq(Frames(nblocks))
    BY <1>1, <2>1
  <2>3. << >> \in Seq(2..nblocks) /\ << >> \in Seq(Seq(2..nblocks))
    BY EmptySeq
  <2>4. term \in [Blocks -> Seq(Seq(2..nblocks))]
    BY <1>1, <2>3
  <2> QED
    BY <1>1, <2>2, <2>3, <2>4 DEF Types, Init
<1>4. Shape
  BY <1>2 DEF Shape, StmtKinds, AnyEnd
<1>5. Slots = {}
  BY <1>2 DEF Slots, PendingIx
<1>6. ~Terminated /\ Len(term[1]) <= 1
  BY <1>1, EmptySeq DEF Terminated
<1>7. OpenBlocks
  <2>1. Open = {1}
    BY <1>1 DEF Open
  <2>2. Pendings
    BY <1>1, <1>5, <1>6, <2>1 DEF Pendings, OnceTerminated, OpenPending, SlotsDiffer
  <2>3. BuilderAtOpenBlock
    BY <1>6 DEF BuilderAtOpenBlock
  <2>4. EndsTerminated
    BY <1>2, EmptySeq DEF EndsTerminated, Done, At
  <2> QED
    BY <2>2, <2>3, <2>4 DEF OpenBlocks
<1>8. TargetsMatchLoops
  <2>1. Loops(Len(stack)) = {}
    BY <1>2 DEF Loops, LoopKinds
  <2>2. LoopDepth(Len(stack)) = 0
    BY <2>1, FS_EmptySet DEF LoopDepth
  <2>3. Len(breakTargets) = 0 /\ Len(continueTargets) = 0
    BY EmptySeq DEF Init
  <2> QED
    BY <2>1, <2>2, <2>3 DEF TargetsMatchLoops
<1> QED
  BY <1>3, <1>4, <1>7, <1>8 DEF IInv

(* Every step keeps the invariant.                                         *)
LEMMA IInvStep ==
  ASSUME IInv, [Next]_vars
  PROVE  IInv'
  BY TypesStep, ShapeStep, OpenStep, TargetsStep DEF IInv

(* Whatever the function body, each step of its lowering keeps the types,  *)
(* the shape of the call stack, the pending blocks and the targets.        *)
THEOREM IInvHolds == Spec => []IInv
<1>1. Init => IInv
  BY IInvInit
<1>2. IInv /\ [Next]_vars => IInv'
  BY IInvStep
<1> QED
  BY <1>1, <1>2, PTL DEF Spec

(* Every block that a terminator, a target vector, a phi or a suspended    *)
(* visitor names has been created, for functions of any size and depth.    *)
THEOREM Typed == Spec => []TypeOK
<1>1. ASSUME Types PROVE TypeOK
  <2>1. nblocks \in Nat /\ 2..nblocks \subseteq Blocks
    BY <1>1 DEF Types, Blocks
  <2>2. Seq(2..nblocks) \subseteq Seq(Blocks)
    BY <2>1, SeqMonotonic
  <2>3. Seq(Seq(2..nblocks)) \subseteq Seq(Seq(Blocks))
    BY <2>2, SeqMonotonic
  <2>4. term \in [Blocks -> Seq(Seq(Blocks))]
    BY <1>1, <2>3 DEF Types
  <2>5. Frames(nblocks) \subseteq [at : FrameKinds, on : Seq(Blocks)]
    BY DEF Frames, Blocks
  <2>6. stack \in Seq([at : FrameKinds, on : Seq(Blocks)])
    BY <1>1, <2>5, SeqMonotonic DEF Types
  <2>7. \A i \in DOMAIN stack : Len(stack[i].on) = FrameSize(stack[i].at)
    <3>1. \A i \in DOMAIN stack : stack[i] \in Frames(nblocks)
      BY <1>1, ElementOfSeq DEF Types
    <3> QED
      BY <3>1 DEF Frames, FrameOK
  <2> QED
    BY <1>1, <2>2, <2>4, <2>6, <2>7 DEF Types, TypeOK
<1>2. IInv => TypeOK
  BY <1>1 DEF IInv
<1> QED
  BY <1>2, IInvHolds, PTL

(* The elements of a sequence.                                             *)
LEMMA InDomain ==
  ASSUME NEW S, NEW t \in Seq(S), NEW j \in DOMAIN t
  PROVE  t[j] \in S
<1>1. DOMAIN t = 1..Len(t)
  OBVIOUS
<1> QED
  BY <1>1, ElementOfSeq

(* No block ever gets a second terminator, none branches to the entry, and *)
(* when visitFuncDecl returns no block is left without one.                *)
THEOREM BlocksWellFormed == Spec => []WellFormed
<1>1. ASSUME Types, NEW b \in Blocks PROVE 1 \notin Graph[b]
  <2>1. ASSUME NEW k \in DOMAIN term[b], NEW i \in DOMAIN term[b][k] PROVE term[b][k][i] # 1
    <3>1. term[b] \in Seq(Seq(2..nblocks))
      BY <1>1 DEF Types
    <3>2. term[b][k] \in Seq(2..nblocks)
      BY <2>1, <3>1, InDomain
    <3>3. term[b][k][i] \in 2..nblocks
      BY <2>1, <3>2, InDomain
    <3> QED
      BY <1>1, <3>3 DEF Types
  <2>2. Graph[b] = UNION {{t[i] : i \in DOMAIN t} : t \in {term[b][k] : k \in DOMAIN term[b]}}
    BY DEF Graph
  <2> QED
    BY <2>1, <2>2
<1>2. ASSUME IInv, Done, NEW b \in Blocks PROVE term[b] # << >>
  <2>1. Slots = {}
    BY <1>2, EmptySeq DEF Slots, Done
  <2>2. Open \ {insert} = {}
    BY <1>2, <2>1 DEF IInv, OpenBlocks, Pendings, OpenPending
  <2>3. term[insert] # << >>
    BY <1>2 DEF IInv, OpenBlocks, EndsTerminated, Terminated
  <2> QED
    BY <2>2, <2>3 DEF Open
<1>3. IInv => WellFormed
  BY <1>1, <1>2 DEF IInv, OpenBlocks, Pendings, OnceTerminated, WellFormed
<1> QED
  BY <1>3, IInvHolds, PTL

(* No instruction is put behind a break, a continue or a return: whoever   *)
(* emits code next finds an open block.                                    *)
THEOREM BuilderOpen == Spec => []BuilderAtOpenBlock
<1>1. IInv => BuilderAtOpenBlock
  BY DEF IInv, OpenBlocks
<1> QED
  BY <1>1, IInvHolds, PTL

(* The two target vectors hold the exit and the continuation blocks of the *)
(* loops around the current statement, however deep these are nested.      *)
THEOREM TargetsRight == Spec => []TargetsMatchLoops
<1>1. IInv => TargetsMatchLoops
  BY DEF IInv
<1> QED
  BY <1>1, IInvHolds, PTL

-----------------------------------------------------------------------------
(***************************************************************************)
(* The graph.  First how its edges follow the code.                        *)
(***************************************************************************)
Ends(t) == {t[i] : i \in DOMAIN t}
EndsOfAll(code) == UNION {Ends(code[k]) : k \in DOMAIN code}

(* The blocks that the step creates. *)
Fresh == Blocks' \ Blocks
(* Edges from b to the blocks of S. *)
From(b, S) == {<<b, c>> : c \in S}

(* A step adds the edges E. *)
Adds(E) ==
  /\ Blocks \subseteq Blocks'
  /\ \A b \in Blocks' : Graph'[b] = (IF b \in Blocks THEN Graph[b] ELSE {}) \cup {c \in Blocks' : <<b, c>> \in E}

(* The successors of a block are the ends of its terminators. *)
LEMMA EdgesAre ==
  /\ DOMAIN Graph = Blocks /\ \A b \in Blocks : Graph[b] = EndsOfAll(term[b])
  /\ DOMAIN Graph' = Blocks' /\ \A b \in Blocks' : Graph'[b] = EndsOfAll(term'[b])
<1>1. \A code : EndsOfAll(code) = UNION {{t[i] : i \in DOMAIN t} : t \in {code[k] : k \in DOMAIN code}}
  BY DEF EndsOfAll, Ends
<1> QED
  BY <1>1 DEF Graph

(* What a block branches to, after it got a terminator, or none. *)
LEMMA EndsAppend ==
  ASSUME NEW S, NEW s \in Seq(S), NEW t \in S
  PROVE  EndsOfAll(Append(s, t)) = EndsOfAll(s) \cup Ends(t)
<1> DEFINE q == Append(s, t)
<1>1. /\ DOMAIN s = 1..Len(s) /\ Len(s) \in Nat /\ DOMAIN q = 1..(Len(s) + 1)
      /\ \A k \in 1..Len(s) : q[k] = s[k]
      /\ q[Len(s) + 1] = t
  OBVIOUS
<1> HIDE DEF q
<1>2. /\ DOMAIN q = DOMAIN s \cup {Len(s) + 1} /\ \A k \in DOMAIN s : q[k] = s[k]
      /\ q[Len(s) + 1] = t
  BY <1>1
<1>3. UNION {Ends(q[k]) : k \in DOMAIN q} = (UNION {Ends(s[k]) : k \in DOMAIN s}) \cup Ends(t)
  BY <1>2
<1> QED
  BY <1>3 DEF q, EndsOfAll

(* No code and a return have no successors. *)
LEMMA EndsNone == EndsOfAll(<< >>) = {} /\ Ends(<< >>) = {}
BY DEF Ends, EndsOfAll

(* A terminator's successors are of the set it is a sequence over. *)
LEMMA EndsWithin ==
  ASSUME NEW S, NEW t \in Seq(S)
  PROVE  Ends(t) \subseteq S
BY InDomain DEF Ends

(* No branch leaves the function or goes back to its entry. *)
LEMMA GraphIs ==
  ASSUME Types
  PROVE  IsGraph(Graph) /\ DOMAIN Graph = Blocks /\ \A b \in Blocks : Graph[b] \subseteq 2..nblocks
<1>1. ASSUME NEW b \in Blocks PROVE Graph[b] \subseteq 2..nblocks
  <2>1. ASSUME NEW k \in DOMAIN term[b] PROVE Ends(term[b][k]) \subseteq 2..nblocks
    <3>1. term[b][k] \in Seq(2..nblocks)
      BY <2>1, InDomain DEF Types
    <3> QED
      BY <3>1, EndsWithin
  <2> QED
    BY <2>1, EdgesAre DEF EndsOfAll
<1>2. DOMAIN Graph = Blocks
  BY EdgesAre
<1>3. IsFiniteSet(Blocks) /\ 2..nblocks \subseteq Blocks
  BY FS_Interval DEF Types, Blocks
<1>4. Graph = [b \in Blocks |-> Graph[b]]
  BY <1>2 DEF Graph
<1>5. Graph \in [Blocks -> SUBSET Blocks]
  BY <1>1, <1>3, <1>4
<1> QED
  BY <1>1, <1>2, <1>3, <1>5 DEF IsGraph

(* A block without terminator has no successors. *)
LEMMA OpenNoEdges == \A b \in Open : Graph[b] = {}
BY EdgesAre, EndsNone DEF Open

-----------------------------------------------------------------------------
(* Terminator t is appended to block b; new blocks have none. *)
LEMMA AddsAt ==
  ASSUME Types, Types', Blocks \subseteq Blocks', NEW b \in Blocks, NEW t \in Seq(2..nblocks'),
         term'[b] = Append(term[b], t),
         \A c \in Blocks \ {b} : term'[c] = term[c],
         \A c \in Blocks' \ Blocks : term'[c] = << >>
  PROVE  Adds(From(b, Ends(t)))
<1>1. Ends(t) \subseteq Blocks'
  <2>1. 2..nblocks' \subseteq Blocks'
    BY DEF Types, Blocks
  <2> QED
    BY <2>1, EndsWithin
<1>2. Graph'[b] = Graph[b] \cup Ends(t)
  <2>1. Seq(2..nblocks) \subseteq Seq(2..nblocks')
    <3>1. 2..nblocks \subseteq 2..nblocks'
      <4>1. nblocks \in Blocks /\ nblocks \in Nat /\ nblocks' \in Nat
        BY DEF Types, Blocks
      <4>2. nblocks <= nblocks'
        BY <4>1 DEF Blocks
      <4> QED
        BY <4>1, <4>2
    <3> QED
      BY <3>1, SeqMonotonic
  <2>2. term[b] \in Seq(Seq(2..nblocks'))
    <3>1. term[b] \in Seq(Seq(2..nblocks))
      BY DEF Types
    <3> QED
      BY <2>1, <3>1, SeqMonotonic
  <2>3. EndsOfAll(Append(term[b], t)) = EndsOfAll(term[b]) \cup Ends(t)
    BY <2>2, EndsAppend
  <2>4. Graph'[b] = EndsOfAll(term'[b]) /\ Graph[b] = EndsOfAll(term[b])
    BY EdgesAre
  <2> QED
    BY <2>3, <2>4, Zenon
<1>3. \A c \in Blocks \ {b} : Graph'[c] = Graph[c]
  BY EdgesAre
<1>4. \A c \in Blocks' \ Blocks : Graph'[c] = {}
  BY EdgesAre, EndsNone
<1>5. ASSUME NEW c \in Blocks'
      PROVE  {x \in Blocks' : <<c, x>> \in From(b, Ends(t))} = IF c = b THEN Ends(t) ELSE {}
  BY <1>1 DEF From
<1> QED
  BY <1>2, <1>3, <1>4, <1>5 DEF Adds

(* No code is emitted. *)
LEMMA AddsNone ==
  ASSUME Types, UNCHANGED <<nblocks, term>>
  PROVE  Adds({}) /\ Fresh = {}
<1>1. Blocks' = Blocks /\ Graph' = Graph
  BY DEF Blocks, Graph
<1> QED
  BY <1>1 DEF Adds, Fresh

(* A terminator for the insertion block. *)
LEMMA AddsTerminator ==
  ASSUME Types, Types', NEW t, t \in Seq(2..nblocks), AppendTerminator(t)
  PROVE  Adds(From(insert, Ends(t))) /\ Fresh = {}
<1>1. nblocks' = nblocks /\ Blocks' = Blocks /\ insert \in Blocks /\ DOMAIN term = Blocks
  BY DEF AppendTerminator, Blocks, Types
<1>2. term'[insert] = Append(term[insert], t) /\ \A c \in Blocks \ {insert} : term'[c] = term[c]
  BY <1>1 DEF AppendTerminator, Appended
<1> QED
  BY <1>1, <1>2, AddsAt DEF Fresh

(* A branch to b if the insertion block is open. *)
LEMMA AddsBranch ==
  ASSUME Types, Types', NEW b \in 2..nblocks, BranchIfOpen(b)
  PROVE  Adds(IF Terminated THEN {} ELSE {<<insert, b>>}) /\ Fresh = {}
<1>1. CASE Terminated
  BY <1>1, AddsNone DEF BranchIfOpen
<1>2. CASE ~Terminated
  <2>1. From(insert, Ends(<<b>>)) = {<<insert, b>>}
    BY DEF From, Ends
  <2>2. <<b>> \in Seq(2..nblocks)
    OBVIOUS
  <2> QED
    BY <1>2, <2>1, <2>2, AddsTerminator DEF BranchIfOpen
<1> QED
  BY <1>1, <1>2

(* New blocks, and a terminator that branches to them. *)
LEMMA AddsBlocks ==
  ASSUME Types, Types', NEW k \in 1..4, NEW t \in Seq(2..nblocks'),
         AppendAndCreate(t, k) \/ CreateBlocks(k)
  PROVE  /\ Fresh = (nblocks + 1)..(nblocks + k) /\ Fresh \subseteq 2..nblocks'
         /\ AppendAndCreate(t, k) => Adds(From(insert, Ends(t)))
         /\ CreateBlocks(k) => Adds({})
<1>1. nblocks \in Nat \ {0} /\ nblocks' = nblocks + k /\ insert \in Blocks
  BY DEF AppendAndCreate, CreateBlocks, Types
<1>2. Fresh = (nblocks + 1)..(nblocks + k) /\ Blocks \subseteq Blocks' /\ Fresh \subseteq 2..nblocks'
  BY <1>1 DEF Fresh, Blocks
<1>3. ASSUME AppendAndCreate(t, k) PROVE Adds(From(insert, Ends(t)))
  <2>1. term' = [b \in Blocks' |-> IF b = insert THEN Append(term[b], t)
                                   ELSE IF b \in Blocks THEN term[b] ELSE << >>]
    <3>1. Blocks' = 1..(nblocks + k) /\ \A b \in Blocks' : b <= nblocks <=> b \in Blocks
      BY <1>1 DEF Blocks
    <3> QED
      BY <1>3, <3>1 DEF AppendAndCreate
  <2> QED
    BY <1>1, <1>2, <2>1, AddsAt
<1>4. ASSUME CreateBlocks(k) PROVE Adds({})
  <2>1. Blocks' = 1..(nblocks + k) /\ \A b \in Blocks' : b <= nblocks <=> b \in Blocks
    BY <1>1 DEF Blocks
  <2>2. \A b \in Blocks' : term'[b] = IF b \in Blocks THEN term[b] ELSE << >>
    BY <1>4, <2>1 DEF CreateBlocks
  <2> QED
    BY <1>2, <2>2, EdgesAre, EndsNone DEF Adds
<1> QED
  BY <1>2, <1>3, <1>4

-----------------------------------------------------------------------------
(***************************************************************************)
(* Then how the blocks that the visitors may still branch to change.       *)
(***************************************************************************)
(* The blocks in a frame that can be branched to. *)
TargetsOf(f) == {f.on[k] : k \in TargetIx(f.at)}
(* The blocks of one frame are different. *)
OwnTargetsDiffer(f) == \A k, l \in TargetIx(f.at) : f.on[k] = f.on[l] => k = l

(* No two frames can branch to the same block. *)
TargetsDiffer ==
  \A i \in 1..Len(stack) :
    /\ OwnTargetsDiffer(stack[i])
    /\ \A j \in 1..Len(stack) : i # j => TargetsOf(stack[i]) \cap TargetsOf(stack[j]) = {}

(* The visitors of loop bodies. *)
BodyKinds == {"for.body", "while.body"}
(* The targets of the visitor that runs, and of break and continue. *)
Goals == TargetsOf(Top) \cup
         UNION {TargetsOf(stack[i]) : i \in {j \in 1..Len(stack) : stack[j].at \in BodyKinds}}

(* A step adds the edges E, from the insertion block or a target of the    *)
(* visitor that runs, and hands on no other targets than these and new     *)
(* blocks.                                                                 *)
Flow(E) ==
  /\ Adds(E)
  /\ \A e \in E : e[1] \in {insert} \cup TargetsOf(Top) /\ e[2] \in Fresh \cup Goals
  /\ insert' \in {insert} \cup Fresh \cup TargetsOf(Top)
  /\ \/ Leave
     \/ \E f : GoesOn(f) /\ TargetsOf(f) \subseteq Fresh \cup TargetsOf(Top) /\ OwnTargetsDiffer(f)

(* The targets of each kind of frame. *)
LEMMA TargetsAre ==
  ASSUME NEW f
  PROVE  /\ f.at \in NoneHeld => TargetsOf(f) = {} /\ OwnTargetsDiffer(f)
         /\ f.at \in {"if.then", "ifelse.else"} => TargetsOf(f) = {f.on[1]} /\ OwnTargetsDiffer(f)
         /\ f.at = "logic.rhs" => TargetsOf(f) = {f.on[2]} /\ OwnTargetsDiffer(f)
         /\ f.at = "ifelse.then" =>
              /\ TargetsOf(f) = {f.on[1], f.on[2]}
              /\ OwnTargetsDiffer(f) <=> f.on[1] # f.on[2]
         /\ f.at \in {"while.cond", "while.body"} =>
              /\ TargetsOf(f) = {f.on[1], f.on[2], f.on[3]}
              /\ OwnTargetsDiffer(f) <=> f.on[1] # f.on[2] /\ f.on[1] # f.on[3] /\ f.on[2] # f.on[3]
         /\ f.at \in {"for.init", "for.cond", "for.body", "for.iter"} =>
              /\ TargetsOf(f) = {f.on[1], f.on[2], f.on[3], f.on[4]}
              /\ OwnTargetsDiffer(f) <=>
                   /\ f.on[1] # f.on[2] /\ f.on[1] # f.on[3] /\ f.on[1] # f.on[4]
                   /\ f.on[2] # f.on[3] /\ f.on[2] # f.on[4] /\ f.on[3] # f.on[4]
<1>1. CASE f.at \in NoneHeld
  <2>1. TargetIx(f.at) = {}
    BY <1>1, FrameSizes DEF NoneHeld, TargetIx
  <2>2. f.at \notin {"if.then", "ifelse.else", "logic.rhs", "ifelse.then", "while.cond", "while.body",
                     "for.init", "for.cond", "for.body", "for.iter"}
    BY <1>1 DEF NoneHeld
  <2> QED
    BY <2>1, <2>2 DEF TargetsOf, OwnTargetsDiffer
<1>2. CASE f.at \in {"if.then", "ifelse.else"}
  <2>1. TargetIx(f.at) = {1}
    BY <1>2, FrameSizes DEF TargetIx
  <2> QED
    BY <1>2, <2>1 DEF TargetsOf, OwnTargetsDiffer, NoneHeld
<1>3. CASE f.at = "logic.rhs"
  <2>1. TargetIx(f.at) = {2}
    BY <1>3, FrameSizes DEF TargetIx
  <2> QED
    BY <1>3, <2>1 DEF TargetsOf, OwnTargetsDiffer, NoneHeld
<1>4. CASE f.at = "ifelse.then"
  <2>1. TargetIx(f.at) = {1, 2}
    BY <1>4, FrameSizes DEF TargetIx
  <2> QED
    BY <1>4, <2>1 DEF TargetsOf, OwnTargetsDiffer, NoneHeld
<1>5. CASE f.at \in {"while.cond", "while.body"}
  <2>1. TargetIx(f.at) = {1, 2, 3}
    BY <1>5, FrameSizes DEF TargetIx
  <2>2. TargetsOf(f) = {f.on[1], f.on[2], f.on[3]}
    BY <2>1 DEF TargetsOf
  <2> QED
    BY <1>5, <2>1, <2>2 DEF OwnTargetsDiffer, NoneHeld
<1>6. CASE f.at \in {"for.init", "for.cond", "for.body", "for.iter"}
  <2>1. TargetIx(f.at) = {1, 2, 3, 4}
    BY <1>6, FrameSizes DEF TargetIx
  <2>2. TargetsOf(f) = {f.on[1], f.on[2], f.on[3], f.on[4]}
    BY <2>1 DEF TargetsOf
  <2> QED
    BY <1>6, <2>1, <2>2 DEF OwnTargetsDiffer, NoneHeld
<1> QED
  BY <1>1, <1>2, <1>3, <1>4, <1>5, <1>6

(* The targets on the stack are blocks, and none is the entry. *)
LEMMA TargetsTyped ==
  ASSUME Types
  PROVE  /\ \A i \in 1..Len(stack) : stack[i] \in Frames(nblocks) /\ TargetsOf(stack[i]) \subseteq 2..nblocks
         /\ 2..nblocks \subseteq Blocks /\ 1 \in Blocks /\ 1 \notin 2..nblocks
<1>1. nblocks \in Nat \ {0}
  BY DEF Types
<1>2. \A i \in 1..Len(stack) : stack[i] \in Frames(nblocks)
  BY ElementOfSeq DEF Types
<1>3. ASSUME NEW f \in Frames(nblocks) PROVE TargetsOf(f) \subseteq 2..nblocks
  <2>1. f.on \in Seq(1..nblocks) /\ Len(f.on) = FrameSize(f.at) /\ \A k \in TargetIx(f.at) : f.on[k] # 1
    BY DEF Frames, FrameOK
  <2>2. \A k \in TargetIx(f.at) : k \in 1..Len(f.on)
    BY <2>1 DEF TargetIx
  <2>3. \A k \in TargetIx(f.at) : f.on[k] \in 1..nblocks /\ f.on[k] # 1
    BY <2>1, <2>2, ElementOfSeq
  <2> QED
    BY <1>1, <2>3 DEF TargetsOf
<1> QED
  BY <1>1, <1>2, <1>3 DEF Blocks

(* What a step leaves and puts on the stack. *)
LEMMA FlowStack ==
  ASSUME Types, NEW at, At(at), NEW E, Flow(E)
  PROVE  /\ Len(stack) \in Nat \ {0} /\ Len(stack') \in Nat
         /\ Len(stack) - 1 <= Len(stack') /\ Len(stack') <= Len(stack) + 1
         /\ TargetsOf(stack[Len(stack)]) = TargetsOf(Top)
         /\ \A i \in 1..(Len(stack) - 1) : stack'[i] = stack[i]
         /\ \A i \in 1..Len(stack') : i >= Len(stack) =>
              TargetsOf(stack'[i]) \subseteq Fresh \cup TargetsOf(Top) /\ OwnTargetsDiffer(stack'[i])
         /\ \A i \in 1..Len(stack') : i > Len(stack) => TargetsOf(stack'[i]) = {}
<1>1. Len(stack) \in Nat \ {0} /\ Top = stack[Len(stack)]
  BY AtTop
<1>2. CASE Leave
  BY <1>1, <1>2, StackLeave
<1>3. ASSUME NEW f, GoesOn(f), TargetsOf(f) \subseteq Fresh \cup TargetsOf(Top), OwnTargetsDiffer(f)
      PROVE  /\ Len(stack') \in Nat
             /\ Len(stack) - 1 <= Len(stack') /\ Len(stack') <= Len(stack) + 1
             /\ \A i \in 1..(Len(stack) - 1) : stack'[i] = stack[i]
             /\ \A i \in 1..Len(stack') : i >= Len(stack) =>
                  TargetsOf(stack'[i]) \subseteq Fresh \cup TargetsOf(Top) /\ OwnTargetsDiffer(stack'[i])
             /\ \A i \in 1..Len(stack') : i > Len(stack) => TargetsOf(stack'[i]) = {}
  <2>1. /\ \A i \in 1..(Len(stack) - 1) : stack'[i] = stack[i]
        /\ stack'[Len(stack)] = f
        /\ \/ Len(stack') = Len(stack)
           \/ /\ Len(stack') = Len(stack) + 1
              /\ stack'[Len(stack) + 1] \in {Frame("expr", << >>), Frame("stmt", << >>)}
    BY <1>3, StackGoOn
  <2>2. \A g \in {Frame("expr", << >>), Frame("stmt", << >>)} : TargetsOf(g) = {} /\ OwnTargetsDiffer(g)
    <3>1. \A g \in {Frame("expr", << >>), Frame("stmt", << >>)} : g.at \in NoneHeld
      BY DEF Frame, NoneHeld
    <3> QED
      BY <3>1, TargetsAre
  <2> QED
    BY <1>1, <1>3, <2>1, <2>2
<1> QED
  BY <1>1, <1>2, <1>3 DEF Flow

(* New targets are new blocks; the others were different before. *)
LEMMA TargetsDifferStep ==
  ASSUME Types, Types', TargetsDiffer, NEW at, At(at), NEW E, Flow(E)
  PROVE  TargetsDiffer'
<1>1. \A i \in 1..Len(stack) : TargetsOf(stack[i]) \cap Fresh = {}
  BY TargetsTyped DEF Fresh
<1>2. SUFFICES ASSUME NEW i \in 1..Len(stack')
               PROVE  /\ OwnTargetsDiffer(stack'[i])
                      /\ \A j \in 1..Len(stack') : i # j => TargetsOf(stack'[i]) \cap TargetsOf(stack'[j]) = {}
  BY DEF TargetsDiffer, OwnTargetsDiffer, TargetsOf
<1>3. CASE i < Len(stack)
  <2>1. i \in 1..Len(stack) /\ stack'[i] = stack[i]
    BY <1>3, FlowStack
  <2>2. ASSUME NEW j \in 1..Len(stack'), i # j
        PROVE  TargetsOf(stack'[i]) \cap TargetsOf(stack'[j]) = {}
    <3>1. CASE j < Len(stack)
      <4>1. j \in 1..Len(stack) /\ stack'[j] = stack[j]
        BY <3>1, FlowStack
      <4> QED
        BY <2>1, <2>2, <4>1 DEF TargetsDiffer
    <3>2. CASE j >= Len(stack)
      <4>1. TargetsOf(stack'[j]) \subseteq Fresh \cup TargetsOf(Top)
        BY <3>2, FlowStack
      <4>2. TargetsOf(stack[i]) \cap TargetsOf(Top) = {}
        <5>1. Len(stack) \in 1..Len(stack) /\ TargetsOf(stack[Len(stack)]) = TargetsOf(Top)
          BY FlowStack
        <5>2. i # Len(stack)
          BY <1>3, <2>1, FlowStack
        <5> QED
          BY <2>1, <5>1, <5>2 DEF TargetsDiffer
      <4> QED
        BY <1>1, <2>1, <4>1, <4>2
    <3> QED
      BY <3>1, <3>2, FlowStack
  <2> QED
    BY <2>1, <2>2 DEF TargetsDiffer
<1>4. CASE i >= Len(stack)
  <2>1. TargetsOf(stack'[i]) \subseteq Fresh \cup TargetsOf(Top) /\ OwnTargetsDiffer(stack'[i])
    BY <1>4, FlowStack
  <2>2. ASSUME NEW j \in 1..Len(stack'), i # j
        PROVE  TargetsOf(stack'[i]) \cap TargetsOf(stack'[j]) = {}
    <3>1. CASE j < Len(stack)
      <4>1. j \in 1..Len(stack) /\ stack'[j] = stack[j]
        BY <3>1, FlowStack
      <4>2. TargetsOf(stack[j]) \cap TargetsOf(Top) = {}
        <5>1. Len(stack) \in 1..Len(stack) /\ TargetsOf(stack[Len(stack)]) = TargetsOf(Top)
          BY FlowStack
        <5> QED
          BY <3>1, <4>1, <5>1 DEF TargetsDiffer
      <4> QED
        BY <1>1, <2>1, <4>1, <4>2
    <3>2. CASE j >= Len(stack)
      <4>1. i > Len(stack) \/ j > Len(stack)
        BY <1>4, <2>2, <3>2, FlowStack
      <4> QED
        BY <4>1, FlowStack
    <3> QED
      BY <3>1, <3>2, FlowStack
  <2> QED
    BY <2>1, <2>2
<1> QED
  BY <1>3, <1>4, FlowStack

-----------------------------------------------------------------------------
(***************************************************************************)
(* Dominance for good: regions with one way in, that no branch to come can *)
(* enter otherwise.                                                        *)
(***************************************************************************)
(* d is the only way into R, now and later: the visitors from place i on   *)
(* have their targets in R, the others have none there but d.              *)
Region(d, R, i) ==
  /\ OnlyWayInto(Graph, 1, d, R)
  /\ \A j \in 1..Len(stack) : IF j < i THEN TargetsOf(stack[j]) \cap (R \ {d}) = {}
                                       ELSE TargetsOf(stack[j]) \subseteq R

(* d dominates b, and will whatever is generated yet: what the visitors    *)
(* from place i on generate belongs to the region, if there are any.       *)
ForGood(d, b) ==
  \E R \in SUBSET Blocks : b \in R /\ \E i \in 1..(Len(stack) + 1) :
    Region(d, R, i) /\ (i <= Len(stack) => insert \in R)

(* What the visitors from place i on generate belongs to a region of d. *)
DominatesFrom(d, i) == \E R \in SUBSET Blocks : insert \in R /\ Region(d, R, i)

(* A region in which the insertion point is grows with the new blocks. *)
LEMMA RegionGrows ==
  ASSUME Types, Types', NEW at, At(at), NEW E, Flow(E),
         NEW d, NEW R \in SUBSET Blocks, NEW i \in 1..Len(stack), Region(d, R, i), insert \in R,
         NEW Q, Q = R \cup Fresh
  PROVE  /\ Q \in SUBSET Blocks' /\ insert' \in Q /\ i <= Len(stack') + 1
         /\ Region(d, Q, i)'
<1>1. Len(stack) \in 1..Len(stack) /\ Len(stack) \in Nat /\ TargetsOf(Top) \subseteq R
  <2>1. Len(stack) \in 1..Len(stack) /\ ~(Len(stack) < i)
    BY FlowStack
  <2> QED
    BY <2>1, FlowStack DEF Region
<1>2. Q \in SUBSET Blocks' /\ insert' \in Q
  BY <1>1 DEF Flow, Adds, Fresh
<1>3. i <= Len(stack') + 1
  BY FlowStack
<1>4. d \in Q /\ 1 \notin Q \ {d}
  <2>1. 1 \notin Fresh
    BY TargetsTyped DEF Fresh
  <2> QED
    BY <2>1 DEF Region, OnlyWayInto
<1>5. ASSUME NEW b \in Q \ {d}, NEW a \in Blocks', b \in Graph'[a] PROVE a \in Q
  <2>1. CASE a \notin Blocks
    BY <2>1 DEF Fresh
  <2>2. CASE a \in Blocks /\ b \in Graph[a]
    <3>1. b \in Blocks
      BY <2>2, GraphIs DEF IsGraph
    <3>2. b \in R \ {d}
      BY <3>1 DEF Fresh
    <3> QED
      BY <2>2, <3>2, GraphIs DEF Region, OnlyWayInto, Preds
  <2>3. CASE <<a, b>> \in E
    <3>1. a \in {insert} \cup TargetsOf(Top)
      BY <2>3 DEF Flow
    <3> QED
      BY <1>1, <3>1
  <2> QED
    BY <1>5, <2>1, <2>2, <2>3 DEF Flow, Adds
<1>6. OnlyWayInto(Graph', 1, d, Q)
  <2>1. DOMAIN Graph' = Blocks'
    BY EdgesAre
  <2> QED
    BY <1>2, <1>4, <1>5, <2>1 DEF OnlyWayInto, Preds
<1>7. ASSUME NEW j \in 1..Len(stack')
      PROVE  IF j < i THEN TargetsOf(stack'[j]) \cap (Q \ {d}) = {}
                      ELSE TargetsOf(stack'[j]) \subseteq Q
  <2>1. CASE j >= Len(stack)
    <3>1. TargetsOf(stack'[j]) \subseteq Fresh \cup TargetsOf(Top)
      BY <2>1, FlowStack
    <3>2. ~(j < i)
      BY <2>1, FlowStack
    <3> QED
      BY <1>1, <3>1, <3>2
  <2>2. CASE j < Len(stack)
    <3>1. j \in 1..Len(stack) /\ stack'[j] = stack[j]
      BY <2>2, FlowStack
    <3>2. TargetsOf(stack[j]) \cap Fresh = {}
      BY <3>1, TargetsTyped DEF Fresh
    <3> QED
      BY <3>1, <3>2 DEF Region
  <2> QED
    BY <2>1, <2>2, FlowStack
<1> QED
  BY <1>2, <1>3, <1>6, <1>7 DEF Region, TargetsOf

(* A region that no visitor can branch into stays as it is. *)
LEMMA RegionClosed ==
  ASSUME Types, Types', NEW at, At(at), NEW E, Flow(E),
         NEW d, NEW R \in SUBSET Blocks, Region(d, R, Len(stack) + 1),
         NEW j, j = Len(stack') + 1
  PROVE  R \in SUBSET Blocks' /\ Region(d, R, j)'
<1>1. Len(stack) \in 1..Len(stack) /\ Len(stack) \in Nat /\ Len(stack') \in Nat
  BY FlowStack
<1>2. \A i \in 1..Len(stack) : TargetsOf(stack[i]) \cap (R \ {d}) = {}
  <2>1. \A i \in 1..Len(stack) : i < Len(stack) + 1
    BY <1>1
  <2> QED
    BY <2>1 DEF Region
<1>3. Goals \cap (R \ {d}) = {} /\ TargetsOf(Top) \cap (R \ {d}) = {} /\ Fresh \cap R = {}
  <2>1. TargetsOf(Top) \cap (R \ {d}) = {}
    BY <1>1, <1>2, FlowStack
  <2> QED
    BY <1>2, <2>1 DEF Goals, Fresh
<1>4. R \in SUBSET Blocks'
  BY DEF Flow, Adds
<1>5. ASSUME NEW b \in R \ {d}, NEW a \in Blocks', b \in Graph'[a] PROVE a \in R
  <2>1. <<a, b>> \notin E
    BY <1>3, <1>5 DEF Flow
  <2>2. a \in Blocks /\ b \in Graph[a]
    BY <1>5, <2>1 DEF Flow, Adds
  <2> QED
    BY <2>2, GraphIs DEF Region, OnlyWayInto, Preds
<1>6. OnlyWayInto(Graph', 1, d, R)
  <2>1. DOMAIN Graph' = Blocks'
    BY EdgesAre
  <2> QED
    BY <1>4, <1>5, <2>1 DEF Region, OnlyWayInto, Preds
<1>7. ASSUME NEW k \in 1..Len(stack') PROVE k < j /\ TargetsOf(stack'[k]) \cap (R \ {d}) = {}
  <2>1. CASE k >= Len(stack)
    <3>1. TargetsOf(stack'[k]) \subseteq Fresh \cup TargetsOf(Top)
      BY <2>1, FlowStack
    <3> QED
      BY <1>1, <1>3, <3>1
  <2>2. CASE k < Len(stack)
    <3>1. k \in 1..Len(stack) /\ stack'[k] = stack[k]
      BY <2>2, FlowStack
    <3> QED
      BY <1>1, <1>2, <3>1
  <2> QED
    BY <1>1, <2>1, <2>2
<1> QED
  BY <1>4, <1>6, <1>7 DEF Region, TargetsOf

(* What dominates the insertion point goes on doing so, as long as the      *)
(* visitor at place i runs.                                                *)
LEMMA DominatesFromStep ==
  ASSUME Types, Types', NEW at, At(at), NEW E, Flow(E),
         NEW d, NEW i \in 1..Len(stack), DominatesFrom(d, i)
  PROVE  DominatesFrom(d, i)'
<1>1. PICK R \in SUBSET Blocks : insert \in R /\ Region(d, R, i)
  BY DEF DominatesFrom
<1>2. PICK Q : Q = R \cup Fresh
  OBVIOUS
<1>3. Q \in SUBSET Blocks' /\ insert' \in Q /\ Region(d, Q, i)'
  BY <1>1, <1>2, RegionGrows
<1> QED
  BY <1>3 DEF DominatesFrom

(* Dominance for good is for good. *)
LEMMA ForGoodStep ==
  ASSUME Types, Types', NEW at, At(at), NEW E, Flow(E), NEW d, NEW b, ForGood(d, b)
  PROVE  ForGood(d, b)'
<1>1. PICK R \in SUBSET Blocks, i \in 1..(Len(stack) + 1) :
        b \in R /\ Region(d, R, i) /\ (i <= Len(stack) => insert \in R)
  BY DEF ForGood
<1>2. Len(stack) \in Nat /\ Len(stack') \in Nat
  BY FlowStack
<1>3. CASE i <= Len(stack)
  <2>1. PICK Q : Q = R \cup Fresh
    OBVIOUS
  <2>2. i \in 1..Len(stack)
    BY <1>2, <1>3
  <2>3. Q \in SUBSET Blocks' /\ insert' \in Q /\ i <= Len(stack') + 1 /\ Region(d, Q, i)'
    BY <1>1, <1>3, <2>1, <2>2, RegionGrows
  <2>4. i \in 1..(Len(stack') + 1) /\ b \in Q
    BY <1>1, <1>2, <2>1, <2>2, <2>3
  <2> QED
    BY <2>3, <2>4 DEF ForGood
<1>4. CASE i = Len(stack) + 1
  <2>1. PICK j : j = Len(stack') + 1
    OBVIOUS
  <2>2. R \in SUBSET Blocks' /\ Region(d, R, j)'
    BY <1>1, <1>4, <2>1, RegionClosed
  <2>3. j \in 1..(Len(stack') + 1) /\ ~(j <= Len(stack'))
    BY <1>2, <2>1
  <2> QED
    BY <1>1, <2>2, <2>3 DEF ForGood
<1> QED
  BY <1>2, <1>3, <1>4

(* The region's only way in is through d, so d dominates what is in it. *)
LEMMA ForGoodDominates ==
  ASSUME Types, NEW d, NEW b, ForGood(d, b)
  PROVE  Dominates(Graph, 1, d, b)
<1>1. PICK R \in SUBSET Blocks : b \in R /\ OnlyWayInto(Graph, 1, d, R)
  BY DEF ForGood, Region
<1>2. 1 \in DOMAIN Graph /\ IsGraph(Graph)
  BY GraphIs, TargetsTyped
<1> HIDE DEF Graph
<1> QED
  BY <1>1, <1>2, DominatesItsRegion

-----------------------------------------------------------------------------
(***************************************************************************)
(* Which edges each visitor adds.                                          *)
(***************************************************************************)
(* Each set of terminated blocks that the edges E leave has a block of     *)
(* which they lead to blocks of the set only if these dominate it.         *)
Sinks(E) ==
  /\ \A e \in E : e[1] \in Open
  /\ Fresh \subseteq Open' /\ Open' \cap Blocks \subseteq Open
  /\ \A X : X \cap Open' = {} /\ (\E e \in E : e[1] \in X) =>
       \E b \in X : /\ \E e \in E : e[1] = b
                    /\ \A c \in X : <<b, c>> \in E => ForGood(c, b)

(* The header of a loop dominates what is generated until its end. *)
Entered == {"for.cond", "for.body", "for.iter", "while.cond", "while.body"}
(* The header of a loop dominates what is generated until the loop ends. *)
HeadersDominate ==
  \A i \in 1..Len(stack) : stack[i].at \in Entered => DominatesFrom(stack[i].on[1], i)

(* A visitor that does not expect any end of its child has called the      *)
(* visitor of an expression, which calls such visitors only.               *)
ExprAbove ==
  \A j \in 1..Len(stack) : \A i \in 1..(j - 1) :
    stack[i].at \notin AnyEnd => stack[j].at \in ExprKinds

(* In a loop, the insertion point is dominated by the header for good. *)
LEMMA HeaderForGood ==
  ASSUME Types, HeadersDominate, NEW i \in 1..Len(stack), stack[i].at \in Entered
  PROVE  ForGood(stack[i].on[1], insert)
<1>1. Len(stack) \in Nat /\ i \in 1..(Len(stack) + 1)
  BY DEF Types
<1> QED
  BY <1>1 DEF HeadersDominate, DominatesFrom, ForGood

(* What is known at the top of the stack. *)
LEMMA AtTargets ==
  ASSUME Types, OpenBlocks, TargetsDiffer, NEW at, At(at)
  PROVE  /\ Top \in Frames(nblocks) /\ Top.at = at /\ Top = stack[Len(stack)]
         /\ Len(stack) \in 1..Len(stack) /\ Len(stack) \in Nat
         /\ OwnTargetsDiffer(Top) /\ TargetsOf(Top) \subseteq 2..nblocks
         /\ insert \in Blocks /\ Held(Top) \subseteq Open \ {insert}
         /\ insert \in Open <=> ~Terminated
         /\ at \notin AnyEnd => ~Terminated
         /\ OnceTerminated
<1>1. Top \in Frames(nblocks) /\ Top.at = at /\ Top = stack[Len(stack)]
      /\ Len(stack) \in 1..Len(stack) /\ Len(stack) \in Nat
  BY AtTop
<1> QED
  BY <1>1, AtOpen, TargetsTyped DEF TargetsDiffer

(* The visitor goes on, or returns, with its targets. *)
Keeps ==
  \/ Leave
  \/ \E f : GoesOn(f) /\ TargetsOf(f) \subseteq TargetsOf(Top) /\ OwnTargetsDiffer(f)

(* The insertion block is terminated with branches to blocks of S, or was  *)
(* terminated before.                                                      *)
LEMMA FlowClose ==
  ASSUME Types, Types', OpenBlocks, TargetsDiffer, NEW at, At(at), Keeps,
         NEW S, NEW t \in Seq(2..nblocks), Ends(t) = S,
         \/ ~Terminated /\ AppendTerminator(t)
         \/ \E b \in 2..nblocks : BranchIfOpen(b) /\ S = {b},
         S \subseteq Goals, \A c \in S : c \in Open \ {insert} \/ ForGood(c, insert),
         insert' \in {insert} \cup TargetsOf(Top)
  PROVE  \E E : /\ Flow(E) /\ Sinks(E) /\ E \subseteq From(insert, S)
                /\ ~Terminated => E = From(insert, S)
<1>1. PICK E : /\ Adds(E) /\ Fresh = {} /\ E \subseteq From(insert, S) /\ (Terminated => E = {})
               /\ ~Terminated => E = From(insert, S)
  <2>1. CASE ~Terminated /\ AppendTerminator(t)
    BY <2>1, AddsTerminator
  <2>2. CASE \E b \in 2..nblocks : BranchIfOpen(b) /\ S = {b}
    <3>1. PICK b \in 2..nblocks : BranchIfOpen(b) /\ S = {b}
      BY <2>2
    <3>2. From(insert, S) = {<<insert, b>>}
      BY <3>1 DEF From
    <3> QED
      BY <3>1, <3>2, AddsBranch
  <2> QED
    BY <2>1, <2>2
<1>2. Open' = Open \ {insert}
  BY AtTargets, Closes
<1>3. Flow(E)
  <2>1. \A e \in E : e[1] = insert /\ e[2] \in S
    BY <1>1 DEF From
  <2> QED
    BY <1>1, <2>1 DEF Flow, Keeps
<1>4. Sinks(E)
  <2>1. \A e \in E : e[1] = insert /\ e[2] \in S /\ insert \in Open
    BY <1>1, AtTargets DEF From
  <2>2. ASSUME NEW X, X \cap Open' = {}, NEW e \in E, e[1] \in X
        PROVE  \E b \in X : (\E d \in E : d[1] = b) /\ \A c \in X : <<b, c>> \in E => ForGood(c, b)
    <3>1. insert \in X /\ e[1] = insert
      BY <2>1, <2>2
    <3>2. \A c \in X : <<insert, c>> \in E => ForGood(c, insert)
      <4>1. ASSUME NEW c \in X, <<insert, c>> \in E PROVE ForGood(c, insert)
        <5>1. c \in S
          BY <2>1, <4>1
        <5> QED
          BY <1>2, <2>2, <5>1
      <4> QED
        BY <4>1
    <3> QED
      BY <3>1, <3>2
  <2> QED
    BY <1>1, <1>2, <2>1, <2>2 DEF Sinks
<1> QED
  BY <1>1, <1>3, <1>4

(* No edge is added. *)
LEMMA FlowNone ==
  ASSUME Types, Types', OpenBlocks, TargetsDiffer, NEW at, At(at), Keeps, insert' = insert,
         UNCHANGED <<nblocks, term>> \/ AppendTerminator(<< >>)
  PROVE  Flow({}) /\ Sinks({})
<1>1. Adds({}) /\ Fresh = {}
  <2>1. From(insert, Ends(<< >>)) = {} /\ << >> \in Seq(2..nblocks)
    BY EndsNone DEF From
  <2> QED
    BY <2>1, AddsNone, AddsTerminator
<1>2. Open' \cap Blocks \subseteq Open
  <2>1. CASE UNCHANGED <<nblocks, term>>
    BY <2>1 DEF Open
  <2>2. CASE AppendTerminator(<< >>)
    <3> SUFFICES ASSUME NEW b \in Blocks, term[b] # << >> PROVE term'[b] # << >>
      BY DEF Open
    <3>1. term[b] \in Seq(Seq(2..nblocks)) /\ DOMAIN term = Blocks /\ insert \in Blocks
      BY DEF Types
    <3>2. Append(term[b], << >>) # << >>
      BY <3>1, SMTT(30)
    <3> QED
      BY <2>2, <3>1, <3>2 DEF AppendTerminator, Appended
  <2> QED
    BY <2>1, <2>2
<1> QED
  BY <1>1, <1>2 DEF Flow, Sinks, Keeps

(* New blocks are created, and the insertion block may branch to them. *)
LEMMA FlowCreate ==
  ASSUME Types, Types', OpenBlocks, TargetsDiffer, NEW at, At(at), ~Terminated,
         NEW k \in 1..4, NEW t \in Seq(2..nblocks'),
         AppendAndCreate(t, k) \/ CreateBlocks(k), Ends(t) \subseteq (nblocks + 1)..(nblocks + k),
         insert' \in {insert} \cup ((nblocks + 1)..(nblocks + k)),
         NEW f, GoesOn(f), TargetsOf(f) \subseteq (nblocks + 1)..(nblocks + k), OwnTargetsDiffer(f)
  PROVE  /\ Fresh = (nblocks + 1)..(nblocks + k)
         /\ AppendAndCreate(t, k) => Flow(From(insert, Ends(t))) /\ Sinks(From(insert, Ends(t)))
         /\ CreateBlocks(k) => Flow({}) /\ Sinks({})
<1>1. /\ Fresh = (nblocks + 1)..(nblocks + k)
      /\ AppendAndCreate(t, k) => Adds(From(insert, Ends(t)))
      /\ CreateBlocks(k) => Adds({})
  BY AddsBlocks
<1>2. Fresh \subseteq Open' /\ Open' \cap Blocks \subseteq Open
  <2>0. Blocks \cap ((nblocks + 1)..(nblocks + k)) = {}
    BY <1>1 DEF Fresh
  <2>1. CASE CreateBlocks(k)
    BY <1>1, <2>0, <2>1, AtTargets, Creates
  <2>2. CASE AppendAndCreate(t, k)
    BY <1>1, <2>0, <2>2, AtTargets, ClosesAndCreates
  <2> QED
    BY <2>1, <2>2
<1>3. ASSUME CreateBlocks(k) PROVE Flow({}) /\ Sinks({})
  BY <1>1, <1>2, <1>3 DEF Flow, Sinks
<1>4. ASSUME AppendAndCreate(t, k)
      PROVE  Flow(From(insert, Ends(t))) /\ Sinks(From(insert, Ends(t)))
  <2>1. Ends(t) \subseteq Fresh
    BY <1>1
  <2> DEFINE E == From(insert, Ends(t))
  <2>2. \A e \in E : e[1] = insert /\ e[2] \in Fresh
    BY <2>1 DEF From
  <2>3. Flow(E)
    BY <1>1, <1>4, <2>2 DEF Flow
  <2>4. Sinks(E)
    <3>1. insert \in Open
      BY AtTargets
    <3>2. \A X : X \cap Open' = {} => \A c \in X : <<insert, c>> \notin E
      BY <1>2, <2>2
    <3> HIDE DEF E
    <3> QED
      BY <1>2, <2>2, <3>1, <3>2 DEF Sinks
  <2> QED
    BY <2>3, <2>4
<1> QED
  BY <1>1, <1>3, <1>4

(* The visitors that call others, or return, and branch nowhere. *)
LEMMA FlowQuiet ==
  ASSUME Types, Types', OpenBlocks, TargetsDiffer,
         \/ FinishFuncDecl \/ VisitScopeChild \/ LeaveScope \/ VisitScope
         \/ VisitExprStmt \/ FinishExprStmt \/ VisitIfStmt
         \/ VisitReturnStmt \/ FinishReturnStmt
         \/ VisitLeafExpr \/ VisitOperator \/ FinishUnaryExpr \/ BinaryLeft \/ FinishBinaryExpr
  PROVE  Flow({}) /\ Sinks({})
<1> USE DEF GoesOn
<1>1. ASSUME NEW f, f.at \in NoneHeld, GoesOn(f) PROVE Keeps
  BY <1>1, TargetsAre, Zenon DEF Keeps
<1>2. ASSUME NEW at, At(at), Leave, insert' = insert,
             UNCHANGED <<nblocks, term>> \/ AppendTerminator(<< >>)
      PROVE  Flow({}) /\ Sinks({})
  <2>1. Keeps
    BY <1>2 DEF Keeps
  <2> QED
    BY <1>2, <2>1, FlowNone
<1>3. ASSUME NEW at, At(at), NEW f, f.at \in NoneHeld, GoesOn(f), UNCHANGED <<insert, nblocks, term>>
      PROVE  Flow({}) /\ Sinks({})
  <2>1. Keeps
    BY <1>1, <1>3
  <2> QED
    BY <1>3, <2>1, FlowNone
<1>4. CASE FinishFuncDecl
  BY <1>2, <1>4 DEF FinishFuncDecl
<1>5. CASE VisitScopeChild
  <2>1. At("scope") /\ Top.at \in NoneHeld /\ GoesOn(Top)
    BY <1>5, AtTop DEF VisitScopeChild, NoneHeld
  <2> QED
    BY <1>3, <1>5, <2>1 DEF VisitScopeChild
<1>6. CASE LeaveScope \/ FinishExprStmt
  BY <1>2, <1>6 DEF LeaveScope, FinishExprStmt
<1>7. CASE VisitScope
  <2>1. Frame("scope", << >>).at \in NoneHeld
    BY DEF Frame, NoneHeld
  <2> QED
    BY <1>3, <1>7, <2>1 DEF VisitScope
<1>8. CASE VisitExprStmt
  <2>1. Frame("drop", << >>).at \in NoneHeld
    BY DEF Frame, NoneHeld
  <2> QED
    BY <1>3, <1>8, <2>1 DEF VisitExprStmt
<1>9. CASE VisitIfStmt
  <2>1. \A at \in {"if.cond", "ifelse.cond"} : Frame(at, << >>).at \in NoneHeld
    BY DEF Frame, NoneHeld
  <2> QED
    BY <1>3, <1>9, <2>1 DEF VisitIfStmt
<1>10. CASE VisitReturnStmt
  <2>1. Frame("ret.expr", << >>).at \in NoneHeld
    BY DEF Frame, NoneHeld
  <2>2. CASE isVoid
    BY <1>2, <1>10, <2>2 DEF VisitReturnStmt
  <2>3. CASE ~isVoid
    BY <1>3, <1>10, <2>1, <2>3 DEF VisitReturnStmt
  <2> QED
    BY <2>2, <2>3
<1>11. CASE FinishReturnStmt
  BY <1>2, <1>11 DEF FinishReturnStmt
<1>12. CASE VisitLeafExpr \/ FinishUnaryExpr \/ FinishBinaryExpr
  BY <1>2, <1>12 DEF VisitLeafExpr, FinishUnaryExpr, FinishBinaryExpr
<1>13. CASE VisitOperator
  <2>1. \A at \in {"unary", "binary.lhs", "logic.lhs"} : Frame(at, << >>).at \in NoneHeld
    BY DEF Frame, NoneHeld
  <2> QED
    BY <1>3, <1>13, <2>1 DEF VisitOperator
<1>14. CASE BinaryLeft
  <2>1. Frame("binary.rhs", <<val>>).at \in NoneHeld
    BY DEF Frame, NoneHeld
  <2> QED
    BY <1>3, <1>14, <2>1 DEF BinaryLeft
<1> QED
  BY <1>4, <1>5, <1>6, <1>7, <1>8, <1>9, <1>10, <1>11, <1>12, <1>13, <1>14

(* The insertion block branches to pending blocks of the frame. *)
LEMMA FlowPending ==
  ASSUME Types, Types', OpenBlocks, TargetsDiffer,
         \/ IfElseThen \/ FinishIfStmt \/ ForInit \/ ForCond \/ ForBody \/ WhileCond
         \/ FinishLogicExpr
  PROVE  \E E : /\ Flow(E) /\ Sinks(E)
                /\ ForInit => E = {<<insert, Top.on[1]>>}
                /\ FinishLogicExpr => E = {<<insert, Top.on[2]>>}
<1> USE DEF GoesOn
<1> DEFINE P == {"if.then", "ifelse.then", "ifelse.else", "for.init", "for.cond", "for.body",
                 "while.cond", "logic.rhs"}
<1>1. PICK at \in P : At(at)
  BY DEF IfElseThen, FinishIfStmt, ForInit, ForCond, ForBody, WhileCond, FinishLogicExpr
<1>2. /\ Top \in Frames(nblocks) /\ Top.at = at /\ OwnTargetsDiffer(Top) /\ nblocks \in Nat \ {0}
      /\ Held(Top) \subseteq Open \ {insert} /\ TargetsOf(Top) \subseteq 2..nblocks
      /\ at \notin AnyEnd => ~Terminated
  BY <1>1, AtTargets, SMTT(30) DEF Types
<1>3. \A b, c : /\ <<b>> \in Seq({b}) /\ Ends(<<b>>) = {b}
                /\ <<b, c>> \in Seq({b, c}) /\ Ends(<<b, c>>) = {b, c}
                /\ From(insert, {b}) = {<<insert, b>>}
  BY DEF Ends, From
<1>4. ASSUME NEW S, S \subseteq Held(Top), NEW t \in Seq(S), Ends(t) = S, Keeps,
             \/ ~Terminated /\ AppendTerminator(t)
             \/ \E b : BranchIfOpen(b) /\ S = {b},
             S \subseteq TargetsOf(Top), insert' \in {insert} \cup TargetsOf(Top)
      PROVE  \E E : Flow(E) /\ Sinks(E) /\ (~Terminated => E = From(insert, S))
  <2>1. S \subseteq 2..nblocks /\ S \subseteq Goals /\ t \in Seq(2..nblocks)
    <3>1. S \subseteq 2..nblocks /\ S \subseteq Goals
      BY <1>2, <1>4 DEF Goals
    <3> QED
      BY <1>4, <3>1, SeqMonotonic
  <2>2. \A c \in S : c \in Open \ {insert}
    BY <1>2, <1>4
  <2>3. \/ ~Terminated /\ AppendTerminator(t)
        \/ \E b \in 2..nblocks : BranchIfOpen(b) /\ S = {b}
    BY <1>4, <2>1
  <2>4. \E E : /\ Flow(E) /\ Sinks(E) /\ E \subseteq From(insert, S)
               /\ ~Terminated => E = From(insert, S)
    BY <1>1, <1>4, <2>1, <2>2, <2>3, FlowClose
  <2> QED
    BY <2>4
<1>12. ASSUME NEW b, b \in Held(Top), b \in TargetsOf(Top), Keeps, insert' \in TargetsOf(Top),
              (~Terminated /\ AppendTerminator(<<b>>)) \/ BranchIfOpen(b)
       PROVE  \E E : Flow(E) /\ Sinks(E) /\ (~Terminated => E = {<<insert, b>>})
  <2>1. {b} \subseteq Held(Top) /\ {b} \subseteq TargetsOf(Top) /\ insert' \in {insert} \cup TargetsOf(Top)
    BY <1>12
  <2>2. \/ ~Terminated /\ AppendTerminator(<<b>>)
        \/ \E c : BranchIfOpen(c) /\ {b} = {c}
    BY <1>12
  <2>3. \E E : Flow(E) /\ Sinks(E) /\ (~Terminated => E = From(insert, {b}))
    BY <1>3, <1>4, <1>12, <2>1, <2>2
  <2> QED
    BY <1>3, <2>3
<1>13. ASSUME NEW b, NEW c, {b, c} \subseteq Held(Top), {b, c} \subseteq TargetsOf(Top), Keeps,
              insert' \in TargetsOf(Top), ~Terminated, AppendTerminator(<<b, c>>)
       PROVE  \E E : Flow(E) /\ Sinks(E)
  <2>1. insert' \in {insert} \cup TargetsOf(Top)
    BY <1>13
  <2>2. PICK S, t : S = {b, c} /\ t = <<b, c>>
    OBVIOUS
  <2>3. S \subseteq Held(Top) /\ S \subseteq TargetsOf(Top) /\ t \in Seq(S) /\ Ends(t) = S
    BY <1>3, <1>13, <2>2
  <2>4. ~Terminated /\ AppendTerminator(t)
    BY <1>13, <2>2
  <2> QED
    BY <1>4, <1>13, <2>1, <2>3, <2>4
<1>5. CASE IfElseThen
  <2> DEFINE b == Top.on[2]  f == Frame("ifelse.else", <<Top.on[2]>>)
  <2>1. Top.at = "ifelse.then" /\ BranchIfOpen(b) /\ insert' = Top.on[1] /\ GoesOn(f)
    BY <1>5, AtTop DEF IfElseThen
  <2>2. TargetsOf(Top) = {Top.on[1], Top.on[2]} /\ Held(Top) = {Top.on[1], Top.on[2]}
    BY <2>1, TargetsAre, HeldBy
  <2>3. TargetsOf(f) = {b} /\ OwnTargetsDiffer(f)
    BY TargetsAre DEF Frame
  <2>4. Keeps
    BY <2>1, <2>2, <2>3, Zenon DEF Keeps
  <2>5. \E E : Flow(E) /\ Sinks(E)
    BY <1>12, <2>1, <2>2, <2>4
  <2> QED
    BY <2>1, <2>5, AtTop DEF ForInit, FinishLogicExpr
<1>6. CASE FinishIfStmt
  <2>1. Top.at \in {"if.then", "ifelse.else"} /\ BranchIfOpen(Top.on[1]) /\ insert' = Top.on[1] /\ Keeps
    BY <1>6, AtTop DEF FinishIfStmt, Keeps
  <2>2. TargetsOf(Top) = {Top.on[1]} /\ Held(Top) = {Top.on[1]}
    BY <2>1, TargetsAre, HeldBy
  <2>3. \E E : Flow(E) /\ Sinks(E)
    BY <1>12, <2>1, <2>2
  <2> QED
    BY <2>1, <2>3, AtTop DEF ForInit, FinishLogicExpr
<1>7. CASE ForInit
  <2> DEFINE f == Frame("for.cond", Top.on)
  <2>1. /\ Top.at = "for.init" /\ AppendTerminator(<<Top.on[1]>>) /\ insert' = Top.on[1] /\ GoesOn(f)
        /\ at = "for.init"
    BY <1>2, <1>7, AtTop DEF ForInit
  <2>2. /\ TargetsOf(Top) = {Top.on[1], Top.on[2], Top.on[3], Top.on[4]}
        /\ Held(Top) = {Top.on[1], Top.on[2], Top.on[3], Top.on[4]}
        /\ ~Terminated
    BY <1>2, <2>1, TargetsAre, HeldBy DEF AnyEnd
  <2>3. TargetsOf(f) = TargetsOf(Top) /\ OwnTargetsDiffer(f)
    BY <1>2, <2>1, TargetsAre DEF Frame
  <2>4. Keeps
    BY <2>1, <2>3, Zenon DEF Keeps
  <2>5. \E E : Flow(E) /\ Sinks(E) /\ E = {<<insert, Top.on[1]>>}
    BY <1>12, <2>1, <2>2, <2>4
  <2> QED
    BY <2>1, <2>5, AtTop DEF FinishLogicExpr
<1>8. CASE ForCond
  <2> DEFINE f == Frame("for.body", Top.on)
  <2>1. /\ Top.at = "for.cond" /\ AppendTerminator(<<Top.on[2], Top.on[4]>>) /\ insert' = Top.on[2]
        /\ GoesOn(f) /\ at = "for.cond"
    BY <1>2, <1>8, AtTop DEF ForCond
  <2>2. /\ TargetsOf(Top) = {Top.on[1], Top.on[2], Top.on[3], Top.on[4]}
        /\ Held(Top) = {Top.on[2], Top.on[3], Top.on[4]}
        /\ ~Terminated
    BY <1>2, <2>1, TargetsAre, HeldBy DEF AnyEnd
  <2>3. TargetsOf(f) = TargetsOf(Top) /\ OwnTargetsDiffer(f)
    BY <1>2, <2>1, TargetsAre DEF Frame
  <2>4. Keeps
    BY <2>1, <2>3, Zenon DEF Keeps
  <2>5. \E E : Flow(E) /\ Sinks(E)
    BY <1>13, <2>1, <2>2, <2>4
  <2> QED
    BY <2>1, <2>5, AtTop DEF ForInit, FinishLogicExpr
<1>9. CASE ForBody
  <2> DEFINE f == Frame("for.iter", Top.on)
  <2>1. Top.at = "for.body" /\ BranchIfOpen(Top.on[3]) /\ insert' = Top.on[3] /\ GoesOn(f)
    BY <1>9, AtTop DEF ForBody
  <2>2. /\ TargetsOf(Top) = {Top.on[1], Top.on[2], Top.on[3], Top.on[4]}
        /\ Held(Top) = {Top.on[3], Top.on[4]}
    BY <2>1, TargetsAre, HeldBy
  <2>3. TargetsOf(f) = TargetsOf(Top) /\ OwnTargetsDiffer(f)
    BY <1>2, <2>1, TargetsAre DEF Frame
  <2>4. Keeps
    BY <2>1, <2>3, Zenon DEF Keeps
  <2>5. \E E : Flow(E) /\ Sinks(E)
    BY <1>12, <2>1, <2>2, <2>4
  <2> QED
    BY <2>1, <2>5, AtTop DEF ForInit, FinishLogicExpr
<1>10. CASE WhileCond
  <2> DEFINE f == Frame("while.body", Top.on)
  <2>1. /\ Top.at = "while.cond" /\ AppendTerminator(<<Top.on[2], Top.on[3]>>) /\ insert' = Top.on[2]
        /\ GoesOn(f) /\ at = "while.cond"
    BY <1>2, <1>10, AtTop DEF WhileCond
  <2>2. /\ TargetsOf(Top) = {Top.on[1], Top.on[2], Top.on[3]} /\ Held(Top) = {Top.on[2], Top.on[3]}
        /\ ~Terminated
    BY <1>2, <2>1, TargetsAre, HeldBy DEF AnyEnd
  <2>3. TargetsOf(f) = TargetsOf(Top) /\ OwnTargetsDiffer(f)
    BY <1>2, <2>1, TargetsAre DEF Frame
  <2>4. Keeps
    BY <2>1, <2>3, Zenon DEF Keeps
  <2>5. \E E : Flow(E) /\ Sinks(E)
    BY <1>13, <2>1, <2>2, <2>4
  <2> QED
    BY <2>1, <2>5, AtTop DEF ForInit, FinishLogicExpr
<1>11. CASE FinishLogicExpr
  <2>1. /\ Top.at = "logic.rhs" /\ AppendTerminator(<<Top.on[2]>>) /\ insert' = Top.on[2] /\ Keeps
        /\ at = "logic.rhs"
    BY <1>2, <1>11, AtTop DEF FinishLogicExpr, Keeps
  <2>2. TargetsOf(Top) = {Top.on[2]} /\ Held(Top) = {Top.on[2]} /\ ~Terminated
    BY <1>2, <2>1, TargetsAre, HeldBy DEF AnyEnd
  <2>3. \E E : Flow(E) /\ Sinks(E) /\ E = {<<insert, Top.on[2]>>}
    BY <1>12, <2>1, <2>2
  <2> QED
    BY <2>1, <2>3, AtTop DEF ForInit
<1> QED
  BY <1>5, <1>6, <1>7, <1>8, <1>9, <1>10, <1>11

(* The body of a loop branches back to its header. *)
LEMMA FlowBack ==
  ASSUME Types, Types', OpenBlocks, TargetsDiffer, HeadersDominate, FinishForStmt \/ FinishWhileStmt
  PROVE  \E E : Flow(E) /\ Sinks(E)
<1>1. PICK at \in {"for.iter", "while.body"} : At(at)
  BY DEF FinishForStmt, FinishWhileStmt
<1> DEFINE header == Top.on[1]
<1>2. /\ Top.at = at /\ Top = stack[Len(stack)] /\ Len(stack) \in 1..Len(stack)
      /\ TargetsOf(Top) \subseteq 2..nblocks
      /\ at = "for.iter" => ~Terminated
  BY <1>1, AtTargets DEF AnyEnd
<1>3. /\ \/ ~Terminated /\ AppendTerminator(<<header>>)
         \/ BranchIfOpen(header)
      /\ Keeps
      /\ at = "for.iter" => insert' = Top.on[4]
      /\ at = "while.body" => insert' = Top.on[3]
  <2>1. CASE FinishForStmt
    <3>1. At("for.iter") /\ at = "for.iter"
      BY <1>1, <2>1 DEF FinishForStmt, At
    <3> QED
      BY <1>2, <2>1, <3>1 DEF FinishForStmt, Keeps
  <2>2. CASE FinishWhileStmt
    <3>1. At("while.body") /\ at = "while.body"
      BY <1>1, <2>2 DEF FinishWhileStmt, At
    <3> QED
      BY <1>2, <2>2, <3>1 DEF FinishWhileStmt, Keeps
  <2> QED
    BY <2>1, <2>2
<1>4. header \in TargetsOf(Top) /\ insert' \in TargetsOf(Top)
  BY <1>1, <1>2, <1>3, TargetsAre
<1>5. ForGood(header, insert)
  <2>1. stack[Len(stack)].at \in Entered
    BY <1>1, <1>2 DEF Entered
  <2> QED
    BY <1>2, <2>1, HeaderForGood
<1> HIDE DEF header
<1>6. PICK S, t : S = {header} /\ t = <<header>>
  OBVIOUS
<1>7. S \subseteq Goals /\ t \in Seq(2..nblocks) /\ Ends(t) = S /\ header \in 2..nblocks
  <2>1. header \in Goals /\ header \in 2..nblocks
    BY <1>2, <1>4 DEF Goals
  <2>2. Ends(<<header>>) = {header}
    BY DEF Ends
  <2> QED
    BY <1>6, <2>1, <2>2
<1>8. \A c \in S : c \in Open \ {insert} \/ ForGood(c, insert)
  BY <1>5, <1>6
<1>9. insert' \in {insert} \cup TargetsOf(Top)
  BY <1>4
<1>10. \/ ~Terminated /\ AppendTerminator(t)
       \/ \E b \in 2..nblocks : BranchIfOpen(b) /\ S = {b}
  BY <1>3, <1>6, <1>7
<1> QED
  BY <1>1, <1>3, <1>7, <1>8, <1>9, <1>10, FlowClose

(* break and continue go to the blocks of the innermost loop around. *)
LEMMA LastLoop ==
  ASSUME Types, TargetsMatchLoops, ExprAbove, At("stmt"), InLoop
  PROVE  \E m \in 1..Len(stack) : /\ stack[m].at \in BodyKinds
                                  /\ breakTargets[Len(breakTargets)] = ExitBB(stack[m])
                                  /\ continueTargets[Len(continueTargets)] = NextBB(stack[m])
<1>1. Len(stack) \in Nat \ {0} /\ DOMAIN stack = 1..Len(stack) /\ stack[Len(stack)].at = "stmt"
  BY AtTop DEF Types
<1>2. Loops(Len(stack)) # {} /\ Loops(Len(stack)) \subseteq 1..Len(stack)
  BY <1>1 DEF InLoop, Loops, LoopKinds
<1>3. PICK m \in Loops(Len(stack)) : \A j \in Loops(Len(stack)) : j <= m
  <2> DEFINE U == {n \in Nat : \A S \in SUBSET (1..n) : S # {} => \E m \in S : \A j \in S : j <= m}
  <2>1. 0 \in U
    <3>1. SUBSET (1..0) = {{}}
      OBVIOUS
    <3> QED
      BY <3>1
  <2>2. ASSUME NEW n \in Nat, n \in U PROVE n + 1 \in U
    <3> SUFFICES ASSUME NEW S \in SUBSET (1..(n + 1)), S # {}
                 PROVE  \E m \in S : \A j \in S : j <= m
      OBVIOUS
    <3>1. CASE n + 1 \in S
      BY <3>1
    <3>2. CASE n + 1 \notin S
      <4>1. S \in SUBSET (1..n)
        BY <3>2
      <4> QED
        BY <2>2, <4>1
    <3> QED
      BY <3>1, <3>2
  <2>3. Nat \subseteq U
    <3> HIDE DEF U
    <3> QED
      BY <2>1, <2>2, SetInduction
  <2> QED
    BY <1>1, <1>2, <2>3
<1>4. m \in 1..Len(stack) /\ stack[m].at \in LoopKinds
  BY DEF Loops
<1>5. Loops(m) = Loops(Len(stack))
  <2>1. Loops(Len(stack)) \subseteq 1..m
    BY <1>1, <1>2, <1>3, <1>4
  <2> QED
    BY <1>1, <1>4, <2>1 DEF Loops
<1>6. LoopDepth(m) = Len(breakTargets) /\ LoopDepth(m) = Len(continueTargets)
  BY <1>5 DEF TargetsMatchLoops, LoopDepth
<1>7. stack[m].at \in BodyKinds
  <2>1. m \in 1..(Len(stack) - 1)
    <3>1. m # Len(stack)
      BY <1>1, <1>4 DEF LoopKinds
    <3>2. m \in Int /\ 1 <= m /\ m <= Len(stack)
      BY <1>1, <1>4
    <3>3. \A n \in Nat : m <= n /\ m # n => m \in 1..(n - 1)
      BY <3>2
    <3> QED
      BY <1>1, <3>1, <3>2, <3>3
  <2>2. stack[m].at \in AnyEnd
    <3>1. stack[Len(stack)].at \notin ExprKinds /\ Len(stack) \in 1..Len(stack)
      BY <1>1 DEF ExprKinds
    <3> QED
      BY <2>1, <3>1 DEF ExprAbove
  <2> QED
    BY <1>4, <2>2 DEF LoopKinds, AnyEnd, BodyKinds
<1> QED
  BY <1>4, <1>6, <1>7 DEF TargetsMatchLoops

(* break and continue branch to pending blocks, or back to a header. *)
LEMMA FlowJump ==
  ASSUME Types, Types', OpenBlocks, TargetsMatchLoops, TargetsDiffer, HeadersDominate, ExprAbove,
         VisitBreakStmt \/ VisitContinueStmt
  PROVE  \E E : Flow(E) /\ Sinks(E)
<1>1. At("stmt") /\ InLoop /\ Leave /\ insert' = insert
  BY DEF VisitBreakStmt, VisitContinueStmt
<1>2. ~Terminated /\ OnceTerminated
  BY <1>1, AtTargets DEF AnyEnd
<1>3. PICK m \in 1..Len(stack) : /\ stack[m].at \in BodyKinds
                                 /\ breakTargets[Len(breakTargets)] = ExitBB(stack[m])
                                 /\ continueTargets[Len(continueTargets)] = NextBB(stack[m])
  BY <1>1, LastLoop
<1> DEFINE f == stack[m]
<1>4. f \in Frames(nblocks) /\ TargetsOf(f) \subseteq 2..nblocks /\ TargetsOf(f) \subseteq Goals
  BY <1>3, TargetsTyped DEF Goals
<1>5. PICK c : c \in {ExitBB(f), NextBB(f)} /\ AppendTerminator(<<c>>)
  BY <1>3 DEF VisitBreakStmt, VisitContinueStmt
<1>6. c \in TargetsOf(f) /\ (c \in Open \ {insert} \/ ForGood(c, insert))
  <2>1. \A k \in PendingIx(f.at) : f.on[k] \in Open \ {insert}
    <3> SUFFICES ASSUME NEW k \in PendingIx(f.at) PROVE f.on[k] \in Open \ {insert}
      OBVIOUS
    <3>1. <<m, k>> \in Slots /\ Slot(<<m, k>>) = f.on[k]
      BY DEF Slots, Slot, PendingIx
    <3>2. Open \ {insert} = {Slot(s) : s \in Slots}
      BY DEF OpenBlocks, Pendings, OpenPending
    <3> QED
      BY <3>1, <3>2
  <2>2. CASE f.at = "for.body"
    <3>1. Len(f.on) = 4
      BY <1>4, <2>2, FrameSizes DEF Frames, FrameOK
    <3>2. c \in {f.on[3], f.on[4]} /\ 3 \in PendingIx(f.at) /\ 4 \in PendingIx(f.at)
      BY <1>5, <2>2, <3>1 DEF ExitBB, NextBB, PendingIx
    <3> QED
      BY <2>1, <2>2, <3>2, TargetsAre
  <2>3. CASE f.at = "while.body"
    <3>1. Len(f.on) = 3
      BY <1>4, <2>3, FrameSizes DEF Frames, FrameOK
    <3>2. c \in {f.on[1], f.on[3]} /\ 3 \in PendingIx(f.at)
      BY <1>5, <2>3, <3>1 DEF ExitBB, NextBB, PendingIx
    <3>3. ForGood(f.on[1], insert)
      BY <2>3, HeaderForGood DEF Entered
    <3> QED
      BY <2>1, <2>3, <3>2, <3>3, TargetsAre
  <2> QED
    BY <1>3, <2>2, <2>3 DEF BodyKinds
<1>7. PICK S, t : S = {c} /\ t = <<c>>
  OBVIOUS
<1>8. S \subseteq Goals /\ t \in Seq(2..nblocks) /\ Ends(t) = S
  BY <1>4, <1>6, <1>7 DEF Ends
<1>9. \A b \in S : b \in Open \ {insert} \/ ForGood(b, insert)
  BY <1>6, <1>7
<1>10. ~Terminated /\ AppendTerminator(t) /\ Keeps /\ insert' \in {insert} \cup TargetsOf(Top)
  BY <1>1, <1>2, <1>5, <1>7 DEF Keeps
<1> QED
  BY <1>1, <1>8, <1>9, <1>10, FlowClose

(* if, while and the short-circuit operators branch to new blocks; for only *)
(* creates them.                                                           *)
LEMMA FlowNew ==
  ASSUME Types, Types', OpenBlocks, TargetsDiffer,
         IfElseCond \/ IfCond \/ VisitWhileStmt \/ LogicLeft \/ VisitForStmt
  PROVE  \E E : /\ Flow(E) /\ Sinks(E)
                /\ VisitWhileStmt => /\ Fresh = {nblocks + 1, nblocks + 2, nblocks + 3}
                                     /\ E = {<<insert, nblocks + 1>>}
                /\ LogicLeft => /\ Fresh = {nblocks + 1, nblocks + 2}
                                /\ E = From(insert, {nblocks + 1, nblocks + 2})
                /\ VisitForStmt => /\ Fresh = {nblocks + 1, nblocks + 2, nblocks + 3, nblocks + 4}
                                   /\ E = {}
<1> USE DEF GoesOn
<1> DEFINE n == nblocks
<1>1. /\ n \in Nat \ {0} /\ insert \in Blocks
      /\ (n + 1)..(n + 2) = {n + 1, n + 2}
      /\ (n + 1)..(n + 3) = {n + 1, n + 2, n + 3}
      /\ (n + 1)..(n + 4) = {n + 1, n + 2, n + 3, n + 4}
  BY NewBlocks, SMTT(30) DEF Types
<1>2. \A b, c : Ends(<<b, c>>) = {b, c} /\ Ends(<<b>>) = {b} /\ From(insert, {b}) = {<<insert, b>>}
  BY DEF Ends, From
<1>3. ~Terminated
  <2>1. PICK at \in {"ifelse.cond", "if.cond", "stmt", "logic.lhs"} : At(at)
    BY DEF IfElseCond, IfCond, VisitWhileStmt, LogicLeft, VisitForStmt
  <2> QED
    BY <2>1, AtTargets DEF AnyEnd
<1>4. CASE IfElseCond
  <2> DEFINE f == Frame("ifelse.then", <<n + 2, n + 3>>)  t == <<n + 1, n + 2>>
  <2>1. At("ifelse.cond") /\ AppendAndCreate(t, 3) /\ insert' = n + 1 /\ GoesOn(f)
    BY <1>4 DEF IfElseCond
  <2>2. TargetsOf(f) = {n + 2, n + 3} /\ OwnTargetsDiffer(f)
    BY <1>1, TargetsAre DEF Frame
  <2>3. t \in Seq(2..nblocks') /\ Ends(t) \subseteq (n + 1)..(n + 3)
    BY <1>1, <1>2, <2>1 DEF AppendAndCreate
  <2>4. insert' \in {insert} \cup ((n + 1)..(n + 3)) /\ TargetsOf(f) \subseteq (n + 1)..(n + 3)
    BY <1>1, <2>1, <2>2
  <2>5. \E E : Flow(E) /\ Sinks(E)
    <3> HIDE DEF f, t
    <3> QED
      BY <1>3, <2>1, <2>2, <2>3, <2>4, FlowCreate
  <2> QED
    BY <2>1, <2>5 DEF VisitWhileStmt, LogicLeft, VisitForStmt, At
<1>5. CASE IfCond
  <2> DEFINE f == Frame("if.then", <<n + 2>>)  t == <<n + 1, n + 2>>
  <2>1. At("if.cond") /\ AppendAndCreate(t, 2) /\ insert' = n + 1 /\ GoesOn(f)
    BY <1>5 DEF IfCond
  <2>2. TargetsOf(f) = {n + 2} /\ OwnTargetsDiffer(f)
    BY <1>1, TargetsAre DEF Frame
  <2>3. t \in Seq(2..nblocks') /\ Ends(t) \subseteq (n + 1)..(n + 2)
    BY <1>1, <1>2, <2>1 DEF AppendAndCreate
  <2>4. insert' \in {insert} \cup ((n + 1)..(n + 2)) /\ TargetsOf(f) \subseteq (n + 1)..(n + 2)
    BY <1>1, <2>1, <2>2
  <2>5. \E E : Flow(E) /\ Sinks(E)
    <3> HIDE DEF f, t
    <3> QED
      BY <1>3, <2>1, <2>2, <2>3, <2>4, FlowCreate
  <2> QED
    BY <2>1, <2>5 DEF VisitWhileStmt, LogicLeft, VisitForStmt, At
<1>6. CASE VisitWhileStmt
  <2> DEFINE f == Frame("while.cond", <<n + 1, n + 2, n + 3>>)  t == <<n + 1>>
  <2>1. At("stmt") /\ AppendAndCreate(t, 3) /\ insert' = n + 1 /\ GoesOn(f)
    BY <1>6 DEF VisitWhileStmt
  <2>2. TargetsOf(f) = {n + 1, n + 2, n + 3} /\ OwnTargetsDiffer(f)
    BY <1>1, TargetsAre DEF Frame
  <2>3. t \in Seq(2..nblocks') /\ Ends(t) \subseteq (n + 1)..(n + 3)
    BY <1>1, <1>2, <2>1 DEF AppendAndCreate
  <2>4. insert' \in {insert} \cup ((n + 1)..(n + 3)) /\ TargetsOf(f) \subseteq (n + 1)..(n + 3)
    BY <1>1, <2>1, <2>2
  <2>5. From(insert, Ends(t)) = {<<insert, n + 1>>}
    BY <1>2
  <2>6. \E E : Flow(E) /\ Sinks(E) /\ E = From(insert, Ends(t)) /\ Fresh = (n + 1)..(n + 3)
    <3> HIDE DEF f, t
    <3> QED
      BY <1>3, <2>1, <2>2, <2>3, <2>4, FlowCreate
  <2>7. ~LogicLeft /\ ~VisitForStmt
    <3>1. CASE VisitForStmt
      <4>1. nblocks' = n + 3 /\ nblocks' = n + 4
        BY <2>1, <3>1 DEF AppendAndCreate, VisitForStmt, CreateBlocks
      <4> QED
        BY <1>1, <4>1
    <3> QED
      BY <2>1, <3>1 DEF LogicLeft, At
  <2> QED
    BY <1>1, <2>5, <2>6, <2>7
<1>7. CASE LogicLeft
  <2> DEFINE f == Frame("logic.rhs", <<insert, n + 2>>)
  <2>1. PICK t \in {<<n + 1, n + 2>>, <<n + 2, n + 1>>} : AppendAndCreate(t, 2)
    BY <1>7 DEF LogicLeft
  <2>2. At("logic.lhs") /\ insert' = n + 1 /\ GoesOn(f)
    BY <1>7 DEF LogicLeft
  <2>3. TargetsOf(f) = {n + 2} /\ OwnTargetsDiffer(f)
    BY <1>1, TargetsAre DEF Frame
  <2>4. t \in Seq(2..nblocks') /\ Ends(t) = {n + 1, n + 2} /\ Ends(t) \subseteq (n + 1)..(n + 2)
    <3>1. CASE t = <<n + 1, n + 2>>
      BY <1>1, <1>2, <2>1, <3>1 DEF AppendAndCreate
    <3>2. CASE t = <<n + 2, n + 1>>
      BY <1>1, <1>2, <2>1, <3>2 DEF AppendAndCreate
    <3> QED
      BY <3>1, <3>2
  <2>5. insert' \in {insert} \cup ((n + 1)..(n + 2)) /\ TargetsOf(f) \subseteq (n + 1)..(n + 2)
    BY <1>1, <2>2, <2>3
  <2>6. \E E : Flow(E) /\ Sinks(E) /\ E = From(insert, Ends(t)) /\ Fresh = (n + 1)..(n + 2)
    <3>1. t \in Seq(2..nblocks') /\ 2 \in 1..4
      BY <2>4
    <3> HIDE DEF f
    <3>2. /\ Fresh = (n + 1)..(n + 2)
          /\ Flow(From(insert, Ends(t))) /\ Sinks(From(insert, Ends(t)))
      BY <1>3, <2>1, <2>2, <2>3, <2>4, <2>5, <3>1, FlowCreate
    <3> QED
      BY <3>2
  <2>7. ~VisitWhileStmt /\ ~VisitForStmt
    BY <2>2 DEF VisitWhileStmt, VisitForStmt, At
  <2> QED
    BY <1>1, <2>4, <2>6, <2>7
<1>8. CASE VisitForStmt
  <2> DEFINE f == Frame("for.init", <<n + 1, n + 2, n + 3, n + 4>>)
  <2>1. At("stmt") /\ CreateBlocks(4) /\ insert' = insert /\ GoesOn(f)
    BY <1>8 DEF VisitForStmt
  <2>2. TargetsOf(f) = {n + 1, n + 2, n + 3, n + 4} /\ OwnTargetsDiffer(f)
    BY <1>1, TargetsAre DEF Frame
  <2>3. << >> \in Seq(2..nblocks') /\ Ends(<< >>) \subseteq (n + 1)..(n + 4)
    BY EndsNone
  <2>4. insert' \in {insert} \cup ((n + 1)..(n + 4)) /\ TargetsOf(f) \subseteq (n + 1)..(n + 4)
    BY <1>1, <2>1, <2>2
  <2>5. Flow({}) /\ Sinks({}) /\ Fresh = (n + 1)..(n + 4)
    <3>1. PICK t : t = << >>
      OBVIOUS
    <3>2. t \in Seq(2..nblocks') /\ Ends(t) \subseteq (n + 1)..(n + 4) /\ 4 \in 1..4
      BY <2>3, <3>1
    <3> HIDE DEF f
    <3> QED
      BY <1>3, <2>1, <2>2, <2>4, <3>2, FlowCreate
  <2>6. ~LogicLeft /\ ~VisitWhileStmt
    <3>1. CASE VisitWhileStmt
      <4>1. nblocks' = n + 3 /\ nblocks' = n + 4
        BY <2>1, <3>1 DEF AppendAndCreate, VisitWhileStmt, CreateBlocks
      <4> QED
        BY <1>1, <4>1
    <3> QED
      BY <2>1, <3>1 DEF LogicLeft, At
  <2> QED
    BY <1>1, <2>5, <2>6
<1> QED
  BY <1>4, <1>5, <1>6, <1>7, <1>8

(* A for loop without a condition: two blocks are closed at once. *)
LEMMA FlowNoCond ==
  ASSUME Types, Types', OpenBlocks, TargetsDiffer, ForInitNoCond
  PROVE  LET E == {<<insert, Top.on[1]>>, <<Top.on[1], Top.on[2]>>} IN Flow(E) /\ Sinks(E)
<1> DEFINE f == Frame("for.body", Top.on)
           cond == Top.on[1]
           body == Top.on[2]
           code == Appended(term, insert, <<cond>>)
           E == {<<insert, cond>>, <<cond, body>>}
<1>1. /\ At("for.init") /\ GoesOn(f) /\ nblocks' = nblocks /\ insert' = body /\ Top.at = "for.init"
      /\ term' = Appended(code, cond, <<body>>)
  BY AtTop DEF ForInitNoCond, GoesOn
<1>2. /\ TargetsOf(Top) = {Top.on[1], Top.on[2], Top.on[3], Top.on[4]}
      /\ Held(Top) = {Top.on[1], Top.on[2], Top.on[3], Top.on[4]}
      /\ OwnTargetsDiffer(Top) /\ cond # body
      /\ insert \in Open /\ cond \in Open \ {insert} /\ body \in Open \ {insert}
      /\ TargetsOf(Top) \subseteq 2..nblocks
  BY <1>1, AtTargets, TargetsAre, HeldBy DEF AnyEnd
<1>3. TargetsOf(f) = TargetsOf(Top) /\ OwnTargetsDiffer(f)
  BY <1>1, <1>2, TargetsAre DEF Frame
<1>4. Blocks' = Blocks /\ Fresh = {} /\ DOMAIN term = Blocks /\ insert \in Blocks /\ cond \in Blocks /\ body \in Blocks
  BY <1>1, <1>2 DEF Blocks, Fresh, Types, Open
<1>5. /\ term[insert] = << >> /\ term[cond] = << >> /\ insert # cond
      /\ <<cond>> \in Seq(Blocks) /\ <<body>> \in Seq(Blocks)
  BY <1>2, <1>4 DEF Open
<1>6. /\ term'[insert] = Append(<< >>, <<cond>>) /\ term'[cond] = Append(<< >>, <<body>>)
      /\ \A b \in Blocks \ {insert, cond} : term'[b] = term[b]
  <2> HIDE DEF cond, body
  <2> QED
    BY <1>1, <1>4, <1>5 DEF Appended
<1>7. Graph'[insert] = {cond} /\ Graph'[cond] = {body} /\ Graph[insert] = {} /\ Graph[cond] = {}
      /\ \A b \in Blocks \ {insert, cond} : Graph'[b] = Graph[b]
  <2>1. Ends(<<cond>>) = {cond} /\ Ends(<<body>>) = {body}
    BY DEF Ends
  <2>2. << >> \in Seq(Seq(Blocks))
    OBVIOUS
  <2>3. /\ EndsOfAll(Append(<< >>, <<cond>>)) = {cond}
        /\ EndsOfAll(Append(<< >>, <<body>>)) = {body}
    <3>1. ASSUME NEW t \in Seq(Blocks) PROVE EndsOfAll(Append(<< >>, t)) = Ends(t)
      <4>1. EndsOfAll(Append(<< >>, t)) = EndsOfAll(<< >>) \cup Ends(t)
        BY <2>2, EndsAppend, ZenonT(30)
      <4> QED
        BY <4>1, EndsNone
    <3> HIDE DEF cond, body
    <3> QED
      BY <1>5, <2>1, <3>1
  <2> HIDE DEF cond, body
  <2> QED
    BY <1>4, <1>5, <1>6, <2>3, EdgesAre, EndsNone, SMTT(30)
<1>8. Adds(E)
  <2>1. ASSUME NEW b \in Blocks
        PROVE  Graph'[b] = Graph[b] \cup {c \in Blocks : <<b, c>> \in E}
    <3>1. CASE b = insert
      BY <1>4, <1>5, <1>7, <3>1
    <3>2. CASE b = cond
      BY <1>4, <1>5, <1>7, <3>2
    <3>3. CASE b \notin {insert, cond}
      BY <1>4, <1>7, <3>3
    <3> QED
      BY <3>1, <3>2, <3>3
  <2> QED
    BY <1>4, <2>1 DEF Adds
<1>9. Flow(E)
  <2>1. \A e \in E : e[1] \in {insert} \cup TargetsOf(Top) /\ e[2] \in TargetsOf(Top)
    BY <1>2
  <2>2. TargetsOf(f) \subseteq Fresh \cup TargetsOf(Top)
    BY <1>3
  <2>3. insert' \in TargetsOf(Top)
    BY <1>1, <1>2
  <2> HIDE DEF E, f
  <2> QED
    BY <1>1, <1>3, <1>8, <2>1, <2>2, <2>3 DEF Flow, Goals
<1>10. Sinks(E)
  <2>1. \A e \in E : e[1] \in Open
    BY <1>2
  <2>2. body \in Open'
    BY <1>2, <1>4, <1>5, <1>6 DEF Open
  <2>3. ASSUME NEW X, X \cap Open' = {}, \E e \in E : e[1] \in X
        PROVE  \E b \in X : (\E e \in E : e[1] = b) /\ \A c \in X : <<b, c>> \in E => ForGood(c, b)
    <3>1. body \notin X
      BY <2>2, <2>3
    <3>2. \A c : /\ <<insert, c>> \in E => c = cond
                 /\ <<cond, c>> \in E => c = body
      BY <1>5
    <3>3. CASE cond \in X
      <4>1. <<cond, body>> \in E /\ \A c \in X : <<cond, c>> \notin E
        BY <3>1, <3>2
      <4> QED
        BY <3>3, <4>1
    <3>4. CASE cond \notin X
      <4>1. insert \in X
        BY <2>3, <3>4
      <4>2. <<insert, cond>> \in E /\ \A c \in X : <<insert, c>> \notin E
        BY <3>2, <3>4
      <4> QED
        BY <4>1, <4>2
    <3> QED
      BY <3>3, <3>4
  <2>4. Open' \subseteq Open
    BY <1>4, <1>5, <1>6 DEF Open
  <2> QED
    BY <1>4, <2>1, <2>3, <2>4 DEF Sinks
<1> QED
  BY <1>9, <1>10

-----------------------------------------------------------------------------
(***************************************************************************)
(* Where the visitors go on.                                               *)
(***************************************************************************)
(* Visitors that use the value of their child next: it is at the insertion *)
(* point.                                                                  *)
ValueKinds == {"ret.expr", "if.cond", "ifelse.cond", "for.cond", "while.cond",
               "unary", "binary.lhs", "binary.rhs", "logic.lhs", "logic.rhs"}
(* Such a visitor finds the value of its child at the insertion point. *)
ValueHere == stack # << >> /\ Top.at \in ValueKinds => val = insert

(* Frames with a block of which something is promised. *)
Promising == {"for.init", "binary.rhs", "logic.rhs"} \cup Entered

(* The step puts on the stack a frame of which nothing is promised, one    *)
(* that takes over the blocks of the frame before, or one of new blocks.   *)
NewPromise(f) ==
  \/ f.at \notin Promising
  \/ f.at \in Entered /\ Top.at \in Entered /\ f.on = Top.on
  \/ VisitForStmt /\ f = Frame("for.init", <<nblocks + 1, nblocks + 2, nblocks + 3, nblocks + 4>>)
  \/ VisitWhileStmt /\ f = Frame("while.cond", <<nblocks + 1, nblocks + 2, nblocks + 3>>)
  \/ ForInit /\ f = Frame("for.cond", Top.on)
  \/ ForInitNoCond /\ f = Frame("for.body", Top.on)
  \/ BinaryLeft /\ f = Frame("binary.rhs", <<val>>)
  \/ LogicLeft /\ f = Frame("logic.rhs", <<insert, nblocks + 2>>)

(* A visitor returns, or goes on and may call another. *)
Returns(at) == At(at) /\ at \in FrameKinds /\ Leave /\ (at \in ExprKinds => val' = insert')
(* The visitor goes on as f, and calls the visitor of a child or none. *)
Calls(at, f) ==
  /\ At(at) /\ at # "func" /\ (at \in ExprKinds => f.at \in ExprKinds) /\ NewPromise(f)
  /\ \/ Resume(f) /\ f.at \notin ValueKinds
     \/ Accept(f, "expr")
     \/ Accept(f, "stmt") /\ f.at \in AnyEnd /\ at \notin ExprKinds

(* Each step returns to the visitor below, or goes on with this one. *)
LEMMA Turns ==
  ASSUME Types, Next
  PROVE  (\E at : Returns(at)) \/ (\E at, f : Calls(at, f))
<1> USE DEF Frame, StmtKinds, ExprKinds, AnyEnd, Promising, Entered, ValueKinds, Calls, Returns, NewPromise
<1>1. CASE VisitScopeChild
  <2>1. At("scope") /\ Top.at = "scope" /\ Accept(Top, "stmt")
    BY <1>1, AtTop DEF VisitScopeChild
  <2>2. Calls("scope", Top)
    BY <2>1
  <2> QED
    BY <2>2
<1>2. CASE VisitScope
  <2>1. Calls("stmt", Frame("scope", << >>))
    BY <1>2 DEF VisitScope
  <2> QED
    BY <2>1
<1>3. CASE VisitExprStmt
  <2>1. Calls("stmt", Frame("drop", << >>))
    BY <1>3 DEF VisitExprStmt
  <2> QED
    BY <2>1
<1>4. CASE VisitIfStmt
  <2>1. PICK at \in {"if.cond", "ifelse.cond"} : Accept(Frame(at, << >>), "expr")
    BY <1>4 DEF VisitIfStmt
  <2>2. Calls("stmt", Frame(at, << >>))
    BY <1>4, <2>1 DEF VisitIfStmt
  <2> QED
    BY <2>2
<1>5. CASE IfElseCond
  <2>1. Calls("ifelse.cond", Frame("ifelse.then", <<nblocks + 2, nblocks + 3>>))
    BY <1>5 DEF IfElseCond
  <2> QED
    BY <2>1
<1>6. CASE IfElseThen
  <2>1. Calls("ifelse.then", Frame("ifelse.else", <<Top.on[2]>>))
    BY <1>6 DEF IfElseThen
  <2> QED
    BY <2>1
<1>7. CASE IfCond
  <2>1. Calls("if.cond", Frame("if.then", <<nblocks + 2>>))
    BY <1>7 DEF IfCond
  <2> QED
    BY <2>1
<1>8. CASE VisitForStmt
  <2> DEFINE f == Frame("for.init", <<nblocks + 1, nblocks + 2, nblocks + 3, nblocks + 4>>)
  <2>1. At("stmt") /\ (Accept(f, "expr") \/ Resume(f))
    BY <1>8 DEF VisitForStmt
  <2>2. Calls("stmt", f)
    BY <1>8, <2>1
  <2> QED
    BY <2>2
<1>9. CASE ForInit
  <2>1. Calls("for.init", Frame("for.cond", Top.on))
    BY <1>9 DEF ForInit
  <2> QED
    BY <2>1
<1>10. CASE ForInitNoCond
  <2>1. Calls("for.init", Frame("for.body", Top.on))
    BY <1>10 DEF ForInitNoCond
  <2> QED
    BY <2>1
<1>11. CASE ForCond
  <2>1. Calls("for.cond", Frame("for.body", Top.on))
    BY <1>11, AtTop DEF ForCond
  <2> QED
    BY <2>1
<1>12. CASE ForBody
  <2>1. Calls("for.body", Frame("for.iter", Top.on))
    BY <1>12, AtTop DEF ForBody
  <2> QED
    BY <2>1
<1>13. CASE VisitWhileStmt
  <2>1. Calls("stmt", Frame("while.cond", <<nblocks + 1, nblocks + 2, nblocks + 3>>))
    BY <1>13 DEF VisitWhileStmt
  <2> QED
    BY <2>1
<1>14. CASE WhileCond
  <2>1. Calls("while.cond", Frame("while.body", Top.on))
    BY <1>14, AtTop DEF WhileCond
  <2> QED
    BY <2>1
<1>15. CASE VisitReturnStmt
  <2>1. Returns("stmt") \/ Calls("stmt", Frame("ret.expr", << >>))
    BY <1>15 DEF VisitReturnStmt, FrameKinds
  <2> QED
    BY <2>1
<1>16. CASE VisitOperator
  <2>1. PICK at \in {"unary", "binary.lhs", "logic.lhs"} : Accept(Frame(at, << >>), "expr")
    BY <1>16 DEF VisitOperator
  <2>2. Calls("expr", Frame(at, << >>))
    BY <1>16, <2>1 DEF VisitOperator
  <2> QED
    BY <2>2
<1>17. CASE BinaryLeft
  <2>1. Calls("binary.lhs", Frame("binary.rhs", <<val>>))
    BY <1>17 DEF BinaryLeft
  <2> QED
    BY <2>1
<1>18. CASE LogicLeft
  <2>1. Calls("logic.lhs", Frame("logic.rhs", <<insert, nblocks + 2>>))
    BY <1>18 DEF LogicLeft
  <2> QED
    BY <2>1
<1>19. CASE \/ FinishFuncDecl \/ LeaveScope \/ FinishExprStmt \/ FinishIfStmt \/ FinishForStmt
            \/ FinishWhileStmt \/ VisitBreakStmt \/ VisitContinueStmt \/ FinishReturnStmt
  <2>1. \E at \in {"func"} \cup StmtKinds : At(at) /\ Leave
    BY <1>19 DEF FinishFuncDecl, LeaveScope, FinishExprStmt, FinishIfStmt, FinishForStmt,
       FinishWhileStmt, VisitBreakStmt, VisitContinueStmt, FinishReturnStmt
  <2> QED
    BY <2>1 DEF FrameKinds
<1>20. CASE VisitLeafExpr \/ FinishUnaryExpr \/ FinishBinaryExpr \/ FinishLogicExpr
  <2>1. \E at \in ExprKinds : At(at) /\ Leave /\ val' = insert'
    BY <1>20 DEF VisitLeafExpr, FinishUnaryExpr, FinishBinaryExpr, FinishLogicExpr, LogicValue
  <2> QED
    BY <2>1 DEF FrameKinds
<1> QED
  BY <1>1, <1>2, <1>3, <1>4, <1>5, <1>6, <1>7, <1>8, <1>9, <1>10, <1>11, <1>12, <1>13, <1>14,
     <1>15, <1>16, <1>17, <1>18, <1>19, <1>20 DEF Next

(* The frames of a step, in the terms used below. *)
LEMMA TurnStack ==
  ASSUME Types, Next
  PROVE  \E at : /\ At(at) /\ Len(stack) \in Nat \ {0} /\ stack[Len(stack)].at = at /\ Top = stack[Len(stack)]
                 /\ \A i \in 1..(Len(stack) - 1) : stack'[i] = stack[i]
                 /\ \/ Returns(at) /\ Len(stack') = Len(stack) - 1
                    \/ \E f : /\ Calls(at, f) /\ stack'[Len(stack)] = f
                              /\ \/ Len(stack') = Len(stack) /\ f.at \notin ValueKinds
                                 \/ Len(stack') = Len(stack) + 1 /\ stack'[Len(stack) + 1] = Frame("expr", << >>)
                                 \/ /\ Len(stack') = Len(stack) + 1 /\ stack'[Len(stack) + 1] = Frame("stmt", << >>)
                                    /\ f.at \in AnyEnd /\ at \notin ExprKinds
<1>1. ASSUME NEW at, Returns(at)
      PROVE  /\ At(at) /\ Len(stack) \in Nat \ {0} /\ stack[Len(stack)].at = at /\ Top = stack[Len(stack)]
             /\ \A i \in 1..(Len(stack) - 1) : stack'[i] = stack[i]
             /\ Len(stack') = Len(stack) - 1
  BY <1>1, StackLeave, AtTop DEF Returns
<1>2. ASSUME NEW at, NEW f, Calls(at, f)
      PROVE  /\ At(at) /\ Len(stack) \in Nat \ {0} /\ stack[Len(stack)].at = at /\ Top = stack[Len(stack)]
             /\ \A i \in 1..(Len(stack) - 1) : stack'[i] = stack[i]
             /\ stack'[Len(stack)] = f
             /\ \/ Len(stack') = Len(stack) /\ f.at \notin ValueKinds
                \/ Len(stack') = Len(stack) + 1 /\ stack'[Len(stack) + 1] = Frame("expr", << >>)
                \/ /\ Len(stack') = Len(stack) + 1 /\ stack'[Len(stack) + 1] = Frame("stmt", << >>)
                   /\ f.at \in AnyEnd /\ at \notin ExprKinds
  <2>1. At(at) /\ Len(stack) \in Nat \ {0} /\ stack[Len(stack)].at = at /\ Top = stack[Len(stack)]
    BY <1>2, AtTop DEF Calls
  <2>2. CASE Resume(f) /\ f.at \notin ValueKinds
    BY <2>1, <2>2, StackResume
  <2>3. CASE Accept(f, "expr")
    BY <2>1, <2>3, StackAccept
  <2>4. CASE Accept(f, "stmt") /\ f.at \in AnyEnd /\ at \notin ExprKinds
    BY <2>1, <2>4, StackAccept
  <2> QED
    BY <1>2, <2>2, <2>3, <2>4 DEF Calls
<1> QED
  BY <1>1, <1>2, Turns, Zenon

(* Every step keeps the expressions above those who wait for one. *)
LEMMA ExprAboveStep ==
  ASSUME Types, ExprAbove, Next
  PROVE  ExprAbove'
<1> DEFINE n == Len(stack)
<1>1. PICK at : /\ At(at) /\ n \in Nat \ {0} /\ stack[n].at = at
                /\ \A i \in 1..(n - 1) : stack'[i] = stack[i]
                /\ \/ Len(stack') = n - 1
                   \/ \E f : /\ (at \in ExprKinds => f.at \in ExprKinds) /\ stack'[n] = f
                             /\ \/ Len(stack') = n
                                \/ Len(stack') = n + 1 /\ stack'[n + 1] = Frame("expr", << >>)
                                \/ /\ Len(stack') = n + 1 /\ stack'[n + 1] = Frame("stmt", << >>)
                                   /\ f.at \in AnyEnd /\ at \notin ExprKinds
  BY TurnStack, Zenon DEF Calls
<1>2. Frame("expr", << >>).at \in ExprKinds
  BY DEF Frame, ExprKinds
<1>3. SUFFICES ASSUME NEW j \in 1..Len(stack'), NEW i \in 1..(j - 1), stack'[i].at \notin AnyEnd
               PROVE  stack'[j].at \in ExprKinds
  BY DEF ExprAbove
<1>4. i \in Nat /\ j \in Nat /\ 1 <= i /\ i < j
  BY <1>1
<1>5. CASE j < n
  <2>1. j \in 1..n /\ i \in 1..(j - 1) /\ stack'[i] = stack[i] /\ stack'[j] = stack[j]
    BY <1>1, <1>4, <1>5
  <2> QED
    BY <1>3, <2>1 DEF ExprAbove
<1>6. CASE j >= n
  <2>1. PICK f : /\ (at \in ExprKinds => f.at \in ExprKinds) /\ stack'[n] = f
                 /\ \/ Len(stack') = n
                    \/ Len(stack') = n + 1 /\ stack'[n + 1] = Frame("expr", << >>)
                    \/ /\ Len(stack') = n + 1 /\ stack'[n + 1] = Frame("stmt", << >>)
                       /\ f.at \in AnyEnd /\ at \notin ExprKinds
    BY <1>1, <1>6
  <2>2. i < n => at \in ExprKinds
    <3> SUFFICES ASSUME i < n PROVE at \in ExprKinds
      OBVIOUS
    <3>1. n \in 1..n /\ i \in 1..(n - 1) /\ stack'[i] = stack[i]
      BY <1>1, <1>4
    <3> QED
      BY <1>1, <1>3, <3>1 DEF ExprAbove
  <2>3. CASE j = n
    BY <1>4, <2>1, <2>2, <2>3
  <2>4. CASE j = n + 1
    BY <1>1, <1>2, <1>3, <1>4, <2>1, <2>2, <2>4
  <2> QED
    BY <1>1, <1>6, <2>1, <2>3, <2>4
<1> QED
  BY <1>1, <1>4, <1>5, <1>6

(* Whoever uses a value next finds it at the insertion point. *)
LEMMA ValueHereStep ==
  ASSUME Types, Shape, Next
  PROVE  ValueHere'
<1> DEFINE n == Len(stack)
<1>1. PICK at : /\ At(at) /\ n \in Nat \ {0} /\ stack[n].at = at
                /\ \A i \in 1..(n - 1) : stack'[i] = stack[i]
                /\ \/ Returns(at) /\ Len(stack') = n - 1
                   \/ \E f : /\ stack'[n] = f
                             /\ \/ Len(stack') = n /\ f.at \notin ValueKinds
                                \/ Len(stack') = n + 1 /\ stack'[n + 1] = Frame("expr", << >>)
                                \/ Len(stack') = n + 1 /\ stack'[n + 1] = Frame("stmt", << >>)
  BY TurnStack, Zenon
<1>2. SUFFICES ASSUME stack' # << >>, stack'[Len(stack')].at \in ValueKinds
               PROVE  val' = insert'
  BY DEF ValueHere, Top
<1>3. CASE Returns(at) /\ Len(stack') = n - 1
  <2>1. n > 1
    <3>1. stack' = << >> <=> n = 1
      BY <1>1, <1>3, StackLeave, Zenon DEF Returns
    <3>2. n # 1
      BY <1>2, <3>1, Zenon
    <3>3. n \in Nat \ {0}
      BY <1>1, Zenon
    <3>4. \A m \in Nat \ {0} : m # 1 => m > 1
      OBVIOUS
    <3> HIDE DEF n
    <3> QED
      BY <3>2, <3>3, <3>4
  <2>2. stack'[Len(stack')] = stack[n - 1]
    BY <1>1, <1>3, <2>1
  <2>3. at \notin StmtKinds
    <3>1. AnyEnd \cap ValueKinds = {}
      BY DEF AnyEnd, ValueKinds
    <3>2. n \in 2..n
      BY <1>1, <2>1
    <3> QED
      BY <1>1, <1>2, <2>2, <3>1, <3>2 DEF Shape
  <2>4. at # "func"
    BY <1>1, <2>1 DEF Shape
  <2> QED
    BY <1>3, <2>3, <2>4 DEF Returns, FrameKinds
<1>4. CASE \E f : /\ stack'[n] = f
                  /\ \/ Len(stack') = n /\ f.at \notin ValueKinds
                     \/ Len(stack') = n + 1 /\ stack'[n + 1] = Frame("expr", << >>)
                     \/ Len(stack') = n + 1 /\ stack'[n + 1] = Frame("stmt", << >>)
  BY <1>1, <1>2, <1>4 DEF Frame, ValueKinds
<1> QED
  BY <1>1, <1>3, <1>4

-----------------------------------------------------------------------------
(***************************************************************************)
(* What the frames promise.                                                *)
(***************************************************************************)
(* The value a binary operator keeps dominates the insertion point. *)
KeptDominates ==
  \A i \in 1..Len(stack) : stack[i].at = "binary.rhs" => DominatesFrom(stack[i].on[1], i + 1)

(* Nothing branches to the body, the continuation and the exit of a loop   *)
(* before its condition is visited.                                        *)
InitUntouched ==
  \A i \in 1..Len(stack) : stack[i].at = "for.init" =>
    \A k \in 2..4 : Preds(Graph, stack[i].on[k]) = {}

(* The out block of a short-circuit operator has its first predecessor.    *)
LogicOnePred ==
  \A i \in 1..Len(stack) : stack[i].at = "logic.rhs" =>
    Preds(Graph, stack[i].on[2]) = {stack[i].on[1]} /\ term[stack[i].on[1]] # << >>

(* A branch target of another visitor, in no loop body, gets no new        *)
(* predecessor.                                                            *)
LEMMA PredsKept ==
  ASSUME Types, Types', NEW at, At(at), NEW E, Flow(E), NEW c \in Blocks, c \notin Goals
  PROVE  Preds(Graph, c)' = Preds(Graph, c)
<1>1. \A b : <<b, c>> \notin E
  <2>1. \A e \in E : e[2] # c
    BY DEF Flow, Fresh
  <2> QED
    BY <2>1
<1>2. \A b \in Blocks' : c \in Graph'[b] <=> b \in Blocks /\ c \in Graph[b]
  BY <1>1 DEF Flow, Adds
<1>3. DOMAIN Graph = Blocks /\ DOMAIN Graph' = Blocks' /\ Blocks \subseteq Blocks'
  BY EdgesAre DEF Flow, Adds
<1> QED
  BY <1>2, <1>3 DEF Preds

(* The targets of a visitor below the top, in no loop body, are such. *)
LEMMA NotGoals ==
  ASSUME Types, TargetsDiffer, NEW at, At(at), NEW i \in 1..(Len(stack) - 1),
         stack[i].at \notin BodyKinds, NEW c \in TargetsOf(stack[i])
  PROVE  c \in Blocks /\ c \notin Goals
<1>1. /\ Len(stack) \in Nat /\ Len(stack) \in 1..Len(stack) /\ Top = stack[Len(stack)]
      /\ i \in 1..Len(stack) /\ i # Len(stack)
  BY AtTop
<1>2. c \in Blocks
  BY <1>1, TargetsTyped
<1>3. c \notin TargetsOf(Top)
  BY <1>1 DEF TargetsDiffer
<1>4. ASSUME NEW j \in 1..Len(stack), stack[j].at \in BodyKinds PROVE c \notin TargetsOf(stack[j])
  BY <1>1, <1>4 DEF TargetsDiffer
<1> QED
  BY <1>2, <1>3, <1>4 DEF Goals

(* Every step adds edges in this way. *)
LEMMA FlowStep ==
  ASSUME Types, Types', OpenBlocks, TargetsMatchLoops, TargetsDiffer, HeadersDominate, ExprAbove, Next
  PROVE  \E E : Flow(E) /\ Sinks(E)
<1>1. CASE \/ FinishFuncDecl \/ VisitScopeChild \/ LeaveScope \/ VisitScope
           \/ VisitExprStmt \/ FinishExprStmt \/ VisitIfStmt
           \/ VisitReturnStmt \/ FinishReturnStmt
           \/ VisitLeafExpr \/ VisitOperator \/ FinishUnaryExpr \/ BinaryLeft \/ FinishBinaryExpr
  BY <1>1, FlowQuiet
<1>2. CASE \/ IfElseThen \/ FinishIfStmt \/ ForInit \/ ForCond \/ ForBody \/ WhileCond
           \/ FinishLogicExpr
  BY <1>2, FlowPending
<1>3. CASE FinishForStmt \/ FinishWhileStmt
  BY <1>3, FlowBack
<1>4. CASE VisitBreakStmt \/ VisitContinueStmt
  BY <1>4, FlowJump
<1>5. CASE IfElseCond \/ IfCond \/ VisitWhileStmt \/ LogicLeft \/ VisitForStmt
  BY <1>5, FlowNew
<1>6. CASE ForInitNoCond
  BY <1>6, FlowNoCond
<1> QED
  BY <1>1, <1>2, <1>3, <1>4, <1>5, <1>6 DEF Next

(* The frame that a step leaves at the top place, or above it. *)
LEMMA NewFrame ==
  ASSUME Types, Next, NEW i \in 1..Len(stack'), i >= Len(stack), stack'[i].at \in Promising
  PROVE  i = Len(stack) /\ NewPromise(stack'[i])
<1> DEFINE n == Len(stack)
<1>1. PICK at : /\ n \in Nat \ {0}
                /\ \/ Len(stack') = n - 1
                   \/ \E f : /\ NewPromise(f) /\ stack'[n] = f
                             /\ \/ Len(stack') = n
                                \/ Len(stack') = n + 1 /\ stack'[n + 1] = Frame("expr", << >>)
                                \/ Len(stack') = n + 1 /\ stack'[n + 1] = Frame("stmt", << >>)
  BY TurnStack, Zenon DEF Calls
<1>2. "expr" \notin Promising /\ "stmt" \notin Promising
  BY DEF Promising, Entered
<1>3. i = n
  BY <1>1, <1>2 DEF Frame
<1> QED
  BY <1>1, <1>3

(* The block of a kept left operand goes on dominating. *)
LEMMA KeptStep ==
  ASSUME Types, Types', OpenBlocks, ValueHere, KeptDominates, Next, NEW E, Flow(E)
  PROVE  KeptDominates'
<1>1. PICK at : At(at) /\ Len(stack) \in Nat \ {0} /\ \A i \in 1..(Len(stack) - 1) : stack'[i] = stack[i]
  BY TurnStack
<1>2. SUFFICES ASSUME NEW i \in 1..Len(stack'), stack'[i].at = "binary.rhs"
               PROVE  DominatesFrom(stack[i].on[1], i + 1)'
  BY DEF KeptDominates
<1>3. CASE i < Len(stack)
  <2>1. i \in 1..(Len(stack) - 1) /\ i + 1 \in 1..Len(stack) /\ i \in 1..Len(stack)
    BY <1>1, <1>3
  <2>2. PICK d, j : d = stack[i].on[1] /\ j = i + 1
    OBVIOUS
  <2>3. DominatesFrom(d, j)
    BY <1>1, <1>2, <2>1, <2>2 DEF KeptDominates
  <2>4. DominatesFrom(d, j)'
    BY <1>1, <2>1, <2>2, <2>3, DominatesFromStep
  <2>5. d = stack'[i].on[1]
    BY <1>1, <2>1, <2>2
  <2> QED
    BY <2>2, <2>4, <2>5 DEF DominatesFrom, Region
<1>4. CASE i >= Len(stack)
  <2>1. i = Len(stack) /\ BinaryLeft /\ stack'[i] = Frame("binary.rhs", <<val>>)
    BY <1>2, <1>4, NewFrame DEF NewPromise, Promising, Entered, Frame
  <2>2. val = insert /\ insert' = insert /\ insert \in Blocks' /\ Blocks' = Blocks
    <3>1. Top.at \in ValueKinds /\ stack # << >>
      BY <2>1 DEF BinaryLeft, At, ValueKinds
    <3> QED
      BY <2>1, <3>1 DEF ValueHere, BinaryLeft, Types, Blocks
  <2>3. PICK R : R = {insert}
    OBVIOUS
  <2>4. OnlyWayInto(Graph', 1, insert, R) /\ R \in SUBSET Blocks' /\ insert' \in R
    <3>1. DOMAIN Graph' = Blocks'
      BY EdgesAre
    <3> QED
      BY <2>2, <2>3, <3>1 DEF OnlyWayInto
  <2>5. ASSUME NEW j \in 1..Len(stack')
        PROVE  IF j < i + 1 THEN TargetsOf(stack'[j]) \cap (R \ {insert}) = {}
                            ELSE TargetsOf(stack'[j]) \subseteq R
    <3>1. CASE j < i + 1
      BY <2>3, <3>1
    <3>2. CASE ~(j < i + 1)
      <4>1. j > Len(stack)
        BY <1>1, <2>1, <3>2
      <4> QED
        BY <1>1, <3>2, <4>1, FlowStack
    <3> QED
      BY <3>1, <3>2
  <2>6. stack'[i].on[1] = insert
    BY <2>1, <2>2 DEF Frame
  <2> QED
    BY <2>4, <2>5, <2>6 DEF DominatesFrom, Region, TargetsOf
<1> QED
  BY <1>1, <1>3, <1>4

(* The frames of loops under the top keep their promises, and those that   *)
(* only move on.                                                           *)
LEMMA HeadersKept ==
  ASSUME Types, Types', HeadersDominate, NEW at, At(at), NEW E, Flow(E), NEW i \in 1..Len(stack),
         i \in 1..Len(stack'), stack[i].at \in Entered, stack'[i].on[1] = stack[i].on[1]
  PROVE  DominatesFrom(stack[i].on[1], i)'
<1>1. PICK d : d = stack[i].on[1]
  OBVIOUS
<1>2. DominatesFrom(d, i)
  BY <1>1 DEF HeadersDominate
<1>3. DominatesFrom(d, i)'
  BY <1>2, DominatesFromStep
<1>4. d = stack'[i].on[1]
  BY <1>1
<1> QED
  BY <1>3, <1>4 DEF DominatesFrom, Region

(* The header is entered from outside the loop, to which nothing else can  *)
(* branch but what the loop contains.                                      *)
LEMMA HeaderNew ==
  ASSUME Types, Types', NEW at, At(at), NEW E, Flow(E), NEW i, i = Len(stack), i \in 1..Len(stack'),
         NEW d, d = stack'[i].on[1], NEW R, R = TargetsOf(stack'[i]), R \in SUBSET Blocks', 1 \notin R,
         d \in R, insert' \in R,
         \A j \in 1..(Len(stack) - 1) : TargetsOf(stack[j]) \cap R = {},
         \A b \in R \ {d}, a \in Blocks' : b \in Graph'[a] => a \in R
  PROVE  DominatesFrom(stack[i].on[1], i)'
<1>1. OnlyWayInto(Graph', 1, d, R)
  BY EdgesAre DEF OnlyWayInto, Preds
<1>2. ASSUME NEW j \in 1..Len(stack')
      PROVE  IF j < i THEN TargetsOf(stack'[j]) \cap (R \ {d}) = {} ELSE TargetsOf(stack'[j]) \subseteq R
  <2>1. CASE j < i
    <3>1. j \in 1..(Len(stack) - 1) /\ stack'[j] = stack[j]
      BY <2>1, FlowStack
    <3> QED
      BY <2>1, <3>1
  <2>2. CASE j = i
    BY <2>2
  <2>3. CASE j > i
    BY <2>3, FlowStack
  <2> QED
    BY <2>1, <2>2, <2>3, FlowStack
<1>3. \E Q \in SUBSET Blocks' :
        /\ insert' \in Q /\ OnlyWayInto(Graph', 1, stack'[i].on[1], Q)
        /\ \A j \in 1..Len(stack') :
             IF j < i THEN TargetsOf(stack'[j]) \cap (Q \ {stack'[i].on[1]}) = {}
                      ELSE TargetsOf(stack'[j]) \subseteq Q
  BY <1>1, <1>2
<1>4. \A j : TargetsOf(stack[j])' = TargetsOf(stack'[j])
  BY DEF TargetsOf
<1> QED
  BY <1>3, <1>4, Zenon DEF DominatesFrom, Region

(* The header that is entered is a new block with one way in, or it        *)
(* dominates already; the others go on dominating.                         *)
LEMMA HeadersStep ==
  ASSUME Types, Types', OpenBlocks, TargetsDiffer, HeadersDominate, InitUntouched, Next, NEW F, Flow(F)
  PROVE  HeadersDominate'
<1> DEFINE n == Len(stack)
<1>1. PICK at : /\ At(at) /\ n \in Nat \ {0} /\ Top = stack[n]
                /\ \A i \in 1..(n - 1) : stack'[i] = stack[i]
  BY TurnStack
<1>2. SUFFICES ASSUME NEW i \in 1..Len(stack'), stack'[i].at \in Entered
               PROVE  DominatesFrom(stack[i].on[1], i)'
  BY DEF HeadersDominate
<1>3. CASE i < n
  <2>1. i \in 1..n /\ stack'[i] = stack[i]
    BY <1>1, <1>3
  <2> QED
    BY <1>1, <1>2, <2>1, HeadersKept
<1>4. CASE i >= n
  <2> DEFINE f == stack'[i]
  <2>1. i = n /\ NewPromise(f) /\ n \in 1..n
    BY <1>1, <1>2, <1>4, NewFrame DEF Promising
  <2>2. CASE Top.at \in Entered /\ f.on = Top.on
    BY <1>1, <2>1, <2>2, HeadersKept
  <2>3. CASE VisitWhileStmt /\ f = Frame("while.cond", <<nblocks + 1, nblocks + 2, nblocks + 3>>)
    <3>1. PICK E : /\ Flow(E) /\ Fresh = {nblocks + 1, nblocks + 2, nblocks + 3}
                   /\ E = {<<insert, nblocks + 1>>}
      BY <2>3, FlowNew
    <3>2. PICK R, d : R = Fresh /\ d = nblocks + 1
      OBVIOUS
    <3>3. R = TargetsOf(f) /\ d = f.on[1] /\ d \in R /\ insert' = d
      BY <2>3, <3>1, <3>2, TargetsAre DEF Frame, VisitWhileStmt
    <3>4. R \in SUBSET Blocks' /\ 1 \notin R /\ R \cap Blocks = {}
      BY <3>2, TargetsTyped DEF Fresh
    <3>5. \A j \in 1..(n - 1) : TargetsOf(stack[j]) \cap R = {}
      <4>1. \A j \in 1..(n - 1) : j \in 1..n
        BY <1>1
      <4> QED
        BY <3>4, <4>1, TargetsTyped
    <3>6. ASSUME NEW b \in R \ {d}, NEW a \in Blocks', b \in Graph'[a] PROVE FALSE
      <4>1. <<a, b>> \notin E
        BY <3>1, <3>2, <3>6
      <4>2. a \in Blocks /\ b \in Graph[a]
        BY <3>1, <3>6, <4>1 DEF Flow, Adds
      <4> QED
        BY <3>4, <3>6, <4>2, GraphIs DEF IsGraph
    <3> HIDE DEF f, n
    <3> QED
      BY <1>1, <2>1, <3>1, <3>3, <3>4, <3>5, <3>6, HeaderNew DEF f, n
  <2>4. ASSUME NEW E, Flow(E), f.on = Top.on, f.at \in {"for.cond", "for.body"}, Top.at = "for.init",
               Fresh = {}, insert' \in {Top.on[1], Top.on[2]},
               \A e \in E : e = <<insert, Top.on[1]>> \/ e = <<Top.on[1], Top.on[2]>>
        PROVE  DominatesFrom(stack[i].on[1], i)'
    <3>1. PICK R, d : R = TargetsOf(Top) /\ d = Top.on[1]
      OBVIOUS
    <3>2. /\ TargetsOf(Top) = {Top.on[1], Top.on[2], Top.on[3], Top.on[4]}
          /\ TargetsOf(f) = {f.on[1], f.on[2], f.on[3], f.on[4]}
      BY <2>4, TargetsAre
    <3>3. R = TargetsOf(f) /\ d = f.on[1] /\ d \in R /\ insert' \in R
      BY <2>4, <3>1, <3>2
    <3>4. R \in SUBSET Blocks' /\ 1 \notin R
      BY <1>1, <2>1, <2>4, <3>1, TargetsTyped DEF Flow, Adds
    <3>5. \A j \in 1..(n - 1) : TargetsOf(stack[j]) \cap R = {}
      <4>1. \A j \in 1..(n - 1) : j \in 1..n /\ j # n
        BY <1>1
      <4> QED
        BY <1>1, <2>1, <3>1, <4>1 DEF TargetsDiffer
    <3>6. ASSUME NEW b \in R \ {d}, NEW a \in Blocks', b \in Graph'[a] PROVE a \in R
      <4>1. PICK k \in 2..4 : b = Top.on[k]
        BY <3>1, <3>2, <3>6
      <4>2. Preds(Graph, b) = {}
        BY <1>1, <2>1, <2>4, <4>1 DEF InitUntouched
      <4>3. <<a, b>> \in E
        <5>1. a \in Blocks => b \notin Graph[a]
          BY <4>2, EdgesAre DEF Preds
        <5> QED
          BY <2>4, <3>6, <5>1 DEF Flow, Adds
      <4>4. a = Top.on[1]
        BY <2>4, <3>1, <3>6, <4>3
      <4> QED
        BY <3>1, <3>3, <4>4
    <3> HIDE DEF f, n
    <3> QED
      BY <1>1, <2>1, <2>4, <3>3, <3>4, <3>5, <3>6, HeaderNew DEF f, n
  <2>5. CASE ForInit /\ f = Frame("for.cond", Top.on)
    <3>1. PICK E : Flow(E) /\ E = {<<insert, Top.on[1]>>}
      BY <2>5, FlowPending
    <3>2. Top.at = "for.init" /\ insert' = Top.on[1] /\ Fresh = {} /\ f.on = Top.on /\ f.at = "for.cond"
      BY <2>5 DEF ForInit, At, AppendTerminator, Fresh, Blocks, Frame
    <3> QED
      BY <2>4, <3>1, <3>2
  <2>6. CASE ForInitNoCond /\ f = Frame("for.body", Top.on)
    <3>1. PICK E : Flow(E) /\ E = {<<insert, Top.on[1]>>, <<Top.on[1], Top.on[2]>>}
      BY <2>6, FlowNoCond
    <3>2. Top.at = "for.init" /\ insert' = Top.on[2] /\ Fresh = {} /\ f.on = Top.on /\ f.at = "for.body"
      BY <2>6 DEF ForInitNoCond, At, Fresh, Blocks, Frame
    <3> QED
      BY <2>4, <3>1, <3>2
  <2> QED
    BY <1>2, <2>1, <2>2, <2>3, <2>5, <2>6 DEF NewPromise, Promising, Entered, Frame
<1> QED
  BY <1>1, <1>3, <1>4

(* Nothing branches to the blocks of a loop while its init is visited. *)
LEMMA InitStep ==
  ASSUME Types, Types', OpenBlocks, TargetsDiffer, InitUntouched, Next, NEW F, Flow(F)
  PROVE  InitUntouched'
<1> DEFINE n == Len(stack)
<1>1. PICK at : /\ At(at) /\ n \in Nat \ {0} /\ Top = stack[n]
                /\ \A i \in 1..(n - 1) : stack'[i] = stack[i]
  BY TurnStack
<1>2. SUFFICES ASSUME NEW i \in 1..Len(stack'), stack'[i].at = "for.init", NEW k \in 2..4
               PROVE  Preds(Graph', stack'[i].on[k]) = {}
  BY DEF InitUntouched
<1>3. CASE i < n
  <2>1. i \in 1..(n - 1) /\ i \in 1..n /\ stack'[i] = stack[i]
    BY <1>1, <1>3
  <2>2. PICK c : c = stack[i].on[k]
    OBVIOUS
  <2>3. c \in TargetsOf(stack[i])
    BY <1>2, <2>1, <2>2, TargetsAre
  <2>4. c \in Blocks /\ c \notin Goals
    BY <1>1, <1>2, <2>1, <2>3, NotGoals DEF BodyKinds
  <2>5. Preds(Graph, c)' = {}
    <3>1. Preds(Graph, c)' = Preds(Graph, c)
      BY <1>1, <2>4, PredsKept
    <3> QED
      BY <1>2, <2>1, <2>2, <3>1 DEF InitUntouched
  <2> QED
    BY <2>1, <2>2, <2>5 DEF Preds
<1>4. CASE i >= n
  <2>1. VisitForStmt /\ stack'[i] = Frame("for.init", <<nblocks + 1, nblocks + 2, nblocks + 3, nblocks + 4>>)
    BY <1>2, <1>4, NewFrame DEF NewPromise, Promising, Entered, Frame
  <2>2. Flow({}) /\ Fresh = {nblocks + 1, nblocks + 2, nblocks + 3, nblocks + 4}
    BY <2>1, FlowNew
  <2>3. stack'[i].on[k] \in Fresh
    BY <2>1, <2>2 DEF Frame
  <2>4. \A a \in Blocks' : stack'[i].on[k] \notin Graph'[a]
    <3>1. \A a \in Blocks' : Graph'[a] \subseteq Blocks
      BY <2>2, GraphIs DEF Flow, Adds, IsGraph
    <3> QED
      BY <2>3, <3>1 DEF Fresh
  <2> QED
    BY <2>4, EdgesAre DEF Preds
<1> QED
  BY <1>1, <1>3, <1>4

(* Only the left operand's block branches to the out block until the end. *)
LEMMA LogicStep ==
  ASSUME Types, Types', OpenBlocks, TargetsDiffer, LogicOnePred, Next, NEW F, Flow(F), Sinks(F)
  PROVE  LogicOnePred'
<1> DEFINE n == Len(stack)
<1>1. PICK at : /\ At(at) /\ n \in Nat \ {0} /\ Top = stack[n]
                /\ \A i \in 1..(n - 1) : stack'[i] = stack[i]
  BY TurnStack
<1>2. SUFFICES ASSUME NEW i \in 1..Len(stack'), stack'[i].at = "logic.rhs"
               PROVE  /\ Preds(Graph', stack'[i].on[2]) = {stack'[i].on[1]}
                      /\ term'[stack'[i].on[1]] # << >>
  BY DEF LogicOnePred
<1>3. CASE i < n
  <2>1. i \in 1..(n - 1) /\ i \in 1..n /\ stack'[i] = stack[i]
    BY <1>1, <1>3
  <2>2. PICK b, c : b = stack[i].on[1] /\ c = stack[i].on[2]
    OBVIOUS
  <2>3. c \in TargetsOf(stack[i]) /\ b \in Blocks
    <3>1. stack[i] \in Frames(nblocks) /\ nblocks \in Nat \ {0}
      BY <2>1, TargetsTyped DEF Types
    <3> QED
      BY <1>2, <2>1, <2>2, <3>1, TargetsAre, OldFrames DEF Blocks
  <2>4. c \in Blocks /\ c \notin Goals
    BY <1>1, <1>2, <2>1, <2>3, NotGoals DEF BodyKinds
  <2>5. Preds(Graph, c)' = {b} /\ term[b] # << >>
    <3>1. Preds(Graph, c)' = Preds(Graph, c)
      BY <1>1, <2>4, PredsKept
    <3> QED
      BY <1>2, <2>1, <2>2, <3>1 DEF LogicOnePred
  <2>6. term'[b] # << >>
    BY <2>3, <2>5 DEF Sinks, Open, Flow, Adds
  <2> QED
    BY <2>1, <2>2, <2>5, <2>6 DEF Preds
<1>4. CASE i >= n
  <2>1. LogicLeft /\ stack'[i] = Frame("logic.rhs", <<insert, nblocks + 2>>)
    BY <1>2, <1>4, NewFrame DEF NewPromise, Promising, Entered, Frame
  <2>2. PICK E : /\ Flow(E) /\ Fresh = {nblocks + 1, nblocks + 2}
                 /\ E = From(insert, {nblocks + 1, nblocks + 2})
    BY <2>1, FlowNew
  <2>3. PICK c : c = nblocks + 2
    OBVIOUS
  <2>4. c \in Fresh /\ insert \in Blocks /\ insert \in Blocks'
    BY <2>2, <2>3 DEF Types, Flow, Adds
  <2>5. \A a \in Blocks' : c \in Graph'[a] <=> a = insert
    <3>1. \A a \in Blocks : Graph[a] \subseteq Blocks
      BY GraphIs DEF IsGraph
    <3>2. \A a : <<a, c>> \in E <=> a = insert
      BY <2>2, <2>3 DEF From
    <3>3. c \in Blocks' /\ c \notin Blocks
      BY <2>4 DEF Fresh
    <3>4. \A a \in Blocks' : c \in Graph'[a] <=> (a \in Blocks /\ c \in Graph[a]) \/ <<a, c>> \in E
      BY <2>2, <3>3 DEF Flow, Adds
    <3> QED
      BY <3>1, <3>2, <3>3, <3>4
  <2>6. Preds(Graph', c) = {insert}
    BY <2>4, <2>5, EdgesAre DEF Preds
  <2>7. term'[insert] # << >>
    <3>1. PICK t : AppendAndCreate(t, 2)
      BY <2>1 DEF LogicLeft
    <3>2. ~Terminated /\ OnceTerminated
      BY <2>1, AtTargets DEF LogicLeft, AnyEnd
    <3>3. insert \notin Open'
      <4>1. Open' = (Open \ {insert}) \cup ((nblocks + 1)..(nblocks + 2))
        BY <3>1, <3>2, ClosesAndCreates
      <4> QED
        BY <4>1 DEF Types, Blocks
    <3> QED
      BY <2>4, <3>3 DEF Open
  <2> QED
    BY <2>1, <2>3, <2>6, <2>7 DEF Frame
<1> QED
  BY <1>1, <1>3, <1>4

-----------------------------------------------------------------------------
(***************************************************************************)
(* Loops, operands and phis.                                               *)
(***************************************************************************)
(* Each set of blocks has one that leads to blocks of the set only if      *)
(* these dominate it.                                                      *)
NaturalSoFar ==
  \A X \in SUBSET Blocks : X # {} => \E b \in X : \A c \in Graph[b] \cap X : ForGood(c, b)

(* Definitions dominate their uses for good. *)
UsesDominated == \A use \in uses : ForGood(use[1], use[2])

(* A phi is complete, and nobody can branch to its block.                  *)
PhisComplete ==
  \A phi \in phis :
    /\ Preds(Graph, phi.at) = {phi.in[1], phi.in[2]} /\ phi.in[1] # phi.in[2]
    /\ \A i \in 1..Len(stack) : phi.at \notin TargetsOf(stack[i])

(* New edges into a dominated region come from it, and new blocks have no  *)
(* successors yet, so among any blocks one still has back edges only.      *)
LEMMA NaturalStep ==
  ASSUME Types, Types', NaturalSoFar, NEW at, At(at), NEW E, Flow(E), Sinks(E)
  PROVE  NaturalSoFar'
<1>1. SUFFICES ASSUME NEW X \in SUBSET Blocks', X # {}
               PROVE  \E b \in X : \A c \in Graph'[b] \cap X : ForGood(c, b)'
  BY DEF NaturalSoFar
<1>2. CASE X \cap Open' # {}
  <2>1. PICK b \in X : b \in Open'
    BY <1>2
  <2>2. Graph'[b] = {}
    BY <2>1, EdgesAre, EndsNone DEF Open
  <2> QED
    BY <2>1, <2>2
<1>3. CASE X \cap Open' = {}
  <2>1. X \subseteq Blocks
    BY <1>3 DEF Sinks, Fresh
  <2>2. \A b \in X : \A c : c \in Graph'[b] => c \in Graph[b] \/ <<b, c>> \in E
    BY <2>1 DEF Flow, Adds
  <2>3. CASE \E e \in E : e[1] \in X
    <3>1. PICK b \in X : (\E e \in E : e[1] = b) /\ \A c \in X : <<b, c>> \in E => ForGood(c, b)
      BY <1>3, <2>3 DEF Sinks
    <3>2. Graph[b] = {}
      BY <3>1, OpenNoEdges DEF Sinks
    <3>3. \A c \in Graph'[b] \cap X : ForGood(c, b)
      BY <2>2, <3>1, <3>2
    <3>4. \A c \in Graph'[b] \cap X : ForGood(c, b)'
      BY <3>3, ForGoodStep
    <3> QED
      BY <3>4
  <2>4. CASE \A e \in E : e[1] \notin X
    <3>1. \A b \in X : \A c : <<b, c>> \notin E
      BY <2>4
    <3>2. PICK b \in X : \A c \in Graph[b] \cap X : ForGood(c, b)
      BY <1>1, <2>1 DEF NaturalSoFar
    <3>3. \A c \in Graph'[b] \cap X : ForGood(c, b)
      BY <2>2, <3>1, <3>2
    <3>4. \A c \in Graph'[b] \cap X : ForGood(c, b)'
      BY <3>3, ForGoodStep
    <3> QED
      BY <3>4
  <2> QED
    BY <2>3, <2>4
<1> QED
  BY <1>2, <1>3

(* Operands that are not at the insertion point were kept by a binary      *)
(* operator.                                                               *)
LEMMA NewUses ==
  ASSUME Types, ValueHere, Next, NEW use \in uses'
  PROVE  use \in uses \/ (At("binary.rhs") /\ use = <<Top.on[1], insert>>)
<1>1. CASE UNCHANGED uses
  BY <1>1
<1>2. CASE IfElseCond \/ IfCond \/ ForCond \/ WhileCond \/ FinishReturnStmt \/ FinishUnaryExpr
           \/ LogicLeft \/ FinishLogicExpr
  <2>1. \E at \in ValueKinds : At(at) /\ Use({val})
    BY <1>2 DEF IfElseCond, IfCond, ForCond, WhileCond, FinishReturnStmt, FinishUnaryExpr,
       LogicLeft, FinishLogicExpr, ValueKinds
  <2>2. val = insert
    BY <2>1 DEF ValueHere, At
  <2> QED
    BY <2>1, <2>2 DEF Use
<1>3. CASE FinishBinaryExpr
  <2>1. At("binary.rhs") /\ Use({Top.on[1], val})
    BY <1>3 DEF FinishBinaryExpr
  <2>2. val = insert
    BY <2>1 DEF ValueHere, At, ValueKinds
  <2> QED
    BY <2>1, <2>2 DEF Use
<1>4. UNCHANGED uses \/ IfElseCond \/ IfCond \/ ForCond \/ WhileCond \/ FinishReturnStmt
      \/ FinishUnaryExpr \/ LogicLeft \/ FinishLogicExpr \/ FinishBinaryExpr
  BY DEF Next, values, FinishFuncDecl, VisitScopeChild, LeaveScope, VisitScope, VisitExprStmt,
     FinishExprStmt, VisitIfStmt, IfElseThen, FinishIfStmt, VisitForStmt, ForInit, ForInitNoCond,
     ForBody, FinishForStmt, VisitWhileStmt, FinishWhileStmt, VisitBreakStmt, VisitContinueStmt,
     VisitReturnStmt, VisitLeafExpr, VisitOperator, BinaryLeft
<1> QED
  BY <1>1, <1>2, <1>3, <1>4

(* An operand in another block is a kept left operand, or the value that   *)
(* the visitor finds where the builder stands.                             *)
LEMMA UsesStep ==
  ASSUME Types, Types', ValueHere, KeptDominates, UsesDominated, Next, NEW at, At(at), NEW E, Flow(E)
  PROVE  UsesDominated'
<1>1. SUFFICES ASSUME NEW use \in uses' PROVE ForGood(use[1], use[2])'
  BY DEF UsesDominated
<1>2. CASE use \in uses
  <2>1. PICK d, b : d = use[1] /\ b = use[2]
    OBVIOUS
  <2>2. ForGood(d, b)
    BY <1>2, <2>1 DEF UsesDominated
  <2>3. ForGood(d, b)'
    BY <2>2, ForGoodStep
  <2> QED
    BY <2>1, <2>3
<1>3. CASE At("binary.rhs") /\ use = <<Top.on[1], insert>>
  <2>1. /\ Len(stack) \in 1..Len(stack) /\ stack[Len(stack)] = Top /\ Top.at = "binary.rhs"
        /\ Len(stack) \in Nat
    BY <1>3, AtTop
  <2>2. DominatesFrom(Top.on[1], Len(stack) + 1)
    BY <2>1 DEF KeptDominates
  <2>3. PICK d, b : d = Top.on[1] /\ b = insert
    OBVIOUS
  <2>4. ForGood(d, b)
    <3>1. Len(stack) + 1 \in 1..(Len(stack) + 1) /\ ~(Len(stack) + 1 <= Len(stack))
      BY <2>1
    <3> QED
      BY <2>2, <2>3, <3>1 DEF DominatesFrom, ForGood
  <2>5. ForGood(d, b)' /\ use[1] = d /\ use[2] = b
    BY <1>3, <2>3, <2>4, ForGoodStep
  <2> QED
    BY <2>5
<1> QED
  BY <1>2, <1>3, NewUses

(* A new phi names the two predecessors; no later branch goes to its block. *)
LEMMA PhisStep ==
  ASSUME Types, Types', OpenBlocks, TargetsDiffer, LogicOnePred, PhisComplete, Next, NEW F, Flow(F)
  PROVE  PhisComplete'
<1> DEFINE n == Len(stack)
<1>1. PICK at : At(at) /\ n \in Nat \ {0} /\ Top = stack[n] /\ n \in 1..n
  BY TurnStack
<1>2. SUFFICES ASSUME NEW phi \in phis'
               PROVE  /\ Preds(Graph', phi.at) = {phi.in[1], phi.in[2]} /\ phi.in[1] # phi.in[2]
                      /\ \A i \in 1..Len(stack') : phi.at \notin TargetsOf(stack'[i])
  BY DEF PhisComplete, TargetsOf
<1>3. CASE phi \in phis
  <2>1. PICK c : c = phi.at
    OBVIOUS
  <2>2. c \in Blocks /\ \A i \in 1..n : c \notin TargetsOf(stack[i])
    BY <1>3, <2>1 DEF Types, PhisComplete
  <2>3. c \notin Goals /\ c \notin TargetsOf(Top)
    BY <1>1, <2>2 DEF Goals
  <2>4. Preds(Graph, c)' = Preds(Graph, c)
    BY <1>1, <2>2, <2>3, PredsKept
  <2>5. ASSUME NEW i \in 1..Len(stack') PROVE c \notin TargetsOf(stack'[i])
    <3>1. CASE i < n
      <4>1. i \in 1..(n - 1) /\ i \in 1..n
        BY <1>1, <3>1
      <4> QED
        BY <1>1, <2>2, <4>1, FlowStack
    <3>2. CASE i >= n
      BY <1>1, <2>2, <2>3, <3>2, FlowStack DEF Fresh
    <3> QED
      BY <1>1, <3>1, <3>2
  <2> QED
    BY <1>3, <2>1, <2>4, <2>5 DEF PhisComplete, Preds
<1>4. CASE FinishLogicExpr /\ phi = [at |-> Top.on[2], in |-> <<Top.on[1], insert>>]
  <2>1. PICK E : Flow(E) /\ E = {<<insert, Top.on[2]>>}
    BY <1>4, FlowPending
  <2>2. PICK b, c : b = Top.on[1] /\ c = Top.on[2]
    OBVIOUS
  <2>3. Top.at = "logic.rhs" /\ Leave /\ At("logic.rhs") /\ insert \in Open
    BY <1>4, AtTargets DEF FinishLogicExpr, At, AnyEnd
  <2>4. Preds(Graph, c) = {b} /\ term[b] # << >> /\ c \in TargetsOf(Top) /\ c \in Blocks
    <3>1. Preds(Graph, c) = {b} /\ term[b] # << >>
      BY <1>1, <2>2, <2>3 DEF LogicOnePred
    <3> QED
      BY <1>1, <2>2, <2>3, <3>1, TargetsAre, TargetsTyped
  <2>5. b # insert /\ insert \in Blocks
    BY <2>3, <2>4 DEF Open
  <2>6. Blocks \subseteq Blocks' /\ \A a \in Blocks' : c \in Graph'[a] <=> (a \in Blocks /\ c \in Graph[a]) \/ a = insert
    BY <2>1, <2>2, <2>4 DEF Flow, Adds
  <2>7. Preds(Graph', c) = {b, insert}
    <3>1. \A a \in Blocks' : c \in Graph'[a] <=> a \in {b, insert}
      BY <2>4, <2>6, EdgesAre DEF Preds
    <3>2. b \in Blocks
      BY <2>4, EdgesAre DEF Preds
    <3> QED
      BY <2>5, <2>6, <3>1, <3>2, EdgesAre DEF Preds
  <2>8. ASSUME NEW i \in 1..Len(stack') PROVE c \notin TargetsOf(stack'[i])
    <3>1. i \in 1..n /\ i # n /\ stack'[i] = stack[i]
      BY <1>1, <2>3, StackLeave
    <3> QED
      BY <1>1, <2>4, <3>1 DEF TargetsDiffer
  <2> QED
    BY <1>4, <2>2, <2>5, <2>7, <2>8
<1>5. phis' = phis \/ FinishLogicExpr
  BY DEF Next, values, FinishFuncDecl, VisitScopeChild, LeaveScope, VisitScope, VisitExprStmt,
     FinishExprStmt, VisitIfStmt, IfElseThen, FinishIfStmt, VisitForStmt, ForInit, ForInitNoCond,
     ForBody, FinishForStmt, VisitWhileStmt, FinishWhileStmt, VisitBreakStmt, VisitContinueStmt,
     VisitReturnStmt, VisitLeafExpr, VisitOperator, BinaryLeft, IfElseCond, IfCond, ForCond, WhileCond,
     FinishReturnStmt, FinishUnaryExpr, LogicLeft, FinishBinaryExpr
<1> QED
  BY <1>3, <1>4, <1>5 DEF FinishLogicExpr, slowEndBB

-----------------------------------------------------------------------------
(***************************************************************************)
(* The invariant of the graph, and what follows from it.                   *)
(***************************************************************************)
Promises == KeptDominates /\ HeadersDominate /\ InitUntouched /\ LogicOnePred
(* The promises about the graph, all together. *)
GraphInv == /\ TargetsDiffer /\ ExprAbove /\ ValueHere /\ Promises
            /\ NaturalSoFar /\ UsesDominated /\ PhisComplete

(* At the beginning there is only the entry. *)
LEMMA GraphInvInit ==
  ASSUME Init
  PROVE  GraphInv
<1>1. /\ Len(stack) = 2 /\ stack[1].at = "func" /\ stack[2].at = "scope" /\ Top = stack[2]
      /\ Blocks = {1} /\ term = [b \in {1} |-> << >>] /\ uses = {} /\ phis = {}
  BY DEF Init, Frame, Top, Blocks
<1>2. \A i \in 1..Len(stack) : stack[i].at \in {"func", "scope"}
  BY <1>1
<1>3. \A i \in 1..Len(stack) : TargetsOf(stack[i]) = {} /\ OwnTargetsDiffer(stack[i])
  <2>1. \A i \in 1..Len(stack) : stack[i].at \in NoneHeld
    BY <1>2 DEF NoneHeld
  <2> QED
    BY <2>1, TargetsAre
<1>4. TargetsDiffer
  BY <1>3 DEF TargetsDiffer
<1>5. ExprAbove /\ ValueHere
  BY <1>1, <1>2 DEF ExprAbove, AnyEnd, ValueHere, ValueKinds
<1>6. Promises
  BY <1>2 DEF Promises, KeptDominates, HeadersDominate, Entered, InitUntouched, LogicOnePred
<1>7. NaturalSoFar
  <2>1. \A b \in Blocks : Graph[b] = {}
    BY <1>1, EdgesAre, EndsNone
  <2> QED
    BY <2>1 DEF NaturalSoFar
<1> QED
  BY <1>1, <1>4, <1>5, <1>6, <1>7 DEF GraphInv, UsesDominated, PhisComplete

(* Every step keeps the invariant. *)
LEMMA GraphInvStep ==
  ASSUME IInv, IInv', GraphInv, [Next]_vars
  PROVE  GraphInv'
<1>1. CASE Next
  <2>1. /\ Types /\ Types' /\ Shape /\ OpenBlocks /\ TargetsMatchLoops
        /\ TargetsDiffer /\ ExprAbove /\ ValueHere /\ KeptDominates /\ HeadersDominate
        /\ InitUntouched /\ LogicOnePred /\ NaturalSoFar /\ UsesDominated /\ PhisComplete
    BY DEF IInv, GraphInv, Promises
  <2>2. PICK E : Flow(E) /\ Sinks(E)
    BY <1>1, <2>1, FlowStep
  <2>3. PICK at : At(at)
    BY <1>1, <2>1, TurnStack
  <2>4. TargetsDiffer' /\ NaturalSoFar' /\ UsesDominated'
    BY <1>1, <2>1, <2>2, <2>3, TargetsDifferStep, NaturalStep, UsesStep
  <2>5. ExprAbove' /\ ValueHere'
    BY <1>1, <2>1, ExprAboveStep, ValueHereStep
  <2>6. KeptDominates' /\ HeadersDominate' /\ InitUntouched'
    BY <1>1, <2>1, <2>2, KeptStep, HeadersStep, InitStep
  <2>7. LogicOnePred' /\ PhisComplete'
    BY <1>1, <2>1, <2>2, LogicStep, PhisStep
  <2> QED
    BY <2>4, <2>5, <2>6, <2>7 DEF GraphInv, Promises
<1>2. CASE UNCHANGED vars
  <2>1. Graph' = Graph /\ Blocks' = Blocks /\ stack' = stack /\ insert' = insert /\ term' = term
        /\ uses' = uses /\ phis' = phis /\ val' = val
    BY <1>2 DEF vars, Graph, Blocks
  <2>2. TargetsDiffer' /\ ExprAbove' /\ ValueHere'
    <3>1. TargetsDiffer /\ ExprAbove /\ ValueHere
      BY DEF GraphInv
    <3>2. TargetsDiffer'
      <4>1. \A f : (TargetsOf(f)' = TargetsOf(f)) /\ (OwnTargetsDiffer(f)' <=> OwnTargetsDiffer(f))
        BY DEF TargetsOf, OwnTargetsDiffer
      <4> QED
        BY <2>1, <3>1, <4>1, Zenon DEF TargetsDiffer
    <3>3. ExprAbove'
      BY <2>1, <3>1 DEF ExprAbove
    <3>4. ValueHere'
      BY <2>1, <3>1 DEF ValueHere, Top
    <3> QED
      BY <3>2, <3>3, <3>4
  <2>3. \A d, R, i : Region(d, R, i)' <=> Region(d, R, i)
    BY <2>1 DEF Region, TargetsOf
  <2>4. \A d, b : ForGood(d, b)' <=> ForGood(d, b)
    BY <2>1, <2>3 DEF ForGood
  <2>5. (InitUntouched /\ LogicOnePred /\ PhisComplete)'
    BY <2>1 DEF GraphInv, Promises, InitUntouched, LogicOnePred, PhisComplete, Preds, TargetsOf
  <2>6. KeptDominates' /\ HeadersDominate'
    <3>1. KeptDominates /\ HeadersDominate
      BY DEF GraphInv, Promises
    <3>2. \A d, i : DominatesFrom(d, i)' <=> DominatesFrom(d, i)
      BY <2>1, <2>3 DEF DominatesFrom
    <3>3. KeptDominates'
      BY <2>1, <3>1, <3>2, Zenon DEF KeptDominates
    <3>4. HeadersDominate'
      BY <2>1, <3>1, <3>2, Zenon DEF HeadersDominate
    <3> QED
      BY <3>3, <3>4
  <2>7. NaturalSoFar' /\ UsesDominated'
    <3>1. NaturalSoFar /\ UsesDominated
      BY DEF GraphInv
    <3> QED
      BY <2>1, <2>4, <3>1, Zenon DEF NaturalSoFar, UsesDominated
  <2> QED
    BY <2>2, <2>5, <2>6, <2>7 DEF GraphInv, Promises
<1> QED
  BY <1>1, <1>2

(* Whatever the function body, each step of its lowering keeps the regions *)
(* by which headers dominate their loops and operands their uses.          *)
THEOREM GraphInvHolds == Spec => [](IInv /\ GraphInv)
<1>1. Init => GraphInv
  BY GraphInvInit
<1>2. IInv /\ IInv' /\ GraphInv /\ [Next]_vars => GraphInv'
  BY GraphInvStep
<1> QED
  BY <1>1, <1>2, IInvHolds, PTL DEF Spec

(* A short-circuit phi has one incoming value for each predecessor of its  *)
(* block, however the operands are nested.                                 *)
THEOREM PhisRight == Spec => []PhiMatchesPreds
<1>1. GraphInv => PhiMatchesPreds
  BY DEF GraphInv, PhisComplete, PhiMatchesPreds
<1> QED
  BY <1>1, GraphInvHolds, PTL

(* The operands that an instruction takes from ExprValues are defined on   *)
(* every path to it, for every function body.                              *)
THEOREM OperandsDominate == Spec => []OperandsDominateUses
<1>1. IInv /\ GraphInv => OperandsDominateUses
  <2> SUFFICES ASSUME IInv, GraphInv, NEW use \in uses
               PROVE  Dominates(Graph, 1, use[1], use[2])
    BY DEF OperandsDominateUses
  <2>1. Types /\ ForGood(use[1], use[2])
    BY DEF IInv, GraphInv, UsesDominated
  <2> QED
    BY <2>1, ForGoodDominates
<1> QED
  BY <1>1, GraphInvHolds, PTL

(* Every cycle of the lowered graph has a back edge, to a header that      *)
(* dominates it: with any nesting of loops, break, continue and return.    *)
THEOREM LoopsNatural == Spec => []LoopsAreNatural
<1>1. IInv /\ GraphInv => LoopsAreNatural
  <2> SUFFICES ASSUME IInv, GraphInv
               PROVE  Reducible(Graph, 1)
    BY DEF LoopsAreNatural
  <2>1. Types /\ NaturalSoFar
    BY DEF IInv, GraphInv
  <2>2. IsGraph(Graph) /\ DOMAIN Graph = Blocks /\ 1 \in Blocks
    BY <2>1, GraphIs, TargetsTyped
  <2>3. \A X \in SUBSET Blocks : X # {} =>
          \E b \in X : \A c \in Graph[b] \cap X : Dominates(Graph, 1, c, b)
    <3> SUFFICES ASSUME NEW X \in SUBSET Blocks, X # {}
                 PROVE  \E b \in X : \A c \in Graph[b] \cap X : Dominates(Graph, 1, c, b)
      OBVIOUS
    <3>1. PICK b \in X : \A c \in Graph[b] \cap X : ForGood(c, b)
      BY <2>1 DEF NaturalSoFar
    <3> QED
      BY <2>1, <3>1, ForGoodDominates
  <2> HIDE DEF Graph
  <2> QED
    BY <2>2, <2>3, ReducibleIfSinks
<1> QED
  BY <1>1, GraphInvHolds, PTL
=============================================================================
