---------------------------- MODULE LocalOptsProofs ----------------------------
(***************************************************************************)
(* Proofs about LocalOpts: in functions of any number of instructions, no  *)
(* operand or map entry is left dangling by a replacement, when the rounds *)
(* end no pass has anything left to do, and the passes implement an        *)
(* optimizer: no rewrite changes what the function does.                   *)
(***************************************************************************)
EXTENDS LocalOpts, CFGProofs, TLAPS

Operands == [k : {"const", "global", "ins"}, v : Int]
IsOperand(o) == o = [k |-> o.k, v |-> o.v]

Passes == {"fold", "simplify", "cse", "dce", "done"}

OptTypeOK ==
  /\ f \in Programs
  /\ live \subseteq DOMAIN f
  /\ DOMAIN arg = DOMAIN f
  /\ \A i \in DOMAIN f : /\ DOMAIN arg[i] = DOMAIN f[i].args
                         /\ \A j \in DOMAIN arg[i] : IsOperand(arg[i][j])
  /\ pass \in Passes
  /\ at \in live \cup {N + 1}
  /\ changed \in BOOLEAN /\ optChanged \in BOOLEAN

(* The maps are there within a walk of localCSE only, and know only        *)
(* instructions that the walk has passed and left.                         *)
MapsKnowLive ==
  /\ pass # "cse" \/ at = N + 1 => seen = {} /\ loadMap = {}
  /\ \A e \in seen \cup loadMap : e.by \in live /\ e.by < at

OperandsInv == OptTypeOK /\ MapsKnowLive /\ NoDanglingOperand

-----------------------------------------------------------------------------
(***************************************************************************)
(* The function and the walk.                                              *)
(***************************************************************************)
LEMMA FunctionIs ==
  ASSUME f \in Programs
  PROVE  /\ N \in Nat \ {0} /\ DOMAIN f = 1..N
         /\ \A i \in DOMAIN f : /\ f[i].args \in Seq(Operands)
                                /\ DOMAIN f[i].args = 1..Len(f[i].args)
                                /\ Op(i) \in Computations \cup {"store"} => Len(f[i].args) = 2
                                /\ Op(i) \in {"load", "gep", "call"} => Len(f[i].args) = 1
<1> DEFINE Instructions == [op : Computations \cup Terminators \cup {"phi", "gep", "load", "store", "call"},
                            args : Seq(Operands), block : Nat, to : Seq(Nat)]
<1>1. f # << >> /\ f \in Seq(Instructions)
  BY LocalOptsAssumption DEF Operands
<1>2. \A i \in DOMAIN f : /\ f[i].op \in Computations \cup {"store"} => Len(f[i].args) = 2
                          /\ f[i].op \in {"load", "gep", "call"} => Len(f[i].args) = 1
  BY LocalOptsAssumption
<1>3. N \in Nat \ {0} /\ DOMAIN f = 1..N /\ \A i \in DOMAIN f : f[i] \in Instructions
  <2> HIDE DEF Instructions
  <2> QED
    BY <1>1 DEF N
<1>4. \A i \in DOMAIN f : f[i].args \in Seq(Operands)
  BY <1>3
<1>5. \A i \in DOMAIN f : DOMAIN f[i].args = 1..Len(f[i].args)
  BY <1>4
<1> QED
  BY <1>2, <1>3, <1>4, <1>5 DEF Op

(* First finds the least element of S that is not below i, if there is one. *)
LEMMA FirstIs ==
  ASSUME NEW n \in Nat, NEW S \in SUBSET (1..n), NEW i \in Nat, i <= n + 1
  PROVE  /\ First(S, i, n) \in S \cup {n + 1}
         /\ First(S, i, n) >= i
         /\ \A j \in S : j >= i => First(S, i, n) <= j
<1>1. CASE \E j \in S : j >= i
  <2> DEFINE T == {j \in S : j >= i}
  <2>1. T \subseteq Nat /\ T # {}
    <3>1. \A j \in 1..n : j \in Nat
      OBVIOUS
    <3>2. \A j \in T : j \in 1..n
      OBVIOUS
    <3> QED
      BY <1>1, <3>1, <3>2
  <2>2. PICK m \in T : \A k \in T : ~(<<k, m>> \in OpToRel(<, Nat))
    <3> HIDE DEF T
    <3> QED
      BY <2>1, NatLessThanWellFounded, WFMin
  <2>3. \A k \in T : m <= k
    <3> SUFFICES ASSUME NEW k \in T PROVE m <= k
      OBVIOUS
    <3>1. k \in Nat /\ m \in Nat
      BY <2>1
    <3>2. ~(k < m)
      BY <2>2, <3>1, Zenon DEF OpToRel
    <3> QED
      BY <3>1, <3>2
  <2>4. m \in S /\ m >= i /\ \A k \in S : k >= i => m <= k
    BY <2>3
  <2> QED
    BY <1>1, <2>4, Zenon DEF First
<1>2. CASE ~\E j \in S : j >= i
  BY <1>2 DEF First
<1> QED
  BY <1>1, <1>2

(* Where the walk goes from an instruction. *)
LEMMA WalkOn ==
  ASSUME OptTypeOK, NEW S \in SUBSET live, S = live \/ S = live \ {at}
  PROVE  /\ at \in live => First(live, at + 1, N) = NextAt
         /\ at \in live =>
              /\ NextAt \in S \cup {N + 1} /\ NextAt > at
              /\ \A j \in live : j < NextAt <=> j <= at
         /\ First(live, 1, N) \in live \cup {N + 1} /\ \A j \in live : j >= First(live, 1, N)
<1>1. N \in Nat /\ live \in SUBSET (1..N)
  BY FunctionIs DEF OptTypeOK
<1>2. CASE at \in live
  <2>1. at + 1 \in Nat /\ at + 1 <= N + 1 /\ at \in Nat
    BY <1>1, <1>2
  <2>2. /\ NextAt \in live \cup {N + 1} /\ NextAt >= at + 1
        /\ \A j \in live : j >= at + 1 => NextAt <= j
    BY <1>1, <2>1, FirstIs DEF NextAt
  <2>3. \A j \in live : j \in Nat
    BY <1>1
  <2>4. First(live, 1, N) \in live \cup {N + 1} /\ \A j \in live : j >= First(live, 1, N)
    BY <1>1, FirstIs
  <2>5. \A j \in live : j < NextAt <=> j <= at
    BY <2>1, <2>2, <2>3, <1>1
  <2>6. NextAt > at /\ NextAt # at
    BY <2>1, <2>2, <2>3, <1>1
  <2>7. NextAt \in S \cup {N + 1}
    BY <2>2, <2>6
  <2> QED
    BY <2>4, <2>5, <2>6, <2>7 DEF NextAt
<1>3. CASE at \notin live
  BY <1>1, <1>3, FirstIs
<1> QED
  BY <1>2, <1>3

(* The operands of a computation are at their places. *)
LEMMA TwoOperands ==
  ASSUME OptTypeOK, NEW i \in live, Op(i) \in Computations
  PROVE  1 \in DOMAIN arg[i] /\ 2 \in DOMAIN arg[i]
<1>1. i \in DOMAIN f /\ f \in Programs /\ DOMAIN arg[i] = DOMAIN f[i].args
  BY DEF OptTypeOK
<1>2. DOMAIN f[i].args = 1..2
  BY <1>1, FunctionIs
<1> QED
  BY <1>1, <1>2

(* A replacement puts o where the visited instruction was used. *)
LEMMA ReplaceIs ==
  ASSUME OptTypeOK, NEW o, ReplaceAllUses(o)
  PROVE  /\ DOMAIN arg' = DOMAIN f
         /\ \A i \in DOMAIN f :
              /\ DOMAIN arg'[i] = DOMAIN f[i].args
              /\ \A j \in DOMAIN f[i].args :
                   arg'[i][j] = IF arg[i][j] = Ref(at) THEN o ELSE arg[i][j]
<1>1. \A i \in DOMAIN f : DOMAIN arg[i] = DOMAIN f[i].args
  BY DEF OptTypeOK
<1>2. arg' = [i \in DOMAIN f |-> [j \in DOMAIN arg[i] |->
                IF arg[i][j] = Ref(at) THEN o ELSE arg[i][j]]]
  BY DEF ReplaceAllUses
<1> QED
  BY <1>1, <1>2

-----------------------------------------------------------------------------
(***************************************************************************)
(* What the steps have in common.                                          *)
(***************************************************************************)
(* An operand that may stand for the visited instruction. *)
Earlier(o) == IsOperand(o) /\ (o.k = "ins" => o.v \in live /\ o.v < at)

Kept == at \in live /\ Keep
Replaced == at \in live /\ pass # "done" /\ \E o : Earlier(o) /\ Replace(o)
Removed == at \in live /\ pass # "done" /\ ~Used(at) /\ arg' = arg /\ Erase
Turned == /\ at = N + 1 /\ pass # "done" /\ at' = First(live, 1, N)
          /\ pass' \in Passes /\ changed' \in BOOLEAN /\ optChanged' \in BOOLEAN
          /\ UNCHANGED <<f, live, arg, seen, loadMap>>

(* The places of the instructions before the one visited are earlier. *)
LEMMA OperandEarlier ==
  ASSUME OptTypeOK, NoDanglingOperand, at \in live, NEW j \in DOMAIN arg[at]
  PROVE  Earlier(arg[at][j])
<1>1. at \in 1..N
  BY FunctionIs DEF OptTypeOK
<1>2. IsOperand(arg[at][j])
  BY DEF OptTypeOK
<1>3. arg[at][j].k = "ins" => arg[at][j].v \in live \cap 1..(at - 1)
  BY DEF NoDanglingOperand
<1> QED
  BY <1>1, <1>2, <1>3 DEF Earlier

(* Every step is of one of four kinds. *)
LEMMA StepIs ==
  ASSUME OperandsInv, OptNext
  PROVE  Kept \/ Replaced \/ Removed \/ Turned
<1> USE DEF OperandsInv
<1>1. CASE ConstantFold
  <2>1. Earlier(Folded)
    BY DEF Earlier, IsOperand, Folded, Const
  <2> QED
    BY <1>1, <2>1 DEF ConstantFold, Visiting, Kept, Replaced
<1>2. CASE AlgebraicSimplify
  <2>1. ASSUME NEW o \in Simpler(at), at \in live PROVE Earlier(o)
    <3>1. Simpler(at) # {}
      BY <2>1
    <3>2. Op(at) \in {"add", "sub", "mul", "sdiv"}
      BY <3>1 DEF Simpler
    <3>3. o \in {arg[at][1], arg[at][2], Const(0)}
      BY <2>1 DEF Simpler
    <3>4. 1 \in DOMAIN arg[at] /\ 2 \in DOMAIN arg[at]
      BY <2>1, <3>2, TwoOperands DEF Computations, BinaryOps, Arithmetic
    <3>5. Earlier(Const(0))
      BY DEF Earlier, IsOperand, Const
    <3> QED
      BY <2>1, <3>3, <3>4, <3>5, OperandEarlier
  <2> QED
    BY <1>2, <2>1 DEF AlgebraicSimplify, Visiting, Kept, Replaced
<1>3. CASE CSEComputation \/ CSELoad
  <2>1. ASSUME NEW e \in seen \cup loadMap PROVE Earlier(Ref(e.by))
    BY <2>1 DEF MapsKnowLive, Earlier, IsOperand, Ref
  <2> QED
    BY <1>3, <2>1 DEF CSEComputation, CSELoad, Visiting, Kept, Replaced, Found
<1>4. CASE CSEOther
  BY <1>4 DEF CSEOther, Visiting, Kept
<1>5. CASE DeadCodeElim
  BY <1>5 DEF DeadCodeElim, Visiting, Kept, Removed, Dead
<1>6. CASE WalkAgain \/ FinishPass \/ FinishRound
  <2>1. at = N + 1
    <3>1. at > N
      BY <1>6 DEF WalkAgain, FinishPass, FinishRound
    <3>2. N \in Nat /\ \A i \in live : i \in 1..N
      BY FunctionIs DEF OptTypeOK
    <3> QED
      BY <3>1, <3>2 DEF OptTypeOK
  <2> QED
    BY <1>6, <2>1 DEF WalkAgain, FinishPass, FinishRound, Turned, NextPass, Passes, OptTypeOK
<1> QED
  BY <1>1, <1>2, <1>3, <1>4, <1>5, <1>6 DEF OptNext

(* Every step keeps the types. *)
LEMMA TypesStep ==
  ASSUME OperandsInv, Kept \/ Replaced \/ Removed \/ Turned
  PROVE  OptTypeOK'
<1> USE DEF OperandsInv
<1>1. CASE Kept
  BY <1>1, WalkOn DEF Kept, Keep, OptTypeOK, N
<1>2. CASE Replaced \/ Removed
  <2>1. /\ at \in live /\ live' = live \ {at} /\ at' = NextAt /\ changed' = TRUE /\ optChanged' = TRUE
        /\ f' = f /\ pass' = pass
    BY <1>2 DEF Replaced, Removed, Replace, Erase
  <2>2. /\ DOMAIN arg' = DOMAIN f
        /\ \A i \in DOMAIN f : /\ DOMAIN arg'[i] = DOMAIN f[i].args
                               /\ \A j \in DOMAIN arg'[i] : IsOperand(arg'[i][j])
    <3>1. CASE Replaced
      <4>1. PICK o : Earlier(o) /\ ReplaceAllUses(o)
        BY <3>1 DEF Replaced, Replace
      <4>2. IsOperand(o) /\ \A i \in DOMAIN f : /\ DOMAIN arg[i] = DOMAIN f[i].args
                                                /\ \A j \in DOMAIN arg[i] : IsOperand(arg[i][j])
        BY <4>1 DEF Earlier, OptTypeOK
      <4>3. /\ DOMAIN arg' = DOMAIN f
            /\ \A i \in DOMAIN f :
                 /\ DOMAIN arg'[i] = DOMAIN f[i].args
                 /\ \A j \in DOMAIN f[i].args :
                      arg'[i][j] = IF arg[i][j] = Ref(at) THEN o ELSE arg[i][j]
        BY <4>1, ReplaceIs
      <4> QED
        BY <4>2, <4>3
    <3>2. CASE Removed
      BY <3>2 DEF Removed, OptTypeOK
    <3> QED
      BY <1>2, <3>1, <3>2
  <2>3. NextAt \in live' \cup {N + 1}
    BY <2>1, WalkOn
  <2> QED
    BY <2>1, <2>2, <2>3 DEF OptTypeOK, N, IsOperand
<1>3. CASE Turned
  BY <1>3, WalkOn DEF Turned, OptTypeOK, N
<1> QED
  BY <1>1, <1>2, <1>3

(* A replacement points to an earlier instruction that stays. *)
LEMMA DanglingStep ==
  ASSUME OperandsInv, Kept \/ Replaced \/ Removed \/ Turned
  PROVE  NoDanglingOperand'
<1> USE DEF OperandsInv
<1>1. live \subseteq 1..N /\ N \in Nat /\ \A i \in live : DOMAIN arg[i] = DOMAIN f[i].args
  BY FunctionIs DEF OptTypeOK
<1>2. CASE Kept \/ Turned
  BY <1>2 DEF Kept, Keep, Turned, NoDanglingOperand
<1>3. CASE Replaced
  <2>1. PICK o : Earlier(o) /\ Replace(o)
    BY <1>3 DEF Replaced
  <2> SUFFICES ASSUME NEW i \in live', NEW j \in DOMAIN arg'[i], arg'[i][j].k = "ins"
               PROVE  arg'[i][j].v \in live' \cap 1..(i - 1)
    BY DEF NoDanglingOperand
  <2>2. live' = live \ {at} /\ at \in live /\ i \in live /\ i \in DOMAIN f
    BY <1>3, <2>1 DEF Replaced, Replace, Erase, OptTypeOK
  <2>3. /\ j \in DOMAIN arg[i] /\ j \in DOMAIN f[i].args
        /\ arg'[i][j] = IF arg[i][j] = Ref(at) THEN o ELSE arg[i][j]
    <3>1. /\ DOMAIN arg'[i] = DOMAIN f[i].args
          /\ \A m \in DOMAIN f[i].args :
               arg'[i][m] = IF arg[i][m] = Ref(at) THEN o ELSE arg[i][m]
      BY <2>1, <2>2, ReplaceIs DEF Replace
    <3> QED
      BY <1>1, <2>2, <3>1
  <2>4. arg[i][j].k = "ins" => arg[i][j].v \in live \cap 1..(i - 1)
    BY <2>2, <2>3 DEF NoDanglingOperand
  <2>5. CASE arg[i][j] = Ref(at)
    <3>1. at \in 1..(i - 1)
      BY <2>4, <2>5 DEF Ref
    <3>2. o.v \in live /\ o.v < at
      BY <2>1, <2>3, <2>5 DEF Earlier
    <3>3. at \in 1..N /\ i \in 1..N /\ o.v \in 1..N
      BY <1>1, <2>2, <3>2
    <3>4. o.v \in 1..(i - 1) /\ o.v # at
      BY <3>1, <3>2, <3>3, <1>1
    <3> QED
      BY <2>2, <2>3, <2>5, <3>2, <3>4
  <2>6. CASE arg[i][j] # Ref(at)
    <3>1. arg'[i][j] = arg[i][j] /\ arg[i][j].v \in live \cap 1..(i - 1)
      BY <2>3, <2>4, <2>6
    <3>2. arg[i][j].v # at
      BY <2>2, <2>3, <2>6 DEF OptTypeOK, IsOperand, Ref
    <3> QED
      BY <2>2, <3>1, <3>2
  <2> QED
    BY <2>5, <2>6
<1>4. CASE Removed
  <2> SUFFICES ASSUME NEW i \in live', NEW j \in DOMAIN arg[i], arg[i][j].k = "ins"
               PROVE  arg[i][j].v \in live' \cap 1..(i - 1)
    BY <1>4 DEF Removed, NoDanglingOperand
  <2>1. live' = live \ {at} /\ i \in live
    BY <1>4 DEF Removed, Erase
  <2>2. arg[i][j].v \in live \cap 1..(i - 1)
    BY <2>1 DEF NoDanglingOperand
  <2>3. arg[i][j] # Ref(at)
    BY <1>4, <2>1 DEF Removed, Used
  <2>4. IsOperand(arg[i][j])
    BY <2>1 DEF OptTypeOK
  <2>5. arg[i][j].v # at
    BY <2>3, <2>4 DEF IsOperand, Ref
  <2> QED
    BY <2>1, <2>2, <2>5
<1> QED
  BY <1>2, <1>3, <1>4

(* A map that is kept grows by the visited instruction at most, and only   *)
(* if that stays; it is empty when the walk leaves the last block.         *)
LEMMA MapsStep ==
  ASSUME OperandsInv, OptNext, OptTypeOK'
  PROVE  MapsKnowLive'
<1> USE DEF OperandsInv
<1>1. live \subseteq 1..N /\ N \in Nat /\ DOMAIN f = 1..N /\ at \in 1..(N + 1)
  BY FunctionIs DEF OptTypeOK
<1>2. CASE WalkAgain \/ FinishPass \/ FinishRound
  <2>1. at = N + 1 /\ live' = live /\ seen' = seen /\ loadMap' = loadMap
    BY <1>1, <1>2 DEF WalkAgain, FinishPass, FinishRound
  <2> QED
    BY <2>1 DEF MapsKnowLive
<1>3. CASE ConstantFold \/ AlgebraicSimplify \/ DeadCodeElim
  <2>1. pass # "cse" /\ pass' = pass /\ seen' = seen /\ loadMap' = loadMap
    BY <1>3 DEF ConstantFold, AlgebraicSimplify, DeadCodeElim, Visiting, Keep, Replace, Erase
  <2> QED
    BY <2>1 DEF MapsKnowLive
<1>4. CASE CSEComputation \/ CSELoad \/ CSEOther
  <2>1. at \in live /\ pass = "cse" /\ pass' = pass /\ at' = NextAt /\ f' = f
    BY <1>4 DEF CSEComputation, CSELoad, CSEOther, Visiting, Keep, Replace, Erase
  <2>2. NextAt > at /\ N' = N
    BY <2>1, WalkOn DEF N
  <2>3. \/ live' = live /\ \A e \in seen' \cup loadMap' : e \in seen \cup loadMap \/ e.by = at
        \/ live' = live \ {at} /\ \A e \in seen' \cup loadMap' : e \in seen \cup loadMap
    <3>1. CASE CSEComputation
      BY <3>1 DEF CSEComputation, Keep, Replace, Erase, Reset, Entry
    <3>2. CASE CSELoad
      BY <3>2 DEF CSELoad, Keep, Replace, Erase, Reset, Entry
    <3>3. CASE CSEOther
      BY <3>3 DEF CSEOther, Keep, Reset, AfterWrite
    <3> QED
      BY <1>4, <3>1, <3>2, <3>3
  <2>4. at' = N + 1 => seen' = {} /\ loadMap' = {}
    <3>1. at' = N + 1 => ~SameBlock
      BY <1>1, <2>1 DEF SameBlock
    <3> QED
      BY <1>4, <3>1 DEF CSEComputation, CSELoad, CSEOther, Reset
  <2>5. \A e \in seen' \cup loadMap' : e.by \in live' /\ e.by < at'
    <3> SUFFICES ASSUME NEW e \in seen' \cup loadMap' PROVE e.by \in live' /\ e.by < at'
      OBVIOUS
    <3>1. CASE e \in seen \cup loadMap
      <4>1. e.by \in live /\ e.by < at /\ e.by \in 1..N
        BY <1>1, <3>1 DEF MapsKnowLive
      <4>2. at' \in 1..(N + 1)
        <5>1. NextAt \in live \cup {N + 1}
          BY <2>1, WalkOn
        <5> QED
          BY <1>1, <2>1, <5>1
      <4> QED
        BY <1>1, <2>1, <2>2, <2>3, <4>1, <4>2
    <3>2. CASE e.by = at /\ live' = live
      BY <2>1, <2>2, <3>2
    <3> QED
      BY <2>3, <3>1, <3>2
  <2> QED
    BY <2>1, <2>2, <2>4, <2>5 DEF MapsKnowLive
<1> QED
  BY <1>2, <1>3, <1>4 DEF OptNext

(* The function as it is given. *)
LEMMA OperandsInvInit == OptInit => OperandsInv
<1> SUFFICES ASSUME OptInit PROVE OperandsInv
  OBVIOUS
<1>1. f \in Programs /\ live = DOMAIN f /\ pass = "fold" /\ at = 1 /\ changed = FALSE
      /\ optChanged = FALSE /\ seen = {} /\ loadMap = {} /\ arg = [i \in DOMAIN f |-> f[i].args]
  BY DEF OptInit
<1>2. N \in Nat \ {0} /\ DOMAIN f = 1..N /\ \A i \in DOMAIN f : f[i].args \in Seq(Operands)
  BY <1>1, FunctionIs
<1>3. \A i \in DOMAIN f : \A j \in DOMAIN f[i].args : f[i].args[j] \in Operands
  BY <1>2
<1>4. OptTypeOK
  <2>1. \A o \in Operands : IsOperand(o)
    BY DEF Operands, IsOperand
  <2>2. at \in live /\ DOMAIN arg = DOMAIN f /\ \A i \in DOMAIN f : arg[i] = f[i].args
    BY <1>1, <1>2
  <2>3. \A i \in DOMAIN f : \A j \in DOMAIN f[i].args : IsOperand(f[i].args[j])
    BY <1>3, <2>1
  <2> QED
    BY <1>1, <2>2, <2>3, Zenon DEF OptTypeOK, Passes
<1>5. NoDanglingOperand
  <2>1. \A i \in DOMAIN f : \A j \in DOMAIN f[i].args :
          f[i].args[j].k = "ins" => f[i].args[j].v \in 1..(i - 1)
    BY <1>1, LocalOptsAssumption
  <2>2. \A i \in DOMAIN f : 1..(i - 1) \subseteq DOMAIN f
    BY <1>2
  <2>3. \A i \in DOMAIN f : arg[i] = f[i].args
    BY <1>1
  <2> QED
    BY <1>1, <2>1, <2>2, <2>3 DEF NoDanglingOperand
<1> QED
  BY <1>1, <1>4, <1>5 DEF OperandsInv, MapsKnowLive

(* Every step keeps the invariant. *)
LEMMA OperandsInvStep == OperandsInv /\ [OptNext]_optVars => OperandsInv'
<1>1. ASSUME OperandsInv, OptNext PROVE OperandsInv'
  BY <1>1, StepIs, TypesStep, DanglingStep, MapsStep DEF OperandsInv
<1>2. ASSUME OperandsInv, UNCHANGED optVars PROVE OperandsInv'
  BY <1>2 DEF optVars, OperandsInv, OptTypeOK, MapsKnowLive, NoDanglingOperand, N, IsOperand
<1> QED
  BY <1>1, <1>2

-----------------------------------------------------------------------------
(***************************************************************************)
(* A round that has changed nothing yet.                                   *)
(***************************************************************************)
NoFold(U) == \A i \in U : ~Foldable(i)
NoSimpler(U) == \A i \in U : Computes(i) => Simpler(i) = {}
NoPair(U) ==
  \A i, k \in U : k # i /\ f[k].block = f[i].block /\ Computes(i) /\ Computes(k) =>
    /\ Key(k) # Key(i)
    /\ Commutative(i) => Key(k) # SwappedKey(i)
NoDead(U) == \A i \in U : ~Dead(i)

(* What pass p has walked over in this round. *)
Before == {i \in live : i < at}
After(p) == CASE p = "fold" -> {"simplify", "cse", "dce", "done"}
              [] p = "simplify" -> {"cse", "dce", "done"}
              [] p = "cse" -> {"dce", "done"}
              [] p = "dce" -> {"done"}
Walked(p) == IF pass = p THEN Before ELSE IF pass \in After(p) THEN live ELSE {}

(* The computations before the visited one in its block are in the map. *)
SeenKnows ==
  pass = "cse" /\ at \in live =>
    \A i \in Before : f[i].block = f[at].block /\ Computes(i) =>
      /\ Found(seen, Key(i)) # {}
      /\ Commutative(i) => Found(seen, SwappedKey(i)) # {}

Quiet ==
  /\ pass = "done" => ~optChanged
  /\ ~optChanged =>
       /\ ~changed
       /\ NoFold(Walked("fold")) /\ NoSimpler(Walked("simplify"))
       /\ NoPair(Walked("cse")) /\ NoDead(Walked("dce"))
       /\ SeenKnows

(* As long as the function stays, so does what is said of it. *)
LEMMA SameFunction ==
  ASSUME f' = f, live' = live, arg' = arg
  PROVE  \A U : /\ NoFold(U)' <=> NoFold(U)
                /\ NoSimpler(U)' <=> NoSimpler(U)
                /\ NoPair(U)' <=> NoPair(U)
                /\ NoDead(U)' <=> NoDead(U)
<1>1. \A i : /\ Computes(i)' = Computes(i) /\ Commutative(i)' = Commutative(i)
             /\ Key(i)' = Key(i) /\ SwappedKey(i)' = SwappedKey(i) /\ Simpler(i)' = Simpler(i)
             /\ (Foldable(i)' <=> Foldable(i)) /\ (Dead(i)' <=> Dead(i))
  BY DEF Computes, Commutative, Key, SwappedKey, Simpler, Foldable, Dead, Used, HasSideEffects, Op
<1> QED
  BY <1>1 DEF NoFold, NoSimpler, NoPair, NoDead

(* localCSE keeps a computation only if there is no other in its block     *)
(* that the map knows, and makes the map know it.                          *)
LEMMA CSEKeeps ==
  ASSUME OperandsInv, NoPair(Before), SeenKnows, Kept, CSEComputation \/ CSELoad \/ CSEOther
  PROVE  NoPair(Before \cup {at}) /\ SeenKnows'
<1> USE DEF OperandsInv
<1>1. /\ at \in live /\ at' = NextAt /\ live' = live /\ arg' = arg /\ f' = f /\ pass' = pass
      /\ pass = "cse" /\ live \subseteq DOMAIN f
  BY DEF Kept, Keep, CSEComputation, CSELoad, CSEOther, Visiting, OptTypeOK
<1>2. \A i : /\ Computes(i)' = Computes(i) /\ Commutative(i)' = Commutative(i)
             /\ Key(i)' = Key(i) /\ SwappedKey(i)' = SwappedKey(i)
  BY <1>1 DEF Computes, Commutative, Key, SwappedKey, Op
<1>3. Computes(at) => Found(seen, Key(at)) = {}
  <2>1. SUFFICES ASSUME Computes(at), Found(seen, Key(at)) # {} PROVE FALSE
    OBVIOUS
  <2>2. Op(at) # "load"
    BY <2>1 DEF Computes, Computations, BinaryOps, Arithmetic, Predicates
  <2>3. \E o : Replace(o)
    BY <2>1, <2>2 DEF CSEComputation, CSELoad, CSEOther
  <2>4. live' = live \ {at}
    BY <2>3 DEF Replace, Erase
  <2> QED
    BY <1>1, <2>4
<1>4. \A i \in Before : f[i].block = f[at].block /\ Computes(i) /\ Computes(at) =>
        /\ Key(i) # Key(at)
        /\ Commutative(i) => Key(at) # SwappedKey(i)
  BY <1>1, <1>3 DEF SeenKnows
<1>5. \A i \in Before : f[i].block = f[at].block /\ Computes(i) /\ Computes(at) /\ Commutative(at) =>
        Key(i) # SwappedKey(at)
  <2> SUFFICES ASSUME NEW i \in Before, f[i].block = f[at].block, Computes(i), Computes(at),
                      Commutative(at), Key(i) = SwappedKey(at)
               PROVE  FALSE
    OBVIOUS
  <2>1. Op(i) = Op(at) /\ arg[i][1] = arg[at][2] /\ arg[i][2] = arg[at][1]
    BY DEF Key, SwappedKey
  <2>2. Commutative(i) /\ SwappedKey(i) = Key(at)
    BY <2>1 DEF Commutative, Key, SwappedKey
  <2> QED
    BY <1>4, <2>2
<1>6. NoPair(Before \cup {at})
  BY <1>4, <1>5 DEF NoPair
<1>7. SeenKnows'
  <2> SUFFICES ASSUME at' \in live, NEW i \in Before', f[i].block = f[at'].block, Computes(i)
               PROVE  /\ Found(seen', Key(i)) # {}
                      /\ Commutative(i) => Found(seen', SwappedKey(i)) # {}
    BY <1>1, <1>2 DEF SeenKnows, Found
  <2>1. i \in live /\ (i = at \/ i \in Before) /\ i <= at /\ at < at'
    <3>1. i \in live /\ i < at'
      BY <1>1 DEF Before
    <3>2. i <= at /\ at < at'
      BY <1>1, <3>1, WalkOn
    <3>3. i \in 1..N /\ at \in 1..N /\ N \in Nat
      BY <1>1, <3>1, FunctionIs DEF OptTypeOK
    <3> QED
      BY <3>1, <3>2, <3>3 DEF Before
  <2>2. f[at'].block = f[at].block /\ f[i].block = f[at].block
    <3>1. i \in DOMAIN f /\ at \in DOMAIN f /\ at' \in DOMAIN f /\ f \in Programs
      BY <1>1, <2>1 DEF OptTypeOK
    <3>2. \A a, b, c \in DOMAIN f : a < b /\ b < c /\ f[a].block = f[c].block => f[b].block = f[a].block
      BY <3>1, LocalOptsAssumption
    <3>3. i \in Int /\ at \in Int
      BY <3>1, FunctionIs
    <3> QED
      BY <2>1, <3>1, <3>2, <3>3
  <2>3. SameBlock
    BY <1>1, <2>2 DEF SameBlock
  <2>4. seen \subseteq seen'
    BY <2>3 DEF CSEComputation, CSELoad, CSEOther, Reset
  <2>5. CASE i \in Before
    BY <1>1, <2>2, <2>4, <2>5 DEF SeenKnows, Found
  <2>6. CASE i = at
    <3>1. Op(at) # "load"
      BY <2>6 DEF Computes, Computations, BinaryOps, Arithmetic, Predicates
    <3>2. CSEComputation
      BY <2>6, <3>1 DEF CSELoad, CSEOther
    <3>3. seen' = Reset(seen \cup {Entry(Key(at))}
                    \cup (IF Commutative(at) /\ Found(seen, SwappedKey(at)) = {}
                            THEN {Entry(SwappedKey(at))} ELSE {}))
      BY <1>3, <2>6, <3>2 DEF CSEComputation
    <3>4. Entry(Key(at)) \in seen' /\ Entry(Key(at)).key = Key(at)
      BY <2>3, <3>3 DEF Reset, Entry
    <3>5. Commutative(at) => Found(seen', SwappedKey(at)) # {}
      <4>1. CASE Found(seen, SwappedKey(at)) # {}
        BY <2>4, <4>1 DEF Found
      <4>2. CASE Found(seen, SwappedKey(at)) = {}
        <5>1. Commutative(at) => Entry(SwappedKey(at)) \in seen'
          BY <2>3, <3>3, <4>2 DEF Reset
        <5>2. Entry(SwappedKey(at)).key = SwappedKey(at)
          BY DEF Entry
        <5> QED
          BY <5>1, <5>2 DEF Found
      <4> QED
        BY <4>1, <4>2
    <3> QED
      BY <2>6, <3>4, <3>5 DEF Found
  <2> QED
    BY <2>1, <2>5, <2>6
<1> QED
  BY <1>6, <1>7

(* The visit keeps an instruction only if the pass has nothing to do.      *)
LEMMA QuietVisit ==
  ASSUME OperandsInv, Quiet, ~optChanged, Kept, OptNext
  PROVE  Quiet'
<1> USE DEF OperandsInv
<1>1. /\ at \in live /\ at' = NextAt /\ live' = live /\ arg' = arg /\ f' = f /\ pass' = pass
      /\ changed' = changed /\ optChanged' = optChanged
  BY DEF Kept, Keep
<1>2. Before' = Before \cup {at}
  <2>1. \A j \in live : j < at' <=> j <= at
    BY <1>1, WalkOn
  <2>2. \A j \in live : j \in 1..N /\ N \in Nat
    BY FunctionIs DEF OptTypeOK
  <2> QED
    BY <1>1, <2>1, <2>2 DEF Before
<1>3. at' # at
  BY <1>1, WalkOn, FunctionIs DEF OptTypeOK
<1>4. \A p : Walked(p)' = IF pass = p THEN Before \cup {at} ELSE Walked(p)
  BY <1>1, <1>2 DEF Walked, After
<1>5. \A U : /\ NoFold(U)' <=> NoFold(U)
             /\ NoSimpler(U)' <=> NoSimpler(U)
             /\ NoPair(U)' <=> NoPair(U)
             /\ NoDead(U)' <=> NoDead(U)
  BY <1>1, SameFunction
<1>6. /\ ~changed /\ NoFold(Walked("fold")) /\ NoSimpler(Walked("simplify"))
      /\ NoPair(Walked("cse")) /\ NoDead(Walked("dce")) /\ SeenKnows
  BY DEF Quiet
<1>7. ConstantFold \/ AlgebraicSimplify \/ CSEComputation \/ CSELoad \/ CSEOther \/ DeadCodeElim
  BY <1>1, <1>3, <1>6, FunctionIs DEF OptNext, WalkAgain, FinishPass, FinishRound, OptTypeOK
<1>8. ~Erase
  BY <1>1 DEF Erase
<1>9. /\ pass = "fold" => NoFold(Before \cup {at})
      /\ pass = "simplify" => NoSimpler(Before \cup {at})
      /\ pass = "dce" => NoDead(Before \cup {at})
  <2>1. pass = "fold" => ~Foldable(at)
    BY <1>7, <1>8 DEF ConstantFold, AlgebraicSimplify, CSEComputation, CSELoad, CSEOther, DeadCodeElim,
                      Visiting, Replace
  <2>2. pass = "simplify" => Simpler(at) = {}
    BY <1>7, <1>8 DEF ConstantFold, AlgebraicSimplify, CSEComputation, CSELoad, CSEOther, DeadCodeElim,
                      Visiting, Replace
  <2>3. pass = "dce" => ~Dead(at)
    BY <1>7, <1>8 DEF ConstantFold, AlgebraicSimplify, CSEComputation, CSELoad, CSEOther, DeadCodeElim,
                      Visiting
  <2>4. pass = "fold" => NoFold(Before)
    BY <1>6 DEF Walked
  <2>5. pass = "simplify" => NoSimpler(Before)
    BY <1>6 DEF Walked
  <2>6. pass = "dce" => NoDead(Before)
    BY <1>6 DEF Walked
  <2> QED
    BY <2>1, <2>2, <2>3, <2>4, <2>5, <2>6 DEF NoFold, NoSimpler, NoDead
<1>10. (pass = "cse" => NoPair(Before \cup {at})) /\ SeenKnows'
  <2>1. CASE pass # "cse"
    BY <1>1, <2>1 DEF SeenKnows
  <2>2. CASE pass = "cse"
    <3>1. CSEComputation \/ CSELoad \/ CSEOther
      BY <1>7, <2>2 DEF ConstantFold, AlgebraicSimplify, DeadCodeElim, Visiting
    <3>2. NoPair(Before)
      BY <1>6, <2>2 DEF Walked
    <3> QED
      BY <1>6, <3>1, <3>2, CSEKeeps
  <2> QED
    BY <2>1, <2>2
<1>11. /\ NoFold(Walked("fold")') /\ NoSimpler(Walked("simplify")')
       /\ NoPair(Walked("cse")') /\ NoDead(Walked("dce")')
  BY <1>4, <1>6, <1>9, <1>10, Zenon
<1>12. /\ NoFold(Walked("fold"))' /\ NoSimpler(Walked("simplify"))'
       /\ NoPair(Walked("cse"))' /\ NoDead(Walked("dce"))'
  <2>1. PICK A, B, C, D : A = Walked("fold")' /\ B = Walked("simplify")' /\ C = Walked("cse")'
                          /\ D = Walked("dce")'
    OBVIOUS
  <2>2. NoFold(A)' /\ NoSimpler(B)' /\ NoPair(C)' /\ NoDead(D)'
    BY <1>5, <1>11, <2>1, Zenon
  <2> QED
    BY <2>1, <2>2, Zenon DEF NoFold, NoSimpler, NoPair, NoDead
<1> QED
  BY <1>1, <1>6, <1>10, <1>12 DEF Quiet

(* A pass ends with all of the instructions walked over, and a round with  *)
(* all of its passes done: if none has changed anything the rounds end.    *)
LEMMA QuietTurn ==
  ASSUME OperandsInv, Quiet, OptNext, Turned
  PROVE  Quiet'
<1> USE DEF OperandsInv
<1>1. /\ at = N + 1 /\ at' = First(live, 1, N) /\ live' = live /\ arg' = arg /\ f' = f
  BY DEF Turned
<1>2. Before = live /\ Before' = {}
  <2>1. \A j \in live : j >= at'
    BY <1>1, WalkOn
  <2>2. \A j \in live : j \in 1..N /\ N \in Nat
    BY FunctionIs DEF OptTypeOK
  <2>3. at' \in live \cup {N + 1}
    BY <1>1, WalkOn
  <2> QED
    BY <1>1, <2>1, <2>2, <2>3 DEF Before
<1>3. \A U : /\ NoFold(U)' <=> NoFold(U)
             /\ NoSimpler(U)' <=> NoSimpler(U)
             /\ NoPair(U)' <=> NoPair(U)
             /\ NoDead(U)' <=> NoDead(U)
  BY <1>1, SameFunction
<1>4. NoFold({}) /\ NoSimpler({}) /\ NoPair({}) /\ NoDead({})
  BY DEF NoFold, NoSimpler, NoPair, NoDead
<1>5. at \notin live /\ ~(\E p : Visiting(p))
  <2>1. \A j \in live : j \in 1..N /\ N \in Nat
    BY FunctionIs DEF OptTypeOK
  <2> QED
    BY <1>1, <2>1 DEF Visiting
<1>6. WalkAgain \/ FinishPass \/ FinishRound
  BY <1>5, Zenon DEF OptNext, ConstantFold, AlgebraicSimplify, CSEComputation, CSELoad, CSEOther, DeadCodeElim
<1>7. SeenKnows'
  BY <1>2 DEF SeenKnows
<1>8. ASSUME ~optChanged, ~optChanged'
      PROVE  /\ ~changed'
             /\ \/ pass = "fold" /\ pass' = "simplify"
                \/ pass = "simplify" /\ pass' = "cse"
                \/ pass = "cse" /\ pass' = "dce"
                \/ pass = "dce" /\ pass' = "done"
  <2>1. ~changed
    BY <1>8 DEF Quiet
  <2>2. CASE FinishPass
    BY <2>1, <2>2 DEF FinishPass, NextPass
  <2>3. CASE FinishRound
    BY <1>8, <2>1, <2>3 DEF FinishRound
  <2> QED
    BY <1>6, <2>1, <2>2, <2>3 DEF WalkAgain
<1>9. ASSUME optChanged, ~optChanged'
      PROVE  ~changed' /\ pass' = "fold"
  <2>1. FinishRound
    BY <1>6, <1>9, Zenon DEF WalkAgain, FinishPass
  <2> QED
    BY <1>9, <2>1, Zenon DEF FinishRound
<1>10. ASSUME ~optChanged'
       PROVE  \A p \in {"fold", "simplify", "cse", "dce"} :
                Walked(p)' = {} \/ (~optChanged /\ Walked(p)' = Walked(p))
  <2>1. CASE optChanged
    BY <1>2, <1>9, <1>10, <2>1 DEF Walked, After
  <2>2. CASE ~optChanged
    <3>1. \A p : Walked(p)' = IF pass' = p THEN {} ELSE IF pass' \in After(p) THEN live ELSE {}
      BY <1>1, <1>2 DEF Walked, After
    <3>2. \A p : Walked(p) = IF pass = p THEN live ELSE IF pass \in After(p) THEN live ELSE {}
      BY <1>2 DEF Walked
    <3> QED
      BY <1>8, <1>10, <2>2, <3>1, <3>2 DEF After
  <2> QED
    BY <2>1, <2>2
<1>11. ASSUME ~optChanged'
       PROVE  /\ NoFold(Walked("fold"))' /\ NoSimpler(Walked("simplify"))'
              /\ NoPair(Walked("cse"))' /\ NoDead(Walked("dce"))'
  <2>1. PICK A, B, C, D : A = Walked("fold")' /\ B = Walked("simplify")' /\ C = Walked("cse")'
                          /\ D = Walked("dce")'
    OBVIOUS
  <2>2. ~optChanged => /\ NoFold(Walked("fold")) /\ NoSimpler(Walked("simplify"))
                       /\ NoPair(Walked("cse")) /\ NoDead(Walked("dce"))
    BY DEF Quiet
  <2>3. NoFold(A) /\ NoSimpler(B) /\ NoPair(C) /\ NoDead(D)
    BY <1>4, <1>10, <1>11, <2>1, <2>2
  <2>4. NoFold(A)' /\ NoSimpler(B)' /\ NoPair(C)' /\ NoDead(D)'
    BY <1>3, <2>3, Zenon
  <2> QED
    BY <2>1, <2>4, Zenon DEF NoFold, NoSimpler, NoPair, NoDead
<1>12. pass' = "done" => ~optChanged'
  BY <1>6 DEF WalkAgain, FinishPass, FinishRound, NextPass
<1> QED
  BY <1>7, <1>8, <1>9, <1>11, <1>12 DEF Quiet

(* Nothing has been walked over. *)
LEMMA QuietInit == OptInit => Quiet
<1> SUFFICES ASSUME OptInit PROVE Quiet
  OBVIOUS
<1>1. /\ f \in Programs /\ live = DOMAIN f /\ pass = "fold" /\ at = 1 /\ changed = FALSE
  BY DEF OptInit
<1>2. live \subseteq 1..N /\ N \in Nat
  BY <1>1, FunctionIs
<1>3. Before = {}
  BY <1>1, <1>2 DEF Before
<1>4. Walked("fold") = {} /\ Walked("simplify") = {} /\ Walked("cse") = {} /\ Walked("dce") = {}
  BY <1>1, <1>3 DEF Walked, After
<1> QED
  BY <1>1, <1>4 DEF Quiet, NoFold, NoSimpler, NoPair, NoDead, SeenKnows

(* Every step keeps what the walks without a change have found. *)
LEMMA QuietStep == OperandsInv /\ Quiet /\ [OptNext]_optVars => Quiet'
<1>1. ASSUME OperandsInv, Quiet, OptNext PROVE Quiet'
  <2>1. CASE Kept
    <3>1. optChanged => Quiet'
      BY <1>1, <2>1, Zenon DEF Kept, Keep, Quiet
    <3> QED
      BY <1>1, <2>1, <3>1, QuietVisit
  <2>2. CASE Replaced \/ Removed
    BY <2>2 DEF Replaced, Removed, Replace, Erase, Quiet
  <2>3. CASE Turned
    BY <1>1, <2>3, QuietTurn
  <2> QED
    BY <1>1, <2>1, <2>2, <2>3, StepIs
<1>2. ASSUME Quiet, UNCHANGED optVars PROVE Quiet'
  <2>1. /\ f' = f /\ live' = live /\ arg' = arg /\ pass' = pass /\ at' = at /\ changed' = changed
        /\ optChanged' = optChanged /\ seen' = seen
    BY <1>2 DEF optVars
  <2>2. \A i : /\ Computes(i)' = Computes(i) /\ Commutative(i)' = Commutative(i)
               /\ Key(i)' = Key(i) /\ SwappedKey(i)' = SwappedKey(i) /\ Simpler(i)' = Simpler(i)
               /\ (Foldable(i)' <=> Foldable(i)) /\ (Dead(i)' <=> Dead(i))
    BY <2>1 DEF Computes, Commutative, Key, SwappedKey, Simpler, Foldable, Dead, Used, HasSideEffects, Op
  <2>3. Before' = Before /\ \A p : Walked(p)' = Walked(p)
    BY <2>1 DEF Before, Walked, After
  <2>4. SeenKnows' <=> SeenKnows
    BY <2>1, <2>2, <2>3, Zenon DEF SeenKnows, Found
  <2> QED
    BY <1>2, <2>1, <2>2, <2>3, <2>4, Zenon DEF Quiet, NoFold, NoSimpler, NoPair, NoDead
<1> QED
  BY <1>1, <1>2

-----------------------------------------------------------------------------
(* The invariant of the passes, for every function. *)
THEOREM LocalOptsInvariant == OptSpec => [](OperandsInv /\ Quiet)
<1>1. OptInit => OperandsInv /\ Quiet
  BY OperandsInvInit, QuietInit
<1>2. OperandsInv /\ Quiet /\ [OptNext]_optVars => (OperandsInv /\ Quiet)'
  BY OperandsInvStep, QuietStep
<1> QED
  BY <1>1, <1>2, PTL DEF OptSpec

(* Whatever the passes erase, and in whatever order their replacements     *)
(* come, no operand refers to an erased instruction or to a later one.     *)
THEOREM NothingDangles == OptSpec => []NoDanglingOperand
<1>1. OperandsInv => NoDanglingOperand
  BY DEF OperandsInv
<1> QED
  BY <1>1, LocalOptsInvariant, PTL

(* The rounds end only when none of the four passes has anything to do,    *)
(* although each of them can undo what another has found in order.         *)
THEOREM RoundsEndClean == OptSpec => []NothingLeft
<1>1. OperandsInv /\ Quiet => NothingLeft
  <2> SUFFICES ASSUME OperandsInv, Quiet, OptDone PROVE NothingLeft
    BY DEF NothingLeft
  <2>1. ~optChanged
    BY DEF OptDone, Quiet
  <2>2. Walked("fold") = live /\ Walked("simplify") = live /\ Walked("cse") = live /\ Walked("dce") = live
    BY DEF OptDone, Walked, After
  <2> QED
    BY <2>1, <2>2 DEF Quiet, NothingLeft, NoFold, NoSimpler, NoPair, NoDead
<1> QED
  BY <1>1, LocalOptsInvariant, PTL

-----------------------------------------------------------------------------
(***************************************************************************)
(* Executions: for any function, of which the instructions lv are left,    *)
(* with the operands ar.                                                   *)
(***************************************************************************)
Proper(g, lv, ar) ==
  /\ g \in Programs /\ lv \subseteq DOMAIN g /\ DOMAIN ar = DOMAIN g
  /\ \A i \in DOMAIN g : /\ DOMAIN ar[i] = DOMAIN g[i].args
                         /\ \A j \in DOMAIN ar[i] : IsOperand(ar[i][j])
  /\ \A i \in lv : \A j \in DOMAIN ar[i] : ar[i][j].k = "ins" => ar[i][j].v \in lv \cap 1..(i - 1)

(* The states of an execution, behind each of the instructions. *)
States(S, g, lv, ar, m) ==
  /\ S[0] = Start(g, lv, m)
  /\ \A i \in 1..Len(g) : S[i] = Visit(g, lv, ar, S[i - 1], i)

(* What is assumed of a function. *)
LEMMA ShapeIs ==
  ASSUME NEW g \in Programs
  PROVE  /\ Len(g) \in Nat \ {0} /\ DOMAIN g = 1..Len(g)
         /\ \A i \in DOMAIN g :
              /\ g[i].to \in Seq(Nat)
              /\ g[i].op \in Computations \cup {"store"} => DOMAIN g[i].args = 1..2
              /\ g[i].op \in {"load", "gep", "call"} => DOMAIN g[i].args = 1..1
              /\ g[i].op = "phi" => DOMAIN g[i].args = DOMAIN g[i].to
              /\ g[i].op = "br" => DOMAIN g[i].to = 1..Len(g[i].to)
              /\ g[i].op = "br" => Len(g[i].to) = 1 \/ (Len(g[i].to) = 2 /\ DOMAIN g[i].args = 1..1)
              /\ g[i].op = "br" =>
                   \A j \in DOMAIN g[i].to : \A k \in DOMAIN g : g[k].block = g[i].to[j] => i < k
              /\ \A j, k \in DOMAIN g :
                   i < j /\ j < k /\ g[i].block = g[k].block => g[j].block = g[i].block
<1> DEFINE Instructions == [op : Computations \cup Terminators \cup {"phi", "gep", "load", "store", "call"},
                            args : Seq(Operands), block : Nat, to : Seq(Nat)]
<1>1. g # << >> /\ g \in Seq(Instructions)
  BY LocalOptsAssumption DEF Operands
<1>2. Len(g) \in Nat \ {0} /\ DOMAIN g = 1..Len(g) /\ \A i \in DOMAIN g : g[i] \in Instructions
  <2> HIDE DEF Instructions
  <2> QED
    BY <1>1
<1>3. \A i \in DOMAIN g :
         /\ g[i].args \in Seq(Operands) /\ g[i].to \in Seq(Nat)
         /\ DOMAIN g[i].args = 1..Len(g[i].args) /\ DOMAIN g[i].to = 1..Len(g[i].to)
  BY <1>2
<1>4. \A i \in DOMAIN g :
        /\ g[i].op \in Computations \cup {"store"} => Len(g[i].args) = 2
        /\ g[i].op \in {"load", "gep", "call"} => Len(g[i].args) = 1
        /\ g[i].op = "phi" => Len(g[i].args) = Len(g[i].to)
        /\ g[i].op = "br" => Len(g[i].to) = 1 \/ (Len(g[i].to) = 2 /\ Len(g[i].args) = 1)
        /\ g[i].op = "br" =>
             \A j \in DOMAIN g[i].to : \A k \in DOMAIN g : g[k].block = g[i].to[j] => i < k
        /\ \A j, k \in DOMAIN g : i < j /\ j < k /\ g[i].block = g[k].block => g[j].block = g[i].block
  BY LocalOptsAssumption
<1> HIDE DEF Instructions
<1> QED
  BY <1>2, <1>3, <1>4

(* An execution has one state behind each instruction. *)
LEMMA ExecutionIs ==
  ASSUME NEW g, Len(g) \in Nat, NEW lv, NEW ar, NEW m
  PROVE  \E S : States(S, g, lv, ar, m) /\ Run(g, lv, ar, m) = {S[Len(g)].out}
<1> DEFINE n == Len(g)
           Begins(S, k) == /\ S[0] = Start(g, lv, m)
                           /\ \A i \in 1..k : S[i] = Visit(g, lv, ar, S[i - 1], i)
           T == {k \in Nat : \E S : Begins(S, k)}
<1>1. 0 \in T
  <2>1. Begins([i \in {0} |-> Start(g, lv, m)], 0)
    OBVIOUS
  <2> QED
    BY <2>1
<1>2. ASSUME NEW k \in Nat, k \in T PROVE k + 1 \in T
  <2>1. PICK S : Begins(S, k)
    BY <1>2
  <2> DEFINE longer == [i \in 0..(k + 1) |-> IF i = k + 1 THEN Visit(g, lv, ar, S[k], k + 1) ELSE S[i]]
  <2>2. \A i \in 0..k : longer[i] = S[i]
    OBVIOUS
  <2>3. longer[k + 1] = Visit(g, lv, ar, S[k], k + 1)
    OBVIOUS
  <2> HIDE DEF longer
  <2>4. Begins(longer, k + 1)
    <3>1. longer[0] = Start(g, lv, m)
      BY <2>1, <2>2
    <3>2. ASSUME NEW i \in 1..(k + 1) PROVE longer[i] = Visit(g, lv, ar, longer[i - 1], i)
      <4>1. CASE i = k + 1
        BY <2>2, <2>3, <4>1
      <4>2. CASE i # k + 1
        <5>1. i \in 1..k /\ i - 1 \in 0..k /\ i \in 0..k
          BY <4>2
        <5> QED
          BY <2>1, <2>2, <5>1
      <4> QED
        BY <4>1, <4>2
    <3> QED
      BY <3>1, <3>2
  <2> QED
    BY <2>4
<1>3. n \in T
  <2> HIDE DEF T
  <2> QED
    BY <1>1, <1>2, SetInduction
<1>4. PICK S : Begins(S, n)
  BY <1>3
<1> DEFINE Defines(run) ==
             run = [i \in 0..n |-> IF i = 0 THEN {Start(g, lv, m)}
                                   ELSE {Visit(g, lv, ar, s, i) : s \in run[i - 1]}]
           E == [i \in 0..n |-> {S[i]}]
<1>5. Defines(E)
  <2>1. ASSUME NEW i \in 0..n
        PROVE  {S[i]} = IF i = 0 THEN {Start(g, lv, m)} ELSE {Visit(g, lv, ar, s, i) : s \in E[i - 1]}
    <3>1. CASE i = 0
      BY <1>4, <3>1
    <3>2. CASE i # 0
      <4>1. i \in 1..n /\ i - 1 \in 0..n
        BY <3>2
      <4>2. E[i - 1] = {S[i - 1]}
        BY <4>1
      <4>3. S[i] = Visit(g, lv, ar, S[i - 1], i)
        BY <1>4, <4>1
      <4> HIDE DEF E
      <4> QED
        BY <3>2, <4>2, <4>3
    <3> QED
      BY <3>1, <3>2
  <2> QED
    BY <2>1, Zenon
<1>6. PICK r : r = (CHOOSE run : Defines(run))
  OBVIOUS
<1>7. Defines(r)
  <2> HIDE DEF Defines
  <2> QED
    BY <1>5, <1>6
<1>8. Execution(g, lv, ar, m) = r
  BY <1>6, Zenon DEF Execution
<1>9. 0..n \subseteq {k \in Nat : r[k] = {S[k]}}
  <2> DEFINE Q == {k \in Nat : k \in 0..n => r[k] = {S[k]}}
  <2>1. 0 \in Q
    BY <1>4, <1>7
  <2>2. ASSUME NEW k \in Nat, k \in Q PROVE k + 1 \in Q
    <3> SUFFICES ASSUME k + 1 \in 0..n PROVE r[k + 1] = {S[k + 1]}
      OBVIOUS
    <3>1. k \in 0..n /\ k + 1 \in 1..n /\ (k + 1) - 1 = k /\ k + 1 # 0
      OBVIOUS
    <3>2. r[k + 1] = {Visit(g, lv, ar, s, k + 1) : s \in r[(k + 1) - 1]}
      BY <1>7, <3>1, Zenon
    <3>3. r[k] = {S[k]}
      BY <2>2, <3>1
    <3>4. S[k + 1] = Visit(g, lv, ar, S[k], k + 1)
      BY <1>4, <3>1
    <3> QED
      BY <3>1, <3>2, <3>3, <3>4
  <2>3. Nat \subseteq Q
    <3> HIDE DEF Q
    <3> QED
      BY <2>1, <2>2, SetInduction
  <2> QED
    BY <2>3
<1>10. r[n] = {S[n]}
  BY <1>9
<1>11. Run(g, lv, ar, m) = {S[n].out}
  BY <1>8, <1>10 DEF Run
<1> QED
  BY <1>4, <1>11 DEF States

-----------------------------------------------------------------------------
(***************************************************************************)
(* The state of an execution before an instruction is visited.             *)
(***************************************************************************)
IsState(s) ==
  s = [pc |-> s.pc, from |-> s.from, done |-> s.done, val |-> s.val, mem |-> s.mem, out |-> s.out]

(* The operands of a computation are integers, and its result is kept. *)
ResultStands(g, ar, s, i) ==
  /\ \A j \in 1..2 : Known(s, ar[i][j]) /\ Value(s, ar[i][j]) \in Ints
  /\ s.val[i] = Wrap(Exact(g[i].op, Value(s, ar[i][1]), Value(s, ar[i][2])))

(* What a load read is still in memory. *)
LoadStands(ar, s, i) ==
  /\ Known(s, ar[i][1]) /\ Value(s, ar[i][1]) \in DOMAIN s.mem
  /\ s.val[i] = s.mem[Value(s, ar[i][1])]

Writes(g, i) == g[i].op \in {"store", "call"}

(* Execution goes through the live instructions in order; within a block,  *)
(* all that stand before have been executed.                               *)
InOrder(g, lv, s) ==
  /\ s.pc \in lv \cup {Len(g) + 1}
  /\ \A j \in s.done : j \in lv /\ j < s.pc
  /\ s.pc \in lv => \A j \in lv : j < s.pc /\ g[j].block = g[s.pc].block => j \in s.done

(* Results of computations stay what they were, and so do those of loads   *)
(* until the next write in the block.                                      *)
ResultsStand(g, lv, ar, s) ==
  /\ \A j \in s.done : g[j].op \in Computations => ResultStands(g, ar, s, j)
  /\ s.pc \in lv =>
       \A j \in s.done :
         g[j].op = "load" /\ g[j].block = g[s.pc].block
             /\ (\A w \in lv : j < w /\ w < s.pc => ~Writes(g, w))
           => LoadStands(ar, s, j)

Sound(g, lv, ar, s) ==
  /\ IsState(s) /\ DOMAIN s.val = DOMAIN g
  /\ InOrder(g, lv, s) /\ ResultsStand(g, lv, ar, s)

(* A block is entered at its first live instruction. *)
LEMMA EnteredIs ==
  ASSUME NEW g, NEW lv, NEW ar, Proper(g, lv, ar), NEW b
  PROVE  LET e == Entered(g, lv, b) IN
         /\ e \in lv \cup {Len(g) + 1}
         /\ e \in lv => \A j \in lv : j < e => g[j].block # g[e].block
         /\ \A i \in DOMAIN g : (\A k \in DOMAIN g : g[k].block = b => i < k) => e > i
<1> DEFINE n == Len(g)
           B == {i \in DOMAIN g : g[i].block = b}
           s == First(B, 1, n)
           e == First(lv, s, n)
<1>1. n \in Nat \ {0} /\ DOMAIN g = 1..n /\ lv \in SUBSET (1..n)
  BY ShapeIs DEF Proper
<1>2. s \in B \cup {n + 1} /\ s >= 1 /\ \A j \in B : s <= j
  <2>1. B \in SUBSET (1..n)
    BY <1>1
  <2>2. \A j \in B : j >= 1
    BY <1>1
  <2> HIDE DEF B
  <2> QED
    BY <1>1, <2>1, <2>2, FirstIs
<1>3. s \in 1..(n + 1)
  BY <1>1, <1>2
<1> HIDE DEF s
<1>4. e \in lv \cup {n + 1} /\ e >= s /\ \A j \in lv : j >= s => e <= j
  BY <1>1, <1>3, FirstIs
<1> HIDE DEF e
<1>5. ASSUME e \in lv, NEW j \in lv, j < e PROVE g[j].block # g[e].block
  <2>1. j < s /\ s <= e /\ e \in 1..n /\ j \in 1..n
    <3>1. e \in 1..n /\ j \in 1..n
      BY <1>1, <1>5
    <3>2. ~(j >= s)
      BY <1>4, <1>5, <3>1
    <3> QED
      BY <1>3, <1>4, <3>1, <3>2
  <2>2. s \in B
    BY <1>1, <1>2, <2>1
  <2>3. CASE e = s
    <3>1. g[s].block = b
      BY <2>2
    <3>2. j \notin B
      BY <1>2, <2>1, <1>3
    <3> QED
      BY <1>1, <2>1, <2>3, <3>1, <3>2
  <2>4. CASE e # s
    <3>1. s < e
      BY <1>3, <2>1, <2>4
    <3>2. g[j].block = g[e].block => g[s].block = g[j].block
      BY <1>1, <2>1, <2>2, <3>1, ShapeIs, ZenonT(30) DEF Proper
    <3>3. g[s].block = b /\ j \notin B
      BY <1>2, <1>3, <2>1, <2>2
    <3> QED
      BY <1>1, <2>1, <3>2, <3>3
  <2> QED
    BY <2>3, <2>4
<1>6. ASSUME NEW i \in DOMAIN g, \A k \in DOMAIN g : g[k].block = b => i < k PROVE e > i
  <2>1. s > i
    BY <1>1, <1>2, <1>6
  <2>2. e \in Nat /\ s \in Nat /\ i \in Nat
    BY <1>1, <1>3, <1>4
  <2> QED
    BY <1>4, <2>1, <2>2
<1>7. e = Entered(g, lv, b)
  BY DEF Entered, e, s
<1> QED
  BY <1>4, <1>5, <1>6, <1>7

(* Where an execution goes from an instruction: on, and never into a block *)
(* behind its first instruction, unless from there.                        *)
LEMMA FollowingIs ==
  ASSUME NEW g, NEW lv, NEW ar, Proper(g, lv, ar), NEW s, s.pc \in lv
  PROVE  LET p == Following(g, lv, ar, s) IN
         /\ p \in lv \cup {Len(g) + 1} /\ p > s.pc
         /\ p \in lv => \A j \in lv : j < p /\ g[j].block = g[p].block =>
              /\ g[s.pc].op # "br"
              /\ j = s.pc \/ (j < s.pc /\ g[s.pc].block = g[p].block)
<1> DEFINE n == Len(g)
           p == Following(g, lv, ar, s)
<1>1. n \in Nat \ {0} /\ DOMAIN g = 1..n /\ lv \in SUBSET (1..n)
  BY ShapeIs DEF Proper
<1>0. s.pc \in 1..n /\ s.pc \in Nat /\ n + 1 \notin lv
  <2>1. s.pc \in 1..n
    BY <1>1
  <2>2. n + 1 \notin 1..n
    BY <1>1
  <2>3. n + 1 \notin lv
    BY <1>1, <2>2
  <2> QED
    BY <1>1, <2>1, <2>3
<1>2. CASE g[s.pc].op = "br"
  <2>1. PICK k : k = IF Len(g[s.pc].to) = 1 \/ Operand(ar, s, 1) # 0 THEN 1 ELSE 2
    OBVIOUS
  <2>2. k \in DOMAIN g[s.pc].to
    BY <1>1, <1>2, <2>1, ShapeIs DEF Proper
  <2>3. p = Entered(g, lv, g[s.pc].to[k])
    BY <1>2, <2>1 DEF Following
  <2>4. \A i \in DOMAIN g : g[i].block = g[s.pc].to[k] => s.pc < i
    BY <1>1, <1>2, <2>2, ShapeIs DEF Proper
  <2> HIDE DEF p
  <2>5. s.pc \in DOMAIN g
    BY <1>1
  <2>6. /\ p \in lv \cup {n + 1} /\ p > s.pc
        /\ p \in lv => \A j \in lv : j < p => g[j].block # g[p].block
    BY <2>3, <2>4, <2>5, EnteredIs
  <2> QED
    BY <2>6 DEF p
<1>3. CASE g[s.pc].op = "ret"
  <2>1. p = n + 1
    BY <1>3 DEF Following
  <2>2. n + 1 \notin lv /\ n + 1 > s.pc
    BY <1>0, <1>1
  <2> HIDE DEF p
  <2>3. /\ p \in lv \cup {n + 1} /\ p > s.pc /\ p \notin lv
    BY <2>1, <2>2
  <2> QED
    BY <2>3 DEF p
<1>4. CASE g[s.pc].op \notin {"br", "ret"}
  <2>1. p = First(lv, s.pc + 1, n)
    BY <1>4 DEF Following
  <2> HIDE DEF p
  <2>2. s.pc + 1 \in Nat /\ s.pc + 1 <= n + 1 /\ s.pc \in Nat
    BY <1>0, <1>1
  <2>3. p \in lv \cup {n + 1} /\ p >= s.pc + 1 /\ \A j \in lv : j >= s.pc + 1 => p <= j
    BY <1>1, <2>1, <2>2, FirstIs
  <2>4. p > s.pc
    BY <1>1, <2>2, <2>3
  <2>5. ASSUME p \in lv, NEW j \in lv, j < p, g[j].block = g[p].block
        PROVE  j = s.pc \/ (j < s.pc /\ g[s.pc].block = g[p].block)
    <3>1. j \in 1..n /\ p \in 1..n /\ s.pc \in 1..n
      BY <1>0, <1>1, <2>5
    <3>2. ~(j >= s.pc + 1)
      BY <2>3, <2>5, <3>1
    <3>3. j <= s.pc
      BY <3>1, <3>2
    <3>4. j < s.pc => g[s.pc].block = g[j].block
      <4>1. \A i, k \in DOMAIN g : j < i /\ i < k /\ g[j].block = g[k].block => g[i].block = g[j].block
        BY <1>1, <3>1, ShapeIs DEF Proper
      <4> QED
        BY <1>1, <2>4, <2>5, <3>1, <4>1
    <3> QED
      BY <2>5, <3>1, <3>3, <3>4
  <2> QED
    BY <1>4, <2>3, <2>4, <2>5 DEF p
<1> QED
  BY <1>2, <1>3, <1>4

(* What an instruction that can be executed does to the state. *)
LEMMA ExecuteIs ==
  ASSUME NEW g, NEW lv, NEW ar, NEW s, IsState(s), NEW t, t = Execute(g, lv, ar, s)
  PROVE  /\ IsState(t)
         /\ Stuck(g, ar, s) =>
              /\ t.pc = Len(g) + 1 /\ t.out = Trapped
              /\ t.from = s.from /\ t.done = s.done /\ t.val = s.val /\ t.mem = s.mem
         /\ ~Stuck(g, ar, s) =>
              /\ t.pc = Following(g, lv, ar, s)
              /\ t.from = IF g[s.pc].op = "br" THEN g[s.pc].block ELSE s.from
              /\ t.done = s.done \cup {s.pc}
              /\ t.val = Values(g, ar, s) /\ t.mem = Memory(g, ar, s) /\ t.out = Output(g, ar, s)
<1>1. CASE Stuck(g, ar, s)
  <2>1. t = [s EXCEPT !.pc = Len(g) + 1, !.out = Trapped]
    BY <1>1 DEF Execute
  <2>2. t = [pc |-> Len(g) + 1, from |-> s.from, done |-> s.done, val |-> s.val, mem |-> s.mem, out |-> Trapped]
    BY <2>1 DEF IsState
  <2> QED
    BY <1>1, <2>2 DEF IsState
<1>2. CASE ~Stuck(g, ar, s)
  BY <1>2 DEF Execute, IsState
<1> QED
  BY <1>1, <1>2

(* The results are those so far and the new one. *)
LEMMA ValuesAre ==
  ASSUME NEW g, NEW ar, NEW s, s.pc \in DOMAIN s.val
  PROVE  /\ DOMAIN Values(g, ar, s) = DOMAIN s.val
         /\ g[s.pc].op \in WithResult => Values(g, ar, s)[s.pc] = Result(g, ar, s)
         /\ g[s.pc].op \notin WithResult => Values(g, ar, s) = s.val
         /\ \A i \in DOMAIN s.val \ {s.pc} : Values(g, ar, s)[i] = s.val[i]
<1> DEFINE r == Result(g, ar, s)
<1> HIDE DEF r
<1>1. CASE g[s.pc].op \in WithResult
  <2>1. Values(g, ar, s) = [s.val EXCEPT ![s.pc] = r]
    BY <1>1 DEF Values, r
  <2> QED
    BY <1>1, <2>1 DEF r
<1>2. CASE g[s.pc].op \notin WithResult
  BY <1>2 DEF Values
<1> QED
  BY <1>1, <1>2

(* What an execution has computed, it goes on knowing. *)
LEMMA KnownStays ==
  ASSUME NEW s, NEW t, s.done \subseteq t.done, \A i \in s.done : t.val[i] = s.val[i],
         NEW o, Known(s, o)
  PROVE  Known(t, o) /\ Value(t, o) = Value(s, o)
  BY DEF Known, Value

(* Places of instructions, and the place behind them. *)
LEMMA PlaceIs ==
  ASSUME NEW n \in Nat, NEW lv \in SUBSET (1..n), NEW p \in lv \cup {n + 1}
  PROVE  p \in 1..(n + 1)
<1>1. CASE p \in lv
  BY <1>1
<1>2. CASE p = n + 1
  BY <1>2
<1> QED
  BY <1>1, <1>2

(* At the start nothing has been executed. *)
LEMMA SoundStart ==
  ASSUME NEW g, NEW lv, NEW ar, Proper(g, lv, ar), NEW m
  PROVE  Sound(g, lv, ar, Start(g, lv, m)) /\ Start(g, lv, m).pc > 0
<1> DEFINE s == Start(g, lv, m)
<1>1. /\ s = [pc |-> Entered(g, lv, 1), from |-> 0, done |-> {}, val |-> [i \in DOMAIN g |-> 0],
               mem |-> m, out |-> <<"start">>]
      /\ s.pc = Entered(g, lv, 1) /\ s.done = {} /\ s.val = [i \in DOMAIN g |-> 0]
  BY DEF Start
<1>2. IsState(s) /\ DOMAIN s.val = DOMAIN g
  BY <1>1 DEF IsState
<1> HIDE DEF s
<1>3. /\ s.pc \in lv \cup {Len(g) + 1}
      /\ s.pc \in lv => \A j \in lv : j < s.pc => g[j].block # g[s.pc].block
  BY <1>1, EnteredIs
<1>4. s.pc > 0
  BY <1>3, ShapeIs DEF Proper
<1>5. InOrder(g, lv, s) /\ ResultsStand(g, lv, ar, s)
  BY <1>1, <1>3 DEF InOrder, ResultsStand
<1> QED
  BY <1>2, <1>4, <1>5 DEF Sound, s

(* An instruction that is executed has its operands. *)
LEMMA OperandsKnown ==
  ASSUME NEW g, NEW lv, NEW ar, Proper(g, lv, ar), NEW s, s.pc \in lv, ~Stuck(g, ar, s)
  PROVE  /\ g[s.pc].op # "phi" => \A j \in DOMAIN ar[s.pc] : Known(s, ar[s.pc][j])
         /\ g[s.pc].op \in Computations =>
              /\ DOMAIN ar[s.pc] = 1..2
              /\ \A j \in 1..2 : Known(s, ar[s.pc][j]) /\ Value(s, ar[s.pc][j]) \in Ints
              /\ ~Traps(g[s.pc].op, Value(s, ar[s.pc][1]), Value(s, ar[s.pc][2]))
         /\ g[s.pc].op = "load" =>
              /\ DOMAIN ar[s.pc] = 1..1
              /\ Known(s, ar[s.pc][1]) /\ Value(s, ar[s.pc][1]) \in DOMAIN s.mem
<1>1. g[s.pc].op # "phi" => \A j \in DOMAIN ar[s.pc] : Known(s, ar[s.pc][j])
  BY DEF Stuck, Reads
<1>2. g[s.pc].op \in Computations => g[s.pc].op # "phi"
  BY DEF Computations, BinaryOps, Arithmetic, Predicates
<1>3. s.pc \in DOMAIN g /\ DOMAIN ar[s.pc] = DOMAIN g[s.pc].args
  BY DEF Proper
<1>4. /\ g[s.pc].op \in Computations => DOMAIN ar[s.pc] = 1..2
      /\ g[s.pc].op = "load" => DOMAIN ar[s.pc] = 1..1
  BY <1>3, ShapeIs DEF Proper
<1>5. ASSUME g[s.pc].op \in Computations
      PROVE  /\ Value(s, ar[s.pc][1]) \in Ints /\ Value(s, ar[s.pc][2]) \in Ints
             /\ ~Traps(g[s.pc].op, Value(s, ar[s.pc][1]), Value(s, ar[s.pc][2]))
  BY <1>5 DEF Stuck, Operand
<1>6. g[s.pc].op = "load" => Value(s, ar[s.pc][1]) \in DOMAIN s.mem
  BY DEF Stuck, Operand
<1>7. \A j \in 1..2 : j = 1 \/ j = 2
  OBVIOUS
<1> QED
  BY <1>1, <1>2, <1>4, <1>5, <1>6, <1>7

(* Visiting an instruction keeps the state sound. *)
LEMMA SoundStep ==
  ASSUME NEW g, NEW lv, NEW ar, Proper(g, lv, ar), NEW s, Sound(g, lv, ar, s),
         NEW i \in DOMAIN g, s.pc > i - 1, NEW t, t = Visit(g, lv, ar, s, i)
  PROVE  Sound(g, lv, ar, t) /\ t.pc > i
<1> DEFINE n == Len(g)
<1>1. /\ n \in Nat \ {0} /\ DOMAIN g = 1..n /\ lv \in SUBSET (1..n) /\ i \in 1..n
      /\ s.pc \in lv \cup {n + 1} /\ s.pc \in 1..(n + 1)
  <2>1. n \in Nat \ {0} /\ DOMAIN g = 1..n /\ lv \in SUBSET (1..n) /\ i \in 1..n
    BY ShapeIs DEF Proper
  <2>2. s.pc \in lv \cup {n + 1}
    BY DEF Sound, InOrder
  <2>3. s.pc \in 1..(n + 1)
    BY <2>1, <2>2, PlaceIs
  <2> QED
    BY <2>1, <2>2, <2>3
<1> HIDE DEF n
<1>0. \A k \in lv : k \in 1..n
  BY <1>1
<1>2. CASE s.pc # i
  BY <1>1, <1>2 DEF Visit
<1>3. CASE s.pc = i /\ Stuck(g, ar, s)
  <2>1. /\ IsState(t) /\ t.pc = n + 1 /\ t.done = s.done /\ t.val = s.val /\ t.mem = s.mem
    BY <1>3, ExecuteIs DEF Visit, Sound, n
  <2>2. t.pc > i /\ t.pc > s.pc
    BY <1>1, <1>3, <2>1
  <2>3. t.pc \notin lv
    <3>1. n + 1 \notin 1..n
      BY <1>1
    <3> QED
      BY <1>1, <2>1, <3>1
  <2>4. InOrder(g, lv, t)
    <3>1. \A j \in s.done : j \in lv /\ j < s.pc
      BY DEF Sound, InOrder
    <3>2. \A j \in s.done : j < n + 1
      BY <1>1, <3>1
    <3> QED
      BY <2>1, <2>3, <3>1, <3>2 DEF InOrder, n
  <2>5. ResultsStand(g, lv, ar, t)
    BY <2>1, <2>3 DEF Sound, ResultsStand, ResultStands, Known, Value
  <2> QED
    BY <2>1, <2>2, <2>4, <2>5 DEF Sound
<1>4. CASE s.pc = i /\ ~Stuck(g, ar, s)
  <2>1. i \in lv
    BY <1>1, <1>4
  <2>2. /\ IsState(t) /\ t.pc = Following(g, lv, ar, s) /\ t.done = s.done \cup {i}
        /\ t.val = Values(g, ar, s) /\ t.mem = Memory(g, ar, s)
    BY <1>4, ExecuteIs DEF Visit, Sound
  <2>3. /\ t.pc \in lv \cup {n + 1} /\ t.pc > i
        /\ t.pc \in lv => \A j \in lv : j < t.pc /\ g[j].block = g[t.pc].block =>
             g[i].op # "br" /\ (j = i \/ (j < i /\ g[i].block = g[t.pc].block))
    BY <1>4, <2>1, <2>2, FollowingIs DEF n
  <2>4. t.pc \in 1..(n + 1)
    BY <1>1, <2>3, PlaceIs
  <2>5. \A j \in s.done : j \in lv /\ j < i
    BY <1>4 DEF Sound, InOrder
  <2>6. /\ DOMAIN t.val = DOMAIN g
        /\ g[i].op \in WithResult => t.val[i] = Result(g, ar, s)
        /\ \A j \in s.done : t.val[j] = s.val[j]
    <3>1. DOMAIN s.val = DOMAIN g /\ i \in DOMAIN s.val
      BY DEF Sound
    <3>2. \A j \in s.done : j \in DOMAIN s.val \ {s.pc}
      <4>1. \A j \in s.done : j \in 1..n /\ j < i
        BY <1>0, <2>5
      <4>2. \A j \in s.done : j # i
        BY <1>1, <4>1
      <4> QED
        BY <1>1, <1>4, <3>1, <4>1, <4>2
    <3> QED
      BY <1>4, <2>2, <3>1, <3>2, ValuesAre
  <2>7. InOrder(g, lv, t)
    <3>1. \A j \in t.done : j \in lv /\ j < t.pc
      <4>1. \A j \in s.done : j \in lv /\ j \in 1..n /\ j < i
        BY <1>0, <2>5
      <4>2. \A j \in s.done : j < t.pc
        BY <1>1, <2>3, <2>4, <4>1
      <4> QED
        BY <2>1, <2>2, <2>3, <4>1, <4>2
    <3>2. ASSUME t.pc \in lv, NEW j \in lv, j < t.pc, g[j].block = g[t.pc].block PROVE j \in t.done
      BY <1>4, <2>2, <2>3, <3>2 DEF Sound, InOrder
    <3> QED
      BY <2>3, <3>1, <3>2 DEF InOrder, n
  <2>8. \A o : Known(s, o) => Known(t, o) /\ Value(t, o) = Value(s, o)
    BY <2>2, <2>6, KnownStays
  <2>9. ASSUME NEW j \in t.done, g[j].op \in Computations PROVE ResultStands(g, ar, t, j)
    <3>1. CASE j \in s.done
      <4>1. ResultStands(g, ar, s, j)
        BY <2>9, <3>1 DEF Sound, ResultsStand
      <4>2. t.val[j] = s.val[j]
        BY <2>6, <3>1
      <4>3. \A k \in 1..2 : Known(s, ar[j][k])
        BY <4>1 DEF ResultStands
      <4>4. Known(s, ar[j][1]) /\ Known(s, ar[j][2])
        BY <4>3
      <4> QED
        BY <2>8, <4>1, <4>2, <4>3, <4>4 DEF ResultStands
    <3>2. CASE j = i
      <4>1. /\ \A k \in 1..2 : Known(s, ar[i][k]) /\ Value(s, ar[i][k]) \in Ints
        BY <1>4, <2>1, <2>9, <3>2, OperandsKnown
      <4>2. t.val[i] = Wrap(Exact(g[i].op, Value(s, ar[i][1]), Value(s, ar[i][2])))
        <5>1. g[i].op \in Computations /\ g[i].op \in WithResult
          BY <2>9, <3>2 DEF WithResult
        <5>2. Result(g, ar, s) = Wrap(Exact(g[i].op, Value(s, ar[i][1]), Value(s, ar[i][2])))
          BY <1>4, <5>1 DEF Result, Operand, Computations, BinaryOps, Arithmetic, Predicates
        <5> QED
          BY <2>6, <5>1, <5>2
      <4>3. Known(s, ar[i][1]) /\ Known(s, ar[i][2])
        BY <4>1
      <4> QED
        BY <2>8, <3>2, <4>1, <4>2, <4>3 DEF ResultStands
    <3> QED
      BY <2>2, <2>9, <3>1, <3>2
  <2>10. ASSUME t.pc \in lv, NEW j \in t.done, g[j].op = "load", g[j].block = g[t.pc].block,
                \A w \in lv : j < w /\ w < t.pc => ~Writes(g, w)
         PROVE  LoadStands(ar, t, j)
    <3>1. j \in lv /\ j < t.pc
      BY <2>7, <2>10 DEF InOrder
    <3>2. CASE j = i
      <4>1. Known(s, ar[i][1]) /\ Value(s, ar[i][1]) \in DOMAIN s.mem
        BY <1>4, <2>1, <2>10, <3>2, OperandsKnown
      <4>2. g[i].op = "load"
        BY <2>10, <3>2
      <4>3. t.mem = s.mem
        BY <1>4, <2>2, <4>2 DEF Memory
      <4>4. Result(g, ar, s) = s.mem[Value(s, ar[i][1])]
        BY <1>4, <4>2 DEF Result, Operand, Computations, BinaryOps, Arithmetic, Predicates
      <4>5. t.val[i] = s.mem[Value(s, ar[i][1])]
        BY <2>6, <4>2, <4>4 DEF WithResult
      <4> QED
        BY <2>8, <3>2, <4>1, <4>3, <4>5 DEF LoadStands
    <3>3. CASE j # i
      <4>1. j < i /\ g[i].block = g[t.pc].block /\ j \in s.done
        BY <2>2, <2>3, <2>10, <3>1, <3>3
      <4>2. ~Writes(g, i)
        BY <2>1, <2>3, <2>10, <4>1
      <4>3. t.mem = s.mem
        BY <1>4, <2>2, <4>2 DEF Memory, Writes
      <4>4. \A w \in lv : j < w /\ w < i => ~Writes(g, w)
        <5>1. \A w \in lv : w < i => w < t.pc
          BY <1>1, <2>3, <2>4
        <5> QED
          BY <2>10, <5>1
      <4>5. LoadStands(ar, s, j)
        BY <1>4, <2>1, <2>10, <4>1, <4>4 DEF Sound, ResultsStand
      <4>6. t.val[j] = s.val[j]
        BY <2>6, <4>1
      <4> QED
        BY <2>8, <4>3, <4>5, <4>6 DEF LoadStands
    <3> QED
      BY <3>2, <3>3
  <2>11. ResultsStand(g, lv, ar, t)
    BY <2>9, <2>10 DEF ResultsStand
  <2> QED
    BY <2>2, <2>3, <2>6, <2>7, <2>11 DEF Sound
<1> QED
  BY <1>2, <1>3, <1>4

(* All states of an execution are sound. *)
LEMMA SoundStates ==
  ASSUME NEW g, NEW lv, NEW ar, Proper(g, lv, ar), NEW m, NEW S, States(S, g, lv, ar, m)
  PROVE  \A k \in 0..Len(g) : Sound(g, lv, ar, S[k]) /\ S[k].pc > k
<1> DEFINE T == {k \in Nat : k <= Len(g) => Sound(g, lv, ar, S[k]) /\ S[k].pc > k}
<1>1. Len(g) \in Nat /\ DOMAIN g = 1..Len(g)
  BY ShapeIs DEF Proper
<1>2. 0 \in T
  BY SoundStart DEF States
<1>3. ASSUME NEW k \in Nat, k \in T PROVE k + 1 \in T
  <2> SUFFICES ASSUME k + 1 <= Len(g) PROVE Sound(g, lv, ar, S[k + 1]) /\ S[k + 1].pc > k + 1
    OBVIOUS
  <2>1. k + 1 \in DOMAIN g /\ k + 1 \in 1..Len(g) /\ (k + 1) - 1 = k
    BY <1>1
  <2>2. Sound(g, lv, ar, S[k]) /\ S[k].pc > (k + 1) - 1
    BY <1>1, <1>3, <2>1
  <2>3. S[k + 1] = Visit(g, lv, ar, S[k], k + 1)
    BY <2>1 DEF States
  <2> QED
    BY <2>1, <2>2, <2>3, SoundStep
<1>4. Nat \subseteq T
  <2> HIDE DEF T
  <2> QED
    BY <1>2, <1>3, SetInduction
<1> QED
  BY <1>1, <1>4

-----------------------------------------------------------------------------
(***************************************************************************)
(* An instruction x is erased, and o takes its place in all operands.  An  *)
(* execution without it does what one with it did.                         *)
(***************************************************************************)
Rewritten(g, lv, ar, ar2, x, o) ==
  /\ DOMAIN ar2 = DOMAIN ar
  /\ \A i \in lv \ {x} :
       /\ DOMAIN ar2[i] = DOMAIN ar[i]
       /\ \A j \in DOMAIN ar[i] : ar2[i][j] = IF ar[i][j] = Ref(x) THEN o ELSE ar[i][j]

Unused(lv, ar, x) == \A i \in lv : \A j \in DOMAIN ar[i] : ar[i][j] # Ref(x)

(* Where x is executed, o has the value that x gets. *)
StandsFor(g, lv, ar, x, o) ==
  \A s : Sound(g, lv, ar, s) /\ s.pc = x /\ ~Stuck(g, ar, s)
           => Known(s, o) /\ Value(s, o) = Result(g, ar, s)

Erasable(g, lv, ar, x, o) ==
  /\ x \in lv /\ g[x].op \in Computations \cup {"phi", "gep", "load"}
  /\ o.k = "ins" => o.v \in lv /\ o.v < x
  /\ Unused(lv, ar, x) \/ StandsFor(g, lv, ar, x, o)

(* A state with x and one without. *)
Alike(g, lv, ar, x, o, s, t) ==
  /\ t.pc = IF s.pc = x THEN First(lv, x + 1, Len(g)) ELSE s.pc
  /\ t.from = s.from /\ t.mem = s.mem /\ t.out = s.out
  /\ t.done = s.done \ {x} /\ \A i \in DOMAIN g \ {x} : t.val[i] = s.val[i]
  /\ x \in s.done => Unused(lv, ar, x) \/ (Known(s, o) /\ s.val[x] = Value(s, o))

Follows(g, lv, ar, x, o, s, t) ==
  /\ IsState(t) /\ DOMAIN t.val = DOMAIN g
  /\ Alike(g, lv, ar, x, o, s, t) \/ (s.out = Trapped /\ s.pc = Len(g) + 1)

(* The first instruction without x. *)
LEMMA FirstWithout ==
  ASSUME NEW n \in Nat, NEW S \in SUBSET (1..n), NEW x \in S, NEW i \in Nat, i <= n + 1
  PROVE  First(S \ {x}, i, n) = IF First(S, i, n) = x THEN First(S, x + 1, n) ELSE First(S, i, n)
<1> DEFINE p == First(S, i, n)
           q == First(S \ {x}, i, n)
           r == First(S, x + 1, n)
<1>1. x \in 1..n /\ x + 1 \in Nat /\ x + 1 <= n + 1 /\ S \ {x} \in SUBSET (1..n)
  <2>1. x \in 1..n
    OBVIOUS
  <2> QED
    BY <2>1
<1>2. p \in S \cup {n + 1} /\ p >= i /\ \A j \in S : j >= i => p <= j
  BY FirstIs
<1>3. q \in (S \ {x}) \cup {n + 1} /\ q >= i /\ \A j \in S \ {x} : j >= i => q <= j
  BY <1>1, FirstIs
<1>4. r \in S \cup {n + 1} /\ r >= x + 1 /\ \A j \in S : j >= x + 1 => r <= j
  BY <1>1, FirstIs
<1> HIDE DEF p, q, r
<1>5. p \in 1..(n + 1) /\ q \in 1..(n + 1) /\ r \in 1..(n + 1)
  BY <1>1, <1>2, <1>3, <1>4, PlaceIs
<1>6. CASE p = x
  <2>1. r # x /\ r >= i
    BY <1>1, <1>2, <1>4, <1>5, <1>6
  <2>2. q # x /\ q >= x
    BY <1>1, <1>2, <1>3, <1>5, <1>6
  <2>3. q >= x + 1
    BY <1>1, <1>5, <2>2
  <2>4. q <= r
    <3>1. CASE r = n + 1
      BY <1>5, <3>1
    <3>2. CASE r # n + 1
      BY <1>3, <1>4, <2>1, <3>2
    <3> QED
      BY <3>1, <3>2
  <2>5. r <= q
    <3>1. CASE q = n + 1
      BY <1>5, <3>1
    <3>2. CASE q # n + 1
      BY <1>3, <1>4, <2>3, <3>2
    <3> QED
      BY <3>1, <3>2
  <2>6. q = r
    BY <1>5, <2>4, <2>5
  <2> QED
    BY <1>6, <2>6 DEF p, q, r
<1>7. CASE p # x
  <2>1. q <= p
    <3>1. CASE p = n + 1
      BY <1>5, <3>1
    <3>2. CASE p # n + 1
      BY <1>2, <1>3, <1>7, <3>2
    <3> QED
      BY <3>1, <3>2
  <2>2. p <= q
    <3>1. CASE q = n + 1
      BY <1>5, <3>1
    <3>2. CASE q # n + 1
      BY <1>2, <1>3, <3>2
    <3> QED
      BY <3>1, <3>2
  <2>3. q = p
    BY <1>5, <2>1, <2>2
  <2> QED
    BY <1>7, <2>3 DEF p, q, r
<1> QED
  BY <1>6, <1>7

(* And where a block is entered. *)
LEMMA EnteredWithout ==
  ASSUME NEW g, NEW lv, NEW ar, Proper(g, lv, ar), NEW x \in lv, NEW b
  PROVE  Entered(g, lv \ {x}, b) = IF Entered(g, lv, b) = x THEN First(lv, x + 1, Len(g)) ELSE Entered(g, lv, b)
<1> DEFINE B == {i \in DOMAIN g : g[i].block = b}
<1>1. Len(g) \in Nat /\ DOMAIN g = 1..Len(g) /\ lv \in SUBSET (1..Len(g)) /\ B \in SUBSET (1..Len(g))
  BY ShapeIs DEF Proper
<1>2. First(B, 1, Len(g)) \in B \cup {Len(g) + 1}
  <2> HIDE DEF B
  <2> QED
    BY <1>1, FirstIs
<1> HIDE DEF B
<1>3. First(B, 1, Len(g)) \in 1..(Len(g) + 1)
  BY <1>1, <1>2, PlaceIs
<1>4. PICK s \in 1..(Len(g) + 1) : s = First(B, 1, Len(g))
  BY <1>3
<1>5. s \in Nat /\ s <= Len(g) + 1
  BY <1>1
<1>6. First(lv \ {x}, s, Len(g)) = IF First(lv, s, Len(g)) = x THEN First(lv, x + 1, Len(g))
                                                                ELSE First(lv, s, Len(g))
  BY <1>1, <1>5, FirstWithout
<1> QED
  BY <1>4, <1>6 DEF Entered, B

(* An operand has the same value without x. *)
LEMMA SameOperand ==
  ASSUME NEW g, NEW lv, NEW ar, Proper(g, lv, ar), NEW ar2, NEW x, NEW o, Erasable(g, lv, ar, x, o),
         Rewritten(g, lv, ar, ar2, x, o), NEW s, Sound(g, lv, ar, s), NEW t, Alike(g, lv, ar, x, o, s, t),
         NEW i \in lv \ {x}, NEW j \in DOMAIN ar[i], Known(s, ar[i][j])
  PROVE  Known(t, ar2[i][j]) /\ Value(t, ar2[i][j]) = Value(s, ar[i][j])
<1>1. lv \subseteq DOMAIN g /\ \A k \in s.done : k \in lv
  BY DEF Proper, Sound, InOrder
<1>2. ASSUME NEW a, Known(s, a), a.k = "ins" => a.v # x
      PROVE  Known(t, a) /\ Value(t, a) = Value(s, a)
  <2>1. a.k = "ins" => a.v \in s.done /\ a.v \in t.done
    BY <1>2 DEF Alike, Known
  <2>2. a.k = "ins" => a.v \in DOMAIN g \ {x}
    BY <1>1, <1>2, <2>1
  <2> QED
    BY <2>1, <2>2 DEF Alike, Known, Value
<1>3. PICK a : a = ar[i][j]
  OBVIOUS
<1>4. ar2[i][j] = IF a = Ref(x) THEN o ELSE a
  BY <1>3 DEF Rewritten
<1>5. CASE a = Ref(x)
  <2>1. a.k = "ins" /\ a.v = x
    BY <1>5 DEF Ref
  <2>2. x \in s.done
    BY <1>3, <2>1 DEF Known
  <2>3. ~Unused(lv, ar, x)
    BY <1>3, <1>5 DEF Unused
  <2>4. Known(s, o) /\ s.val[x] = Value(s, o)
    BY <2>2, <2>3 DEF Alike
  <2>5. o.k = "ins" => o.v # x
    <3>1. Len(g) \in Nat /\ lv \subseteq 1..Len(g)
      BY <1>1, ShapeIs DEF Proper
    <3>2. x \in 1..Len(g)
      BY <3>1 DEF Erasable
    <3> QED
      BY <3>2 DEF Erasable
  <2>6. Known(t, o) /\ Value(t, o) = Value(s, o)
    BY <1>2, <2>4, <2>5
  <2>7. Value(s, a) = s.val[x]
    BY <2>1 DEF Value
  <2> QED
    BY <1>3, <1>4, <1>5, <2>4, <2>6, <2>7
<1>6. CASE a # Ref(x)
  <2>1. IsOperand(a)
    BY <1>3, <1>1 DEF Proper
  <2>2. a.k = "ins" => a.v # x
    BY <1>6, <2>1 DEF IsOperand, Ref
  <2> QED
    BY <1>2, <1>3, <1>4, <1>6, <2>2
<1> QED
  BY <1>5, <1>6

(* An instruction other than x does the same without x. *)
LEMMA SameEffect ==
  ASSUME NEW g, NEW lv, NEW ar, Proper(g, lv, ar), NEW ar2, NEW x, NEW o, Erasable(g, lv, ar, x, o),
         Rewritten(g, lv, ar, ar2, x, o), NEW s, Sound(g, lv, ar, s), NEW t, Alike(g, lv, ar, x, o, s, t),
         s.pc \in lv \ {x}, t.pc = s.pc, ~Stuck(g, ar, s)
  PROVE  /\ ~Stuck(g, ar2, t)
         /\ g[s.pc].op \in WithResult => Result(g, ar2, t) = Result(g, ar, s)
         /\ Memory(g, ar2, t) = Memory(g, ar, s)
         /\ Output(g, ar2, t) = Output(g, ar, s)
         /\ Following(g, lv \ {x}, ar2, t) =
              IF Following(g, lv, ar, s) = x THEN First(lv, x + 1, Len(g)) ELSE Following(g, lv, ar, s)
<1>1. PICK i \in lv \ {x} : i = s.pc /\ i = t.pc
  OBVIOUS
<1>2. /\ Len(g) \in Nat /\ DOMAIN g = 1..Len(g) /\ lv \in SUBSET (1..Len(g)) /\ x \in lv
      /\ i \in DOMAIN g /\ DOMAIN ar[i] = DOMAIN g[i].args
  BY ShapeIs DEF Proper, Erasable
<1>3. DOMAIN ar2[i] = DOMAIN ar[i]
  BY DEF Rewritten
<1>4. Reads(g, ar2, t) = Reads(g, ar, s)
  BY <1>1, <1>3 DEF Reads, Alike
<1>5. \A j \in Reads(g, ar, s) : j \in DOMAIN ar[i] /\ Known(s, ar[i][j])
  <2>1. g[i].op = "phi" => DOMAIN ar[i] = DOMAIN g[i].to
    BY <1>2, ShapeIs DEF Proper
  <2>2. \A j \in Reads(g, ar, s) : j \in DOMAIN ar[i]
    BY <1>1, <2>1 DEF Reads
  <2>3. \A j \in Reads(g, ar, s) : Known(s, ar[i][j])
    BY <1>1 DEF Stuck
  <2> QED
    BY <2>2, <2>3
<1>6. \A j \in Reads(g, ar, s) : Known(t, ar2[i][j]) /\ Operand(ar2, t, j) = Operand(ar, s, j)
  BY <1>1, <1>5, SameOperand DEF Operand
<1>7. /\ g[i].op \in Computations \cup {"store"} => Reads(g, ar, s) = 1..2
      /\ g[i].op \in {"load", "gep", "call"} => Reads(g, ar, s) = 1..1
      /\ g[i].op = "br" => Len(g[i].to) = 1 \/ Reads(g, ar, s) = 1..1
  <2>1. /\ g[i].op \in Computations \cup {"store"} => DOMAIN ar[i] = 1..2
        /\ g[i].op \in {"load", "gep", "call"} => DOMAIN ar[i] = 1..1
        /\ g[i].op = "br" => Len(g[i].to) = 1 \/ DOMAIN ar[i] = 1..1
    BY <1>2, ShapeIs DEF Proper
  <2>2. g[i].op \in Computations \cup {"store", "load", "gep", "call", "br"} => g[i].op # "phi"
    BY DEF Computations, BinaryOps, Arithmetic, Predicates
  <2> QED
    BY <1>1, <2>1, <2>2 DEF Reads
<1>8. /\ g[i].op \in Computations \cup {"store"} =>
           Operand(ar2, t, 1) = Operand(ar, s, 1) /\ Operand(ar2, t, 2) = Operand(ar, s, 2)
      /\ g[i].op \in {"load", "gep", "call"} => Operand(ar2, t, 1) = Operand(ar, s, 1)
      /\ g[i].op = "br" => Len(g[i].to) = 1 \/ Operand(ar2, t, 1) = Operand(ar, s, 1)
  <2>1. 1 \in 1..1 /\ 1 \in 1..2 /\ 2 \in 1..2
    OBVIOUS
  <2> QED
    BY <1>6, <1>7, <2>1
<1>9. ~Stuck(g, ar2, t)
  <2>1. \A j \in Reads(g, ar2, t) : Known(t, ar2[t.pc][j])
    BY <1>1, <1>4, <1>6
  <2>2. ~(g[t.pc].op = "phi" /\ Reads(g, ar2, t) = {})
    BY <1>1, <1>4 DEF Stuck
  <2>3. g[i].op \in Computations =>
          /\ Operand(ar2, t, 1) \in Ints /\ Operand(ar2, t, 2) \in Ints
          /\ ~Traps(g[i].op, Operand(ar2, t, 1), Operand(ar2, t, 2))
    BY <1>1, <1>8 DEF Stuck
  <2>4. g[i].op \in {"load", "store"} => Operand(ar2, t, 1) \in DOMAIN t.mem
    BY <1>1, <1>8 DEF Stuck, Alike
  <2> QED
    BY <1>1, <2>1, <2>2, <2>3, <2>4 DEF Stuck
<1>10. g[i].op \in WithResult => Result(g, ar2, t) = Result(g, ar, s)
  <2> SUFFICES ASSUME g[i].op \in WithResult PROVE Result(g, ar2, t) = Result(g, ar, s)
    OBVIOUS
  <2>1. CASE g[i].op \in Computations
    <3>1. g[i].op \notin {"phi", "gep", "load", "call"}
      BY <2>1 DEF Computations, BinaryOps, Arithmetic, Predicates
    <3> QED
      BY <1>1, <1>8, <2>1, <3>1 DEF Result
  <2>2. CASE g[i].op = "phi"
    <3>1. g[i].op \notin Computations
      BY <2>2 DEF Computations, BinaryOps, Arithmetic, Predicates
    <3>2. Reads(g, ar, s) # {}
      BY <1>1, <2>2 DEF Stuck
    <3>3. PICK c : c = CHOOSE j \in Reads(g, ar, s) : TRUE
      OBVIOUS
    <3>4. c \in Reads(g, ar, s)
      BY <3>2, <3>3
    <3>5. Result(g, ar2, t) = Operand(ar2, t, c) /\ Result(g, ar, s) = Operand(ar, s, c)
      BY <1>1, <1>4, <2>2, <3>1, <3>3 DEF Result
    <3> QED
      BY <1>6, <3>4, <3>5
  <2>3. CASE g[i].op \in {"gep", "load", "call"}
    <3>1. g[i].op \notin Computations
      BY <2>3 DEF Computations, BinaryOps, Arithmetic, Predicates
    <3>2. t.mem = s.mem
      BY DEF Alike
    <3> QED
      BY <1>1, <1>8, <2>3, <3>1, <3>2 DEF Result
  <2> QED
    BY <2>1, <2>2, <2>3 DEF WithResult
<1>11. Memory(g, ar2, t) = Memory(g, ar, s)
  BY <1>1, <1>8 DEF Memory, Alike
<1>12. Output(g, ar2, t) = Output(g, ar, s)
  BY <1>1, <1>8 DEF Output, Alike
<1>13. Following(g, lv \ {x}, ar2, t) =
          IF Following(g, lv, ar, s) = x THEN First(lv, x + 1, Len(g)) ELSE Following(g, lv, ar, s)
  <2>1. CASE g[i].op = "br"
    <3>1. PICK k : k = IF Len(g[i].to) = 1 \/ Operand(ar, s, 1) # 0 THEN 1 ELSE 2
      OBVIOUS
    <3>2. k = IF Len(g[i].to) = 1 \/ Operand(ar2, t, 1) # 0 THEN 1 ELSE 2
      BY <1>8, <2>1, <3>1
    <3>3. /\ Following(g, lv \ {x}, ar2, t) = Entered(g, lv \ {x}, g[i].to[k])
          /\ Following(g, lv, ar, s) = Entered(g, lv, g[i].to[k])
      BY <1>1, <2>1, <3>1, <3>2 DEF Following
    <3> QED
      BY <1>2, <3>3, EnteredWithout
  <2>2. CASE g[i].op = "ret"
    <3>1. Following(g, lv \ {x}, ar2, t) = Len(g) + 1 /\ Following(g, lv, ar, s) = Len(g) + 1
      BY <1>1, <2>2 DEF Following
    <3>2. Len(g) + 1 # x
      <4>1. x \in 1..Len(g)
        BY <1>2
      <4> QED
        BY <1>2, <4>1
    <3> QED
      BY <3>1, <3>2
  <2>3. CASE g[i].op \notin {"br", "ret"}
    <3>1. Following(g, lv \ {x}, ar2, t) = First(lv \ {x}, i + 1, Len(g))
      BY <1>1, <2>3 DEF Following
    <3>2. Following(g, lv, ar, s) = First(lv, i + 1, Len(g))
      BY <1>1, <2>3 DEF Following
    <3>3. i + 1 \in Nat /\ i + 1 <= Len(g) + 1
      BY <1>2
    <3>4. First(lv \ {x}, i + 1, Len(g)) = IF First(lv, i + 1, Len(g)) = x THEN First(lv, x + 1, Len(g))
                                                                           ELSE First(lv, i + 1, Len(g))
      BY <1>2, <3>3, FirstWithout
    <3> QED
      BY <3>1, <3>2, <3>4
  <2> QED
    BY <2>1, <2>2, <2>3
<1> QED
  BY <1>1, <1>9, <1>10, <1>11, <1>12, <1>13

(* Executing x changes nothing but what is known of x. *)
LEMMA AlikeAtErased ==
  ASSUME NEW g, NEW lv, NEW ar, Proper(g, lv, ar), NEW x, NEW o, Erasable(g, lv, ar, x, o),
         NEW s, Sound(g, lv, ar, s), NEW t, Alike(g, lv, ar, x, o, s, t),
         s.pc = x, ~Stuck(g, ar, s), NEW s2, s2 = Execute(g, lv, ar, s)
  PROVE  Alike(g, lv, ar, x, o, s2, t)
<1>1. /\ Len(g) \in Nat /\ lv \in SUBSET (1..Len(g)) /\ x \in lv /\ x \in DOMAIN g
      /\ DOMAIN s.val = DOMAIN g
  BY ShapeIs DEF Proper, Erasable, Sound
<1>2. x \in Nat /\ x + 1 \in Nat /\ x + 1 <= Len(g) + 1
  <2>1. x \in 1..Len(g)
    BY <1>1
  <2> QED
    BY <1>1, <2>1
<1>3. g[x].op \notin {"store", "call", "br", "ret"} /\ g[x].op \in WithResult
  BY DEF Erasable, WithResult, Computations, BinaryOps, Arithmetic, Predicates
<1>4. /\ s2.pc = First(lv, x + 1, Len(g))
      /\ s2.from = s.from /\ s2.done = s.done \cup {x} /\ s2.val = Values(g, ar, s)
      /\ s2.mem = s.mem /\ s2.out = s.out
  <2>1. /\ s2.pc = Following(g, lv, ar, s) /\ s2.done = s.done \cup {s.pc} /\ s2.val = Values(g, ar, s)
        /\ s2.from = IF g[s.pc].op = "br" THEN g[s.pc].block ELSE s.from
        /\ s2.mem = Memory(g, ar, s) /\ s2.out = Output(g, ar, s)
    BY ExecuteIs DEF Sound
  <2>2. PICK y : y = g[s.pc].op
    OBVIOUS
  <2>3. y \notin {"store", "call", "br", "ret"}
    BY <1>3, <2>2
  <2>4. Memory(g, ar, s) = s.mem
    BY <2>2, <2>3 DEF Memory
  <2>5. Output(g, ar, s) = s.out
    BY <2>2, <2>3 DEF Output
  <2>6. Following(g, lv, ar, s) = First(lv, s.pc + 1, Len(g))
    BY <2>2, <2>3 DEF Following
  <2> QED
    BY <2>1, <2>2, <2>3, <2>4, <2>5, <2>6
<1>5. First(lv, x + 1, Len(g)) # x
  <2>1. PICK p : p = First(lv, x + 1, Len(g))
    OBVIOUS
  <2>2. p \in lv \cup {Len(g) + 1} /\ p >= x + 1
    BY <1>1, <1>2, <2>1, FirstIs
  <2>3. p \in 1..(Len(g) + 1)
    BY <1>1, <2>2, PlaceIs
  <2> QED
    BY <1>2, <2>1, <2>2, <2>3
<1>6. t.pc = IF s2.pc = x THEN First(lv, x + 1, Len(g)) ELSE s2.pc
  BY <1>4, <1>5 DEF Alike
<1>7. s2.val[x] = Result(g, ar, s) /\ \A i \in DOMAIN g \ {x} : s2.val[i] = s.val[i]
  BY <1>1, <1>3, <1>4, ValuesAre
<1>8. x \notin s.done
  BY <1>2 DEF Sound, InOrder
<1>9. t.done = s2.done \ {x}
  BY <1>4, <1>8 DEF Alike
<1>10. Unused(lv, ar, x) \/ (Known(s2, o) /\ s2.val[x] = Value(s2, o))
  <2> SUFFICES ASSUME ~Unused(lv, ar, x) PROVE Known(s2, o) /\ s2.val[x] = Value(s2, o)
    OBVIOUS
  <2>1. Known(s, o) /\ Value(s, o) = Result(g, ar, s)
    BY DEF Erasable, StandsFor
  <2>2. s.done \subseteq s2.done /\ \A i \in s.done : s2.val[i] = s.val[i]
    <3>1. \A i \in s.done : i \in DOMAIN g /\ i # x
      BY <1>8 DEF Sound, InOrder, Proper
    <3> QED
      BY <1>4, <1>7, <3>1
  <2> QED
    BY <1>7, <2>1, <2>2, KnownStays
<1> QED
  BY <1>4, <1>6, <1>7, <1>9, <1>10 DEF Alike

(* And executing another instruction has the same effect. *)
LEMMA AlikeElsewhere ==
  ASSUME NEW g, NEW lv, NEW ar, Proper(g, lv, ar), NEW ar2, NEW x, NEW o, Erasable(g, lv, ar, x, o),
         Rewritten(g, lv, ar, ar2, x, o), NEW s, Sound(g, lv, ar, s), NEW t, IsState(t), DOMAIN t.val = DOMAIN g,
         Alike(g, lv, ar, x, o, s, t),
         s.pc \in lv \ {x}, ~Stuck(g, ar, s),
         NEW s2, s2 = Execute(g, lv, ar, s), NEW t2, t2 = Execute(g, lv \ {x}, ar2, t)
  PROVE  Alike(g, lv, ar, x, o, s2, t2)
<1>1. PICK i \in lv \ {x} : i = s.pc
  OBVIOUS
<1>2. i = t.pc
  BY <1>1 DEF Alike
<1>3. /\ ~Stuck(g, ar2, t)
      /\ g[i].op \in WithResult => Result(g, ar2, t) = Result(g, ar, s)
      /\ Memory(g, ar2, t) = Memory(g, ar, s) /\ Output(g, ar2, t) = Output(g, ar, s)
      /\ Following(g, lv \ {x}, ar2, t) =
           IF Following(g, lv, ar, s) = x THEN First(lv, x + 1, Len(g)) ELSE Following(g, lv, ar, s)
  <2>1. s.pc \in lv \ {x} /\ t.pc = s.pc
    BY <1>1, <1>2
  <2>2. /\ ~Stuck(g, ar2, t)
        /\ g[s.pc].op \in WithResult => Result(g, ar2, t) = Result(g, ar, s)
        /\ Memory(g, ar2, t) = Memory(g, ar, s) /\ Output(g, ar2, t) = Output(g, ar, s)
        /\ Following(g, lv \ {x}, ar2, t) =
             IF Following(g, lv, ar, s) = x THEN First(lv, x + 1, Len(g)) ELSE Following(g, lv, ar, s)
    BY <2>1, SameEffect
  <2> QED
    BY <1>1, <2>2
<1>4. /\ s2.pc = Following(g, lv, ar, s) /\ s2.done = s.done \cup {i} /\ s2.val = Values(g, ar, s)
      /\ s2.from = IF g[i].op = "br" THEN g[i].block ELSE s.from
      /\ s2.mem = Memory(g, ar, s) /\ s2.out = Output(g, ar, s)
  BY <1>1, ExecuteIs DEF Sound
<1>5. /\ t2.pc = Following(g, lv \ {x}, ar2, t) /\ t2.done = t.done \cup {i} /\ t2.val = Values(g, ar2, t)
      /\ t2.from = IF g[i].op = "br" THEN g[i].block ELSE t.from
      /\ t2.mem = Memory(g, ar2, t) /\ t2.out = Output(g, ar2, t)
  BY <1>2, <1>3, ExecuteIs
<1>6. t2.done = s2.done \ {x}
  BY <1>1, <1>4, <1>5 DEF Alike
<1>7. i \in DOMAIN s.val /\ i \in DOMAIN t.val /\ DOMAIN s.val = DOMAIN g
  BY DEF Proper, Sound
<1>8. ASSUME NEW k \in DOMAIN g \ {x} PROVE t2.val[k] = s2.val[k]
  <2>0. t.val[k] = s.val[k]
    BY <1>8 DEF Alike
  <2>4. /\ g[i].op \in WithResult => s2.val[i] = Result(g, ar, s)
        /\ g[i].op \notin WithResult => s2.val = s.val
        /\ k # i => s2.val[k] = s.val[k]
    <3>1. s.pc \in DOMAIN s.val
      BY <1>1, <1>7
    <3> QED
      BY <1>1, <1>4, <1>7, <3>1, ValuesAre
  <2>5. /\ g[i].op \in WithResult => t2.val[i] = Result(g, ar2, t)
        /\ g[i].op \notin WithResult => t2.val = t.val
        /\ k # i => t2.val[k] = t.val[k]
    <3>1. t.pc \in DOMAIN t.val
      BY <1>2, <1>7
    <3> QED
      BY <1>2, <1>5, <3>1, ValuesAre
  <2>1. CASE k # i
    BY <2>0, <2>1, <2>4, <2>5
  <2>2. CASE k = i /\ g[i].op \in WithResult
    BY <1>3, <2>2, <2>4, <2>5
  <2>3. CASE k = i /\ g[i].op \notin WithResult
    BY <2>0, <2>3, <2>4, <2>5
  <2> QED
    BY <2>1, <2>2, <2>3
<1>9. ASSUME x \in s2.done, ~Unused(lv, ar, x) PROVE Known(s2, o) /\ s2.val[x] = Value(s2, o)
  <2>1. x \in s.done /\ x # i
    BY <1>1, <1>4, <1>9
  <2>2. Known(s, o) /\ s.val[x] = Value(s, o)
    BY <1>9, <2>1 DEF Alike
  <2>3. \A k \in s.done : k \in DOMAIN g /\ k # i
    <3>1. Len(g) \in Nat /\ lv \in SUBSET (1..Len(g))
      BY ShapeIs DEF Proper
    <3>2. i \in 1..Len(g) /\ \A k \in lv : k \in 1..Len(g)
      BY <3>1
    <3>3. \A k \in s.done : k \in lv /\ k < i
      BY <1>1 DEF Sound, InOrder
    <3> QED
      BY <3>1, <3>2, <3>3 DEF Proper
  <2>4. s.done \subseteq s2.done /\ \A k \in s.done : s2.val[k] = s.val[k]
    BY <1>1, <1>4, <1>7, <2>3, ValuesAre
  <2>5. Known(s2, o) /\ Value(s2, o) = Value(s, o)
    BY <2>2, <2>4, KnownStays
  <2> QED
    BY <2>1, <2>2, <2>4, <2>5
<1> QED
  BY <1>3, <1>4, <1>5, <1>6, <1>8, <1>9 DEF Alike

(* Side by side, visit by visit. *)
LEMMA FollowsStep ==
  ASSUME NEW g, NEW lv, NEW ar, Proper(g, lv, ar), NEW ar2, NEW x, NEW o, Erasable(g, lv, ar, x, o),
         Rewritten(g, lv, ar, ar2, x, o), NEW s, Sound(g, lv, ar, s), NEW t, Follows(g, lv, ar, x, o, s, t),
         NEW i \in DOMAIN g, s.pc > i - 1,
         NEW s2, s2 = Visit(g, lv, ar, s, i), NEW t2, t2 = Visit(g, lv \ {x}, ar2, t, i)
  PROVE  Follows(g, lv, ar, x, o, s2, t2)
<1>1. /\ Len(g) \in Nat /\ DOMAIN g = 1..Len(g) /\ lv \in SUBSET (1..Len(g)) /\ x \in lv
      /\ s.pc \in lv \cup {Len(g) + 1}
  BY ShapeIs DEF Proper, Erasable, Sound, InOrder
<1>2. x \in 1..Len(g) /\ s.pc \in 1..(Len(g) + 1) /\ i \in 1..Len(g)
  BY <1>1, PlaceIs
<1>3. IsState(t2) /\ DOMAIN t2.val = DOMAIN g
  <2>1. CASE t.pc # i
    BY <2>1 DEF Visit, Follows
  <2>2. CASE t.pc = i
    <3>1. t2 = Execute(g, lv \ {x}, ar2, t) /\ t.pc \in DOMAIN t.val
      BY <2>2 DEF Visit, Follows
    <3> QED
      BY <3>1, ExecuteIs, ValuesAre DEF Follows
  <2> QED
    BY <2>1, <2>2
<1>4. CASE ~Alike(g, lv, ar, x, o, s, t)
  <2>1. s.out = Trapped /\ s.pc = Len(g) + 1
    BY <1>4 DEF Follows
  <2>2. s.pc # i
    BY <1>1, <1>2, <2>1
  <2> QED
    BY <1>3, <2>1, <2>2 DEF Visit, Follows
<1>5. CASE Alike(g, lv, ar, x, o, s, t) /\ s.pc # i
  <2>1. t.pc # i
    <3>1. CASE s.pc = x
      <4>1. PICK p : p = First(lv, x + 1, Len(g))
        OBVIOUS
      <4>2. x + 1 \in Nat /\ x + 1 <= Len(g) + 1
        BY <1>1, <1>2
      <4>3. p \in lv \cup {Len(g) + 1} /\ p >= x + 1
        BY <1>1, <4>1, <4>2, FirstIs
      <4>4. p \in 1..(Len(g) + 1)
        BY <1>1, <4>3, PlaceIs
      <4>5. x > i - 1
        BY <3>1
      <4>6. p # i
        BY <1>1, <1>2, <4>3, <4>4, <4>5
      <4> QED
        BY <1>5, <3>1, <4>1, <4>6 DEF Alike
    <3>2. CASE s.pc # x
      BY <1>5, <3>2 DEF Alike
    <3> QED
      BY <3>1, <3>2
  <2> QED
    BY <1>5, <1>3, <2>1 DEF Visit, Follows
<1>6. CASE Alike(g, lv, ar, x, o, s, t) /\ s.pc = i /\ Stuck(g, ar, s)
  <2>1. s2.out = Trapped /\ s2.pc = Len(g) + 1
    BY <1>6, ExecuteIs DEF Visit, Sound
  <2> QED
    BY <1>3, <2>1 DEF Follows
<1>7. CASE Alike(g, lv, ar, x, o, s, t) /\ s.pc = i /\ ~Stuck(g, ar, s)
  <2>1. s2 = Execute(g, lv, ar, s) /\ s.pc \in lv
    <3>1. s.pc # Len(g) + 1
      BY <1>1, <1>2, <1>7
    <3> QED
      BY <1>1, <1>7, <3>1 DEF Visit
  <2>2. CASE i = x
    <3>1. PICK p : p = First(lv, x + 1, Len(g))
      OBVIOUS
    <3>2. x + 1 \in Nat /\ x + 1 <= Len(g) + 1
      BY <1>1, <1>2
    <3>3. p \in lv \cup {Len(g) + 1} /\ p >= x + 1
      BY <1>1, <3>1, <3>2, FirstIs
    <3>4. p \in 1..(Len(g) + 1)
      BY <1>1, <3>3, PlaceIs
    <3>5. t.pc = p
      BY <1>7, <2>2, <3>1 DEF Alike
    <3>6. t2 = t
      BY <1>1, <1>2, <2>2, <3>3, <3>4, <3>5 DEF Visit
    <3>7. Alike(g, lv, ar, x, o, s2, t)
      BY <1>7, <2>1, <2>2, AlikeAtErased
    <3> QED
      BY <1>3, <3>6, <3>7 DEF Follows
  <2>3. CASE i # x
    <3>1. t.pc = i
      BY <1>7, <2>3 DEF Alike
    <3>2. t2 = Execute(g, lv \ {x}, ar2, t)
      BY <3>1 DEF Visit
    <3>3. s.pc \in lv \ {x}
      BY <1>7, <2>1, <2>3
    <3>4. IsState(t) /\ DOMAIN t.val = DOMAIN g
      BY DEF Follows
    <3>5. Alike(g, lv, ar, x, o, s2, t2)
      BY <1>7, <2>1, <3>2, <3>3, <3>4, AlikeElsewhere
    <3> QED
      BY <1>3, <3>5 DEF Follows
  <2> QED
    BY <2>2, <2>3
<1> QED
  BY <1>4, <1>5, <1>6, <1>7

(* A function of which an erasable instruction has been erased does what   *)
(* it did, unless that was undefined.                                      *)
LEMMA ErasureRefines ==
  ASSUME NEW g, NEW lv, NEW ar, Proper(g, lv, ar), NEW ar2, NEW x, NEW o, Erasable(g, lv, ar, x, o),
         Rewritten(g, lv, ar, ar2, x, o), NEW m, Run(g, lv, ar, m) # Undefined
  PROVE  Run(g, lv \ {x}, ar2, m) = Run(g, lv, ar, m)
<1>1. Len(g) \in Nat /\ DOMAIN g = 1..Len(g) /\ lv \in SUBSET (1..Len(g)) /\ x \in lv
  BY ShapeIs DEF Proper, Erasable
<1>2. PICK S : States(S, g, lv, ar, m) /\ Run(g, lv, ar, m) = {S[Len(g)].out}
  BY <1>1, ExecutionIs
<1>3. PICK T : States(T, g, lv \ {x}, ar2, m) /\ Run(g, lv \ {x}, ar2, m) = {T[Len(g)].out}
  <2>1. PICK lv2 : lv2 = lv \ {x}
    OBVIOUS
  <2>2. \E T : States(T, g, lv2, ar2, m) /\ Run(g, lv2, ar2, m) = {T[Len(g)].out}
    BY <1>1, ExecutionIs
  <2> QED
    BY <2>1, <2>2
<1>4. \A k \in 0..Len(g) : Sound(g, lv, ar, S[k]) /\ S[k].pc > k
  BY <1>2, SoundStates
<1> DEFINE Q == {k \in Nat : k <= Len(g) => Follows(g, lv, ar, x, o, S[k], T[k])}
<1>5. 0 \in Q
  <2>1. /\ S[0] = [pc |-> Entered(g, lv, 1), from |-> 0, done |-> {}, val |-> [i \in DOMAIN g |-> 0],
                   mem |-> m, out |-> <<"start">>]
        /\ T[0] = [pc |-> Entered(g, lv \ {x}, 1), from |-> 0, done |-> {}, val |-> [i \in DOMAIN g |-> 0],
                   mem |-> m, out |-> <<"start">>]
    BY <1>2, <1>3 DEF States, Start
  <2>2. Entered(g, lv \ {x}, 1) = IF Entered(g, lv, 1) = x THEN First(lv, x + 1, Len(g)) ELSE Entered(g, lv, 1)
    BY <1>1, EnteredWithout
  <2>3. /\ S[0].pc = Entered(g, lv, 1) /\ T[0].pc = Entered(g, lv \ {x}, 1)
        /\ T[0].from = S[0].from /\ T[0].mem = S[0].mem /\ T[0].out = S[0].out
        /\ T[0].done = {} /\ S[0].done = {} /\ T[0].val = S[0].val /\ DOMAIN T[0].val = DOMAIN g
    BY <2>1
  <2>4. IsState(T[0])
    BY <2>1 DEF IsState
  <2>5. Alike(g, lv, ar, x, o, S[0], T[0])
    BY <2>2, <2>3 DEF Alike
  <2> QED
    BY <2>3, <2>4, <2>5 DEF Follows
<1>6. ASSUME NEW k \in Nat, k \in Q PROVE k + 1 \in Q
  <2> SUFFICES ASSUME k + 1 <= Len(g) PROVE Follows(g, lv, ar, x, o, S[k + 1], T[k + 1])
    OBVIOUS
  <2>1. k + 1 \in DOMAIN g /\ k + 1 \in 1..Len(g) /\ (k + 1) - 1 = k /\ k \in 0..Len(g) /\ k <= Len(g)
    BY <1>1
  <2>2. Follows(g, lv, ar, x, o, S[k], T[k]) /\ Sound(g, lv, ar, S[k]) /\ S[k].pc > (k + 1) - 1
    BY <1>4, <1>6, <2>1
  <2>3. S[k + 1] = Visit(g, lv, ar, S[k], k + 1) /\ T[k + 1] = Visit(g, lv \ {x}, ar2, T[k], k + 1)
    BY <1>2, <1>3, <2>1 DEF States
  <2> QED
    BY <2>1, <2>2, <2>3, FollowsStep
<1>7. Nat \subseteq Q
  <2> HIDE DEF Q
  <2> QED
    BY <1>5, <1>6, SetInduction
<1>8. Follows(g, lv, ar, x, o, S[Len(g)], T[Len(g)])
  BY <1>1, <1>7
<1>9. S[Len(g)].out # Trapped
  BY <1>2 DEF Undefined
<1>10. T[Len(g)].out = S[Len(g)].out
  BY <1>8, <1>9 DEF Follows, Alike
<1> QED
  BY <1>2, <1>3, <1>10

-----------------------------------------------------------------------------
(***************************************************************************)
(* Why each of the passes may erase what it erases.                        *)
(***************************************************************************)
(* What an entry of a map says of the instruction that it names: it stands *)
(* in the block of the visited one, it has the key, and the memory is      *)
(* still as a load found it.                                               *)
MapsMean ==
  /\ \A e \in seen :
       /\ Computes(e.by) /\ f[e.by].block = f[at].block
       /\ e.key = Key(e.by) \/ (Commutative(e.by) /\ e.key = SwappedKey(e.by))
  /\ \A e \in loadMap :
       /\ Op(e.by) = "load" /\ f[e.by].block = f[at].block
       /\ e.key = arg[e.by][1]
       /\ \A w \in live : e.by < w /\ w < at => ~Writes(f, w)

(* The operands of the function are as Proper has them. *)
LEMMA OperandsProper ==
  ASSUME OperandsInv
  PROVE  Proper(f, live, arg)
  BY DEF OperandsInv, OptTypeOK, NoDanglingOperand, Proper

(* An integer is its own low bits. *)
LEMMA WrapIs ==
  ASSUME NEW n \in Ints
  PROVE  Wrap(n) = n
<1> DEFINE a == n - MinInt
           m == 2 * (MaxInt + 1)
<1>1. n \in Int /\ MinInt \in Int /\ m \in Nat \ {0} /\ a \in 0..(m - 1)
  BY SemanticsAssumption DEF Ints, MinInt
<1>2. Wrap(n) = (a % m) + MinInt
  BY DEF Wrap
<1> HIDE DEF a, m
<1>3. a % m = a
  BY <1>1
<1> QED
  BY <1>1, <1>2, <1>3 DEF a

(* The rules of algebraicSimplify are laws of the integers. *)
LEMMA Laws ==
  ASSUME NEW x \in Ints
  PROVE  /\ 0 \in Ints
         /\ Exact("add", x, 0) = x /\ Exact("add", 0, x) = x
         /\ Exact("sub", x, 0) = x /\ Exact("sub", x, x) = 0
         /\ Exact("mul", x, 0) = 0 /\ Exact("mul", 0, x) = 0
         /\ Exact("mul", x, 1) = x /\ Exact("mul", 1, x) = x
         /\ Exact("sdiv", x, 1) = x
<1>1. x \in Int /\ 0 \in Ints
  BY SemanticsAssumption DEF Ints, MinInt
<1>2. Quotient(x, 1) = x
  BY <1>1 DEF Quotient
<1> QED
  BY <1>1, <1>2 DEF Exact

(* And so is the swap of localCSE. *)
LEMMA Commutes ==
  ASSUME NEW op \in {"add", "mul", "xor"}, NEW x \in Ints, NEW y \in Ints
  PROVE  Exact(op, x, y) = Exact(op, y, x)
<1>1. x \in Int /\ y \in Int
  BY SemanticsAssumption DEF Ints, MinInt
<1>2. x + y = y + x /\ x * y = y * x
  BY <1>1
<1> QED
  BY <1>2 DEF Exact

(* What a computation gives when it is executed. *)
LEMMA ComputationGives ==
  ASSUME OperandsInv, at \in live, Computes(at),
         NEW s, s.pc = at, ~Stuck(f, arg, s)
  PROVE  /\ Known(s, L) /\ Known(s, R) /\ Value(s, L) \in Ints /\ Value(s, R) \in Ints
         /\ Result(f, arg, s) = Wrap(Exact(Op(at), Value(s, L), Value(s, R)))
<1>1. Proper(f, live, arg) /\ s.pc \in live
  BY OperandsProper
<1>2. f[s.pc].op \in Computations
  BY DEF Computes, Op
<1>3. \A j \in 1..2 : Known(s, arg[s.pc][j]) /\ Value(s, arg[s.pc][j]) \in Ints
  BY <1>1, <1>2, OperandsKnown
<1>4. Result(f, arg, s) = Wrap(Exact(f[s.pc].op, Value(s, arg[s.pc][1]), Value(s, arg[s.pc][2])))
  BY <1>2 DEF Result, Operand, Computations, BinaryOps, Arithmetic, Predicates
<1> QED
  BY <1>3, <1>4 DEF L, R, Op

(* constantFold computes what execution computes. *)
LEMMA FoldedStands ==
  ASSUME OperandsInv, at \in live, Foldable(at)
  PROVE  StandsFor(f, live, arg, at, Folded)
<1>1. Computes(at) /\ L.k = "const" /\ R.k = "const"
  BY DEF Foldable, Computes, Computations, BinaryOps, L, R
<1> SUFFICES ASSUME NEW s, s.pc = at, ~Stuck(f, arg, s)
             PROVE  Known(s, Folded) /\ Value(s, Folded) = Result(f, arg, s)
  BY DEF StandsFor
<1>2. Result(f, arg, s) = Wrap(Exact(Op(at), Value(s, L), Value(s, R)))
  BY <1>1, ComputationGives
<1>3. Value(s, L) = L.v /\ Value(s, R) = R.v
  BY <1>1 DEF Value
<1>4. Folded.k = "const" /\ Folded.v = Wrap(Exact(Op(at), L.v, R.v))
  BY DEF Folded, Const
<1> QED
  BY <1>2, <1>3, <1>4 DEF Known, Value

(* algebraicSimplify takes an operand that has the value. *)
LEMMA SimplerStands ==
  ASSUME OperandsInv, at \in live, NEW o \in Simpler(at)
  PROVE  Computes(at) /\ StandsFor(f, live, arg, at, o)
<1>1. Op(at) \in Arithmetic
  BY DEF Simpler, Arithmetic
<1>2. Computes(at)
  BY <1>1 DEF Computes, Computations, BinaryOps
<1>3. ASSUME NEW s, s.pc = at, ~Stuck(f, arg, s)
      PROVE  Known(s, o) /\ Value(s, o) = Result(f, arg, s)
  <2> DEFINE x == Value(s, L)
             y == Value(s, R)
  <2>1. /\ Known(s, L) /\ Known(s, R) /\ x \in Ints /\ y \in Ints
        /\ Result(f, arg, s) = Wrap(Exact(Op(at), x, y))
    BY <1>2, <1>3, ComputationGives
  <2>2. /\ \A n : Known(s, Const(n)) /\ Value(s, Const(n)) = n
    BY DEF Known, Value, Const
  <2> HIDE DEF x, y
  <2>3. /\ L = Const(0) => x = 0
        /\ R = Const(0) => y = 0
        /\ L = Const(1) => x = 1
        /\ R = Const(1) => y = 1
        /\ L = R => x = y
    BY <2>2 DEF x, y
  <2>4. /\ Known(s, o)
        /\ Value(s, o) \in Ints /\ Exact(Op(at), x, y) = Value(s, o)
    <3>1. CASE Op(at) = "add" /\ R = Const(0)
      <4>1. o = L
        BY <3>1 DEF Simpler, L, R
      <4> QED
        BY <2>1, <2>3, <3>1, <4>1, Laws DEF x
    <3>2. CASE Op(at) = "add" /\ R # Const(0)
      <4>1. L = Const(0) /\ o = R
        BY <3>2 DEF Simpler, L, R
      <4> QED
        BY <2>1, <2>3, <3>2, <4>1, Laws DEF y
    <3>3. CASE Op(at) = "sub"
      <4>1. (R = Const(0) /\ o = L) \/ (L = R /\ o = Const(0))
        BY <3>3 DEF Simpler, L, R
      <4> QED
        BY <2>1, <2>2, <2>3, <3>3, <4>1, Laws DEF x
    <3>4. CASE Op(at) = "mul"
      <4>1. \/ (L = Const(0) \/ R = Const(0)) /\ o = Const(0)
            \/ R = Const(1) /\ o = L
            \/ L = Const(1) /\ o = R
        BY <3>4 DEF Simpler, L, R
      <4> QED
        BY <2>1, <2>2, <2>3, <3>4, <4>1, Laws DEF x, y
    <3>5. CASE Op(at) = "sdiv"
      <4>1. R = Const(1) /\ o = L
        BY <3>5 DEF Simpler, L, R
      <4> QED
        BY <2>1, <2>3, <3>5, <4>1, Laws DEF x
    <3> QED
      BY <1>1, <3>1, <3>2, <3>3, <3>4, <3>5 DEF Arithmetic
  <2> QED
    BY <2>1, <2>4, WrapIs
<1> QED
  BY <1>2, <1>3 DEF StandsFor

(* In the block of the visited instruction, what stands before has been    *)
(* executed.                                                               *)
LEMMA EarlierIsDone ==
  ASSUME NEW s, Sound(f, live, arg, s), s.pc = at, at \in live,
         NEW i \in live, i < at, f[i].block = f[at].block
  PROVE  i \in s.done /\ Known(s, Ref(i)) /\ Value(s, Ref(i)) = s.val[i]
<1>1. i \in s.done
  BY DEF Sound, InOrder
<1> QED
  BY <1>1 DEF Known, Value, Ref

(* localCSE takes an equal computation, which has the same operands. *)
LEMMA SeenStands ==
  ASSUME OperandsInv, MapsMean, at \in live, Computes(at), NEW e \in Found(seen, Key(at))
  PROVE  StandsFor(f, live, arg, at, Ref(e.by))
<1>1. PICK i : i = e.by
  OBVIOUS
<1>2. /\ e \in seen /\ i \in live /\ i < at /\ Computes(i) /\ f[i].block = f[at].block
      /\ Key(i) = Key(at) \/ (Commutative(i) /\ SwappedKey(i) = Key(at))
  BY <1>1 DEF Found, MapsMean, OperandsInv, MapsKnowLive
<1> SUFFICES ASSUME NEW s, Sound(f, live, arg, s), s.pc = at, ~Stuck(f, arg, s)
             PROVE  Known(s, Ref(i)) /\ Value(s, Ref(i)) = Result(f, arg, s)
  BY <1>1 DEF StandsFor
<1>3. /\ Value(s, L) \in Ints /\ Value(s, R) \in Ints
      /\ Result(f, arg, s) = Wrap(Exact(Op(at), Value(s, L), Value(s, R)))
  BY ComputationGives
<1>4. i \in s.done /\ Known(s, Ref(i)) /\ Value(s, Ref(i)) = s.val[i]
  BY <1>2, EarlierIsDone
<1>5. s.val[i] = Wrap(Exact(Op(i), Value(s, arg[i][1]), Value(s, arg[i][2])))
  BY <1>2, <1>4 DEF Sound, ResultsStand, ResultStands, Computes, Op
<1>6. CASE Key(i) = Key(at)
  <2>1. Op(i) = Op(at) /\ arg[i][1] = L /\ arg[i][2] = R
    BY <1>6 DEF Key, L, R
  <2> QED
    BY <1>3, <1>4, <1>5, <2>1
<1>7. CASE Commutative(i) /\ SwappedKey(i) = Key(at)
  <2>1. Op(i) = Op(at) /\ arg[i][1] = R /\ arg[i][2] = L /\ Op(at) \in {"add", "mul", "xor"}
    BY <1>7 DEF Key, SwappedKey, Commutative, L, R
  <2>2. Exact(Op(at), Value(s, L), Value(s, R)) = Exact(Op(at), Value(s, R), Value(s, L))
    BY <1>3, <2>1, Commutes
  <2> QED
    BY <1>3, <1>4, <1>5, <2>1, <2>2
<1> QED
  BY <1>2, <1>6, <1>7

(* Or a load that no write of the block comes after. *)
LEMMA LoadedStands ==
  ASSUME OperandsInv, MapsMean, at \in live, Op(at) = "load", NEW e \in Found(loadMap, L)
  PROVE  StandsFor(f, live, arg, at, Ref(e.by))
<1>1. PICK i : i = e.by
  OBVIOUS
<1>2. /\ i \in live /\ i < at /\ Op(i) = "load" /\ f[i].block = f[at].block
      /\ arg[i][1] = L /\ \A w \in live : i < w /\ w < at => ~Writes(f, w)
  BY <1>1 DEF Found, MapsMean, OperandsInv, MapsKnowLive
<1> SUFFICES ASSUME NEW s, Sound(f, live, arg, s), s.pc = at, ~Stuck(f, arg, s)
             PROVE  Known(s, Ref(i)) /\ Value(s, Ref(i)) = Result(f, arg, s)
  BY <1>1 DEF StandsFor
<1>3. i \in s.done /\ Known(s, Ref(i)) /\ Value(s, Ref(i)) = s.val[i]
  BY <1>2, EarlierIsDone
<1>4. LoadStands(arg, s, i)
  BY <1>2, <1>3 DEF Sound, ResultsStand, Op
<1>5. s.val[i] = s.mem[Value(s, L)]
  BY <1>2, <1>4 DEF LoadStands
<1>6. Result(f, arg, s) = s.mem[Value(s, L)]
  BY DEF Result, Operand, L, Op, Computations, BinaryOps, Arithmetic, Predicates
<1> QED
  BY <1>3, <1>5, <1>6

(* What an entry says stays true: an instruction that the walk has passed  *)
(* refers to none that is erased later.                                    *)
LEMMA MapsMeanStep ==
  ASSUME OperandsInv, MapsMean, OptNext, OperandsInv'
  PROVE  MapsMean'
<1> USE DEF OperandsInv
<1>1. CASE seen' = {} /\ loadMap' = {}
  BY <1>1 DEF MapsMean
<1>2. CASE pass # "cse" \/ at = N + 1
  <2>1. seen = {} /\ loadMap = {}
    BY <1>2 DEF MapsKnowLive
  <2>2. seen' = seen /\ loadMap' = loadMap
    <3>1. at = N + 1 => at \notin live
      <4>1. \A j \in live : j \in 1..N /\ N \in Nat
        BY FunctionIs DEF OptTypeOK
      <4> QED
        BY <4>1
    <3>2. ~(CSEComputation \/ CSELoad \/ CSEOther)
      BY <1>2, <3>1 DEF CSEComputation, CSELoad, CSEOther, Visiting
    <3> QED
      BY <3>2 DEF OptNext, ConstantFold, AlgebraicSimplify, DeadCodeElim, WalkAgain, FinishPass, FinishRound
  <2> QED
    BY <1>1, <2>1, <2>2
<1>3. CASE pass = "cse" /\ at # N + 1 /\ ~(seen' = {} /\ loadMap' = {})
  <2>1. at \in live /\ live \subseteq DOMAIN f /\ N \in Nat /\ \A j \in live : j \in 1..N
    BY <1>3, FunctionIs DEF OptTypeOK
  <2>2. CSEComputation \/ CSELoad \/ CSEOther
    BY <1>3, <2>1 DEF OptNext, ConstantFold, AlgebraicSimplify, DeadCodeElim, WalkAgain, FinishPass,
                      FinishRound, Visiting
  <2>3. SameBlock /\ at' = NextAt /\ f[at'].block = f[at].block /\ f' = f
    <3>1. SameBlock
      BY <1>3, <2>2 DEF CSEComputation, CSELoad, CSEOther, Reset
    <3>2. at' = NextAt /\ f' = f
      BY <2>2 DEF CSEComputation, CSELoad, CSEOther, Keep, Replace, Erase
    <3> QED
      BY <3>1, <3>2 DEF SameBlock
  <2>4. /\ live' \subseteq live
        /\ \A j \in live : j < at' <=> j <= at
    BY <2>1, <2>2, <2>3, WalkOn DEF CSEComputation, CSELoad, CSEOther, Keep, Replace, Erase
  <2>5. ASSUME NEW i \in live, i <= at, NEW j \in DOMAIN arg[i] PROVE arg'[i][j] = arg[i][j]
    <3>1. CASE arg' = arg
      BY <3>1
    <3>2. CASE \E o : ReplaceAllUses(o)
      <4>1. PICK o : ReplaceAllUses(o)
        BY <3>2
      <4>2. arg'[i][j] = IF arg[i][j] = Ref(at) THEN o ELSE arg[i][j]
        BY <2>1, <2>5, <4>1, ReplaceIs DEF OptTypeOK
      <4>3. arg[i][j].k = "ins" => arg[i][j].v \in 1..(i - 1)
        BY <2>5 DEF NoDanglingOperand
      <4>4. at \in 1..N /\ i \in 1..N
        BY <2>1
      <4>5. at \notin 1..(i - 1)
        BY <2>5, <4>4
      <4>6. arg[i][j] # Ref(at)
        BY <4>3, <4>5 DEF Ref
      <4> QED
        BY <4>2, <4>6
    <3> QED
      BY <2>2, <3>1, <3>2 DEF CSEComputation, CSELoad, CSEOther, Keep, Replace
  <2>6. ASSUME NEW i \in live, i <= at, Computes(i)
        PROVE  Computes(i)' /\ Key(i)' = Key(i) /\ SwappedKey(i)' = SwappedKey(i) /\ (Commutative(i)' <=> Commutative(i))
    <3>1. 1 \in DOMAIN arg[i] /\ 2 \in DOMAIN arg[i]
      BY <2>6, TwoOperands DEF Computes
    <3>2. arg'[i][1] = arg[i][1] /\ arg'[i][2] = arg[i][2]
      BY <2>5, <2>6, <3>1
    <3> QED
      BY <2>3, <2>6, <3>2 DEF Computes, Key, SwappedKey, Commutative, Op
  <2>7. ASSUME NEW e \in seen'
        PROVE  /\ Computes(e.by)' /\ f'[e.by].block = f'[at'].block
               /\ e.key = Key(e.by)' \/ (Commutative(e.by)' /\ e.key = SwappedKey(e.by)')
    <3>1. CASE e \in seen
      <4>1. e.by \in live /\ e.by < at
        BY <3>1 DEF MapsKnowLive
      <4>2. e.by <= at
        BY <2>1, <4>1
      <4>3. /\ Computes(e.by) /\ f[e.by].block = f[at].block
            /\ e.key = Key(e.by) \/ (Commutative(e.by) /\ e.key = SwappedKey(e.by))
        BY <3>1 DEF MapsMean
      <4>4. PICK i : i = e.by
        OBVIOUS
      <4>5. Computes(i)' /\ Key(i)' = Key(i) /\ SwappedKey(i)' = SwappedKey(i) /\ (Commutative(i)' <=> Commutative(i))
        BY <2>6, <4>1, <4>2, <4>3, <4>4
      <4> QED
        BY <2>3, <4>3, <4>4, <4>5 DEF Computes, Key, SwappedKey, Commutative, Op
    <3>2. CASE e \notin seen
      <4>1. CSEComputation /\ Computes(at)
        BY <2>2, <3>2 DEF CSEComputation, CSELoad, CSEOther, Reset
      <4>2. /\ e = Entry(Key(at)) \/ (Commutative(at) /\ e = Entry(SwappedKey(at)))
        BY <3>2, <4>1 DEF CSEComputation, Reset
      <4>3. at <= at
        BY <2>1
      <4>4. e.by = at /\ (e.key = Key(at) \/ (Commutative(at) /\ e.key = SwappedKey(at)))
        BY <4>2 DEF Entry
      <4>5. PICK i : i = at
        OBVIOUS
      <4>6. Computes(i)' /\ Key(i)' = Key(i) /\ SwappedKey(i)' = SwappedKey(i) /\ (Commutative(i)' <=> Commutative(i))
        BY <2>1, <2>6, <4>1, <4>3, <4>5
      <4> QED
        BY <2>3, <4>4, <4>5, <4>6 DEF Computes, Key, SwappedKey, Commutative, Op
    <3> QED
      BY <3>1, <3>2
  <2>8. ASSUME NEW e \in loadMap'
        PROVE  /\ f'[e.by].op = "load" /\ f'[e.by].block = f'[at'].block
               /\ e.key = arg'[e.by][1]
               /\ \A w \in live' : e.by < w /\ w < at' => ~Writes(f', w)
    <3>1. /\ e.by \in live /\ e.by <= at /\ Op(e.by) = "load" /\ f[e.by].block = f[at].block
          /\ e.key = arg[e.by][1]
          /\ \A w \in live : e.by < w /\ w <= at => ~Writes(f, w)
      <4>1. CASE e \in loadMap
        <5>1. /\ e.by \in live /\ e.by < at /\ e.by <= at
          BY <2>1, <4>1 DEF MapsKnowLive
        <5>2. ~Writes(f, at)
          <6>1. CASE CSEComputation
            BY <6>1 DEF CSEComputation, Writes, Computes, Op, Computations, BinaryOps, Arithmetic, Predicates
          <6>2. CASE CSELoad
            BY <6>2 DEF CSELoad, Writes, Op
          <6>3. CASE CSEOther
            BY <2>8, <6>3 DEF CSEOther, Reset, AfterWrite, Writes, Op
          <6> QED
            BY <2>2, <6>1, <6>2, <6>3
        <5>3. \A w \in live : w <= at => w < at \/ w = at
          BY <2>1
        <5> QED
          BY <4>1, <5>1, <5>2, <5>3 DEF MapsMean
      <4>2. CASE e \notin loadMap
        <5>1. CSELoad /\ e = Entry(L)
          BY <2>2, <2>8, <4>2 DEF CSEComputation, CSELoad, CSEOther, Reset, AfterWrite
        <5>2. e.by = at /\ e.key = arg[at][1] /\ Op(at) = "load"
          BY <5>1 DEF Entry, CSELoad, L
        <5>3. at <= at /\ \A w \in live : ~(at < w /\ w <= at)
          BY <2>1
        <5> QED
          BY <2>1, <5>2, <5>3
      <4> QED
        BY <4>1, <4>2
    <3>2. arg'[e.by][1] = arg[e.by][1]
      <4>1. DOMAIN arg[e.by] = DOMAIN f[e.by].args /\ e.by \in DOMAIN f
        BY <2>1, <3>1 DEF OptTypeOK
      <4>2. 1 \in DOMAIN arg[e.by]
        BY <3>1, <4>1, FunctionIs DEF OptTypeOK
      <4>3. PICK i : i = e.by
        OBVIOUS
      <4> QED
        BY <2>5, <3>1, <4>2, <4>3
    <3> QED
      BY <2>3, <2>4, <3>1, <3>2 DEF Op
  <2> QED
    BY <2>7, <2>8 DEF MapsMean, Op
<1> QED
  BY <1>1, <1>2, <1>3

(* Every step leaves the code alone or erases what may be erased. *)
LEMMA ErasesErasable ==
  ASSUME OperandsInv, MapsMean, OptNext
  PROVE  \/ UNCHANGED <<f, live, arg, meaning>>
         \/ /\ Erase
            /\ \E o : Erasable(f, live, arg, at, o) /\ Rewritten(f, live, arg, arg', at, o)
<1> USE DEF OperandsInv
<1>1. ASSUME at \in live, NEW o, Earlier(o), StandsFor(f, live, arg, at, o), Replace(o),
             Op(at) \in Computations \cup {"load"}
      PROVE  Erase /\ Erasable(f, live, arg, at, o) /\ Rewritten(f, live, arg, arg', at, o)
  <2>1. Erasable(f, live, arg, at, o)
    BY <1>1 DEF Erasable, Earlier, Op
  <2>2. /\ DOMAIN arg' = DOMAIN f
        /\ \A i \in DOMAIN f :
             /\ DOMAIN arg'[i] = DOMAIN f[i].args
             /\ \A j \in DOMAIN f[i].args : arg'[i][j] = IF arg[i][j] = Ref(at) THEN o ELSE arg[i][j]
    BY <1>1, ReplaceIs DEF Replace
  <2>3. Rewritten(f, live, arg, arg', at, o)
    BY <2>2 DEF Rewritten, OptTypeOK
  <2> QED
    BY <1>1, <2>1, <2>3 DEF Replace
<1>2. CASE ConstantFold
  <2>1. CASE Foldable(at)
    <3>1. at \in live /\ Replace(Folded) /\ Earlier(Folded)
      BY <1>2, <2>1 DEF ConstantFold, Visiting, Earlier, IsOperand, Folded, Const
    <3>2. Op(at) \in Computations
      BY <2>1 DEF Foldable, Computations, BinaryOps
    <3>3. PICK o : o = Folded
      OBVIOUS
    <3> QED
      BY <1>1, <2>1, <3>1, <3>2, <3>3, FoldedStands
  <2>2. CASE ~Foldable(at)
    BY <1>2, <2>2 DEF ConstantFold, Keep
  <2> QED
    BY <2>1, <2>2
<1>3. CASE AlgebraicSimplify
  <2>1. CASE \E o \in Simpler(at) : Replace(o)
    <3>1. PICK o \in Simpler(at) : Replace(o)
      BY <2>1
    <3>2. at \in live
      BY <1>3 DEF AlgebraicSimplify, Visiting
    <3>3. Computes(at) /\ StandsFor(f, live, arg, at, o)
      BY <3>2, SimplerStands
    <3>4. Earlier(o)
      <4>1. o \in {arg[at][1], arg[at][2], Const(0)}
        BY <3>1 DEF Simpler
      <4>2. 1 \in DOMAIN arg[at] /\ 2 \in DOMAIN arg[at]
        BY <3>2, <3>3, TwoOperands DEF Computes
      <4>3. Earlier(Const(0))
        BY DEF Earlier, IsOperand, Const
      <4> QED
        BY <3>2, <4>1, <4>2, <4>3, OperandEarlier
    <3> QED
      BY <1>1, <3>1, <3>2, <3>3, <3>4 DEF Computes
  <2>2. CASE Keep
    BY <2>2 DEF Keep
  <2> QED
    BY <1>3, <2>1, <2>2 DEF AlgebraicSimplify
<1>4. CASE CSEComputation \/ CSELoad
  <2>1. ASSUME NEW e \in seen \cup loadMap PROVE Earlier(Ref(e.by))
    BY <2>1 DEF MapsKnowLive, Earlier, IsOperand, Ref
  <2>2. at \in live
    BY <1>4 DEF CSEComputation, CSELoad, Visiting
  <2>3. CASE Computes(at) /\ \E e \in Found(seen, Key(at)) : Replace(Ref(e.by))
    <3>1. PICK e \in Found(seen, Key(at)) : Replace(Ref(e.by))
      BY <2>3
    <3>2. StandsFor(f, live, arg, at, Ref(e.by))
      BY <2>2, <2>3, <3>1, SeenStands
    <3>3. e \in seen
      BY <3>1 DEF Found
    <3>4. PICK o : o = Ref(e.by)
      OBVIOUS
    <3> QED
      BY <1>1, <2>1, <2>2, <2>3, <3>1, <3>2, <3>3, <3>4 DEF Computes
  <2>4. CASE Op(at) = "load" /\ \E e \in Found(loadMap, L) : Replace(Ref(e.by))
    <3>1. PICK e \in Found(loadMap, L) : Replace(Ref(e.by))
      BY <2>4
    <3>2. StandsFor(f, live, arg, at, Ref(e.by))
      BY <2>2, <2>4, <3>1, LoadedStands
    <3>3. e \in loadMap
      BY <3>1 DEF Found
    <3>4. PICK o : o = Ref(e.by)
      OBVIOUS
    <3> QED
      BY <1>1, <2>1, <2>2, <2>4, <3>1, <3>2, <3>3, <3>4
  <2>5. CASE Keep
    BY <2>5 DEF Keep
  <2> QED
    BY <1>4, <2>3, <2>4, <2>5 DEF CSEComputation, CSELoad
<1>5. CASE CSEOther
  BY <1>5 DEF CSEOther, Keep
<1>6. CASE DeadCodeElim
  <2>1. CASE Dead(at)
    <3>1. at \in live /\ Erase /\ arg' = arg
      BY <1>6, <2>1 DEF DeadCodeElim, Visiting
    <3>2. Unused(live, arg, at)
      BY <2>1 DEF Dead, Used, Unused
    <3>3. f[at].op \in Computations \cup {"phi", "gep", "load"}
      <4> DEFINE Ops == Computations \cup Terminators \cup {"phi", "gep", "load", "store", "call"}
                 Rest == [op : Ops, args : Seq(Operands), block : Nat, to : Seq(Nat)]
      <4>1. f \in Seq(Rest) /\ at \in DOMAIN f
        BY <3>1, LocalOptsAssumption DEF OptTypeOK, Operands
      <4>2. f[at] \in Rest
        <5> HIDE DEF Rest
        <5> QED
          BY <4>1
      <4>3. f[at].op \in Ops
        BY <4>2
      <4> QED
        BY <2>1, <4>3 DEF Dead, HasSideEffects, Op
    <3>4. Erasable(f, live, arg, at, Const(0))
      BY <3>1, <3>2, <3>3 DEF Erasable, Const
    <3>5. Rewritten(f, live, arg, arg', at, Const(0))
      BY <3>1, <3>2 DEF Rewritten, Unused
    <3> QED
      BY <3>1, <3>4, <3>5
  <2>2. CASE ~Dead(at)
    BY <1>6, <2>2 DEF DeadCodeElim, Keep
  <2> QED
    BY <2>1, <2>2
<1>7. CASE WalkAgain \/ FinishPass \/ FinishRound
  BY <1>7 DEF WalkAgain, FinishPass, FinishRound
<1> QED
  BY <1>2, <1>3, <1>4, <1>5, <1>6, <1>7 DEF OptNext

(* The variable meaning is what the function does, on every input. *)
MeaningIs == meaning = [m \in Memories |-> Run(f, live, arg, m)]

RefinesInv == OperandsInv /\ MapsMean /\ MeaningIs

(* At the start the maps are empty. *)
LEMMA RefinesInvInit == OptInit => RefinesInv
<1> SUFFICES ASSUME OptInit PROVE MapsMean /\ MeaningIs
  BY OperandsInvInit DEF RefinesInv
<1>1. seen = {} /\ loadMap = {} /\ meaning = Meaning(live, arg)
  BY DEF OptInit
<1> QED
  BY <1>1 DEF MapsMean, MeaningIs, Meaning

(* Every step keeps the maps and the meaning true to the code. *)
LEMMA RefinesInvStep == RefinesInv /\ [OptNext]_optVars => RefinesInv'
<1>1. ASSUME RefinesInv, OptNext PROVE RefinesInv'
  <2>1. OperandsInv /\ MapsMean /\ MeaningIs
    BY <1>1 DEF RefinesInv
  <2>2. OperandsInv'
    BY <1>1, <2>1, OperandsInvStep
  <2>3. MapsMean'
    BY <1>1, <2>1, <2>2, MapsMeanStep
  <2>4. MeaningIs'
    <3>1. CASE UNCHANGED <<f, live, arg, meaning>>
      BY <2>1, <3>1 DEF MeaningIs
    <3>2. CASE Erase
      BY <3>2 DEF Erase, MeaningIs, Meaning
    <3> QED
      BY <1>1, <2>1, <3>1, <3>2, ErasesErasable
  <2> QED
    BY <2>2, <2>3, <2>4 DEF RefinesInv
<1>2. ASSUME RefinesInv, UNCHANGED optVars PROVE RefinesInv'
  <2>1. OperandsInv'
    BY <1>2, OperandsInvStep DEF RefinesInv
  <2>2. /\ f' = f /\ live' = live /\ arg' = arg /\ at' = at /\ seen' = seen /\ loadMap' = loadMap
        /\ meaning' = meaning
    BY <1>2 DEF optVars
  <2>3. MapsMean'
    BY <1>2, <2>2 DEF RefinesInv, MapsMean, Computes, Commutative, Key, SwappedKey, Op
  <2>4. MeaningIs'
    BY <1>2, <2>2 DEF RefinesInv, MeaningIs
  <2> QED
    BY <2>1, <2>3, <2>4 DEF RefinesInv
<1> QED
  BY <1>1, <1>2

(* A step that erases keeps what the function does, on every input on      *)
(* which that was defined; the others stutter.                             *)
LEMMA RewriteStep ==
  ASSUME RefinesInv, OptNext
  PROVE  [Optimizer!Rewrite]_meaning
<1>1. OperandsInv /\ MapsMean /\ MeaningIs /\ Proper(f, live, arg)
  BY OperandsProper DEF RefinesInv
<1>2. CASE UNCHANGED <<f, live, arg, meaning>>
  BY <1>2
<1>3. ASSUME Erase, NEW o, Erasable(f, live, arg, at, o), Rewritten(f, live, arg, arg', at, o)
      PROVE  Optimizer!Rewrite
  <2>1. meaning' = [m \in Memories |-> Run(f, live \ {at}, arg', m)]
    BY <1>3 DEF Erase, Meaning
  <2>2. meaning = [m \in Memories |-> Run(f, live, arg, m)]
    BY <1>1 DEF MeaningIs
  <2>3. ASSUME NEW m \in Memories, Run(f, live, arg, m) # Undefined
        PROVE  Run(f, live \ {at}, arg', m) = Run(f, live, arg, m)
    <3>1. PICK ar2 : ar2 = arg'
      OBVIOUS
    <3>2. PICK x : x = at
      OBVIOUS
    <3>3. Rewritten(f, live, arg, ar2, x, o) /\ Erasable(f, live, arg, x, o)
      BY <1>3, <3>1, <3>2
    <3>4. Run(f, live \ {x}, ar2, m) = Run(f, live, arg, m)
      BY <1>1, <2>3, <3>3, ErasureRefines
    <3> QED
      BY <3>1, <3>2, <3>4
  <2>4. \A m \in Memories : meaning[m] = Run(f, live, arg, m) /\ meaning'[m] = Run(f, live \ {at}, arg', m)
    BY <2>1, <2>2, Zenon
  <2>5. DOMAIN meaning' = Memories
    BY <2>1, Zenon
  <2> QED
    BY <2>3, <2>4, <2>5 DEF Optimizer!Rewrite
<1> QED
  BY <1>1, <1>2, <1>3, ErasesErasable

(* The passes implement an optimizer: whatever the function, and whatever  *)
(* the input, no rewrite changes the calls it makes, their arguments, the  *)
(* memory that they find or the memory left at the end, unless LLVM leaves *)
(* undefined what it did.                                                  *)
THEOREM OptimizerRefines == OptSpec => OptRefines
<1>1. OptInit => RefinesInv /\ Optimizer!Start
  <2>1. ASSUME OptInit PROVE Optimizer!Start
    <3>1. meaning = [m \in Memories |-> Run(f, live, arg, m)]
      BY <2>1, RefinesInvInit DEF RefinesInv, MeaningIs
    <3> QED
      BY <3>1, Zenon DEF Optimizer!Start
  <2> QED
    BY <2>1, RefinesInvInit
<1>2. RefinesInv /\ [OptNext]_optVars => RefinesInv' /\ [Optimizer!Rewrite]_meaning
  <2>1. ASSUME UNCHANGED optVars PROVE [Optimizer!Rewrite]_meaning
    BY <2>1 DEF optVars
  <2> QED
    BY <2>1, RefinesInvStep, RewriteStep
<1> QED
  BY <1>1, <1>2, PTL DEF OptSpec, OptRefines, Optimizer!Spec
=============================================================================
