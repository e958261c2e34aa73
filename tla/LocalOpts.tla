------------------------------- MODULE LocalOpts -------------------------------
(***************************************************************************)
(* The local optimizations of src/Alloca2Reg.cpp: constantFold,            *)
(* algebraicSimplify, localCSE and deadCodeElim, and the loop of           *)
(* runOnFunction that repeats them until none of them reports a change.    *)
(*                                                                         *)
(* A pass walks over the instructions of the function and rewrites them in *)
(* place; it repeats the walk until one changes nothing.  An action is the *)
(* visit of one instruction.  Instructions are numbered in function order; *)
(* the function has no loops, so that loopInvariantCodeMotion, which LICM  *)
(* models, has nothing to do in it.                                        *)
(***************************************************************************)
EXTENDS IRSemantics

CONSTANTS
  Programs,   \* the functions the passes are run on
  Memories    \* the memories they may find: the inputs of the functions

ASSUME LocalOptsAssumption ==
  \A f \in Programs :
    /\ f # << >>
    /\ f \in Seq([op : Computations \cup Terminators \cup {"phi", "gep", "load", "store", "call"},
                  args : Seq([k : {"const", "global", "ins"}, v : Int]),
                  block : Nat, to : Seq(Nat)])
    /\ \A i \in DOMAIN f :
         /\ f[i].op \in Computations \cup {"store"} => Len(f[i].args) = 2
         /\ f[i].op \in {"load", "gep", "call"} => Len(f[i].args) = 1
         /\ f[i].op = "phi" => Len(f[i].args) = Len(f[i].to)
         /\ f[i].op = "br" => Len(f[i].to) = 1 \/ (Len(f[i].to) = 2 /\ Len(f[i].args) = 1)
         /\ \A j \in DOMAIN f[i].args : f[i].args[j].k = "ins" => f[i].args[j].v \in 1..(i - 1)
         \* Branches go forward, and the instructions of a block stand together.
         /\ f[i].op = "br" =>
              \A j \in DOMAIN f[i].to : \A k \in DOMAIN f : f[k].block = f[i].to[j] => i < k
         /\ \A j, k \in DOMAIN f : i < j /\ j < k /\ f[i].block = f[k].block => f[j].block = f[i].block

VARIABLES
  f,           \* the function as it was
  live,        \* the instructions that have not been erased
  arg,         \* instruction -> its operands
  pass,        \* the pass that is running
  at,          \* the instruction it visits next
  changed,     \* the walk has changed something
  optChanged,  \* some pass of this round has changed something
  seen,        \* localCSE: [key, by], the computations seen in the block
  loadMap,     \* localCSE: [key, by], the loads that are still current
  meaning      \* auxiliary: memory -> what the function, as it is, does on it

optVars == <<f, live, arg, pass, at, changed, optChanged, seen, loadMap, meaning>>

Meaning(l, a) == [m \in Memories |-> Run(f, l, a, m)]

N == Len(f)
Op(i) == f[i].op
L == arg[at][1]
R == arg[at][2]

OptInit ==
  /\ f \in Programs
  /\ live = DOMAIN f
  /\ arg = [i \in DOMAIN f |-> f[i].args]
  /\ pass = "fold"
  /\ at = 1
  /\ changed = FALSE
  /\ optChanged = FALSE
  /\ seen = {}
  /\ loadMap = {}
  /\ meaning = Meaning(live, arg)

(* it++ is done before the visit: the walk goes on behind it, whether or   *)
(* not the instruction is erased.  localCSE has new maps for each block.   *)
NextAt == First(live, at + 1, N)
SameBlock == NextAt \in DOMAIN f /\ f[NextAt].block = f[at].block

Visiting(p) == pass = p /\ at \in live

(* The instruction stays as it is. *)
Keep ==
  /\ at' = NextAt
  /\ UNCHANGED <<f, live, arg, pass, changed, optChanged, meaning>>

(* replaceAllUsesWith(o), for the instruction visited. *)
ReplaceAllUses(o) ==
  arg' = [i \in DOMAIN f |-> [j \in DOMAIN arg[i] |->
            IF arg[i][j] = Ref(at) THEN o ELSE arg[i][j]]]

Erase ==
  /\ live' = live \ {at}
  /\ at' = NextAt
  /\ changed' = TRUE
  /\ optChanged' = TRUE
  /\ meaning' = Meaning(live', arg')
  /\ UNCHANGED <<f, pass>>

Replace(o) == ReplaceAllUses(o) /\ Erase

(* Seeded bug: the result is not cut to the width of the type. *)
Folded_Exact == Const(Exact(Op(at), L.v, R.v))

(* The 64-bit result, cut to the type of the instruction. *)
Folded == Const(Wrap(Exact(Op(at), L.v, R.v)))

Foldable(i) ==
  /\ Op(i) \in Arithmetic \cup Predicates
  /\ arg[i][1].k = "const" /\ arg[i][2].k = "const"
  /\ Op(i) = "sdiv" => arg[i][2].v # 0

ConstantFold ==
  /\ Visiting("fold")
  /\ IF Foldable(at) THEN Replace(Folded) ELSE Keep
  /\ UNCHANGED <<seen, loadMap>>

(* The operand that may take the place of instruction i, if there is one.  *)
Simpler(i) ==
  LET l == arg[i][1]  r == arg[i][2]
  IN  CASE Op(i) = "add" /\ r = Const(0) -> {l}
        [] Op(i) = "add" /\ l = Const(0) -> {r}
        [] Op(i) = "sub" /\ r = Const(0) -> {l}
        [] Op(i) = "sub" /\ l = r -> {Const(0)}
        [] Op(i) = "mul" /\ Const(0) \in {l, r} -> {Const(0)}
        [] Op(i) \in {"mul", "sdiv"} /\ r = Const(1) -> {l}
        [] Op(i) = "mul" /\ l = Const(1) -> {r}
        [] OTHER -> {}

AlgebraicSimplify ==
  /\ Visiting("simplify")
  /\ \/ \E o \in Simpler(at) : Replace(o)
     \/ Simpler(at) = {} /\ Keep
  /\ UNCHANGED <<seen, loadMap>>

Computes(i) == Op(i) \in Computations
Commutative(i) == Op(i) \in {"add", "mul", "xor"}
Key(i) == <<Op(i), arg[i][1], arg[i][2]>>
SwappedKey(i) == <<Op(i), arg[i][2], arg[i][1]>>
Found(map, key) == {e \in map : e.key = key}
Entry(key) == [key |-> key, by |-> at]

(* Seeded bug: a store or call ends one pointer's load only. *)
AfterWrite_SamePointer(map) == {e \in map : e.key # arg[at][1]}

AfterWrite(map) == {}

Reset(map) == IF SameBlock THEN map ELSE {}

(* A computation of the block that has been seen, either way round if the  *)
(* operation is commutative.                                               *)
CSEComputation ==
  /\ Visiting("cse")
  /\ Computes(at)
  /\ \/ \E e \in Found(seen, Key(at)) : Replace(Ref(e.by)) /\ seen' = Reset(seen)
     \/ /\ Found(seen, Key(at)) = {}
        /\ Keep
        /\ seen' = Reset(seen \cup {Entry(Key(at))}
                     \cup (IF Commutative(at) /\ Found(seen, SwappedKey(at)) = {}
                             THEN {Entry(SwappedKey(at))} ELSE {}))
  /\ loadMap' = Reset(loadMap)

CSELoad ==
  /\ Visiting("cse")
  /\ Op(at) = "load"
  /\ \/ \E e \in Found(loadMap, L) : Replace(Ref(e.by)) /\ loadMap' = Reset(loadMap)
     \/ Found(loadMap, L) = {} /\ Keep /\ loadMap' = Reset(loadMap \cup {Entry(L)})
  /\ seen' = Reset(seen)

CSEOther ==
  /\ Visiting("cse")
  /\ ~Computes(at) /\ Op(at) # "load"
  /\ Keep
  /\ loadMap' = Reset(IF Op(at) \in {"store", "call"} THEN AfterWrite(loadMap) ELSE loadMap)
  /\ seen' = Reset(seen)

Used(i) == \E u \in live : \E j \in DOMAIN arg[u] : arg[u][j] = Ref(i)

HasSideEffects(i) == Op(i) \in {"store", "call"}

(* Seeded bug: uses are not looked at. *)
Dead_EvenIfUsed(i) == Op(i) \notin Terminators /\ ~HasSideEffects(i)

Dead(i) == ~Used(i) /\ Op(i) \notin Terminators /\ ~HasSideEffects(i)

DeadCodeElim ==
  /\ Visiting("dce")
  /\ IF Dead(at) THEN UNCHANGED arg /\ Erase ELSE Keep
  /\ UNCHANGED <<seen, loadMap>>

(* The end of a walk that has changed something: the pass walks again. *)
WalkAgain ==
  /\ pass # "done"
  /\ at > N
  /\ changed
  /\ at' = First(live, 1, N)
  /\ changed' = FALSE
  /\ UNCHANGED <<f, live, arg, pass, optChanged, seen, loadMap, meaning>>

NextPass(p) == CASE p = "fold" -> "simplify" [] p = "simplify" -> "cse" [] p = "cse" -> "dce"

FinishPass ==
  /\ pass \in {"fold", "simplify", "cse"}
  /\ at > N
  /\ ~changed
  /\ pass' = NextPass(pass)
  /\ at' = First(live, 1, N)
  /\ UNCHANGED <<f, live, arg, changed, optChanged, seen, loadMap, meaning>>

(* Seeded bugs: there is one round only; the flag is not reset. *)
FinishRound_Once ==
  /\ pass = "dce" /\ at > N /\ ~changed
  /\ pass' = "done"
  /\ at' = First(live, 1, N)
  /\ optChanged' = FALSE
  /\ UNCHANGED <<f, live, arg, changed, seen, loadMap, meaning>>
FinishRound_NoReset ==
  /\ pass = "dce" /\ at > N /\ ~changed
  /\ pass' = IF optChanged THEN "fold" ELSE "done"
  /\ at' = First(live, 1, N)
  /\ UNCHANGED <<f, live, arg, changed, optChanged, seen, loadMap, meaning>>

(* The end of a round of runOnFunction. *)
FinishRound ==
  /\ pass = "dce" /\ at > N /\ ~changed
  /\ pass' = IF optChanged THEN "fold" ELSE "done"
  /\ at' = First(live, 1, N)
  /\ optChanged' = FALSE
  /\ UNCHANGED <<f, live, arg, changed, seen, loadMap, meaning>>

OptNext ==
  \/ ConstantFold \/ AlgebraicSimplify
  \/ CSEComputation \/ CSELoad \/ CSEOther
  \/ DeadCodeElim
  \/ WalkAgain \/ FinishPass \/ FinishRound

OptSpec == OptInit /\ [][OptNext]_optVars /\ WF_optVars(OptNext)

OptDone == pass = "done"

-----------------------------------------------------------------------------
(***************************************************************************)
(* Properties.                                                             *)
(***************************************************************************)
Optimizer == INSTANCE OnlyRefines WITH Inputs <- Memories

(* The passes implement an optimizer: no rewrite changes a call, its       *)
(* argument, what the callee finds in memory or what is left there, on any *)
(* input on which the function did not divide by zero, divide the least    *)
(* integer by -1 or index outside of the array.                            *)
OptRefines == Optimizer!Spec

(* Nothing that is erased is used any more, although localCSE replaces by  *)
(* what its maps hold: the maps never hold an erased instruction, and no   *)
(* operand refers to one.                                                  *)
NoDanglingOperand ==
  \A i \in live : \A j \in DOMAIN arg[i] : arg[i][j].k = "ins" => arg[i][j].v \in live \cap 1..(i - 1)

(* When the rounds end there is nothing left that any of the passes would  *)
(* do, whichever pass made it possible: no constant computation, no        *)
(* operand that could stand for its user, no dead instruction, and in no   *)
(* block two equal computations, a + b and b + a among them.               *)
NothingLeft ==
  OptDone => \A i \in live :
    /\ ~Foldable(i) /\ ~Dead(i)
    /\ Computes(i) =>
         /\ Simpler(i) = {}
         /\ \A k \in live : k # i /\ f[k].block = f[i].block /\ Computes(k) =>
              /\ Key(k) # Key(i)
              /\ Commutative(i) => Key(k) # SwappedKey(i)

(* The rounds end, although each pass may make work for the others. *)
OptTerminates == <>OptDone
=============================================================================
