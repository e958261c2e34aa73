------------------------------ MODULE Promotion ------------------------------
(***************************************************************************)
(* The promotion of allocas to registers: steps 1 to 7 of runOnFunction in *)
(* src/Alloca2Reg.cpp, on a function of N blocks whose instructions are    *)
(* loads, stores and calls.                                                *)
(*                                                                         *)
(* An instruction is a record [op, a, arg]: a load from alloca a, a store  *)
(* of the value arg to it, or a call that uses arg and returns a value.    *)
(* A value is an instruction, a phi, undef or null; all have one shape, so *)
(* that they can be compared.                                              *)
(***************************************************************************)
EXTENDS Integers, Sequences, SequencesExt

CONSTANTS
  N,          \* number of blocks; block 1 is the entry
  Allocas,    \* the allocas, as numbers
  Scalars,    \* those that allocate an integer; the others are arrays
  Programs    \* the functions the pass is run on: [succ, code]

Blocks == 1..N
entryBB == 1

Ins(b, i) == [k |-> "ins", b |-> b, n |-> i]
Phi(b, a) == [k |-> "phi", b |-> b, n |-> a]
Undef == [k |-> "undef", b |-> 0, n |-> 0]
Null == [k |-> "null", b |-> 0, n |-> 0]

(* An operand is the result of a load or of a call, if there is one.       *)
ASSUME PromotionAssumption ==
  /\ N \in Nat \ {0}
  /\ Allocas \subseteq Nat /\ Scalars \subseteq Allocas /\ IsFiniteSet(Scalars)
  /\ \A p \in Programs :
       /\ p.succ \in [Blocks -> SUBSET Blocks]
       /\ DOMAIN p.code = Blocks
       /\ \A b \in Blocks :
            /\ p.code[b] \in Seq([op : {"load", "store", "call"}, a : Nat,
                                  arg : {Null} \cup [k : {"ins"}, b : Blocks, n : Nat]])
            /\ \A i \in DOMAIN p.code[b] : LET v == p.code[b][i].arg IN
                 v # Null => v.n \in DOMAIN p.code[v.b] /\ p.code[v.b][v.n].op # "store"

VARIABLES
  prog,           \* the function, as it is before the pass
  TargetAllocas,  \* a std::set of pointers: the order of its elements is
                  \* that of their addresses
  phase,          \* the step of runOnFunction
  ai, at, pc,     \* positions in TargetAllocas, in the blocks, in the block
  current,        \* the value of the alloca at this place
  arg,            \* the operands of the instructions, as rewritten so far
  Post,           \* block -> alloca -> value at the end of the block
  incoming,       \* [phi, pred] -> value
  phis,           \* the phis that exist
  changed         \* the sweep of step 7 has removed a phi

passVars == <<prog, TargetAllocas, phase, ai, at, pc, current, arg, Post, incoming, phis, changed>>

preds(b) == {p \in Blocks : b \in prog.succ[p]}
Positions == UNION {{Ins(b, i) : i \in DOMAIN prog.code[b]} : b \in Blocks}
InsAt(v) == prog.code[v.b][v.n]
Targets == {TargetAllocas[i] : i \in DOMAIN TargetAllocas}
IsTargetAccess(v) == InsAt(v).op \in {"load", "store"} /\ InsAt(v).a \in Targets
cursor == <<ai, at, pc>>

(* Step 1.  Scalars are used by loads and stores only: the address of a    *)
(* MiniC variable is never taken.  Step 2 creates a phi in each block that *)
(* has predecessors; without targets the pass returns at once.             *)
PromotionInit ==
  /\ prog \in Programs
  /\ TargetAllocas \in SetToSeqs(Scalars)
  /\ phase = IF Scalars = {} THEN "done" ELSE "replace"
  /\ ai = 1 /\ at = 1 /\ pc = 1
  /\ current = Null
  /\ arg = [v \in Positions |-> InsAt(v).arg]
  /\ Post = [b \in Blocks |-> [a \in Scalars |-> Undef]]
  /\ phis = {Phi(b, a) : b \in {c \in Blocks \ {entryBB} : preds(c) # {}}, a \in Scalars}
  /\ incoming = [phi \in phis |-> [p \in preds(phi.b) |-> Undef]]
  /\ changed = FALSE

(* replaceAllUsesWith: instructions and phis, but not the map Post. *)
ReplaceAllUses(old, new) ==
  /\ arg' = [v \in DOMAIN arg |-> IF arg[v] = old THEN new ELSE arg[v]]
  /\ incoming' = [phi \in DOMAIN incoming |->
                    [p \in DOMAIN incoming[phi] |->
                       IF incoming[phi][p] = old THEN new ELSE incoming[phi][p]]]

(* Seeded bug: the operands of the stores were noted in step 1. *)
Replace_StaleOperand ==
  LET AI == TargetAllocas[ai]
      I == Ins(at, pc)
      value == IF current = Null THEN Undef ELSE current
  IN  /\ phase = "replace"
      /\ pc \in DOMAIN prog.code[at]
      /\ \/ /\ InsAt(I).a # AI \/ InsAt(I).op = "call"
            /\ UNCHANGED <<current, arg, incoming>>
         \/ /\ InsAt(I).a = AI /\ InsAt(I).op = "store"
            /\ current' = InsAt(I).arg
            /\ UNCHANGED <<arg, incoming>>
         \/ /\ InsAt(I).a = AI /\ InsAt(I).op = "load"
            /\ current' = value
            /\ ReplaceAllUses(I, value)
      /\ pc' = pc + 1
      /\ UNCHANGED <<prog, TargetAllocas, phase, ai, at, Post, phis, changed>>

(* Step 3, one instruction. *)
Replace ==
  LET AI == TargetAllocas[ai]
      I == Ins(at, pc)
      value == IF current = Null THEN Undef ELSE current
  IN  /\ phase = "replace"
      /\ pc \in DOMAIN prog.code[at]
      /\ \/ /\ InsAt(I).a # AI \/ InsAt(I).op = "call"
            /\ UNCHANGED <<current, arg, incoming>>
         \/ /\ InsAt(I).a = AI /\ InsAt(I).op = "store"
            /\ current' = arg[I]
            /\ UNCHANGED <<arg, incoming>>
         \/ /\ InsAt(I).a = AI /\ InsAt(I).op = "load"
            /\ current' = value
            /\ ReplaceAllUses(I, value)
      /\ pc' = pc + 1
      /\ UNCHANGED <<prog, TargetAllocas, phase, ai, at, Post, phis, changed>>

(* Step 3, the end of a block: on to the next block, or the next alloca.   *)
RecordPost ==
  LET AI == TargetAllocas[ai]
      nextAt == IF at < N THEN at + 1 ELSE 1
      nextAi == IF at < N THEN ai ELSE ai + 1
  IN  /\ phase = "replace"
      /\ pc \notin DOMAIN prog.code[at]
      /\ Post' = [Post EXCEPT ![at][AI] = IF current = Null THEN Undef ELSE current]
      /\ at' = nextAt
      /\ pc' = 1
      /\ ai' = nextAi
      /\ phase' = IF nextAi \in DOMAIN TargetAllocas THEN "replace" ELSE "fill"
      /\ current' = IF nextAi \in DOMAIN TargetAllocas /\ Phi(nextAt, TargetAllocas[nextAi]) \in phis
                      THEN Phi(nextAt, TargetAllocas[nextAi]) ELSE Null
      /\ UNCHANGED <<prog, TargetAllocas, arg, incoming, phis, changed>>

(* Seeded bug: the value at the end of the block itself. *)
FillPhis_Self ==
  /\ phase = "fill"
  /\ incoming' = [phi \in phis |-> [p \in preds(phi.b) |-> Post[phi.b][phi.n]]]
  /\ phase' = "erase"
  /\ UNCHANGED <<prog, TargetAllocas, cursor, current, arg, Post, phis, changed>>

(* Step 4. *)
FillPhis ==
  /\ phase = "fill"
  /\ incoming' = [phi \in phis |-> [p \in preds(phi.b) |-> Post[p][phi.n]]]
  /\ phase' = "erase"
  /\ UNCHANGED <<prog, TargetAllocas, cursor, current, arg, Post, phis, changed>>

(* Steps 5 and 6: the accesses to the targets are gone, and the allocas.   *)
Erase ==
  /\ phase = "erase"
  /\ arg' = [v \in {u \in Positions : ~IsTargetAccess(u)} |-> arg[v]]
  /\ phase' = "clean"
  /\ at' = 1
  /\ ai' = Len(TargetAllocas)
  /\ changed' = FALSE
  /\ UNCHANGED <<prog, TargetAllocas, pc, current, Post, incoming, phis>>

Unused(phi) ==
  /\ \A v \in DOMAIN arg : arg[v] # phi
  /\ \A q \in phis : \A p \in DOMAIN incoming[q] : incoming[q][p] # phi

Others(phi) == {incoming[phi][p] : p \in DOMAIN incoming[phi]} \ {phi}

(* Seeded bug: the phi is erased while it is in use. *)
EraseFor_InUse(phi, v) ==
  /\ phis' = phis \ {phi}
  /\ incoming' = [q \in phis \ {phi} |-> incoming[q]]
  /\ UNCHANGED arg

(* Step 7, one phi is erased, and v replaces it. *)
EraseFor(phi, v) ==
  /\ phis' = phis \ {phi}
  /\ arg' = [u \in DOMAIN arg |-> IF arg[u] = phi THEN v ELSE arg[u]]
  /\ incoming' = [q \in phis \ {phi} |->
                     [p \in DOMAIN incoming[q] |->
                        IF incoming[q][p] = phi THEN v ELSE incoming[q][p]]]

(* Step 7, one phi.  The phis of a block stand in the reverse order of     *)
(* their creation.  A phi goes if nothing uses it, or if it merges at most *)
(* one value with itself; that value takes its place.                      *)
CleanPhi ==
  LET phi == Phi(at, TargetAllocas[ai])
      common == IF Others(phi) = {} THEN Undef ELSE CHOOSE v \in Others(phi) : TRUE
      trivial == \A v, w \in Others(phi) : v = w
  IN  /\ phase = "clean"
      /\ at <= N
      /\ ai > 0
      /\ ai' = ai - 1
      /\ \/ /\ phi \in phis /\ (Unused(phi) \/ trivial)
            /\ EraseFor(phi, common)
            /\ changed' = TRUE
         \/ /\ phi \notin phis \/ ~(Unused(phi) \/ trivial)
            /\ UNCHANGED <<phis, changed, arg, incoming>>
      /\ UNCHANGED <<prog, TargetAllocas, phase, at, pc, current, Post>>

CleanNextBlock ==
  /\ phase = "clean"
  /\ ai = 0 /\ at <= N
  /\ at' = at + 1
  /\ ai' = Len(TargetAllocas)
  /\ UNCHANGED <<prog, TargetAllocas, phase, pc, current, arg, Post, incoming, phis, changed>>

(* Seeded bug: the flag is not reset. *)
CleanAgain_NoReset ==
  /\ phase = "clean"
  /\ at > N
  /\ at' = 1
  /\ phase' = IF changed THEN "clean" ELSE "done"
  /\ UNCHANGED <<prog, TargetAllocas, ai, pc, current, arg, Post, incoming, phis, changed>>

CleanAgain ==
  /\ phase = "clean"
  /\ at > N
  /\ at' = 1
  /\ changed' = FALSE
  /\ phase' = IF changed THEN "clean" ELSE "done"
  /\ UNCHANGED <<prog, TargetAllocas, ai, pc, current, arg, Post, incoming, phis>>

PromotionNext ==
  Replace \/ RecordPost \/ FillPhis \/ Erase \/ CleanPhi \/ CleanNextBlock \/ CleanAgain

PromotionSpec == PromotionInit /\ [][PromotionNext]_passVars /\ WF_passVars(PromotionNext)

-----------------------------------------------------------------------------
(***************************************************************************)
(* Properties.                                                             *)
(***************************************************************************)
M == Cardinality(Scalars)

(* v is an access to the k-th of the scalars. *)
Accesses(v, k) == IsTargetAccess(v) /\ InsAt(v).a = TargetAllocas[k]

(* v stands before place n of block b. *)
Before(v, b, n) == v.b < b \/ (v.b = b /\ v.n < n)

(* A scalar that is stored in another scalar, as by a = b, is processed    *)
(* before it; one that is stored in itself has been loaded before.         *)
CopiesInOrder ==
  \A s \in Positions : \A k \in 1..M :
    Accesses(s, k) /\ InsAt(s).op = "store" =>
      \A j \in 1..M : InsAt(s).arg.k = "ins" /\ Accesses(InsAt(s).arg, j) =>
        j < k \/ (j = k /\ Before(InsAt(s).arg, s.b, s.n))

(* Step 5 deletes dead loads and stores: once they are gone, no operand    *)
(* and no phi refers to one of them; nor, while step 7 erases phis, to one *)
(* that is gone.  The code does not keep this where b, of a = b, is        *)
(* processed after a.                                                      *)
ErasedAreDead ==
  phase \in {"clean", "done"} =>
    LET used == {arg[v] : v \in DOMAIN arg}
                \cup UNION {{incoming[phi][p] : p \in DOMAIN incoming[phi]} : phi \in phis}
    IN  \A v \in used : /\ v.k = "ins" => ~IsTargetAccess(v)
                        /\ v.k = "phi" => v \in phis

(* It does where the addresses of the allocas order the copies: what a     *)
(* store records of another scalar has been replaced by then, and no step  *)
(* brings it back.                                                         *)
NoUseOfErased == CopiesInOrder => ErasedAreDead

(* The clean-up of phis comes to an end, although each replacement may     *)
(* make other phis trivial or unused.                                      *)
PromotionTerminates == <>(phase = "done")
=============================================================================
