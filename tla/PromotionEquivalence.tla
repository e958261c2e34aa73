------------------------- MODULE PromotionEquivalence -------------------------
(***************************************************************************)
(* What Promotion is for: the function computes what it computed before.   *)
(* Once the pass is done, the function as it was and the function as it is *)
(* are run side by side along any path, the one on memory and the other on *)
(* registers.  Both see the same results of calls.                         *)
(***************************************************************************)
EXTENDS Promotion, CFG

CONSTANT Tokens   \* bound: calls return 0..Tokens-1, and then 0 again

ASSUME TokensAssumption == Tokens \in Nat \ {0}

(* Nothing branches to the entry, and an operand is computed before it is  *)
(* used: earlier in its block or in a block that dominates it.             *)
ASSUME FunctionsAssumption ==
  \A p \in Programs : \A b \in Blocks :
    /\ entryBB \notin p.succ[b]
    /\ \A i \in DOMAIN p.code[b] : LET v == p.code[b][i].arg IN
         /\ p.code[b][i].op # "call" => p.code[b][i].a \in Allocas
         /\ v # Null => IF v.b = b THEN v.n < i ELSE Dominates(p.succ, entryBB, v.b, b)

VARIABLES
  here, pos,   \* the instruction executed next
  token,       \* what the next call returns
  memory,      \* the memory of the function before the pass: alloca -> token
  memoryAfter, \* the memory of the function after it
  old,         \* the values computed by the one: value -> token
  new          \* and by the other

runVars == <<here, pos, token, memory, memoryAfter, old, new>>
allVars == <<passVars, runVars>>

Unset == -1   \* never assigned, or undef
AllValues == Positions \cup {Phi(b, a) : b \in Blocks, a \in Scalars} \cup {Undef, Null}

RunInit ==
  /\ PromotionInit
  /\ here = entryBB /\ pos = 1 /\ token = 0
  /\ memory = [a \in Allocas |-> Unset]
  /\ memoryAfter = [a \in Allocas |-> Unset]
  /\ old = [v \in AllValues |-> Unset]
  /\ new = [v \in AllValues |-> Unset]

RunPass == PromotionNext /\ UNCHANGED runVars

I == Ins(here, pos)

Load(a) ==
  /\ old' = [old EXCEPT ![I] = memory[a]]
  /\ new' = IF I \in DOMAIN arg THEN [new EXCEPT ![I] = memoryAfter[a]] ELSE new
  /\ UNCHANGED <<token, memory, memoryAfter>>

Store(a) ==
  /\ memory' = [memory EXCEPT ![a] = old[InsAt(I).arg]]
  /\ memoryAfter' = IF I \in DOMAIN arg THEN [memoryAfter EXCEPT ![a] = new[arg[I]]]
                                        ELSE memoryAfter
  /\ UNCHANGED <<token, old, new>>

Call ==
  /\ old' = [old EXCEPT ![I] = token]
  /\ new' = [new EXCEPT ![I] = token]
  /\ token' = (token + 1) % Tokens
  /\ UNCHANGED <<memory, memoryAfter>>

Execute ==
  /\ phase = "done"
  /\ pos \in DOMAIN prog.code[here]
  /\ \/ InsAt(I).op = "load" /\ Load(InsAt(I).a)
     \/ InsAt(I).op = "store" /\ Store(InsAt(I).a)
     \/ InsAt(I).op = "call" /\ Call
  /\ pos' = pos + 1
  /\ UNCHANGED <<passVars, here>>

(* A branch: all phis of the block take their values at once. *)
Branch ==
  /\ phase = "done"
  /\ pos \notin DOMAIN prog.code[here]
  /\ \E b \in prog.succ[here] :
       /\ here' = b
       /\ new' = [v \in AllValues |-> IF v \in phis /\ v.b = b THEN new[incoming[v][here]]
                                                               ELSE new[v]]
  /\ pos' = 1
  /\ UNCHANGED <<passVars, token, memory, memoryAfter, old>>

RunNext == RunPass \/ Execute \/ Branch
RunSpec == RunInit /\ [][RunNext]_allVars /\ WF_allVars(RunPass)

-----------------------------------------------------------------------------
(* Whatever path is taken, every value passed to a call or stored to an    *)
(* array is the value that was passed or stored before the pass; what was  *)
(* read from an uninitialized variable may have changed.  As before, a     *)
(* copied scalar is to be processed before the one it is copied to.        *)
SameObservations ==
  CopiesInOrder /\ phase = "done" /\ pos \in DOMAIN prog.code[here] /\ I \in DOMAIN arg
    => old[InsAt(I).arg] \in {Unset, new[arg[I]]}
=============================================================================
