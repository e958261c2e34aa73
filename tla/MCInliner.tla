------------------------------ MODULE MCInliner ------------------------------
(***************************************************************************)
(* Model checking of Inliner on every call graph of three functions and an *)
(* external one, which only function 3 calls.                              *)
(***************************************************************************)
EXTENDS Inliner, FiniteSets

CallGraphs == {[f \in Functions |-> IF f = 4 THEN {} ELSE IF f = 3 THEN c[f] \cup {4} ELSE c[f]] :
                 c \in [1..3 -> SUBSET (1..3)]}

ModulesOf(graphs) ==
  [calls : graphs, defined : {1..3}, targets : SUBSET (1..3),
   huge : {h \in SUBSET (1..3) : Cardinality(h) <= 1}]

MCPrograms == ModulesOf(CallGraphs)

(* void main1(); int even(int n); int odd(int n);                           *)
(* void main1() { .. even(..) .. }                                          *)
(* int even(int n) { .. odd(..) .. }  int odd(int n) { .. even(..) .. }     *)
(* in the order of the prototypes: 1 main1, 2 even, 3 odd.                  *)
MCMutual ==
  {[calls |-> <<{2}, {3}, {2}, {}>>, defined |-> 1..3, targets |-> 1..3, huge |-> {}]}
=============================================================================
