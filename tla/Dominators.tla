------------------------------ MODULE Dominators ------------------------------
(***************************************************************************)
(* The iterative dominator analysis at the start of                        *)
(* loopInvariantCodeMotion in src/Alloca2Reg.cpp.                          *)
(*                                                                         *)
(* Blocks are numbered in function order, block 1 is the entry.  The graph *)
(* is one of Graphs; it does not change.  A pass visits all blocks in      *)
(* order and overwrites their sets in place; passes are repeated until one *)
(* of them changes nothing.  The analysis is run once in each round of     *)
(* runOnFunction; LICM drives it.                                          *)
(***************************************************************************)
EXTENDS Integers

CONSTANTS
  N,       \* number of blocks
  Graphs   \* the control-flow graphs the analysis is run on

Blocks == 1..N
entry == 1

ASSUME NAssumption == N \in Nat \ {0}

(* The entry block of a function is never a branch target: IRGenerator     *)
(* gives every loop a header of its own.                                   *)
ASSUME GraphsAssumption == Graphs \subseteq [Blocks -> SUBSET (Blocks \ {entry})]

VARIABLES
  succ,        \* the graph: block -> its successors
  doms,        \* block -> the blocks recorded as its dominators
  next,        \* the block that the pass visits next; N + 1: the pass is over
  domChanged   \* the pass has changed some set

domVars == <<succ, doms, next, domChanged>>

predecessors(b) == {p \in Blocks : b \in succ[p]}

(* Seeded bug: every set starts with the block alone. *)
AtFirst_SelfOnly == [b \in Blocks |-> {b}]

AtFirst == [b \in Blocks |-> IF b = entry THEN {entry} ELSE Blocks]

DomInit ==
  /\ succ \in Graphs
  /\ doms = AtFirst
  /\ next = N + 1
  /\ domChanged = TRUE

(* Seeded bug: the union over all predecessors. *)
newDom_Union(b) == {b} \cup UNION {doms[p] : p \in predecessors(b)}

(* The intersection over all predecessors, and the block itself.  A block  *)
(* without predecessors keeps the empty set and adds itself.               *)
newDom(b) == {b} \cup {d \in Blocks : predecessors(b) # {}
                                      /\ \A p \in predecessors(b) : d \in doms[p]}

StartPass ==
  /\ next > N
  /\ domChanged
  /\ next' = 1
  /\ domChanged' = FALSE
  /\ UNCHANGED <<succ, doms>>

SkipEntry ==
  /\ next = entry
  /\ next' = next + 1
  /\ UNCHANGED <<succ, doms, domChanged>>

VisitBlock ==
  /\ next \in Blocks \ {entry}
  /\ doms' = [doms EXCEPT ![next] = newDom(next)]
  /\ domChanged' = (domChanged \/ newDom(next) # doms[next])
  /\ next' = next + 1
  /\ UNCHANGED succ

Analysis == StartPass \/ SkipEntry \/ VisitBlock

DomDone == next > N /\ ~domChanged

(* Seeded bug: the flag keeps its value from the last call. *)
AnalyseAgain_FlagKept ==
  /\ DomDone
  /\ doms' = AtFirst
  /\ UNCHANGED <<succ, next, domChanged>>

(* loopInvariantCodeMotion is called once more. *)
AnalyseAgain ==
  /\ DomDone
  /\ doms' = AtFirst
  /\ domChanged' = TRUE
  /\ UNCHANGED <<succ, next>>

DomNext == Analysis \/ AnalyseAgain

DomSpec == DomInit /\ [][DomNext]_domVars

-----------------------------------------------------------------------------
(***************************************************************************)
(* Properties.                                                             *)
(***************************************************************************)
INSTANCE Dominance WITH ready <- DomDone

DomTypeOK ==
  /\ succ \in [Blocks -> SUBSET (Blocks \ {entry})]
  /\ doms \in [Blocks -> SUBSET Blocks]
  /\ next \in 1..(N + 1)
  /\ domChanged \in BOOLEAN

(* What the analysis records is true: a block in doms[b] is on every path  *)
(* from the entry to b, so that every back edge it reports closes a loop   *)
(* that can only be entered through its header.                            *)
DomsSound == DomDone => OnlyDominators

(* In a graph without unreachable blocks nothing is missed either, and at  *)
(* no time before.                                                         *)
DomsComplete == AllDominators

(* The analysis does what its users rely on: visits that overwrite the     *)
(* sets in place, while others read them, only ever remove dominators, and *)
(* a pass without a change means that all of the sets are true, in every   *)
(* round.                                                                  *)
AnalysisImplemented == DominanceSpec
=============================================================================
