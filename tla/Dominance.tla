------------------------------- MODULE Dominance -------------------------------
(***************************************************************************)
(* What the user of a dominator analysis may rely on, however the analysis *)
(* works: it records sets of blocks that never lack a dominator, narrows   *)
(* them, and says that it is ready only when they hold nothing else.  It   *)
(* may then be asked again.                                                *)
(*                                                                         *)
(* Reachability is defined without paths: no path that avoids the blocks D *)
(* leads from the entry to b if some set of blocks holds the entry and     *)
(* every successor outside D of its members, and does not hold b.          *)
(***************************************************************************)
CONSTANTS
  Blocks,
  entry,
  Graphs   \* functions that give each block its successors

VARIABLES
  succ,    \* the graph: block -> its successors
  doms,    \* block -> the blocks recorded as its dominators
  ready    \* the analysis has ended

CutOff(b, D) ==
  \E R \in SUBSET (Blocks \ {b}) :
    /\ entry \in R
    /\ \A p \in R : succ[p] \ D \subseteq R

DominatesBlock(d, b) == d \in {b, entry} \/ CutOff(b, {d})

Unreachable(b) == CutOff(b, {})

OnlyDominators == \A b \in Blocks : \A d \in doms[b] : DominatesBlock(d, b)

(* An unreachable predecessor does make the analysis miss dominators.      *)
AllDominators ==
  (\A b \in Blocks : ~Unreachable(b))
    => \A b, d \in Blocks : DominatesBlock(d, b) => d \in doms[b]

Start ==
  /\ succ \in Graphs
  /\ AllDominators
  /\ ready = FALSE

Narrow ==
  /\ ~ready
  /\ \A b \in Blocks : doms'[b] \subseteq doms[b]
  /\ AllDominators'
  /\ ready' => OnlyDominators'
  /\ UNCHANGED succ

AskAgain ==
  /\ ready
  /\ ~ready'
  /\ AllDominators'
  /\ UNCHANGED succ

DominanceSpec == Start /\ [][Narrow \/ AskAgain]_<<succ, doms, ready>>
=============================================================================
