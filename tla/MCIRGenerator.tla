---------------------------- MODULE MCIRGenerator ----------------------------
(***************************************************************************)
(* Model checking of IRGenerator.  The deepest nests of statements are     *)
(* explored with literals and variables for expressions only; functions    *)
(* that are a little smaller, with all expressions.                        *)
(***************************************************************************)
EXTENDS IRGenerator

LeafExprsOnly ==
  /\ phis = {}
  /\ \A i \in DOMAIN stack : stack[i].at \notin ExprKinds \ {"expr"}

Explored == LeafExprsOnly \/ (nblocks < MaxBlocks - 1 /\ Len(stack) < MaxDepth)
=============================================================================
