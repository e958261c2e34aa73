----------------------------- MODULE NaturalLoop -----------------------------
(***************************************************************************)
(* findLoopBlocks of src/Alloca2Reg.cpp: the worklist that walks backwards *)
(* from the latch of a back edge and stops at the header.                  *)
(***************************************************************************)
CONSTANT Blocks   \* the basic blocks

VARIABLES
  edges,     \* the control-flow graph: pairs <<from, to>>
  header,    \* the parameters of the last call
  latch,
  loop,      \* the blocks found so far; none between two calls
  worklist   \* those whose predecessors have not been looked at

loopVars == <<edges, header, latch, loop, worklist>>

Into(b) == {p \in Blocks : <<p, b>> \in edges}

LoopInit ==
  /\ edges \subseteq Blocks \X Blocks
  /\ header \in Blocks
  /\ latch \in Blocks
  /\ loop = {}
  /\ worklist = {}

Searching == loop # {}
LoopDone == Searching /\ worklist = {}

(* Seeded bugs: the latch is not put on the list; the header is, too.      *)
Search_EmptyList(h, l) ==
  /\ ~Searching
  /\ header' = h /\ latch' = l
  /\ loop' = {h, l} /\ worklist' = {}
  /\ UNCHANGED edges
Search_HeaderListed(h, l) ==
  /\ ~Searching
  /\ header' = h /\ latch' = l
  /\ loop' = {h, l} /\ worklist' = {h, l}
  /\ UNCHANGED edges

(* The call.  A loop of one block needs no search. *)
Search(h, l) ==
  /\ ~Searching
  /\ header' = h
  /\ latch' = l
  /\ loop' = {h, l}
  /\ worklist' = {l} \ {h}
  /\ UNCHANGED edges

(* Seeded bug: all predecessors go onto the list. *)
VisitPredecessors_All ==
  \E b \in worklist :
    /\ loop' = loop \cup Into(b)
    /\ worklist' = (worklist \ {b}) \cup Into(b)
    /\ UNCHANGED <<edges, header, latch>>

(* worklist is a stack in the code; no order of the pops is assumed here.  *)
VisitPredecessors ==
  \E b \in worklist :
    LET found == Into(b) \ loop
    IN  /\ loop' = loop \cup found
        /\ worklist' = (worklist \ {b}) \cup found
        /\ UNCHANGED <<edges, header, latch>>

(* The caller is done with the result. *)
Drop ==
  /\ LoopDone
  /\ loop' = {}
  /\ UNCHANGED <<edges, header, latch, worklist>>

LoopNext ==
  \/ \E h, l \in Blocks : Search(h, l)
  \/ VisitPredecessors
  \/ Drop

LoopSpec == LoopInit /\ [][LoopNext]_loopVars

-----------------------------------------------------------------------------
LoopTypeOK ==
  /\ edges \subseteq Blocks \X Blocks
  /\ header \in Blocks /\ latch \in Blocks
  /\ loop \subseteq Blocks
  /\ worklist \subseteq loop

(* A set of blocks that can be entered through the header only. *)
EnteredAtHeader(S) == \A b \in S \ {header} : Into(b) \subseteq S

(* The result is a loop: it can be entered through its header only, so a   *)
(* load moved in front of the header is executed before each of its blocks.*)
LoopClosed == LoopDone => {header, latch} \subseteq loop /\ EnteredAtHeader(loop)

(* And it is the smallest one: no block is taken for a part of the loop,   *)
(* and no store held against a hoist, that cannot reach the latch.         *)
LoopMinimal ==
  \A S \in SUBSET Blocks : {header, latch} \subseteq S /\ EnteredAtHeader(S) => loop \subseteq S

(* No block is put on the worklist twice in a search, although edges may   *)
(* form cycles: a block that is off the list and in the loop stays off.    *)
NoBlockRevisited == [][(loop \ worklist) \cap worklist' = {}]_loopVars
=============================================================================
