-------------------------------- MODULE MCLICM --------------------------------
(***************************************************************************)
(* Model checking of LICM on the graphs IRGenerator makes of a few MiniC   *)
(* loops, with one load of a global in any block and, where the run says   *)
(* so, a store and a call in any block.  Edges are in the order in which   *)
(* IRGenerator creates the branches.                                       *)
(***************************************************************************)
EXTENDS LICM

(* for (..; a; ..) { if (b) .. }     entry cond body iter exit then after *)
ForIf == <<<<1, 2>>, <<2, 3>>, <<2, 5>>, <<3, 6>>, <<3, 7>>, <<6, 7>>, <<7, 4>>, <<4, 2>>>>

(* for (..; a; ..) { if (b) continue; .. } *)
ForContinue == <<<<1, 2>>, <<2, 3>>, <<2, 5>>, <<3, 6>>, <<3, 7>>, <<6, 4>>, <<7, 4>>, <<4, 2>>>>

(* for (..; a; ..) { if (b) break; .. } *)
ForBreak == <<<<1, 2>>, <<2, 3>>, <<2, 5>>, <<3, 6>>, <<3, 7>>, <<6, 5>>, <<7, 4>>, <<4, 2>>>>

(* while (a) { .. while (b) .. }      entry cond body exit cond body exit *)
NestedWhile == <<<<1, 2>>, <<2, 3>>, <<2, 4>>, <<3, 5>>, <<5, 6>>, <<5, 7>>, <<6, 5>>, <<7, 2>>>>

(* while (a) ..  while (b) .. *)
TwoWhiles == <<<<1, 2>>, <<2, 3>>, <<2, 4>>, <<3, 2>>, <<4, 5>>, <<5, 6>>, <<5, 7>>, <<6, 5>>>>

(* for (..; a; ..) break;    of which no path reaches iter *)
ForLeft == <<<<1, 2>>, <<2, 3>>, <<2, 5>>, <<3, 5>>, <<4, 2>>>>

(* while (a) { if (b) continue; .. }       entry cond body exit then after *)
WhileContinue == <<<<1, 2>>, <<2, 3>>, <<2, 4>>, <<3, 5>>, <<3, 6>>, <<5, 2>>, <<6, 2>>>>

Nothing == [b \in Blocks |-> {}]
Only(S) == {[b \in Blocks |-> IF b = c THEN {x} ELSE {}] : c \in Blocks, x \in S}

(* One load of global g in any block, and at most one store or call; a     *)
(* store to an element is one of the array a.                              *)
ProgramsOf(Shapes, g, Called) ==
  LET program(e, at, st, el, cl) ==
        [edges |-> e, at |-> [l \in Loads |-> at], of |-> [l \in Loads |-> g],
         stores |-> st, elements |-> el, calls |-> cl]
  IN  {program(e, b, Nothing, Nothing, Nothing) : e \in Shapes, b \in Blocks}
      \cup {program(e, b, s, Nothing, Nothing) : e \in Shapes, b \in Blocks, s \in Only({g})}
      \cup {program(e, b, Nothing, s, Nothing) : e \in Shapes, b \in Blocks, s \in Only({"a"})}
      \cup {program(e, b, Nothing, Nothing, c) : e \in Shapes, b \in Blocks, c \in Only(Called)}

MCGlobals == {"g", "a"}
MCLoads == {"load"}
MCCallees == {"f", "putint"}
MCWriters == {"f"}
MCPrograms == ProgramsOf({ForIf, ForContinue, ForBreak, NestedWhile, TwoWhiles, ForLeft}, "g", MCCallees)
MCGraphs == {SuccOf(p) : p \in MCPrograms}

(* The loop with two latches, with a store in some block. *)
MCContinuePrograms == ProgramsOf({WhileContinue}, "g", {})
MCContinueGraphs == {SuccOf(p) : p \in MCContinuePrograms}

(* A load of a[0] instead: its address is that of a. *)
MCArrayPrograms == ProgramsOf({ForIf}, "a", {})
MCArrayGraphs == {SuccOf(p) : p \in MCArrayPrograms}
=============================================================================
