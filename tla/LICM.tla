--------------------------------- MODULE LICM ---------------------------------
(***************************************************************************)
(* loopInvariantCodeMotion of src/Alloca2Reg.cpp, and the loop of          *)
(* runOnFunction that repeats it until it reports no change.  Each call    *)
(* runs the analysis of Dominators, then looks at every back edge in       *)
(* function order and moves loads of globals to the end of the block it    *)
(* takes for the preheader.                                                *)
(*                                                                         *)
(* Of the instructions, those that touch globals are kept: the loads that  *)
(* may move, the blocks that store to a global, the blocks with calls.     *)
(* The other passes of the loop add no load, store or call and do not      *)
(* change the graph; they are left out.                                    *)
(***************************************************************************)
EXTENDS Dominators, Sequences, CFG

CONSTANTS
  Programs,     \* the functions the pass is run on, see ProgramsAssumption
  Loads,        \* their loads of globals
  Globals,      \* scalars and arrays; an array has the address of its element 0
  Callees,      \* the functions called
  Writers       \* the callees whose body stores to globals

VARIABLES
  prog,         \* the function, as it is before the pass
  loc,          \* load -> the block that holds it now
  scan,         \* the block whose successors are examined
  left,         \* the successors of scan not examined yet
  everChanged,  \* the call has moved a load
  header, latch, loop, worklist   \* see NaturalLoop

scanVars == <<prog, loc, scan, left, everChanged>>
searchVars == <<header, latch, loop, worklist>>
licmVars == <<domVars, scanVars, searchVars>>

findLoopBlocks ==
  INSTANCE NaturalLoop WITH edges <- {e \in Blocks \X Blocks : e[2] \in succ[e[1]]}

(* A function gives its edges in the order in which the branches were      *)
(* created; for each load its block and the global whose address it reads; *)
(* for each block the globals stored to by name, those whose elements are  *)
(* stored to at a computed address, and the functions called.              *)
SuccOf(p) == [b \in Blocks |-> {p.edges[i][2] : i \in {j \in DOMAIN p.edges : p.edges[j][1] = b}}]

ASSUME ProgramsAssumption ==
  /\ \A p \in Programs :
       /\ p.edges \in Seq(Blocks \X Blocks)
       /\ p.at \in [Loads -> Blocks] /\ p.of \in [Loads -> Globals]
       /\ p.stores \in [Blocks -> SUBSET Globals]
       /\ p.elements \in [Blocks -> SUBSET Globals]
       /\ p.calls \in [Blocks -> SUBSET Callees]
  /\ Graphs = {SuccOf(p) : p \in Programs}

LICMInit ==
  /\ DomInit
  /\ prog \in {p \in Programs : SuccOf(p) = succ}
  /\ loc = prog.at
  /\ scan = 1
  /\ left = succ[1]
  /\ everChanged = FALSE
  /\ header = entry
  /\ latch = entry
  /\ loop = {}
  /\ worklist = {}

Analyse == Analysis /\ UNCHANGED <<scanVars, searchVars>>

(* The edge scan -> h does not close a loop. *)
SkipEdge ==
  \E h \in left :
    /\ DomDone
    /\ ~findLoopBlocks!Searching
    /\ h \notin doms[scan]
    /\ left' = left \ {h}
    /\ UNCHANGED <<domVars, prog, loc, scan, everChanged, searchVars>>

(* It does. *)
FindLoop ==
  \E h \in left :
    /\ UNCHANGED <<domVars, scanVars>>
    /\ DomDone
    /\ h \in doms[scan]
    /\ findLoopBlocks!Search(h, scan)

GrowLoop == UNCHANGED <<domVars, scanVars>> /\ findLoopBlocks!VisitPredecessors

(* The names that are taken for the functions of minicio. *)
IOFunctions == {"putint", "putnewline", "putcharacter", "getint"}

(* Seeded bug: the stores are not collected. *)
storedGlobals_None == {}

(* A store through a computed address is in none of the sets. *)
storedGlobals == UNION {prog.stores[b] : b \in loop}
hasUnknownStore == \E b \in loop : prog.calls[b] \ IOFunctions # {}
hoistable == {l \in Loads : loc[l] \in loop /\ prog.of[l] \notin storedGlobals}

(* Seeded bug: any predecessor will do. *)
entering_Any == {i \in DOMAIN prog.edges : prog.edges[i][2] = header}

(* The edges that enter the loop. *)
entering ==
  {i \in DOMAIN prog.edges : prog.edges[i][2] = header /\ prog.edges[i][1] \notin loop}

MoveTo(preheader) ==
  LET hoisted == IF hasUnknownStore THEN {} ELSE hoistable
  IN  /\ loc' = [l \in Loads |-> IF l \in hoisted THEN preheader ELSE loc[l]]
      /\ everChanged' = (everChanged \/ hoisted # {})

(* predecessors() walks the uses of a block, the newest use first, and the *)
(* first predecessor outside of the loop is the preheader.                 *)
Hoist ==
  /\ UNCHANGED <<domVars, prog, scan>>
  /\ findLoopBlocks!Drop
  /\ \/ \E i \in entering : (\A j \in entering : j <= i) /\ MoveTo(prog.edges[i][1])
     \/ entering = {} /\ UNCHANGED <<loc, everChanged>>
  /\ left' = left \ {header}

(* Seeded bug: the last block is left out. *)
VisitNextBlock_NotLast ==
  /\ DomDone
  /\ scan \in Blocks
  /\ left = {}
  /\ scan' = scan + 1
  /\ left' = IF scan + 1 < N THEN succ[scan + 1] ELSE {}
  /\ UNCHANGED <<domVars, prog, loc, everChanged, searchVars>>

VisitNextBlock ==
  /\ DomDone
  /\ scan \in Blocks
  /\ left = {}
  /\ scan' = scan + 1
  /\ left' = IF scan < N THEN succ[scan + 1] ELSE {}
  /\ UNCHANGED <<domVars, prog, loc, everChanged, searchVars>>

Restart(from, changed) ==
  /\ AnalyseAgain
  /\ scan > N
  /\ everChanged
  /\ everChanged' = changed
  /\ scan' = from
  /\ left' = succ[1]
  /\ UNCHANGED <<prog, loc, searchVars>>

(* Seeded bug: the flag is not reset. *)
Repeat_NoReset == Restart(1, TRUE)

(* optChanged: the passes run once more. *)
Repeat == Restart(1, FALSE)

LICMNext ==
  \/ Analyse
  \/ SkipEdge \/ FindLoop \/ GrowLoop \/ Hoist
  \/ VisitNextBlock
  \/ Repeat

LICMSpec == LICMInit /\ [][LICMNext]_licmVars /\ WF_licmVars(LICMNext)

LICMDone == scan > N /\ ~everChanged

-----------------------------------------------------------------------------
(***************************************************************************)
(* Properties.                                                             *)
(***************************************************************************)
(* See NaturalLoop: what the search returns is a loop, the smallest one,   *)
(* and no block is visited twice on the way.                               *)
LoopClosed == findLoopBlocks!LoopClosed
LoopMinimal == findLoopBlocks!LoopMinimal
NoBlockRevisited == findLoopBlocks!NoBlockRevisited

MayWrite(b, g) ==
  g \in prog.stores[b] \cup prog.elements[b] \/ prog.calls[b] \cap Writers # {}

(* A block with a back edge has one other predecessor at most: what        *)
(* IRGenerator makes of a loop, unless it is a while loop with a continue. *)
PlainLoops ==
  \A h \in Blocks : \A p, q, r \in predecessors(h) :
    DominatesBlock(h, r) /\ p # r /\ q # r => p = q

(* A load that has been moved is still executed before every use of its    *)
(* value: its block dominates the block it came from.                      *)
HoistDominates == \A l \in Loads : DominatesBlock(loc[l], prog.at[l])

(* And it still reads the same value: no path from the new place of a load *)
(* to the old one that does not execute the load again goes through a      *)
(* store to its global or a call that may write it.                        *)
HoistUnclobbered ==
  \A l \in Loads : loc[l] # prog.at[l] =>
    LET rest == Without(succ, loc[l])
        between == Reach(rest, succ[loc[l]] \ {loc[l]})
    IN  \A b \in between : prog.at[l] \in Reach(rest, {b}) => ~MayWrite(b, prog.of[l])

(* When the passes stop, no load of a global is left in a loop that        *)
(* neither stores to it nor calls a function of the program.               *)
NothingLeftToHoist ==
  LICMDone =>
    \A u \in Reach(succ, {entry}), v \in Blocks : IsBackEdge(succ, entry, u, v) =>
      LET blocks == NaturalLoop(succ, v, u)
      IN  \/ \E b \in blocks : prog.calls[b] \ IOFunctions # {}
          \/ \A l \in Loads : loc[l] \in blocks => \E b \in blocks : prog.of[l] \in prog.stores[b]

(* The passes are iterated to a fixpoint: runOnFunction ends. *)
HoistTerminates == <>LICMDone
=============================================================================
