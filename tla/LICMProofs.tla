-------------------------------- MODULE LICMProofs --------------------------------
(***************************************************************************)
(* Proofs about loop-invariant code motion, for functions of any size: the *)
(* dominator analysis (Dominators), the search for the blocks of a loop    *)
(* (NaturalLoop) and the motion of loads (LICM).                           *)
(***************************************************************************)
EXTENDS LICM, CFGProofs, TLAPS

-----------------------------------------------------------------------------
(***************************************************************************)
(* Proofs about Dominators, for every number of blocks and every graph:    *)
(* what the analysis records at its end is true, it misses no dominator if *)
(* all blocks can be reached, and it implements Dominance.                 *)
(***************************************************************************)
USE NAssumption DEF Blocks, entry

(* The entry keeps its set.  No set is smaller than the one that the next  *)
(* visit would give the block, and the sets a pass has left unchanged are  *)
(* equal to it.                                                            *)
EntryAlone == doms[entry] = {entry}
NotBelow == \A b \in Blocks \ {entry} : newDom(b) \subseteq doms[b]
PassClean ==
  ~domChanged => \A b \in Blocks \ {entry} : b < next => doms[b] = newDom(b)

DomInv == DomTypeOK /\ EntryAlone /\ NotBelow /\ PassClean /\ AllDominators

-----------------------------------------------------------------------------
(* In a graph in which every block can be reached, a dominator of a block  *)
(* other than the block itself dominates every predecessor, and there is   *)
(* a predecessor.                                                          *)
LEMMA DominatorOfPredecessors ==
  ASSUME DomTypeOK, NEW b \in Blocks \ {entry}, NEW d \in Blocks,
         ~Unreachable(b), DominatesBlock(d, b), d # b
  PROVE  /\ predecessors(b) # {}
         /\ \A p \in predecessors(b) : DominatesBlock(d, p)
<1>1. predecessors(b) # {}
  <2> SUFFICES ASSUME predecessors(b) = {} PROVE FALSE
    OBVIOUS
  <2> DEFINE R == Blocks \ {b}
  <2>1. entry \in R /\ R \in SUBSET (Blocks \ {b})
    OBVIOUS
  <2>2. \A p \in R : succ[p] \ {} \subseteq R
    BY DEF predecessors, DomTypeOK
  <2> HIDE DEF R
  <2> QED
    BY <2>1, <2>2 DEF Unreachable, CutOff
<1>2. ASSUME NEW p \in predecessors(b) PROVE DominatesBlock(d, p)
  <2>1. CASE d = entry \/ d = p
    BY <2>1 DEF DominatesBlock
  <2>2. CASE d # entry /\ d # p
    <3>1. PICK R \in SUBSET (Blocks \ {b}) :
            entry \in R /\ \A q \in R : succ[q] \ {d} \subseteq R
      BY <2>2 DEF DominatesBlock, CutOff
    <3>2. p \notin R
      BY <3>1 DEF predecessors
    <3> QED
      BY <3>1, <3>2 DEF DominatesBlock, CutOff, predecessors
  <2> QED
    BY <2>1, <2>2
<1> QED
  BY <1>1, <1>2

-----------------------------------------------------------------------------
(* The sets an analysis starts from. *)
LEMMA AtFirstValue ==
  /\ AtFirst \in [Blocks -> SUBSET Blocks]
  /\ AtFirst[entry] = {entry}
  /\ \A b \in Blocks \ {entry} : AtFirst[b] = Blocks
<1>1. entry \in Blocks
  OBVIOUS
<1> QED
  BY <1>1, Zenon DEF AtFirst

(* The entry has no other dominator. *)
LEMMA EntryHasNoOther == \A d \in Blocks : DominatesBlock(d, entry) => d = entry
  BY DEF DominatesBlock, CutOff

(* The start of the first analysis. *)
LEMMA DomInvInit == DomInit => DomInv
<1> SUFFICES ASSUME DomInit PROVE DomInv
  OBVIOUS
<1>1. succ \in Graphs /\ doms = AtFirst /\ next = N + 1 /\ domChanged = TRUE
  BY DEF DomInit
<1>2. DomTypeOK
  BY <1>1, GraphsAssumption, AtFirstValue DEF DomTypeOK
<1>3. EntryAlone
  BY <1>1, AtFirstValue DEF EntryAlone
<1>4. PassClean
  BY <1>1, Zenon DEF PassClean
<1>5. NotBelow
  BY <1>1, AtFirstValue DEF NotBelow, newDom
<1>6. AllDominators
  <2> SUFFICES ASSUME NEW b \in Blocks, NEW d \in Blocks, DominatesBlock(d, b)
               PROVE  d \in doms[b]
    BY DEF AllDominators
  <2> QED
    BY <1>1, AtFirstValue, EntryHasNoOther
<1> QED
  BY <1>2, <1>3, <1>4, <1>5, <1>6 DEF DomInv

(* A new call of the pass starts from the full sets again. *)
LEMMA AnalyseAgainKeeps == DomInv /\ AnalyseAgain => DomInv' /\ ~DomDone'
<1> SUFFICES ASSUME DomInv, AnalyseAgain PROVE DomInv' /\ ~DomDone'
  OBVIOUS
<1>1. doms' = AtFirst /\ domChanged' = TRUE /\ succ' = succ /\ next' = next
  BY DEF AnalyseAgain
<1>2. DomTypeOK'
  BY <1>1, AtFirstValue DEF DomInv, DomTypeOK
<1>3. EntryAlone'
  BY <1>1, AtFirstValue DEF EntryAlone
<1>4. PassClean'
  BY <1>1, Zenon DEF PassClean
<1>5. NotBelow'
  <2>1. \A b : newDom(b)' \subseteq Blocks \cup {b}
    BY DEF newDom
  <2> QED
    BY <1>1, <2>1, AtFirstValue DEF NotBelow
<1>6. AllDominators'
  <2>1. \A b, D : CutOff(b, D)' <=> CutOff(b, D)
    BY <1>1 DEF CutOff
  <2>2. \A b, d \in Blocks : DominatesBlock(d, b)' => d \in doms'[b]
    BY <1>1, <2>1, AtFirstValue, EntryHasNoOther DEF DominatesBlock
  <2> QED
    BY <2>2 DEF AllDominators
<1>7. ~DomDone'
  BY <1>1 DEF DomDone
<1> QED
  BY <1>2, <1>3, <1>4, <1>5, <1>6, <1>7 DEF DomInv

(* A visit takes no true dominator away, puts no dominator back, and       *)
(* leaves the set it writes equal to what another visit would write.       *)
LEMMA VisitBlockKeeps ==
  ASSUME DomInv, VisitBlock
  PROVE  DomInv' /\ \A b \in Blocks : doms'[b] \subseteq doms[b]
<1> DEFINE c == next
<1>1. /\ c \in Blocks \ {entry}
      /\ doms' = [doms EXCEPT ![c] = newDom(c)]
      /\ domChanged' = (domChanged \/ newDom(c) # doms[c])
      /\ next' = c + 1
      /\ succ' = succ
  BY DEF VisitBlock
<1>2. newDom(c) \subseteq Blocks
  BY <1>1 DEF newDom
<1>3. DomTypeOK'
  BY <1>1, <1>2 DEF DomInv, DomTypeOK
<1>4. \A b \in Blocks : doms'[b] \subseteq doms[b]
  BY <1>1 DEF DomInv, DomTypeOK, NotBelow
<1>5. \A b : predecessors(b)' = predecessors(b)
  BY <1>1 DEF predecessors
<1>6. \A b \in Blocks : newDom(b)' \subseteq newDom(b)
  BY <1>4, <1>5 DEF newDom, predecessors
<1>7. \A b \in Blocks \ {c} : doms'[b] = doms[b]
  BY <1>1 DEF DomInv, DomTypeOK
<1>8. doms'[c] = newDom(c)
  BY <1>1 DEF DomInv, DomTypeOK
<1>9. EntryAlone'
  BY <1>1, <1>7 DEF DomInv, EntryAlone
<1>10. NotBelow'
  BY <1>6, <1>7, <1>8 DEF DomInv, NotBelow
<1>11. PassClean'
  <2> SUFFICES ASSUME ~domChanged', NEW b \in Blocks \ {entry}, b < next'
               PROVE  doms'[b] = newDom(b)'
    BY DEF PassClean
  <2>1. doms' = doms
    BY <1>1 DEF DomInv, DomTypeOK
  <2>2. newDom(b)' = newDom(b)
    BY <1>5, <2>1 DEF newDom
  <2>3. CASE b = c
    BY <1>1, <2>1, <2>2, <2>3
  <2>4. CASE b # c
    BY <1>1, <2>1, <2>2, <2>4 DEF DomInv, PassClean, DomTypeOK
  <2> QED
    BY <2>3, <2>4
<1>12. AllDominators'
  <2>1. \A b, D : CutOff(b, D)' <=> CutOff(b, D)
    BY <1>1 DEF CutOff
  <2>2. SUFFICES ASSUME \A b \in Blocks : ~Unreachable(b), NEW b \in Blocks, NEW d \in Blocks,
                        DominatesBlock(d, b)
                 PROVE  d \in doms'[b]
    BY <2>1 DEF AllDominators, Unreachable, DominatesBlock
  <2>3. \A p \in Blocks : DominatesBlock(d, p) => d \in doms[p]
    BY <2>2 DEF DomInv, AllDominators
  <2>4. CASE b # c
    BY <1>7, <2>2, <2>3, <2>4
  <2>5. CASE b = c /\ d = b
    BY <1>8, <2>5 DEF newDom
  <2>6. CASE b = c /\ d # b
    <3>1. predecessors(c) # {} /\ \A p \in predecessors(c) : DominatesBlock(d, p)
      BY <1>1, <2>2, <2>6, DominatorOfPredecessors DEF DomInv
    <3> QED
      BY <1>8, <2>3, <2>6, <3>1 DEF newDom, predecessors
  <2> QED
    BY <2>4, <2>5, <2>6
<1> QED
  BY <1>3, <1>4, <1>9, <1>10, <1>11, <1>12 DEF DomInv

(* A step of the analysis keeps the invariant and only removes dominators. *)
LEMMA DomInvStep ==
  DomInv /\ [Analysis]_domVars
    => DomInv' /\ succ' = succ /\ \A b \in Blocks : doms'[b] \subseteq doms[b]
<1> SUFFICES ASSUME DomInv, [Analysis]_domVars
             PROVE  DomInv' /\ succ' = succ /\ \A b \in Blocks : doms'[b] \subseteq doms[b]
  OBVIOUS
<1>1. ASSUME succ' = succ, doms' = doms
      PROVE  /\ EntryAlone' /\ NotBelow' /\ AllDominators'
             /\ \A b : newDom(b)' = newDom(b)
             /\ \A b \in Blocks : doms'[b] \subseteq doms[b]
  <2>1. \A b : predecessors(b)' = predecessors(b)
    BY <1>1 DEF predecessors
  <2>2. \A b : newDom(b)' = newDom(b)
    BY <1>1, <2>1 DEF newDom
  <2>3. \A b, D : CutOff(b, D)' <=> CutOff(b, D)
    BY <1>1 DEF CutOff
  <2>4. AllDominators'
    BY <1>1, <2>3 DEF DomInv, AllDominators, Unreachable, DominatesBlock
  <2> QED
    BY <1>1, <2>2, <2>4 DEF DomInv, EntryAlone, NotBelow
<1>2. CASE StartPass
  <2>1. succ' = succ /\ doms' = doms /\ next' = 1 /\ domChanged' = FALSE
    BY <1>2 DEF StartPass
  <2>4. (next \in 1..(N + 1))'
    BY <2>1, NAssumption
  <2>5. (domChanged \in BOOLEAN)'
    BY <2>1, Zenon
  <2>2. DomTypeOK'
    BY <2>1, <2>4, <2>5 DEF DomInv, DomTypeOK
  <2>3. PassClean'
    <3>1. ~ \E b \in Blocks \ {entry} : b < 1
      BY DEF Blocks
    <3> QED
      BY <2>1, <3>1 DEF PassClean
  <2> QED
    BY <1>1, <2>1, <2>2, <2>3 DEF DomInv
<1>3. CASE SkipEntry
  <2>1. succ' = succ /\ doms' = doms /\ DomTypeOK'
    BY <1>3 DEF SkipEntry, DomInv, DomTypeOK
  <2>2. PassClean'
    BY <1>3 DEF SkipEntry, PassClean
  <2> QED
    BY <1>1, <2>1, <2>2 DEF DomInv
<1>4. CASE VisitBlock
  BY <1>4, VisitBlockKeeps DEF VisitBlock
<1>5. CASE UNCHANGED domVars
  <2>1. succ' = succ /\ doms' = doms /\ next' = next /\ domChanged' = domChanged
    BY <1>5 DEF domVars
  <2>2. DomTypeOK'
    BY <2>1 DEF DomInv, DomTypeOK
  <2>3. PassClean'
    BY <1>1, <2>1 DEF DomInv, PassClean
  <2> QED
    BY <1>1, <2>1, <2>2, <2>3 DEF DomInv
<1> QED
  BY <1>2, <1>3, <1>4, <1>5 DEF Analysis

(* At the end, d is in the set of b only if every path to b goes through   *)
(* d: the blocks without d in their sets hold the entry and are closed     *)
(* under every edge that does not lead to d.                               *)
LEMMA DoneIsSound == DomInv => DomsSound
<1> SUFFICES ASSUME DomInv, DomDone, NEW b \in Blocks, NEW d \in doms[b], d # b, d # entry
             PROVE  CutOff(b, {d})
  BY DEF DomsSound, OnlyDominators, DominatesBlock
<1> DEFINE R == {c \in Blocks : d \notin doms[c]}
<1>1. entry \in R /\ R \in SUBSET (Blocks \ {b})
  BY DEF DomInv, EntryAlone
<1>2. ASSUME NEW p \in R, NEW c \in succ[p] \ {d} PROVE c \in R
  <2>1. c \in Blocks \ {entry} /\ p \in predecessors(c)
    BY <1>2 DEF DomInv, DomTypeOK, predecessors
  <2>2. doms[c] = newDom(c)
    BY <2>1 DEF DomInv, PassClean, DomDone, DomTypeOK
  <2> QED
    BY <1>2, <2>1, <2>2 DEF newDom
<1> QED
  BY <1>1, <1>2 DEF CutOff

-----------------------------------------------------------------------------
(* Each visit of a block by the analysis, and each new call, keeps the     *)
(* invariant.                                                              *)
THEOREM DomInvariant == DomSpec => []DomInv
<1>1. DomInv /\ [DomNext]_domVars => DomInv'
  BY DomInvStep, AnalyseAgainKeeps DEF DomNext
<1> QED
  BY <1>1, DomInvInit, PTL DEF DomSpec

(* For every graph of any size, a block that is recorded as a dominator at *)
(* the end of an analysis is on every path from the entry.                 *)
THEOREM DominatorsAreSound == DomSpec => []DomsSound
  BY DoneIsSound, DomInvariant, PTL

(* If every block can be reached from the entry, no dominator is missing,  *)
(* at the end or at any time before.                                       *)
THEOREM DominatorsAreComplete == DomSpec => []DomsComplete
<1>1. DomInv => DomsComplete
  BY DEF DomInv, DomsComplete
<1> QED
  BY <1>1, DomInvariant, PTL

(* The iterative analysis implements what Dominance says of one: each      *)
(* visit narrows the sets, the last one of a pass without a change makes   *)
(* them ready, and a new call starts over.                                 *)
THEOREM DominanceImplemented == DomSpec => AnalysisImplemented
<1>1. DomInit => Start
  <2> SUFFICES ASSUME DomInit PROVE Start
    OBVIOUS
  <2>1. AllDominators
    BY DomInvInit DEF DomInv
  <2>2. succ \in Graphs /\ ~DomDone
    BY DEF DomInit, DomDone
  <2> QED
    BY <2>1, <2>2 DEF Start
<1>2. DomInv /\ DomInv' /\ DomsSound' /\ [DomNext]_domVars => [Narrow \/ AskAgain]_<<succ, doms, DomDone>>
  <2> SUFFICES ASSUME DomInv, DomInv', DomsSound', [DomNext]_domVars
               PROVE  Narrow \/ AskAgain \/ UNCHANGED <<succ, doms, DomDone>>
    OBVIOUS
  <2>1. CASE AnalyseAgain
    <3>1. DomDone /\ ~DomDone' /\ succ' = succ
      BY <2>1, AnalyseAgainKeeps DEF AnalyseAgain
    <3> QED
      BY <3>1 DEF AskAgain, DomInv
  <2>2. CASE [Analysis]_domVars /\ ~DomDone
    <3>1. succ' = succ /\ \A b \in Blocks : doms'[b] \subseteq doms[b]
      BY <2>2, DomInvStep
    <3>2. DomDone' => OnlyDominators'
      BY DEF DomsSound
    <3> QED
      BY <2>2, <3>1, <3>2 DEF Narrow, DomInv
  <2>3. CASE [Analysis]_domVars /\ DomDone
    <3>1. UNCHANGED domVars
      BY <2>3 DEF Analysis, StartPass, SkipEntry, VisitBlock, DomDone, DomInv, DomTypeOK
    <3> QED
      BY <3>1 DEF domVars, DomDone
  <2> QED
    BY <2>1, <2>2, <2>3 DEF DomNext
<1> QED
  BY <1>1, <1>2, DomInvariant, DominatorsAreSound, PTL DEF DomSpec, AnalysisImplemented,
     DominanceSpec

HIDE NAssumption DEF Blocks, entry

-----------------------------------------------------------------------------
(***************************************************************************)
(* Proofs about NaturalLoop, for every graph, header and latch: the search *)
(* returns a loop, and the smallest one.                                   *)
(***************************************************************************)
(* The graph, as the search sees it. *)
edges == {e \in Blocks \X Blocks : e[2] \in succ[e[1]]}

(* What the search keeps: all predecessors of a block that is done are in  *)
(* the loop, and the loop is a part of every set that holds header and     *)
(* latch and is entered at the header only.                                *)
DoneBlocksClosed == \A b \in loop \ worklist : b # header => findLoopBlocks!Into(b) \subseteq loop

LoopInv ==
  /\ findLoopBlocks!LoopTypeOK
  /\ findLoopBlocks!Searching => {header, latch} \subseteq loop
  /\ DoneBlocksClosed
  /\ findLoopBlocks!LoopMinimal
  /\ header \notin worklist

(* No search has started. *)
LEMMA LoopInvInit == findLoopBlocks!LoopInit => LoopInv
  BY DEF findLoopBlocks!LoopInit, LoopInv, findLoopBlocks!LoopTypeOK, findLoopBlocks!Searching,
         DoneBlocksClosed, findLoopBlocks!LoopMinimal

(* The header is never put on the worklist: it is in the loop from the     *)
(* start.                                                                  *)
LEMMA SearchKeeps ==
  ASSUME LoopInv, NEW h \in Blocks, NEW l \in Blocks, findLoopBlocks!Search(h, l)
  PROVE  LoopInv'
<1>1. header' = h /\ latch' = l /\ loop' = {h, l} /\ worklist' = {l} \ {h} /\ edges' = edges
  BY Zenon DEF findLoopBlocks!Search, edges
<1>2. findLoopBlocks!LoopTypeOK'
  BY <1>1 DEF LoopInv, findLoopBlocks!LoopTypeOK
<1>3. DoneBlocksClosed'
  BY <1>1 DEF DoneBlocksClosed
<1>4. findLoopBlocks!LoopMinimal'
  BY <1>1 DEF findLoopBlocks!LoopMinimal
<1> QED
  BY <1>1, <1>2, <1>3, <1>4 DEF LoopInv

(* One turn of the worklist. *)
LEMMA VisitPredecessorsKeeps ==
  ASSUME LoopInv, findLoopBlocks!VisitPredecessors
  PROVE  LoopInv'
<1>1. PICK b \in worklist :
        LET found == findLoopBlocks!Into(b) \ loop
        IN  /\ loop' = loop \cup found
            /\ worklist' = (worklist \ {b}) \cup found
            /\ UNCHANGED <<edges, header, latch>>
  BY Zenon DEF findLoopBlocks!VisitPredecessors, edges
<1>2. \A c : findLoopBlocks!Into(c)' = findLoopBlocks!Into(c)
  BY <1>1, Zenon DEF findLoopBlocks!Into, edges
<1>3. b \in loop /\ b # header
  BY <1>1 DEF LoopInv, findLoopBlocks!LoopTypeOK
<1>4. findLoopBlocks!LoopTypeOK'
  BY <1>1 DEF LoopInv, findLoopBlocks!LoopTypeOK, findLoopBlocks!Into
<1>5. DoneBlocksClosed'
  BY <1>1, <1>2 DEF LoopInv, DoneBlocksClosed
<1>6. findLoopBlocks!LoopMinimal'
  <2> SUFFICES ASSUME NEW S \in SUBSET Blocks,
                      ({header, latch} \subseteq S /\ findLoopBlocks!EnteredAtHeader(S))'
               PROVE  loop' \subseteq S
    BY DEF findLoopBlocks!LoopMinimal
  <2>1. {header, latch} \subseteq S /\ findLoopBlocks!EnteredAtHeader(S)
    BY <1>1, <1>2 DEF findLoopBlocks!EnteredAtHeader
  <2>2. loop \subseteq S
    BY <2>1 DEF LoopInv, findLoopBlocks!LoopMinimal
  <2>3. findLoopBlocks!Into(b) \subseteq S
    BY <1>3, <2>1, <2>2 DEF findLoopBlocks!EnteredAtHeader
  <2> QED
    BY <1>1, <2>2, <2>3
<1>7. (header \notin worklist)' /\ (findLoopBlocks!Searching => {header, latch} \subseteq loop)'
  BY <1>1, <1>3 DEF LoopInv, findLoopBlocks!Searching
<1> QED
  BY <1>4, <1>5, <1>6, <1>7 DEF LoopInv

(* The caller is done with the loop. *)
LEMMA DropKeeps == LoopInv /\ findLoopBlocks!Drop => LoopInv'
  BY DEF findLoopBlocks!Drop, findLoopBlocks!LoopDone, LoopInv, findLoopBlocks!LoopTypeOK,
         findLoopBlocks!Searching, DoneBlocksClosed, findLoopBlocks!LoopMinimal

(* Nothing happens to the search. *)
LEMMA NoStepKeeps == LoopInv /\ UNCHANGED findLoopBlocks!loopVars => LoopInv'
  BY DEF LoopInv, findLoopBlocks!LoopTypeOK, findLoopBlocks!Searching, DoneBlocksClosed,
         findLoopBlocks!LoopMinimal, findLoopBlocks!EnteredAtHeader, findLoopBlocks!Into,
         findLoopBlocks!loopVars

(* With an empty worklist the loop is closed. *)
LEMMA LoopInvClosed == LoopInv => findLoopBlocks!LoopClosed
  BY DEF LoopInv, findLoopBlocks!LoopClosed, findLoopBlocks!LoopDone, DoneBlocksClosed,
         findLoopBlocks!EnteredAtHeader, findLoopBlocks!LoopTypeOK

-----------------------------------------------------------------------------
(* Each call of the search and each turn of its worklist keeps the         *)
(* invariant.                                                              *)
THEOREM LoopInvariant == findLoopBlocks!LoopSpec => []LoopInv
<1>1. LoopInv /\ [findLoopBlocks!LoopNext]_(findLoopBlocks!loopVars) => LoopInv'
  BY SearchKeeps, VisitPredecessorsKeeps, DropKeeps, NoStepKeeps DEF findLoopBlocks!LoopNext
<1> QED
  BY <1>1, LoopInvInit, PTL DEF findLoopBlocks!LoopSpec

(* findLoopBlocks returns a set of blocks with header and latch that can   *)
(* be entered through the header only.                                     *)
THEOREM LoopIsClosed == findLoopBlocks!LoopSpec => []findLoopBlocks!LoopClosed
  BY LoopInvClosed, LoopInvariant, PTL

(* And it is contained in every other such set. *)
THEOREM LoopIsMinimal == findLoopBlocks!LoopSpec => []findLoopBlocks!LoopMinimal
<1>1. LoopInv => findLoopBlocks!LoopMinimal
  BY DEF LoopInv
<1> QED
  BY <1>1, LoopInvariant, PTL

(* A block that has left the worklist of a search never comes back to it. *)
THEOREM LoopVisitsOnce == findLoopBlocks!LoopSpec => findLoopBlocks!NoBlockRevisited
<1>1. LoopInv /\ [findLoopBlocks!LoopNext]_(findLoopBlocks!loopVars) => [(loop \ worklist) \cap worklist' = {}]_(findLoopBlocks!loopVars)
  <2>1. ASSUME NEW h, NEW l, findLoopBlocks!Search(h, l) PROVE (loop \ worklist) \cap worklist' = {}
    BY <2>1 DEF findLoopBlocks!Search, findLoopBlocks!Searching
  <2>2. ASSUME findLoopBlocks!VisitPredecessors PROVE (loop \ worklist) \cap worklist' = {}
    BY <2>2 DEF findLoopBlocks!VisitPredecessors
  <2>3. ASSUME findLoopBlocks!Drop PROVE (loop \ worklist) \cap worklist' = {}
    BY <2>3 DEF findLoopBlocks!Drop, findLoopBlocks!LoopDone
  <2> QED
    BY <2>1, <2>2, <2>3 DEF findLoopBlocks!LoopNext
<1> QED
  BY <1>1, LoopInvariant, PTL DEF findLoopBlocks!LoopSpec, findLoopBlocks!NoBlockRevisited

-----------------------------------------------------------------------------
(***************************************************************************)
(* Proofs about LICM: in every function, of any size, whose loops have one *)
(* back edge and one way in, a load that is moved, however often, still    *)
(* dominates the place it came from.                                       *)
(***************************************************************************)
-----------------------------------------------------------------------------
(* Dominance is transitive: the two sets that show it are intersected. *)
LEMMA DominatesBlockTransitive ==
  ASSUME NEW d \in Blocks, NEW c \in Blocks, NEW a \in Blocks,
         DominatesBlock(d, c), DominatesBlock(c, a)
  PROVE  DominatesBlock(d, a)
<1>1. CASE d = c \/ c = a \/ d = entry
  BY <1>1 DEF DominatesBlock
<1>2. CASE c = entry
  BY <1>2, EntryHasNoOther DEF DominatesBlock
<1>3. CASE d # c /\ c # a /\ d # entry /\ c # entry
  <2>1. PICK R1 \in SUBSET (Blocks \ {a}) : entry \in R1 /\ \A p \in R1 : succ[p] \ {c} \subseteq R1
    BY <1>3 DEF DominatesBlock, CutOff
  <2>2. PICK R2 \in SUBSET (Blocks \ {c}) : entry \in R2 /\ \A p \in R2 : succ[p] \ {d} \subseteq R2
    BY <1>3 DEF DominatesBlock, CutOff
  <2> DEFINE R == R1 \cap R2
  <2>3. R \in SUBSET (Blocks \ {a}) /\ entry \in R
    BY <2>1, <2>2
  <2>4. \A p \in R : succ[p] \ {d} \subseteq R
    BY <2>1, <2>2
  <2> HIDE DEF R
  <2> QED
    BY <2>3, <2>4 DEF DominatesBlock, CutOff
<1> QED
  BY <1>1, <1>2, <1>3

(* The search and the analysis look at one graph. *)
LEMMA SameEdges == \A b \in Blocks : findLoopBlocks!Into(b) = predecessors(b)
<1> SUFFICES ASSUME NEW b \in Blocks, NEW p \in Blocks
             PROVE  <<p, b>> \in {e \in Blocks \X Blocks : e[2] \in succ[e[1]]} <=> b \in succ[p]
  BY Zenon DEF findLoopBlocks!Into, predecessors
<1> DEFINE e == <<p, b>>
<1>1. e \in Blocks \X Blocks /\ e[1] = p /\ e[2] = b
  OBVIOUS
<1> HIDE DEF e
<1> QED
  BY <1>1, Zenon DEF e

(* The loop that the search has found, for an edge from latch to header    *)
(* where header dominates latch.                                           *)
FoundLoop ==
  /\ LoopInv
  /\ findLoopBlocks!LoopDone
  /\ header \in succ[latch]
  /\ DominatesBlock(header, latch)

(* The entry is in no such loop.  The blocks that can be reached without   *)
(* the header do not hold the latch, and no block outside of them is       *)
(* entered from one of them.                                               *)
LEMMA EntryNotInLoop ==
  ASSUME DomTypeOK, FoundLoop
  PROVE  entry \notin loop
<1>1. header \in Blocks \ {entry} /\ latch \in Blocks /\ loop \subseteq Blocks
  BY DEF FoundLoop, LoopInv, findLoopBlocks!LoopTypeOK, DomTypeOK
<1>2. ASSUME NEW S \in SUBSET Blocks, header \in S, latch \in S, entry \notin S,
             \A b \in S \ {header} : predecessors(b) \subseteq S
      PROVE  entry \notin loop
  <2>1. findLoopBlocks!EnteredAtHeader(S)
    BY <1>1, <1>2, SameEdges DEF findLoopBlocks!EnteredAtHeader
  <2> QED
    BY <1>2, <2>1 DEF FoundLoop, LoopInv, findLoopBlocks!LoopMinimal
<1>3. CASE header = latch
  BY <1>1, <1>3, <1>2
<1>4. CASE header # latch
  <2>1. PICK R \in SUBSET (Blocks \ {latch}) :
          entry \in R /\ \A p \in R : succ[p] \ {header} \subseteq R
    BY <1>1, <1>4 DEF FoundLoop, DominatesBlock, CutOff
  <2> DEFINE S == (Blocks \ R) \cup {header}
  <2>2. S \in SUBSET Blocks /\ header \in S /\ latch \in S /\ entry \notin S
    BY <1>1, <2>1
  <2>3. \A b \in S \ {header} : predecessors(b) \subseteq S
    BY <2>1 DEF predecessors
  <2> QED
    BY <1>2, <2>2, <2>3
<1> QED
  BY <1>3, <1>4

(* The only predecessor of the header that is outside of the loop          *)
(* dominates all of the loop.                                              *)
LEMMA PreheaderDominates ==
  ASSUME DomTypeOK, FoundLoop, NEW p \in predecessors(header), p \notin loop,
         \A q \in predecessors(header) : q \notin loop => q = p,
         NEW b \in loop
  PROVE  DominatesBlock(p, b)
<1>1. header \in Blocks /\ loop \subseteq Blocks /\ p \in Blocks
  BY DEF FoundLoop, LoopInv, findLoopBlocks!LoopTypeOK, predecessors
<1>2. \A c \in loop \ {header} : predecessors(c) \subseteq loop
  <2>1. findLoopBlocks!LoopClosed
    BY LoopInvClosed DEF FoundLoop
  <2> QED
    BY <1>1, <2>1, SameEdges DEF FoundLoop, findLoopBlocks!LoopClosed,
                                 findLoopBlocks!EnteredAtHeader
<1>3. CASE p = entry
  BY <1>3 DEF DominatesBlock
<1>5. entry \in Blocks
  BY NAssumption DEF Blocks, entry
<1>6. entry \notin loop
  BY EntryNotInLoop
<1>4. CASE p # entry
  <2> DEFINE R == Blocks \ (loop \cup {p})
  <2>1. R \in SUBSET (Blocks \ {b}) /\ entry \in R
    BY <1>4, <1>5, <1>6
  <2>2. ASSUME NEW q \in R, NEW c \in succ[q] \ {p} PROVE c \in R
    <3>1. c \in Blocks /\ q \in predecessors(c)
      BY <2>2 DEF DomTypeOK, predecessors
    <3>2. c \notin loop
      BY <1>2, <2>2, <3>1
    <3> QED
      BY <2>2, <3>1, <3>2
  <2> HIDE DEF R
  <2> QED
    BY <2>1, <2>2 DEF DominatesBlock, CutOff
<1> QED
  BY <1>3, <1>4

-----------------------------------------------------------------------------
(* The composition drives its two components as they allow it: each of its *)
(* steps is a step of the analysis or leaves it alone, and a step of the   *)
(* search or leaves that alone.                                            *)
LEMMA StepUsesAnalysis == LICMNext => [DomNext]_domVars
  BY DEF LICMNext, Analyse, SkipEdge, FindLoop, GrowLoop, Hoist, VisitNextBlock, Repeat, Restart,
         DomNext

(* See above. *)
LEMMA StepUsesSearch ==
  DomInv /\ left \subseteq Blocks /\ (left # {} => scan \in Blocks) /\ LICMNext
    => [findLoopBlocks!LoopNext]_(findLoopBlocks!loopVars)
<1> SUFFICES ASSUME DomInv, left \subseteq Blocks, left # {} => scan \in Blocks, LICMNext
             PROVE  findLoopBlocks!LoopNext \/ UNCHANGED findLoopBlocks!loopVars
  OBVIOUS
<1>1. ASSUME UNCHANGED searchVars, succ' = succ PROVE UNCHANGED findLoopBlocks!loopVars
  BY <1>1 DEF searchVars, findLoopBlocks!loopVars
<1>2. CASE Analyse
  <2>1. succ' = succ
    BY <1>2 DEF Analyse, Analysis, StartPass, SkipEntry, VisitBlock
  <2> QED
    BY <1>1, <1>2, <2>1 DEF Analyse
<1>3. CASE SkipEdge
  BY <1>1, <1>3 DEF SkipEdge, domVars
<1>4. CASE FindLoop
  BY <1>4 DEF FindLoop, findLoopBlocks!Search, findLoopBlocks!Searching, findLoopBlocks!LoopNext
<1>5. CASE GrowLoop
  BY <1>5 DEF GrowLoop, findLoopBlocks!VisitPredecessors, findLoopBlocks!Into,
              findLoopBlocks!LoopNext
<1>6. CASE Hoist
  BY <1>6 DEF Hoist, findLoopBlocks!Drop, findLoopBlocks!LoopDone, findLoopBlocks!Searching,
              findLoopBlocks!LoopNext
<1>7. CASE VisitNextBlock
  BY <1>1, <1>7 DEF VisitNextBlock, domVars
<1>8. CASE Repeat
  BY <1>1, <1>8 DEF Repeat, Restart, AnalyseAgain
<1> QED
  BY <1>2, <1>3, <1>4, <1>5, <1>6, <1>7, <1>8 DEF LICMNext

-----------------------------------------------------------------------------
(* While a loop is searched for, the analysis is at its end, and the edge  *)
(* that is looked at is one of the graph and closes a loop.                *)
EdgeUnderSearch ==
  findLoopBlocks!Searching =>
    /\ DomDone
    /\ latch = scan
    /\ header \in left
    /\ DominatesBlock(header, latch)

LeftToScan == left \subseteq Blocks /\ (left # {} => scan \in Blocks /\ left \subseteq succ[scan])

ProgramOK == prog \in Programs /\ SuccOf(prog) = succ /\ loc \in [Loads -> Blocks]

LICMInv ==
  /\ DomInv
  /\ LoopInv
  /\ ProgramOK
  /\ scan \in Nat
  /\ LeftToScan
  /\ EdgeUnderSearch

(* An edge of the function is one of its graph. *)
LEMMA EdgesOfProgram ==
  ASSUME ProgramOK, NEW i \in DOMAIN prog.edges
  PROVE  prog.edges[i][1] \in predecessors(prog.edges[i][2])
<1>1. prog.edges \in Seq(Blocks \X Blocks)
  BY ProgramsAssumption DEF ProgramOK
<1>2. prog.edges[i] \in Blocks \X Blocks
  BY <1>1
<1> DEFINE a == prog.edges[i][1]
<1>3. a \in Blocks
  BY <1>2
<1>4. SuccOf(prog)[a] = {prog.edges[j][2] : j \in {k \in DOMAIN prog.edges : prog.edges[k][1] = a}}
  BY <1>3, Zenon DEF SuccOf
<1>5. prog.edges[i][2] \in succ[a]
  BY <1>4 DEF ProgramOK
<1> QED
  BY <1>3, <1>5 DEF predecessors

(* The pass is entered. *)
LEMMA LICMInvInit == LICMInit => LICMInv
<1> SUFFICES ASSUME LICMInit PROVE LICMInv
  OBVIOUS
<1>1. DomInv
  BY DomInvInit DEF LICMInit
<1>2. entry \in Blocks
  BY NAssumption DEF Blocks, entry
<1>3. ProgramOK
  BY ProgramsAssumption DEF LICMInit, ProgramOK
<1>4. LoopInv
  <2>1. findLoopBlocks!LoopInit
    BY <1>2 DEF LICMInit, findLoopBlocks!LoopInit
  <2> QED
    BY <2>1, LoopInvInit
<1>5. LeftToScan
  BY <1>1, <1>2 DEF LICMInit, LeftToScan, DomInv, DomTypeOK, entry
<1>6. EdgeUnderSearch
  BY DEF LICMInit, EdgeUnderSearch, findLoopBlocks!Searching
<1> QED
  BY <1>1, <1>3, <1>4, <1>5, <1>6 DEF LICMInv, LICMInit

(* The search keeps its invariant, as a component of the pass. *)
LEMMA LoopInvStep ==
  LICMInv /\ [LICMNext]_licmVars => LoopInv'
<1> SUFFICES ASSUME LICMInv, [LICMNext]_licmVars PROVE LoopInv'
  OBVIOUS
<1>1. findLoopBlocks!LoopNext \/ UNCHANGED findLoopBlocks!loopVars
  <2>1. CASE LICMNext
    BY <2>1, StepUsesSearch DEF LICMInv, LeftToScan
  <2>2. CASE UNCHANGED licmVars
    BY <2>2 DEF licmVars, domVars, searchVars, findLoopBlocks!loopVars
  <2> QED
    BY <2>1, <2>2
<1> QED
  BY <1>1, SearchKeeps, VisitPredecessorsKeeps, DropKeeps,
     NoStepKeeps DEF LICMInv, findLoopBlocks!LoopNext

(* And so does the analysis. *)
LEMMA DomInvKept == LICMInv /\ [LICMNext]_licmVars => DomInv' /\ succ' = succ
<1> SUFFICES ASSUME LICMInv, [LICMNext]_licmVars PROVE DomInv' /\ succ' = succ
  OBVIOUS
<1>1. [DomNext]_domVars
  BY StepUsesAnalysis DEF licmVars
<1>2. succ' = succ
  BY <1>1 DEF DomNext, Analysis, StartPass, SkipEntry, VisitBlock, AnalyseAgain, domVars
<1> QED
  BY <1>1, <1>2, DomInvStep, AnalyseAgainKeeps DEF LICMInv, DomNext

(* A load stays, or moves along an edge that enters the loop. *)
LEMMA HoistMoves ==
  ASSUME LICMInv, Hoist, NEW l \in Loads
  PROVE  \/ loc'[l] = loc[l]
         \/ /\ \E i \in entering : loc'[l] = prog.edges[i][1]
            /\ l \in hoistable /\ ~hasUnknownStore
<1>1. CASE UNCHANGED <<loc, everChanged>>
  BY <1>1
<1>2. ASSUME NEW i \in entering, MoveTo(prog.edges[i][1])
      PROVE  \/ loc'[l] = loc[l]
             \/ loc'[l] = prog.edges[i][1] /\ l \in hoistable /\ ~hasUnknownStore
  <2> DEFINE hoisted == IF hasUnknownStore THEN {} ELSE hoistable
  <2>1. loc'[l] = IF l \in hoisted THEN prog.edges[i][1] ELSE loc[l]
    BY <1>2, Zenon DEF MoveTo
  <2>2. l \in hoisted => l \in hoistable /\ ~hasUnknownStore
    OBVIOUS
  <2> QED
    BY <2>1, <2>2
<1> QED
  BY <1>1, <1>2 DEF Hoist

(* Every step keeps the invariant. *)
LEMMA LICMInvStep == LICMInv /\ [LICMNext]_licmVars => LICMInv'
<1> SUFFICES ASSUME LICMInv, [LICMNext]_licmVars PROVE LICMInv'
  OBVIOUS
<1>1. DomInv' /\ succ' = succ /\ LoopInv'
  BY DomInvKept, LoopInvStep
<1>2. \A a, b : DominatesBlock(a, b)' <=> DominatesBlock(a, b)
  BY <1>1 DEF DominatesBlock, CutOff
<1>3. succ \in [Blocks -> SUBSET Blocks] /\ entry \in Blocks
  BY NAssumption DEF LICMInv, DomInv, DomTypeOK, Blocks, entry
<1>4. ASSUME UNCHANGED <<prog, loc>> PROVE ProgramOK'
  BY <1>1, <1>4 DEF LICMInv, ProgramOK, SuccOf
<1>5. CASE UNCHANGED licmVars
  <2>1. UNCHANGED <<next, domChanged, header, latch, loop, left, scan, prog, loc>>
    BY <1>5 DEF licmVars, domVars, searchVars, scanVars
  <2> QED
    BY <1>1, <1>2, <1>4, <2>1 DEF LICMInv, LeftToScan, EdgeUnderSearch, DomDone,
                                  findLoopBlocks!Searching
<1>6. CASE Analyse
  <2>1. UNCHANGED <<header, latch, loop, left, scan, prog, loc>> /\ Analysis
    BY <1>6 DEF Analyse, searchVars, scanVars
  <2>2. ~findLoopBlocks!Searching
    BY <2>1, NAssumption DEF LICMInv, EdgeUnderSearch, Analysis, StartPass, SkipEntry, VisitBlock,
                             DomDone, DomInv, DomTypeOK, Blocks, entry
  <2> QED
    BY <1>1, <1>4, <2>1, <2>2 DEF LICMInv, LeftToScan, EdgeUnderSearch, findLoopBlocks!Searching
<1>7. CASE SkipEdge
  <2>1. /\ UNCHANGED <<loop, scan, prog, loc>> /\ ~findLoopBlocks!Searching
        /\ left' \subseteq left
    BY <1>7 DEF SkipEdge, searchVars
  <2> QED
    BY <1>1, <1>4, <2>1 DEF LICMInv, LeftToScan, EdgeUnderSearch, findLoopBlocks!Searching
<1>8. CASE FindLoop
  <2>1. PICK h \in left : DomDone /\ h \in doms[scan] /\ header' = h /\ latch' = scan
    BY <1>8 DEF FindLoop, findLoopBlocks!Search
  <2>2. UNCHANGED <<left, scan, prog, loc, next, domChanged>>
    BY <1>8 DEF FindLoop, scanVars, domVars
  <2>3. DominatesBlock(h, scan)
    <3>1. OnlyDominators
      BY <2>1, DoneIsSound DEF LICMInv, DomsSound
    <3> QED
      BY <2>1, <3>1 DEF OnlyDominators, LICMInv, LeftToScan
  <2>4. EdgeUnderSearch'
    BY <1>2, <2>1, <2>2, <2>3 DEF EdgeUnderSearch, DomDone
  <2> QED
    BY <1>1, <1>4, <2>2, <2>4 DEF LICMInv, LeftToScan
<1>9. CASE GrowLoop
  <2>1. UNCHANGED <<left, scan, prog, loc, next, domChanged, header, latch>>
    BY <1>9 DEF GrowLoop, scanVars, domVars, findLoopBlocks!VisitPredecessors
  <2>2. findLoopBlocks!Searching
    BY <1>9 DEF GrowLoop, findLoopBlocks!VisitPredecessors, findLoopBlocks!Searching, LICMInv,
                LoopInv, findLoopBlocks!LoopTypeOK
  <2>3. EdgeUnderSearch'
    BY <1>2, <2>1, <2>2 DEF LICMInv, EdgeUnderSearch, DomDone
  <2> QED
    BY <1>1, <1>4, <2>1, <2>3 DEF LICMInv, LeftToScan
<1>10. CASE Hoist
  <2>1. loop' = {} /\ UNCHANGED <<scan, prog>> /\ left' \subseteq left
    BY <1>10 DEF Hoist, findLoopBlocks!Drop
  <2>2. EdgeUnderSearch'
    BY <2>1 DEF EdgeUnderSearch, findLoopBlocks!Searching
  <2>3. ASSUME NEW l \in Loads PROVE loc'[l] \in Blocks
    <3>1. loc[l] \in Blocks
      BY DEF LICMInv, ProgramOK
    <3>2. \A i \in DOMAIN prog.edges : prog.edges[i][1] \in Blocks
      BY EdgesOfProgram DEF LICMInv, predecessors
    <3> QED
      BY <1>10, <3>1, <3>2, HoistMoves DEF entering
  <2>4. DOMAIN loc' = Loads /\ loc' = [l \in Loads |-> loc'[l]]
    BY <1>10 DEF Hoist, MoveTo, LICMInv, ProgramOK
  <2>5. ProgramOK'
    <3>1. loc' \in [Loads -> Blocks]
      BY <2>3, <2>4
    <3> QED
      BY <1>1, <2>1, <3>1 DEF LICMInv, ProgramOK, SuccOf
  <2> QED
    BY <1>1, <2>1, <2>2, <2>5 DEF LICMInv, LeftToScan
<1>11. CASE VisitNextBlock
  <2>1. UNCHANGED <<loop, header, latch, prog, loc>> /\ left = {} /\ scan' = scan + 1
    BY <1>11 DEF VisitNextBlock, searchVars
  <2>2. ~findLoopBlocks!Searching
    BY <2>1 DEF LICMInv, EdgeUnderSearch
  <2>3. LeftToScan'
    <3>1. left' = IF scan < N THEN succ[scan + 1] ELSE {}
      BY <1>11 DEF VisitNextBlock
    <3>2. scan < N => scan + 1 \in Blocks
      BY NAssumption DEF LICMInv, Blocks
    <3> QED
      BY <1>1, <1>3, <2>1, <3>1, <3>2 DEF LeftToScan
  <2> QED
    BY <1>1, <1>4, <2>1, <2>2, <2>3 DEF LICMInv, EdgeUnderSearch, findLoopBlocks!Searching
<1>12. CASE Repeat
  <2>1. /\ UNCHANGED <<loop, header, latch, prog, loc>> /\ scan > N
        /\ scan' = 1 /\ left' = succ[1]
    BY <1>12 DEF Repeat, Restart, searchVars
  <2>2. ~findLoopBlocks!Searching
    BY <2>1, NAssumption DEF LICMInv, EdgeUnderSearch, LeftToScan, Blocks
  <2> QED
    BY <1>1, <1>3, <1>4, <2>1, <2>2 DEF LICMInv, LeftToScan, EdgeUnderSearch,
       findLoopBlocks!Searching, entry
<1> QED
  BY <1>5, <1>6, <1>7, <1>8, <1>9, <1>10, <1>11, <1>12 DEF LICMNext

-----------------------------------------------------------------------------
(* In a plain loop all that enters is the one preheader, to which a load    *)
(* is moved.                                                               *)
LEMMA HoistedToPreheader ==
  ASSUME LICMInv, PlainLoops, [LICMNext]_licmVars, NEW l \in Loads, loc'[l] # loc[l]
  PROVE  /\ FoundLoop
         /\ l \in hoistable /\ ~hasUnknownStore
         /\ loc[l] \in loop /\ loc'[l] \in Blocks \ loop
         /\ loc'[l] \in predecessors(header)
         /\ \A q \in predecessors(header) : q \notin loop => q = loc'[l]
<1>1. Hoist
  BY DEF LICMNext, Analyse, SkipEdge, FindLoop, GrowLoop, VisitNextBlock, Repeat, Restart,
         scanVars, licmVars
<1>2. PICK i \in entering : loc'[l] = prog.edges[i][1] /\ l \in hoistable /\ ~hasUnknownStore
  BY <1>1, HoistMoves
<1> DEFINE p == prog.edges[i][1]
<1>3. p \in predecessors(header) /\ p \notin loop /\ p \in Blocks
  BY <1>2, EdgesOfProgram DEF entering, LICMInv, predecessors
<1>4. FoundLoop /\ latch \in predecessors(header) /\ header \in Blocks /\ latch \in loop
  <2>1. findLoopBlocks!Searching /\ findLoopBlocks!LoopDone
    BY <1>1 DEF Hoist, findLoopBlocks!Drop, findLoopBlocks!LoopDone, findLoopBlocks!Searching
  <2>2. header \in succ[latch] /\ latch \in Blocks /\ DominatesBlock(header, latch)
    BY <2>1 DEF LICMInv, EdgeUnderSearch, LeftToScan
  <2>3. header \in Blocks /\ {header, latch} \subseteq loop
    BY <2>1 DEF LICMInv, LoopInv, findLoopBlocks!LoopTypeOK, findLoopBlocks!LoopDone
  <2> QED
    BY <2>1, <2>2, <2>3 DEF FoundLoop, LICMInv, predecessors
<1>5. \A q \in predecessors(header) : q \notin loop => q = p
  <2>1. DominatesBlock(header, latch)
    BY <1>4 DEF FoundLoop
  <2> QED
    BY <1>3, <1>4, <2>1 DEF PlainLoops
<1>6. loc[l] \in loop
  BY <1>2 DEF hoistable
<1> QED
  BY <1>2, <1>3, <1>4, <1>5, <1>6

(* The preheader dominates the loop, and so the place from which a load is *)
(* moved.                                                                  *)
LEMMA HoistKeepsDominance ==
  LICMInv /\ PlainLoops /\ HoistDominates /\ [LICMNext]_licmVars => HoistDominates'
<1> SUFFICES ASSUME LICMInv, PlainLoops, HoistDominates, [LICMNext]_licmVars, NEW l \in Loads
             PROVE  DominatesBlock(loc[l], prog.at[l])'
  BY DEF HoistDominates
<1>1. prog' = prog
  BY DEF LICMNext, Analyse, SkipEdge, FindLoop, GrowLoop, Hoist, VisitNextBlock, Repeat, Restart,
         scanVars, licmVars
<1>2. succ' = succ
  BY DomInvKept
<1>3. SUFFICES DominatesBlock(loc'[l], prog.at[l])
  BY <1>1, <1>2 DEF DominatesBlock, CutOff
<1>4. DominatesBlock(loc[l], prog.at[l]) /\ loc[l] \in Blocks /\ prog.at[l] \in Blocks
  BY ProgramsAssumption DEF HoistDominates, LICMInv, ProgramOK
<1>5. CASE loc'[l] = loc[l]
  BY <1>4, <1>5
<1>6. CASE loc'[l] # loc[l]
  <2>1. DomTypeOK
    BY DEF LICMInv, DomInv
  <2>2. PICK p \in Blocks : p = loc'[l]
    BY <1>6, HoistedToPreheader
  <2>3. DominatesBlock(p, loc[l])
    BY <1>6, <2>1, <2>2, HoistedToPreheader, PreheaderDominates
  <2> QED
    BY <1>4, <2>2, <2>3, DominatesBlockTransitive
<1> QED
  BY <1>5, <1>6

-----------------------------------------------------------------------------
(* The graph of the function, for the lemmas of CFGProofs. *)
LEMMA SuccIsGraph == DomTypeOK => IsGraph(succ) /\ DOMAIN succ = Blocks
<1>1. 1 \in Int /\ N \in Int
  BY NAssumption
<1>2. IsFiniteSet(Blocks)
  BY <1>1, FS_Interval DEF Blocks
<1> QED
  BY <1>2 DEF DomTypeOK, IsGraph

(* All blocks that reach the old place of l without passing the new one    *)
(* are in Y, and none of them may write what l reads.                      *)
Shields(Y, l) ==
  /\ Y \subseteq Blocks
  /\ prog.at[l] \in Y
  /\ loc[l] \notin Y
  /\ \A c \in Y : predecessors(c) \subseteq Y \cup {loc[l]}
  /\ \A b \in Y : ~MayWrite(b, prog.of[l])

MovedLoadsShielded == \A l \in Loads : loc[l] # prog.at[l] => \E Y : Shields(Y, l)

(* Nothing is stored through a computed address in the globals the loads   *)
(* read, and a function that stores to globals does not bear the name of   *)
(* one of minicio.                                                         *)
StoresAreSeen ==
  /\ \A l \in Loads : \A b \in Blocks : prog.of[l] \notin prog.elements[b]
  /\ Writers \cap IOFunctions = {}

(* A loop from which a load moves becomes a part of what shields it.  A    *)
(* load that comes back to its old place needs nothing.                    *)
LEMMA HoistKeepsShields ==
  LICMInv /\ PlainLoops /\ StoresAreSeen /\ MovedLoadsShielded /\ [LICMNext]_licmVars
    => MovedLoadsShielded'
<1> SUFFICES ASSUME LICMInv, PlainLoops, StoresAreSeen, MovedLoadsShielded, [LICMNext]_licmVars
             PROVE  MovedLoadsShielded'
  OBVIOUS
<1>1. prog' = prog
  BY DEF LICMNext, Analyse, SkipEdge, FindLoop, GrowLoop, Hoist, VisitNextBlock, Repeat, Restart,
         scanVars, licmVars
<1> SUFFICES ASSUME NEW l \in Loads, loc'[l] # prog.at[l]
             PROVE  \E Y : Shields(Y, l)'
  BY <1>1 DEF MovedLoadsShielded
<1>2. succ' = succ
  BY DomInvKept
<1>3. /\ \A b : predecessors(b)' = predecessors(b)
      /\ \A b, g : MayWrite(b, g)' <=> MayWrite(b, g)
  BY <1>1, <1>2 DEF predecessors, MayWrite
<1>4. ASSUME NEW Y, Y \subseteq Blocks, prog.at[l] \in Y, loc'[l] \notin Y,
             \A c \in Y : predecessors(c) \subseteq Y \cup {loc'[l]},
             \A b \in Y : ~MayWrite(b, prog.of[l])
      PROVE  Shields(Y, l)'
  BY <1>1, <1>3, <1>4 DEF Shields
<1>5. CASE loc'[l] = loc[l]
  <2>1. PICK Y : Shields(Y, l)
    BY <1>5 DEF MovedLoadsShielded
  <2> QED
    BY <1>4, <1>5, <2>1 DEF Shields
<1>6. CASE loc'[l] # loc[l]
  <2>1. /\ FoundLoop
        /\ l \in hoistable /\ ~hasUnknownStore
        /\ loc[l] \in loop /\ loc'[l] \in Blocks \ loop
        /\ loc'[l] \in predecessors(header)
        /\ \A q \in predecessors(header) : q \notin loop => q = loc'[l]
    BY <1>6, HoistedToPreheader
  <2>2. PICK Y : /\ Y \subseteq Blocks
                 /\ prog.at[l] \in Y \/ prog.at[l] = loc[l]
                 /\ \A c \in Y : predecessors(c) \subseteq Y \cup {loc[l]}
                 /\ \A b \in Y : ~MayWrite(b, prog.of[l])
    <3>1. CASE loc[l] = prog.at[l]
      <4> DEFINE Y == {}
      <4>1. /\ Y \subseteq Blocks
            /\ \A c \in Y : predecessors(c) \subseteq Y \cup {loc[l]}
            /\ \A b \in Y : ~MayWrite(b, prog.of[l])
        OBVIOUS
      <4> HIDE DEF Y
      <4> QED
        BY <3>1, <4>1
    <3>2. CASE loc[l] # prog.at[l]
      BY <3>2 DEF MovedLoadsShielded, Shields
    <3> QED
      BY <3>1, <3>2
  <2> DEFINE Z == (loop \cup Y) \ {loc'[l]}
  <2>3. loop \subseteq Blocks /\ \A c \in loop \ {header} : predecessors(c) \subseteq loop
    <3>1. findLoopBlocks!LoopClosed /\ loop \subseteq Blocks
      BY <2>1, LoopInvClosed DEF FoundLoop, LoopInv, findLoopBlocks!LoopTypeOK
    <3> QED
      BY <2>1, <3>1, SameEdges DEF FoundLoop, findLoopBlocks!LoopClosed,
                                   findLoopBlocks!EnteredAtHeader
  <2>4. \A b \in loop : ~MayWrite(b, prog.of[l])
    <3> SUFFICES ASSUME NEW b \in loop, MayWrite(b, prog.of[l]) PROVE FALSE
      OBVIOUS
    <3>1. prog.of[l] \notin prog.stores[b]
      BY <2>1 DEF hoistable, storedGlobals
    <3>2. prog.of[l] \notin prog.elements[b]
      BY <2>3 DEF StoresAreSeen
    <3>3. prog.calls[b] \subseteq IOFunctions
      BY <2>1 DEF hasUnknownStore
    <3> QED
      BY <3>1, <3>2, <3>3 DEF MayWrite, StoresAreSeen
  <2>5. Z \subseteq Blocks /\ prog.at[l] \in Z /\ loc'[l] \notin Z
    BY <2>1, <2>2, <2>3
  <2>6. \A c \in Z : predecessors(c) \subseteq Z \cup {loc'[l]}
    <3> SUFFICES ASSUME NEW c \in Z, NEW q \in predecessors(c), q # loc'[l] PROVE q \in loop \cup Y
      OBVIOUS
    <3>1. CASE c \in loop
      BY <2>1, <2>3, <3>1
    <3>2. CASE c \in Y
      BY <2>1, <2>2, <3>2
    <3> QED
      BY <3>1, <3>2
  <2>7. \A b \in Z : ~MayWrite(b, prog.of[l])
    BY <2>2, <2>4
  <2> HIDE DEF Z
  <2> QED
    BY <1>4, <2>5, <2>6, <2>7
<1> QED
  BY <1>5, <1>6

(* What reaches the old place without the new one is in the shield.        *)
LEMMA ShieldedAreUnclobbered ==
  ASSUME LICMInv, MovedLoadsShielded
  PROVE  HoistUnclobbered
<1> SUFFICES ASSUME NEW l \in Loads, loc[l] # prog.at[l],
                    NEW b \in Reach(Without(succ, loc[l]), succ[loc[l]] \ {loc[l]}),
                    prog.at[l] \in Reach(Without(succ, loc[l]), {b})
             PROVE  ~MayWrite(b, prog.of[l])
  BY Zenon DEF HoistUnclobbered
<1> DEFINE rest == Without(succ, loc[l])
<1>1. PICK Y : Shields(Y, l)
  BY DEF MovedLoadsShielded
<1>2. IsGraph(succ) /\ DOMAIN succ = Blocks /\ loc[l] \in Blocks
  BY SuccIsGraph DEF LICMInv, DomInv, ProgramOK
<1>3. IsGraph(rest) /\ DOMAIN rest = Blocks \ {loc[l]}
  BY <1>2, WithoutIsGraph
<1>4. b \in DOMAIN rest
  <2>1. succ[loc[l]] \ {loc[l]} \in SUBSET DOMAIN rest
    BY <1>2, <1>3 DEF IsGraph
  <2> HIDE DEF rest
  <2>2. Reach(rest, succ[loc[l]] \ {loc[l]}) \in SUBSET DOMAIN rest
    BY <1>3, <2>1, ReachIsLeastClosed
  <2> QED
    BY <2>2 DEF rest
<1>5. SUFFICES ASSUME b \notin Y PROVE FALSE
  BY <1>1 DEF Shields
<1> DEFINE X == DOMAIN rest \ Y
<1>6. Closed(rest, X)
  <2> SUFFICES ASSUME NEW q \in X, NEW c \in rest[q] PROVE c \in X
    BY DEF Closed
  <2>1. c \in succ[q] \ {loc[l]} /\ q \in Blocks /\ c \in Blocks
    BY <1>2, <1>3 DEF Without, IsGraph
  <2>2. c \in Y => q \in Y \cup {loc[l]}
    BY <1>1, <2>1 DEF Shields, predecessors
  <2> QED
    BY <1>3, <2>1, <2>2
<1>7. {b} \subseteq X /\ {b} \in SUBSET DOMAIN rest /\ prog.at[l] \notin X
  BY <1>1, <1>4, <1>5 DEF Shields
<1>8. prog.at[l] \in Reach(rest, {b})
  OBVIOUS
<1> HIDE DEF rest, X
<1> QED
  BY <1>3, <1>6, <1>7, <1>8, ReachIsLeastClosed

-----------------------------------------------------------------------------
(* Every block can be reached. *)
AllReached == \A b \in Blocks : ~Unreachable(b)

(* The least set of blocks with h and u that is entered at h only.         *)
LoopBlocks(h, u) ==
  {b \in Blocks : \A S \in SUBSET Blocks :
     h \in S /\ u \in S /\ (\A c \in S \ {h} : predecessors(c) \subseteq S) => b \in S}

NothingMoves(h, u) ==
  \/ \E b \in LoopBlocks(h, u) : prog.calls[b] \ IOFunctions # {}
  \/ \A l \in Loads : loc[l] \in LoopBlocks(h, u) =>
       \E b \in LoopBlocks(h, u) : prog.of[l] \in prog.stores[b]

(* The edge from u to h has been looked at in this call.                   *)
Scanned(u, h) == u < scan \/ (u = scan /\ h \notin left)

ScannedClean ==
  ~everChanged =>
    \A u \in Blocks : \A h \in succ[u] :
      Scanned(u, h) /\ DominatesBlock(h, u) => NothingMoves(h, u)

(* The search finds exactly that set. *)
LEMMA LoopIsLeast ==
  ASSUME LICMInv, findLoopBlocks!LoopDone
  PROVE  loop = LoopBlocks(header, latch)
<1>1. header \in Blocks /\ latch \in Blocks /\ loop \subseteq Blocks
  BY DEF LICMInv, LoopInv, findLoopBlocks!LoopTypeOK
<1>2. {header, latch} \subseteq loop /\ \A c \in loop \ {header} : predecessors(c) \subseteq loop
  <2>1. findLoopBlocks!LoopClosed
    BY LoopInvClosed DEF LICMInv
  <2> QED
    BY <1>1, <2>1, SameEdges DEF findLoopBlocks!LoopClosed, findLoopBlocks!EnteredAtHeader
<1>3. ASSUME NEW S \in SUBSET Blocks, header \in S, latch \in S,
             \A c \in S \ {header} : predecessors(c) \subseteq S
      PROVE  loop \subseteq S
  <2>1. findLoopBlocks!EnteredAtHeader(S)
    BY <1>1, <1>3, SameEdges DEF findLoopBlocks!EnteredAtHeader
  <2> QED
    BY <1>3, <2>1 DEF LICMInv, LoopInv, findLoopBlocks!LoopMinimal
<1>4. loop \subseteq LoopBlocks(header, latch)
  BY <1>1, <1>3 DEF LoopBlocks
<1>5. LoopBlocks(header, latch) \subseteq loop
  BY <1>1, <1>2 DEF LoopBlocks
<1> QED
  BY <1>4, <1>5

(* And an edge of the graph is one of the function. *)
LEMMA ProgramHasEdge ==
  ASSUME ProgramOK, NEW a \in Blocks, NEW c \in succ[a]
  PROVE  \E i \in DOMAIN prog.edges : prog.edges[i][1] = a /\ prog.edges[i][2] = c
<1>1. SuccOf(prog)[a] = {prog.edges[j][2] : j \in {k \in DOMAIN prog.edges : prog.edges[k][1] = a}}
  BY Zenon DEF SuccOf
<1> QED
  BY <1>1 DEF ProgramOK

(* A loop that can be reached has an edge that enters it.                  *)
LEMMA LoopIsEntered ==
  ASSUME LICMInv, FoundLoop, AllReached
  PROVE  entering # {}
<1> SUFFICES ASSUME entering = {} PROVE FALSE
  OBVIOUS
<1>1. header \in Blocks /\ loop \subseteq Blocks /\ header \in loop /\ DomTypeOK
  BY DEF LICMInv, DomInv, LoopInv, FoundLoop, findLoopBlocks!LoopTypeOK, findLoopBlocks!LoopDone
<1>2. \A c \in loop \ {header} : predecessors(c) \subseteq loop
  <2>1. findLoopBlocks!LoopClosed
    BY LoopInvClosed DEF LICMInv
  <2> QED
    BY <1>1, <2>1, SameEdges DEF FoundLoop, findLoopBlocks!LoopClosed,
                                 findLoopBlocks!EnteredAtHeader
<1>3. entry \in Blocks \ loop
  <2>1. entry \in Blocks
    BY NAssumption DEF Blocks, entry
  <2> QED
    BY <1>1, <2>1, EntryNotInLoop
<1> DEFINE R == Blocks \ loop
<1>4. ASSUME NEW q \in R, NEW c \in succ[q] PROVE c \in R
  <2>1. c \in Blocks /\ q \in predecessors(c)
    BY <1>1, <1>4 DEF DomTypeOK, predecessors
  <2>2. c # header
    <3> SUFFICES ASSUME c = header PROVE FALSE
      OBVIOUS
    <3>1. PICK i \in DOMAIN prog.edges : prog.edges[i][1] = q /\ prog.edges[i][2] = header
      BY <1>4, ProgramHasEdge DEF LICMInv
    <3> QED
      BY <1>4, <3>1 DEF entering
  <2> QED
    BY <1>2, <1>4, <2>1, <2>2
<1>5. R \in SUBSET (Blocks \ {header}) /\ entry \in R
  BY <1>1, <1>3
<1> HIDE DEF R
<1>6. Unreachable(header)
  BY <1>4, <1>5 DEF Unreachable, CutOff
<1> QED
  BY <1>1, <1>6 DEF AllReached

(* A loop that leaves everChanged alone has nothing to be moved.           *)
LEMMA HoistWithoutChange ==
  ASSUME LICMInv, AllReached, Hoist, ~everChanged'
  PROVE  loc' = loc /\ ~everChanged /\ NothingMoves(header, latch)
<1>1. findLoopBlocks!LoopDone /\ findLoopBlocks!Searching
  BY DEF Hoist, findLoopBlocks!Drop, findLoopBlocks!LoopDone
<1>2. FoundLoop
  BY <1>1 DEF FoundLoop, LICMInv, EdgeUnderSearch, LeftToScan
<1>3. PICK i \in entering : MoveTo(prog.edges[i][1])
  BY <1>2, LoopIsEntered DEF Hoist
<1> DEFINE hoisted == IF hasUnknownStore THEN {} ELSE hoistable
<1>4. /\ loc' = [l \in Loads |-> IF l \in hoisted THEN prog.edges[i][1] ELSE loc[l]]
      /\ everChanged' = (everChanged \/ hoisted # {})
  BY <1>3, Zenon DEF MoveTo
<1>5. ~everChanged /\ hoisted = {}
  <2> HIDE DEF hoisted
  <2> QED
    BY <1>4, Zenon
<1>6. loc' = loc
  <2>1. loc = [l \in Loads |-> loc[l]]
    BY DEF LICMInv, ProgramOK
  <2> HIDE DEF hoisted
  <2> QED
    BY <1>4, <1>5, <2>1
<1>7. loop = LoopBlocks(header, latch)
  BY <1>1, LoopIsLeast
<1>8. hasUnknownStore \/ \A l \in Loads : loc[l] \in loop => prog.of[l] \in storedGlobals
  BY <1>5 DEF hoistable
<1>9. NothingMoves(header, latch)
  <2>1. CASE hasUnknownStore
    BY <1>7, <2>1 DEF hasUnknownStore, NothingMoves
  <2>2. CASE \A l \in Loads : loc[l] \in loop => prog.of[l] \in storedGlobals
    BY <1>7, <2>2 DEF storedGlobals, NothingMoves
  <2> QED
    BY <1>8, <2>1, <2>2
<1> QED
  BY <1>5, <1>6, <1>9

(* A scan that has changed nothing so far has left nothing behind.         *)
LEMMA ScannedCleanStep ==
  LICMInv /\ AllReached /\ ScannedClean /\ [LICMNext]_licmVars => ScannedClean'
<1> SUFFICES ASSUME LICMInv, AllReached, ScannedClean, [LICMNext]_licmVars
             PROVE  ScannedClean'
  OBVIOUS
<1> SUFFICES ASSUME ~everChanged', NEW u \in Blocks, NEW h \in succ[u], Scanned(u, h)',
                    DominatesBlock(h, u)
             PROVE  NothingMoves(h, u)'
  <2>1. succ' = succ
    BY DomInvKept
  <2>2. \A a, b : DominatesBlock(a, b)' <=> DominatesBlock(a, b)
    BY <2>1 DEF DominatesBlock, CutOff
  <2> QED
    BY <2>1, <2>2 DEF ScannedClean
<1>1. prog' = prog
  BY DEF LICMNext, Analyse, SkipEdge, FindLoop, GrowLoop, Hoist, VisitNextBlock, Repeat, Restart,
         scanVars, licmVars
<1>2. succ' = succ /\ scan \in Nat /\ u \in Nat /\ h \in Blocks
  BY DomInvKept, NAssumption DEF LICMInv, DomInv, DomTypeOK, Blocks
<1>3. ASSUME loc' = loc, NothingMoves(h, u) PROVE NothingMoves(h, u)'
  BY <1>1, <1>2, <1>3, Zenon DEF NothingMoves, LoopBlocks, predecessors
<1>4. ~everChanged /\ Scanned(u, h) => NothingMoves(h, u)
  BY DEF ScannedClean
<1>5. ASSUME UNCHANGED <<loc, scan, left, everChanged>> PROVE NothingMoves(h, u)'
  BY <1>3, <1>4, <1>5 DEF Scanned
<1>6. CASE UNCHANGED licmVars \/ Analyse \/ FindLoop \/ GrowLoop
  BY <1>5, <1>6 DEF licmVars, scanVars, Analyse, FindLoop, GrowLoop
<1>7. CASE SkipEdge
  <2>1. PICK k \in left : /\ k \notin doms[scan] /\ left' = left \ {k}
                          /\ UNCHANGED <<loc, scan, everChanged>>
    BY <1>7 DEF SkipEdge
  <2>2. Scanned(u, h) \/ (u = scan /\ h = k)
    BY <2>1 DEF Scanned
  <2>3. ~(u = scan /\ h = k)
    <3>1. h \in doms[u]
      BY <1>2 DEF LICMInv, DomInv, AllDominators, AllReached
    <3> QED
      BY <2>1, <3>1
  <2> QED
    BY <1>3, <1>4, <2>1, <2>2, <2>3
<1>8. CASE Hoist
  <2>1. loc' = loc /\ ~everChanged /\ NothingMoves(header, latch)
    BY <1>8, HoistWithoutChange
  <2>2. scan' = scan /\ left' = left \ {header} /\ latch = scan
    <3>1. findLoopBlocks!Searching
      BY <1>8 DEF Hoist, findLoopBlocks!Drop, findLoopBlocks!LoopDone
    <3> QED
      BY <1>8, <3>1 DEF Hoist, LICMInv, EdgeUnderSearch
  <2>3. Scanned(u, h) \/ (u = latch /\ h = header)
    BY <2>2 DEF Scanned
  <2> QED
    BY <1>3, <1>4, <2>1, <2>3
<1>9. CASE VisitNextBlock
  <2>1. /\ left = {} /\ scan' = scan + 1 /\ UNCHANGED <<loc, everChanged>>
        /\ left' = IF scan < N THEN succ[scan + 1] ELSE {}
    BY <1>9 DEF VisitNextBlock
  <2>2. Scanned(u, h)
    <3>1. u < scan + 1 \/ (u = scan + 1 /\ h \notin left')
      BY <2>1 DEF Scanned
    <3>2. u = scan + 1 => scan < N
      BY <1>2, NAssumption DEF Blocks
    <3>3. u < scan + 1
      BY <2>1, <3>1, <3>2
    <3>4. u < scan \/ u = scan
      BY <1>2, <3>3
    <3> QED
      BY <2>1, <3>4 DEF Scanned
  <2> QED
    BY <1>3, <1>4, <2>1, <2>2
<1>10. CASE Repeat
  <2>1. scan' = 1 /\ left' = succ[1]
    BY <1>10 DEF Repeat, Restart
  <2>2. ~(u < 1)
    BY NAssumption DEF Blocks
  <2> QED
    BY <2>1, <2>2 DEF Scanned
<1> QED
  BY <1>6, <1>7, <1>8, <1>9, <1>10 DEF LICMNext

(* The least set entered at h is the natural loop.                         *)
LEMMA NaturalLoopIsLeast ==
  ASSUME DomTypeOK, NEW h \in Blocks, NEW u \in Blocks
  PROVE  NaturalLoop(succ, h, u) = LoopBlocks(h, u)
<1> DEFINE rest == Without(succ, h)
           T == {h} \cup {b \in DOMAIN rest : u \in Reach(rest, {b})}
<1>1. NaturalLoop(succ, h, u) = T
  BY DEF NaturalLoop
<1>2. IsGraph(succ) /\ DOMAIN succ = Blocks
  BY SuccIsGraph
<1>3. IsGraph(rest) /\ DOMAIN rest = Blocks \ {h}
  BY <1>2, WithoutIsGraph
<1>4. \A q \in DOMAIN rest : rest[q] = succ[q] \ {h}
  BY <1>2 DEF Without
<1>5. ASSUME NEW b \in DOMAIN rest
      PROVE  /\ Reach(rest, {b}) \subseteq DOMAIN rest
             /\ b \in Reach(rest, {b})
             /\ Closed(rest, Reach(rest, {b}))
             /\ \A X : b \in X /\ Closed(rest, X) => Reach(rest, {b}) \subseteq X
  <2> HIDE DEF rest
  <2>1. {b} \in SUBSET DOMAIN rest
    BY <1>5
  <2> QED
    BY <1>3, <2>1, ReachIsLeastClosed
<1> HIDE DEF rest
<1>6. T \subseteq LoopBlocks(h, u)
  <2> SUFFICES ASSUME NEW b \in T, NEW S \in SUBSET Blocks, h \in S, u \in S,
                      \A c \in S \ {h} : predecessors(c) \subseteq S, b \notin S
               PROVE  FALSE
    BY <1>3 DEF LoopBlocks
  <2>1. b \in DOMAIN rest /\ u \in Reach(rest, {b})
    OBVIOUS
  <2> DEFINE X == DOMAIN rest \ S
  <2>2. Closed(rest, X)
    <3> SUFFICES ASSUME NEW q \in X, NEW c \in rest[q] PROVE c \in X
      BY DEF Closed
    <3>1. c \in DOMAIN rest /\ c \in succ[q] /\ q \in Blocks
      BY <1>3, <1>4 DEF IsGraph
    <3> QED
      BY <1>3, <3>1 DEF predecessors
  <2>3. b \in X /\ u \notin X
    BY <2>1
  <2> HIDE DEF X
  <2> QED
    BY <1>5, <2>1, <2>2, <2>3
<1>7. LoopBlocks(h, u) \subseteq T
  <2>1. T \in SUBSET Blocks /\ h \in T
    BY <1>3
  <2>2. u \in T
    <3>1. u # h => u \in DOMAIN rest
      BY <1>3
    <3> QED
      BY <1>5, <3>1
  <2>3. ASSUME NEW c \in T \ {h}, NEW q \in predecessors(c), q # h PROVE q \in T
    <3>1. q \in DOMAIN rest /\ c \in rest[q] /\ c \in DOMAIN rest /\ u \in Reach(rest, {c})
      BY <1>3, <1>4, <2>3 DEF predecessors
    <3>2. c \in Reach(rest, {q})
      BY <1>5, <3>1 DEF Closed
    <3>3. Reach(rest, {c}) \subseteq Reach(rest, {q})
      BY <1>5, <3>1, <3>2
    <3> QED
      BY <3>1, <3>3
  <2>4. \A c \in T \ {h} : predecessors(c) \subseteq T
    BY <2>1, <2>3
  <2> HIDE DEF T
  <2> QED
    BY <2>1, <2>2, <2>4 DEF LoopBlocks
<1> QED
  BY <1>1, <1>6, <1>7

(* When the passes are over, the last scan has seen every back edge.       *)
LEMMA DoneIsClean ==
  ASSUME LICMInv, ScannedClean
  PROVE  NothingLeftToHoist
<1> SUFFICES ASSUME LICMDone,
                    NEW u \in Reach(succ, {entry}), NEW v \in Blocks, IsBackEdge(succ, entry, u, v)
             PROVE  \/ \E b \in NaturalLoop(succ, v, u) : prog.calls[b] \ IOFunctions # {}
                    \/ \A l \in Loads : loc[l] \in NaturalLoop(succ, v, u) =>
                         \E b \in NaturalLoop(succ, v, u) : prog.of[l] \in prog.stores[b]
  BY Zenon DEF NothingLeftToHoist
<1>1. DomTypeOK /\ IsGraph(succ) /\ DOMAIN succ = Blocks
  BY SuccIsGraph DEF LICMInv, DomInv
<1>2. entry \in Blocks
  BY NAssumption DEF Blocks, entry
<1>3. u \in Blocks /\ v \in succ[u] /\ Dominates(succ, entry, v, u)
  <2>1. {entry} \in SUBSET DOMAIN succ
    BY <1>1, <1>2
  <2> QED
    BY <1>1, <2>1, ReachIsLeastClosed DEF IsBackEdge
<1>4. DominatesBlock(v, u)
  <2> SUFFICES ASSUME v # u, v # entry PROVE CutOff(u, {v})
    BY DEF DominatesBlock
  <2> DEFINE rest == Without(succ, v)
             R == Reach(rest, {entry})
  <2>1. IsGraph(rest) /\ DOMAIN rest = Blocks \ {v}
    BY <1>1, WithoutIsGraph
  <2>2. R \in SUBSET DOMAIN rest /\ entry \in R /\ Closed(rest, R)
    <3>1. {entry} \in SUBSET DOMAIN rest
      BY <1>2, <2>1
    <3> HIDE DEF rest
    <3> QED
      BY <2>1, <3>1, ReachIsLeastClosed
  <2>3. u \notin R
    BY <1>3 DEF Dominates
  <2>4. \A q \in DOMAIN rest : rest[q] = succ[q] \ {v}
    BY <1>1 DEF Without
  <2> HIDE DEF R, rest
  <2> QED
    BY <2>1, <2>2, <2>3, <2>4 DEF CutOff, Closed
<1>5. Scanned(u, v) /\ ~everChanged
  BY <1>3, NAssumption DEF LICMDone, Scanned, LICMInv, Blocks
<1>6. NothingMoves(v, u)
  BY <1>3, <1>4, <1>5 DEF ScannedClean
<1>7. NaturalLoop(succ, v, u) = LoopBlocks(v, u)
  BY <1>1, <1>3, NaturalLoopIsLeast
<1> QED
  BY <1>6, <1>7 DEF NothingMoves

-----------------------------------------------------------------------------
(* The invariant of the composition: the invariants of its two components, *)
(* and that a loop is searched for only for an edge that closes one.       *)
THEOREM LICMInvariant == LICMSpec => []LICMInv
  BY LICMInvInit, LICMInvStep, PTL DEF LICMSpec

(* The pass uses the analysis and the search as their specifications       *)
(* allow, so that all that is proved of them holds in the pass.            *)
THEOREM LICMUsesComponents == LICMSpec => DomSpec /\ findLoopBlocks!LoopSpec
<1>1. LICMInit => DomInit
  BY DEF LICMInit
<1>2. LICMInit => findLoopBlocks!LoopInit
  BY NAssumption DEF LICMInit, findLoopBlocks!LoopInit, Blocks, entry
<1>3. [LICMNext]_licmVars => [DomNext]_domVars
  BY StepUsesAnalysis DEF licmVars
<1>4. LICMInv /\ [LICMNext]_licmVars => [findLoopBlocks!LoopNext]_(findLoopBlocks!loopVars)
  <2>1. UNCHANGED licmVars => UNCHANGED findLoopBlocks!loopVars
    BY DEF licmVars, domVars, searchVars, findLoopBlocks!loopVars
  <2> QED
    BY <2>1, StepUsesSearch DEF LICMInv, LeftToScan
<1> QED
  BY <1>1, <1>2, <1>3, <1>4, LICMInvariant, PTL DEF LICMSpec, DomSpec, findLoopBlocks!LoopSpec

(* What the pass takes for a loop has header and latch and can be entered  *)
(* through its header only, for every back edge of every function.         *)
THEOREM LoopsFoundAreClosed == LICMSpec => []LoopClosed
<1>1. LICMInv => LoopClosed
  BY LoopInvClosed DEF LICMInv, LoopClosed
<1> QED
  BY <1>1, LICMInvariant, PTL

(* And no smaller set of blocks is such a loop. *)
THEOREM LoopsFoundAreMinimal == LICMSpec => []LoopMinimal
<1>1. LICMInv => LoopMinimal
  BY DEF LICMInv, LoopInv, LoopMinimal
<1> QED
  BY <1>1, LICMInvariant, PTL

(* In each search of the pass, a block that has left the worklist never    *)
(* comes back to it.                                                       *)
THEOREM SearchesVisitOnce == LICMSpec => NoBlockRevisited
  BY LoopVisitsOnce, LICMUsesComponents, PTL DEF NoBlockRevisited

(* In every function whose loops have one back edge and one way in, a      *)
(* load that has been moved is executed before every use of its value.     *)
THEOREM HoistedLoadsDominate == LICMSpec => [](PlainLoops => HoistDominates)
<1>1. LICMInit => HoistDominates
  BY ProgramsAssumption DEF LICMInit, HoistDominates, DominatesBlock
<1>2. LICMInv /\ [LICMNext]_licmVars => (PlainLoops' => PlainLoops)
  <2> SUFFICES ASSUME LICMInv, [LICMNext]_licmVars PROVE PlainLoops' => PlainLoops
    OBVIOUS
  <2>1. succ' = succ
    BY DomInvKept
  <2> QED
    BY <2>1 DEF PlainLoops, DominatesBlock, CutOff, predecessors
<1> QED
  BY <1>1, <1>2, HoistKeepsDominance, LICMInvariant, PTL DEF LICMSpec

(* And nothing is stored to its global on the way to the place it came     *)
(* from, if all stores to the globals that are loaded go by their names.   *)
(* For an element of an array the code misses stores, see the run          *)
(* LICMArray.                                                              *)
THEOREM HoistedLoadsUnclobbered ==
  LICMSpec => [](PlainLoops /\ StoresAreSeen => HoistUnclobbered)
<1>1. LICMInit => MovedLoadsShielded
  BY DEF LICMInit, MovedLoadsShielded
<1>2. LICMInv /\ [LICMNext]_licmVars => (PlainLoops' /\ StoresAreSeen' => PlainLoops /\ StoresAreSeen)
  <2> SUFFICES ASSUME LICMInv, [LICMNext]_licmVars
               PROVE  PlainLoops' /\ StoresAreSeen' => PlainLoops /\ StoresAreSeen
    OBVIOUS
  <2>1. succ' = succ
    BY DomInvKept
  <2>2. prog' = prog
    BY DEF LICMNext, Analyse, SkipEdge, FindLoop, GrowLoop, Hoist, VisitNextBlock, Repeat, Restart,
           scanVars, licmVars
  <2>3. PlainLoops' => PlainLoops
    BY <2>1 DEF PlainLoops, DominatesBlock, CutOff, predecessors
  <2>4. StoresAreSeen' => StoresAreSeen
    BY <2>2 DEF StoresAreSeen
  <2> QED
    BY <2>3, <2>4
<1>3. LICMInv /\ MovedLoadsShielded => HoistUnclobbered
  BY ShieldedAreUnclobbered
<1> QED
  BY <1>1, <1>2, <1>3, HoistKeepsShields, LICMInvariant, PTL DEF LICMSpec

(* If every block can be reached, the repeated passes end with no load     *)
(* left in a loop that neither stores to its global nor calls a function   *)
(* of the program.  An unreachable block makes the analysis miss           *)
(* dominators, and with them loops.                                        *)
THEOREM LoopsAreLeftClean == LICMSpec => [](AllReached => NothingLeftToHoist)
<1>1. LICMInit => ScannedClean
  BY NAssumption DEF LICMInit, ScannedClean, Scanned, Blocks
<1>2. LICMInv /\ [LICMNext]_licmVars => (AllReached' => AllReached)
  <2> SUFFICES ASSUME LICMInv, [LICMNext]_licmVars PROVE AllReached' => AllReached
    OBVIOUS
  <2>1. succ' = succ
    BY DomInvKept
  <2> QED
    BY <2>1 DEF AllReached, Unreachable, CutOff
<1>3. LICMInv /\ ScannedClean => NothingLeftToHoist
  BY DoneIsClean
<1> QED
  BY <1>1, <1>2, <1>3, ScannedCleanStep, LICMInvariant, PTL DEF LICMSpec
=============================================================================
