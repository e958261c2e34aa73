--------------------------------- MODULE CFG ---------------------------------
(***************************************************************************)
(* Control-flow graphs, as the properties of the other modules see them.   *)
(*                                                                         *)
(* A graph is a function that gives each basic block the set of its        *)
(* successors.  The definitions here are the textbook ones: the compiler's *)
(* own analyses are in their own modules and are compared with these.      *)
(***************************************************************************)
EXTENDS Integers, FiniteSets

Preds(g, b) == {a \in DOMAIN g : b \in g[a]}

(* The blocks that S reaches in the graph g, S included. *)
Reach(g, S) ==
  LET reach[n \in Nat] ==
        IF n = 0 THEN S
        ELSE LET near == reach[n - 1] IN near \cup UNION {g[b] : b \in near}
  IN  reach[Cardinality(DOMAIN g)]

(* The graph g without the block d. *)
Without(g, d) == [b \in DOMAIN g \ {d} |-> g[b] \ {d}]

(* Every path of g from entry to b goes through d. *)
Dominates(g, entry, d, b) ==
  d = b \/ d = entry \/ b \notin Reach(Without(g, d), {entry})

(* The edge from u to v closes a loop: its head dominates its tail. *)
IsBackEdge(g, entry, u, v) == v \in g[u] /\ Dominates(g, entry, v, u)

(* Every cycle among the blocks that entry reaches has a back edge. *)
Reducible(g, entry) ==
  LET live == Reach(g, {entry})
      forward == [b \in live |-> {c \in g[b] : ~Dominates(g, entry, c, b)}]
  IN  \A b \in live : b \notin Reach(forward, forward[b])

(* The natural loop of a back edge: the header h and the blocks that reach *)
(* the latch without going through h.                                      *)
NaturalLoop(g, h, latch) ==
  LET rest == Without(g, h)
  IN  {h} \cup {b \in DOMAIN rest : latch \in Reach(rest, {b})}
=============================================================================
