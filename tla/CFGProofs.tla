------------------------------- MODULE CFGProofs -------------------------------
(***************************************************************************)
(* What the definitions of CFG mean, for graphs of any finite size: Reach  *)
(* is the least set that is closed under successors, and a block dominates *)
(* another exactly if it is the only way out of some set of blocks that    *)
(* the entry is in.  Dominance is then a partial order on the blocks that  *)
(* can be reached.                                                         *)
(*                                                                         *)
(* Reach is a recursive function.  Induction over the naturals is stated   *)
(* here with a set in place of a predicate.                                *)
(***************************************************************************)
EXTENDS CFG, TLAPS, FiniteSetTheorems, WellFoundedInduction

-----------------------------------------------------------------------------
(* Induction: a set with 0 in it and n + 1 for each n holds all naturals. *)
LEMMA SetInduction ==
  ASSUME NEW T, 0 \in T, \A n \in Nat : n \in T => n + 1 \in T
  PROVE  Nat \subseteq T
<1> DEFINE F == Nat \ T
<1>1. IsWellFoundedOn(OpToRel(<, Nat), Nat)
  BY NatLessThanWellFounded
<1>2. SUFFICES ASSUME F # {} PROVE FALSE
  OBVIOUS
<1>3. F \subseteq Nat
  OBVIOUS
<1>4. PICK x \in F : \A y \in F : ~(<<y, x>> \in OpToRel(<, Nat))
  <2> HIDE DEF F
  <2> QED
    BY <1>1, <1>2, <1>3, WFMin
<1>5. \A y \in F : ~(y < x)
  BY <1>3, <1>4 DEF OpToRel
<1>6. x \in Nat /\ x \notin T
  BY <1>4
<1>7. x # 0
  BY <1>6
<1>8. x - 1 \in Nat /\ x - 1 < x /\ (x - 1) + 1 = x
  BY <1>6, <1>7
<1>9. x - 1 \in T
  BY <1>5, <1>8
<1> HIDE DEF F
<1> QED
  BY <1>6, <1>8, <1>9

(* f is s, step[s], step[step[s]], ... *)
Iterates(f, D, step, s) ==
  f \in [Nat -> D] /\ f[0] = s /\ \A n \in Nat : f[n + 1] = step[f[n]]

(* A function on a set can be iterated. *)
LEMMA Iteration ==
  ASSUME NEW D, NEW step \in [D -> D], NEW s \in D
  PROVE  \E f : Iterates(f, D, step, s)
<1> DEFINE Begins(h, n) == h \in [0..n -> D] /\ h[0] = s /\ \A i \in 0..(n - 1) : h[i + 1] = step[h[i]]
<1> DEFINE T == {n \in Nat : \E h \in [0..n -> D] : Begins(h, n)}
<1>1. 0 \in T
  <2>1. [i \in 0..0 |-> s] \in [0..0 -> D] /\ Begins([i \in 0..0 |-> s], 0)
    OBVIOUS
  <2> QED
    BY <2>1
<1>2. ASSUME NEW n \in Nat, n \in T PROVE n + 1 \in T
  <2>1. PICK h \in [0..n -> D] : Begins(h, n)
    BY <1>2
  <2> DEFINE k == [i \in 0..(n + 1) |-> IF i = n + 1 THEN step[h[n]] ELSE h[i]]
  <2>2. k \in [0..(n + 1) -> D]
    <3>1. step[h[n]] \in D
      OBVIOUS
    <3>2. \A i \in 0..(n + 1) : i # n + 1 => i \in 0..n
      OBVIOUS
    <3> QED
      BY <3>1, <3>2
  <2>3. k[0] = s
    BY <2>1
  <2>4. \A i \in 0..n : k[i + 1] = step[k[i]]
    <3> SUFFICES ASSUME NEW i \in 0..n PROVE k[i + 1] = step[k[i]]
      OBVIOUS
    <3>1. CASE i = n
      BY <3>1
    <3>2. CASE i # n
      BY <2>1, <3>2
    <3> QED
      BY <3>1, <3>2
  <2>5. n + 1 - 1 = n
    OBVIOUS
  <2>6. Begins(k, n + 1)
    <3> HIDE DEF k
    <3> QED
      BY <2>2, <2>3, <2>4, <2>5
  <2> HIDE DEF Begins, k
  <2> QED
    BY <2>2, <2>6
<1>3. Nat \subseteq T
  <2> HIDE DEF T
  <2> QED
    BY <1>1, <1>2, SetInduction
<1> DEFINE U == {i \in Nat : \A n, m \in Nat : i <= n /\ i <= m =>
                   \A h, k : Begins(h, n) /\ Begins(k, m) => h[i] = k[i]}
<1>4. Nat \subseteq U
  <2>1. 0 \in U
    OBVIOUS
  <2>2. ASSUME NEW i \in Nat, i \in U PROVE i + 1 \in U
    <3> SUFFICES ASSUME NEW n \in Nat, NEW m \in Nat, i + 1 <= n, i + 1 <= m,
                        NEW h, NEW k, Begins(h, n), Begins(k, m)
                 PROVE  h[i + 1] = k[i + 1]
      OBVIOUS
    <3>1. h[i] = k[i]
      <4>1. i <= n /\ i <= m
        OBVIOUS
      <4> HIDE DEF Begins
      <4> QED
        BY <2>2, <4>1
    <3>2. i \in 0..(n - 1) /\ i \in 0..(m - 1)
      OBVIOUS
    <3> QED
      BY <3>1, <3>2
  <2> HIDE DEF U
  <2> QED
    BY <2>1, <2>2, SetInduction
<1> DEFINE H(n) == CHOOSE h \in [0..n -> D] : Begins(h, n)
<1>5. \A n \in Nat : Begins(H(n), n)
  <2> HIDE DEF Begins
  <2> QED
    BY <1>3
<1> DEFINE f == [n \in Nat |-> H(n)[n]]
<1>6. f \in [Nat -> D]
  <2>1. ASSUME NEW n \in Nat PROVE H(n)[n] \in D
    <3>1. n \in 0..n
      OBVIOUS
    <3>2. H(n) \in [0..n -> D]
      BY <1>5
    <3> HIDE DEF H
    <3> QED
      BY <3>1, <3>2
  <2> QED
    BY <2>1
<1>7. f[0] = s
  <2>1. H(0)[0] = s
    BY <1>5
  <2> QED
    BY <2>1
<1>8. ASSUME NEW n \in Nat PROVE f[n + 1] = step[f[n]]
  <2>1. Begins(H(n), n) /\ Begins(H(n + 1), n + 1)
    <3>1. n + 1 \in Nat
      OBVIOUS
    <3> HIDE DEF Begins, H
    <3> QED
      BY <1>5, <3>1
  <2>2. H(n + 1)[n] = H(n)[n]
    <3>1. n <= n /\ n <= n + 1 /\ n + 1 \in Nat
      OBVIOUS
    <3>2. n \in U
      BY <1>4
    <3> HIDE DEF Begins, H
    <3> QED
      BY <2>1, <3>1, <3>2
  <2>3. H(n + 1)[n + 1] = step[H(n + 1)[n]]
    <3>1. n \in 0..(n + 1 - 1)
      OBVIOUS
    <3> HIDE DEF H
    <3> QED
      BY <2>1, <3>1
  <2>4. f[n + 1] = H(n + 1)[n + 1] /\ f[n] = H(n)[n]
    OBVIOUS
  <2> QED
    BY <2>2, <2>3, <2>4
<1> HIDE DEF f
<1>9. Iterates(f, D, step, s)
  BY <1>6, <1>7, <1>8 DEF Iterates
<1> QED
  BY <1>9

-----------------------------------------------------------------------------
IsGraph(g) == IsFiniteSet(DOMAIN g) /\ g \in [DOMAIN g -> SUBSET DOMAIN g]

(* X has the successors of its members. *)
Closed(g, X) == \A b \in X : g[b] \subseteq X

Onward(g, X) == X \cup UNION {g[b] : b \in X}

(* The recursion in Reach, as a sequence of growing sets. *)
LEMMA ReachLevels ==
  ASSUME NEW g, IsGraph(g), NEW S \in SUBSET DOMAIN g
  PROVE  \E f \in [Nat -> SUBSET DOMAIN g] :
           /\ f[0] = S
           /\ \A n \in Nat : f[n + 1] = Onward(g, f[n])
           /\ Reach(g, S) = f[Cardinality(DOMAIN g)]
<1> DEFINE D == SUBSET DOMAIN g
           Defines(f) == f = [n \in Nat |-> IF n = 0 THEN S
                                             ELSE LET near == f[n - 1]
                                                  IN near \cup UNION {g[b] : b \in near}]
           step == [X \in D |-> Onward(g, X)]
<1>1. step \in [D -> D]
  BY DEF IsGraph, Onward
<1>2. PICK f \in [Nat -> D] : f[0] = S /\ \A n \in Nat : f[n + 1] = step[f[n]]
  <2>1. S \in D
    OBVIOUS
  <2>2. PICK f : Iterates(f, D, step, S)
    <3> HIDE DEF step, D
    <3> QED
      BY <1>1, <2>1, Iteration
  <2> QED
    BY <2>2 DEF Iterates
<1>3. \A n \in Nat : f[n] \in D
  BY <1>2
<1>4. \A n \in Nat : f[n + 1] = Onward(g, f[n])
  BY <1>2, <1>3
<1>5. Defines(f)
  <2>1. \A n \in Nat : f[n] = IF n = 0 THEN S ELSE Onward(g, f[n - 1])
    <3> SUFFICES ASSUME NEW n \in Nat, n # 0 PROVE f[n] = Onward(g, f[n - 1])
      BY <1>2
    <3>1. n - 1 \in Nat /\ (n - 1) + 1 = n
      OBVIOUS
    <3> QED
      BY <1>4, <3>1
  <2>2. f = [n \in Nat |-> f[n]]
    BY <1>2
  <2> QED
    BY <2>1, <2>2, Zenon DEF Onward
<1>6. Reach(g, S) = (CHOOSE h : Defines(h))[Cardinality(DOMAIN g)]
  BY Zenon DEF Reach
<1>7. PICK r : r = (CHOOSE h : Defines(h))
  OBVIOUS
<1>8. Defines(r)
  <2> HIDE DEF Defines
  <2> QED
    BY <1>5, <1>7
<1>9. r[0] = S
  BY <1>8
<1>10. \A n \in Nat : r[n + 1] = Onward(g, r[n])
  <2> SUFFICES ASSUME NEW n \in Nat PROVE r[n + 1] = Onward(g, r[n])
    OBVIOUS
  <2>1. n + 1 \in Nat /\ n + 1 # 0 /\ (n + 1) - 1 = n
    OBVIOUS
  <2>2. \A m \in Nat : r[m] = IF m = 0 THEN S ELSE Onward(g, r[m - 1])
    BY <1>8, Zenon DEF Onward
  <2> QED
    BY <2>1, <2>2
<1>11. r \in [Nat -> D]
  <2> DEFINE T == {n \in Nat : r[n] \in D}
  <2>1. 0 \in T
    BY <1>9
  <2>2. ASSUME NEW n \in Nat, n \in T PROVE n + 1 \in T
    BY <1>10, <2>2 DEF Onward, IsGraph
  <2>3. Nat \subseteq T
    <3> HIDE DEF T
    <3> QED
      BY <2>1, <2>2, SetInduction
  <2>4. r = [n \in Nat |-> r[n]]
    BY <1>8
  <2> QED
    BY <2>3, <2>4
<1> QED
  BY <1>6, <1>7, <1>9, <1>10, <1>11

(* What S reaches is closed under successors, although Reach looks only as *)
(* many edges far as there are blocks, and it is the least such set.       *)
LEMMA ReachIsLeastClosed ==
  ASSUME NEW g, IsGraph(g), NEW S \in SUBSET DOMAIN g
  PROVE  /\ Reach(g, S) \in SUBSET DOMAIN g
         /\ S \subseteq Reach(g, S)
         /\ Closed(g, Reach(g, S))
         /\ \A X : S \subseteq X /\ Closed(g, X) => Reach(g, S) \subseteq X
<1> DEFINE D == SUBSET DOMAIN g
           N == Cardinality(DOMAIN g)
<1>1. PICK f \in [Nat -> D] : /\ f[0] = S
                              /\ \A n \in Nat : f[n + 1] = Onward(g, f[n])
                              /\ Reach(g, S) = f[N]
  BY ReachLevels
<1>2. N \in Nat
  BY FS_CardinalityType DEF IsGraph
<1>3. \A n \in Nat : f[n] \in D /\ IsFiniteSet(f[n]) /\ Cardinality(f[n]) \in Nat
  <2>1. \A X \in D : IsFiniteSet(X)
    BY FS_Subset DEF IsGraph
  <2> QED
    BY <1>1, <2>1, FS_CardinalityType
<1>4. Nat \subseteq {n \in Nat : S \subseteq f[n]}
  <2> DEFINE T == {n \in Nat : S \subseteq f[n]}
  <2>1. 0 \in T
    BY <1>1
  <2>2. ASSUME NEW n \in Nat, n \in T PROVE n + 1 \in T
    BY <1>1, <2>2 DEF Onward
  <2> HIDE DEF T
  <2>3. Nat \subseteq T
    BY <2>1, <2>2, SetInduction
  <2> QED
    BY <2>3 DEF T
<1>5. Nat \subseteq {n \in Nat : Closed(g, f[n]) \/ Cardinality(f[n]) >= n}
  <2> DEFINE T == {n \in Nat : Closed(g, f[n]) \/ Cardinality(f[n]) >= n}
  <2>1. 0 \in T
    BY <1>3
  <2>2. ASSUME NEW n \in Nat, n \in T PROVE n + 1 \in T
    <3>1. f[n + 1] = Onward(g, f[n]) /\ n + 1 \in Nat
      BY <1>1
    <3>2. CASE Closed(g, f[n])
      <4>1. f[n + 1] = f[n]
        BY <3>1, <3>2 DEF Onward, Closed
      <4> QED
        BY <3>1, <3>2, <4>1
    <3>3. CASE ~Closed(g, f[n])
      <4>1. f[n] \subseteq f[n + 1] /\ f[n] # f[n + 1]
        <5>1. PICK b \in f[n] : ~(g[b] \subseteq f[n])
          BY <3>3 DEF Closed
        <5> QED
          BY <3>1, <5>1 DEF Onward
      <4>2. Cardinality(f[n]) <= Cardinality(f[n + 1]) /\ Cardinality(f[n]) # Cardinality(f[n + 1])
        BY <1>3, <3>1, <4>1, FS_Subset
      <4>3. Cardinality(f[n]) \in Nat /\ Cardinality(f[n + 1]) \in Nat
        BY <1>3, <3>1
      <4>4. Cardinality(f[n]) >= n
        BY <2>2, <3>3
      <4>5. Cardinality(f[n + 1]) >= n + 1
        BY <4>2, <4>3, <4>4
      <4> QED
        BY <3>1, <4>5
    <3> QED
      BY <3>2, <3>3
  <2> HIDE DEF T
  <2>3. Nat \subseteq T
    BY <2>1, <2>2, SetInduction
  <2> QED
    BY <2>3 DEF T
<1>6. Closed(g, f[N])
  <2>1. CASE Cardinality(f[N]) >= N
    <3>1. Cardinality(f[N]) <= N /\ (Cardinality(f[N]) = N => f[N] = DOMAIN g)
      BY <1>2, <1>3, FS_Subset DEF IsGraph
    <3>2. f[N] = DOMAIN g
      BY <1>2, <1>3, <2>1, <3>1
    <3> QED
      BY <3>2 DEF Closed, IsGraph
  <2> QED
    BY <1>2, <1>5, <2>1
<1>7. ASSUME NEW X, S \subseteq X, Closed(g, X) PROVE f[N] \subseteq X
  <2> DEFINE T == {n \in Nat : f[n] \subseteq X}
  <2>1. 0 \in T
    BY <1>1, <1>7
  <2>2. ASSUME NEW n \in Nat, n \in T PROVE n + 1 \in T
    BY <1>1, <1>7, <2>2 DEF Onward, Closed
  <2>3. Nat \subseteq T
    <3> HIDE DEF T
    <3> QED
      BY <2>1, <2>2, SetInduction
  <2> QED
    BY <1>2, <2>3
<1> QED
  BY <1>1, <1>2, <1>3, <1>4, <1>6, <1>7

-----------------------------------------------------------------------------
(* A graph without one of its blocks is a graph. *)
LEMMA WithoutIsGraph ==
  ASSUME NEW g, IsGraph(g), NEW d
  PROVE  IsGraph(Without(g, d)) /\ DOMAIN Without(g, d) = DOMAIN g \ {d}
BY FS_Subset DEF IsGraph, Without

(* d is the only way into the blocks of R, and the entry is not among them *)
(* unless it is d.                                                         *)
OnlyWayInto(g, entry, d, R) ==
  /\ R \subseteq DOMAIN g
  /\ d \in R
  /\ entry \notin R \ {d}
  /\ \A b \in R \ {d} : Preds(g, b) \subseteq R

(* Every path into a region with one way in goes through it. *)
LEMMA DominatesItsRegion ==
  ASSUME NEW g, IsGraph(g), NEW entry \in DOMAIN g, NEW d, NEW R,
         OnlyWayInto(g, entry, d, R), NEW b \in R
  PROVE  Dominates(g, entry, d, b)
<1> SUFFICES ASSUME d # b, d # entry
             PROVE  b \notin Reach(Without(g, d), {entry})
  BY DEF Dominates
<1> DEFINE h == Without(g, d)
           X == DOMAIN g \ R
<1>1. IsGraph(h) /\ DOMAIN h = DOMAIN g \ {d}
  BY WithoutIsGraph
<1>2. {entry} \in SUBSET DOMAIN h /\ {entry} \subseteq X
  BY <1>1 DEF OnlyWayInto
<1>3. Closed(h, X)
  <2> SUFFICES ASSUME NEW p \in X, NEW c \in h[p] PROVE c \in X
    BY DEF Closed
  <2>1. p \in DOMAIN g \ {d} /\ c \in g[p] \ {d} /\ c \in DOMAIN g
    BY DEF OnlyWayInto, Without, IsGraph
  <2> QED
    BY <2>1 DEF OnlyWayInto, Preds
<1>4. Reach(h, {entry}) \subseteq X
  <2> HIDE DEF h, X
  <2> QED
    BY <1>1, <1>2, <1>3, ReachIsLeastClosed
<1> QED
  BY <1>4

(* What a set reaches is what its members reach. *)
LEMMA ReachFromMember ==
  ASSUME NEW g, IsGraph(g), NEW S \in SUBSET DOMAIN g, NEW b \in Reach(g, S)
  PROVE  \E s \in S : b \in Reach(g, {s})
<1> DEFINE X == {c \in DOMAIN g : \E s \in S : c \in Reach(g, {s})}
<1>1. \A s \in S : Reach(g, {s}) \in SUBSET DOMAIN g /\ s \in Reach(g, {s}) /\ Closed(g, Reach(g, {s}))
  BY ReachIsLeastClosed
<1>2. S \subseteq X
  BY <1>1
<1>3. Closed(g, X)
  BY <1>1 DEF Closed
<1>4. Reach(g, S) \subseteq X
  <2> HIDE DEF X
  <2> QED
    BY <1>2, <1>3, ReachIsLeastClosed
<1> QED
  BY <1>4

(* What a block reaches is itself and what its successors reach. *)
LEMMA ReachStep ==
  ASSUME NEW g, IsGraph(g), NEW s \in DOMAIN g
  PROVE  Reach(g, {s}) \subseteq {s} \cup Reach(g, g[s])
<1>1. g[s] \in SUBSET DOMAIN g
  BY DEF IsGraph
<1>2. Closed(g, {s} \cup Reach(g, g[s])) /\ {s} \in SUBSET DOMAIN g
  BY <1>1, ReachIsLeastClosed DEF Closed
<1> QED
  BY <1>2, ReachIsLeastClosed

(* A graph is reducible if every set of blocks has one from which only     *)
(* back edges lead to the set.                                             *)
LEMMA ReducibleIfSinks ==
  ASSUME NEW g, IsGraph(g), NEW entry \in DOMAIN g,
         \A X \in SUBSET DOMAIN g : X # {} =>
           \E b \in X : \A c \in g[b] \cap X : Dominates(g, entry, c, b)
  PROVE  Reducible(g, entry)
<1> DEFINE live == Reach(g, {entry})
           forward == [b \in live |-> {c \in g[b] : ~Dominates(g, entry, c, b)}]
<1>1. live \in SUBSET DOMAIN g /\ Closed(g, live)
  BY ReachIsLeastClosed
<1>2. IsGraph(forward) /\ DOMAIN forward = live
  <2>1. IsFiniteSet(live)
    BY <1>1, FS_Subset DEF IsGraph
  <2>2. forward \in [live -> SUBSET live]
    BY <1>1 DEF Closed
  <2> QED
    BY <2>1, <2>2 DEF IsGraph
<1>3. SUFFICES ASSUME NEW b \in live, b \in Reach(forward, forward[b])
               PROVE  FALSE
  BY DEF Reducible
<1> DEFINE X == {x \in live : b \in Reach(forward, forward[x])}
<1>4. \A x \in X : \E y \in forward[x] : y \in X
  <2> SUFFICES ASSUME NEW x \in X PROVE \E y \in forward[x] : y \in X
    OBVIOUS
  <2>1. forward[x] \in SUBSET live
    BY <1>2 DEF IsGraph
  <2>2. PICK y \in forward[x] : b \in Reach(forward, {y})
    <3> HIDE DEF forward, live
    <3> QED
      BY <1>2, <2>1, ReachFromMember
  <2>3. b = y \/ b \in Reach(forward, forward[y])
    <3>1. y \in DOMAIN forward
      BY <1>2, <2>1
    <3> HIDE DEF forward, live
    <3> QED
      BY <1>2, <2>2, <3>1, ReachStep
  <2>4. y \in X
    BY <1>3, <2>1, <2>3
  <2> QED
    BY <2>4
<1>5. X \in SUBSET DOMAIN g /\ X # {}
  BY <1>1, <1>3
<1>6. PICK x \in X : \A c \in g[x] \cap X : Dominates(g, entry, c, x)
  <2> HIDE DEF X
  <2> QED
    BY <1>5
<1>7. PICK y \in forward[x] : y \in X
  BY <1>4
<1>8. y \in g[x] /\ ~Dominates(g, entry, y, x)
  BY <1>6, <1>7
<1> HIDE DEF X
<1> QED
  BY <1>6, <1>7, <1>8

-----------------------------------------------------------------------------
(***************************************************************************)
(* Dominance, by sets of blocks: X is a set that the entry is in and that  *)
(* is left through d only.                                                 *)
(***************************************************************************)
LeftThrough(g, entry, d, X) ==
  /\ X \subseteq DOMAIN g
  /\ entry \in X /\ d \notin X
  /\ \A x \in X : g[x] \subseteq X \cup {d}

(* A block outside of such a set is dominated by d. *)
LEMMA OutsideIsDominated ==
  ASSUME NEW g, IsGraph(g), NEW entry \in DOMAIN g, NEW d, NEW X, LeftThrough(g, entry, d, X),
         NEW b, b \notin X
  PROVE  Dominates(g, entry, d, b)
<1> DEFINE h == Without(g, d)
<1>1. IsGraph(h) /\ DOMAIN h = DOMAIN g \ {d}
  BY WithoutIsGraph
<1>2. {entry} \subseteq X /\ {entry} \in SUBSET DOMAIN h
  BY <1>1 DEF LeftThrough
<1>3. Closed(h, X)
  <2>1. \A x \in X : x \in DOMAIN g \ {d} /\ h[x] = g[x] \ {d}
    BY DEF LeftThrough, Without
  <2> QED
    BY <2>1 DEF LeftThrough, Closed
<1> HIDE DEF h
<1>4. Reach(h, {entry}) \subseteq X
  BY <1>1, <1>2, <1>3, ReachIsLeastClosed
<1> QED
  BY <1>4 DEF Dominates, h

(* And every dominator has one. *)
LEMMA DominatedIsOutside ==
  ASSUME NEW g, IsGraph(g), NEW entry \in DOMAIN g, NEW d, NEW b, Dominates(g, entry, d, b),
         d # b, d # entry
  PROVE  \E X : LeftThrough(g, entry, d, X) /\ b \notin X
<1> DEFINE h == Without(g, d)
           X == Reach(h, {entry})
<1>1. IsGraph(h) /\ DOMAIN h = DOMAIN g \ {d}
  BY WithoutIsGraph
<1>2. {entry} \in SUBSET DOMAIN h
  BY <1>1
<1>3. X \in SUBSET DOMAIN h /\ {entry} \subseteq X /\ Closed(h, X)
  <2> HIDE DEF h
  <2> QED
    BY <1>1, <1>2, ReachIsLeastClosed
<1>4. b \notin X
  BY DEF Dominates
<1> HIDE DEF X
<1>5. \A x \in X : g[x] \subseteq X \cup {d}
  <2> SUFFICES ASSUME NEW x \in X PROVE g[x] \subseteq X \cup {d}
    OBVIOUS
  <2>1. h[x] = g[x] \ {d}
    BY <1>1, <1>3 DEF Without
  <2> QED
    BY <1>3, <2>1 DEF Closed
<1> QED
  BY <1>1, <1>3, <1>4, <1>5 DEF LeftThrough

(* Only the entry dominates the entry. *)
LEMMA EntryDominated ==
  ASSUME NEW g, IsGraph(g), NEW entry \in DOMAIN g, NEW d, Dominates(g, entry, d, entry)
  PROVE  d = entry
<1> SUFFICES ASSUME d # entry PROVE FALSE
  OBVIOUS
<1>1. PICK X : LeftThrough(g, entry, d, X) /\ entry \notin X
  BY DominatedIsOutside
<1> QED
  BY <1>1 DEF LeftThrough

(* Dominance is transitive. *)
LEMMA DominatesTransitive ==
  ASSUME NEW g, IsGraph(g), NEW entry \in DOMAIN g, NEW c, NEW d, NEW b,
         Dominates(g, entry, d, c), Dominates(g, entry, c, b)
  PROVE  Dominates(g, entry, d, b)
<1>1. CASE d = c \/ c = b \/ d = b \/ d = entry
  BY <1>1 DEF Dominates
<1>2. CASE ~(d = c \/ c = b \/ d = b \/ d = entry)
  <2>1. c # entry
    BY <1>2, EntryDominated
  <2>2. PICK X : LeftThrough(g, entry, d, X) /\ c \notin X
    BY <1>2, DominatedIsOutside
  <2>3. PICK Y : LeftThrough(g, entry, c, Y) /\ b \notin Y
    BY <1>2, <2>1, DominatedIsOutside
  <2>4. PICK Z : Z = X \cap Y
    OBVIOUS
  <2>5. LeftThrough(g, entry, d, Z) /\ b \notin Z
    BY <2>2, <2>3, <2>4 DEF LeftThrough
  <2> QED
    BY <2>5, OutsideIsDominated
<1> QED
  BY <1>1, <1>2

(* Two blocks that dominate each other are one, or cannot be reached. *)
LEMMA DominatesAntisymmetric ==
  ASSUME NEW g, IsGraph(g), NEW entry \in DOMAIN g, NEW d, NEW b \in Reach(g, {entry}),
         Dominates(g, entry, d, b), Dominates(g, entry, b, d)
  PROVE  d = b
<1> SUFFICES ASSUME d # b PROVE FALSE
  OBVIOUS
<1>1. d # entry /\ b # entry
  BY EntryDominated
<1>2. PICK X : LeftThrough(g, entry, d, X) /\ b \notin X
  BY <1>1, DominatedIsOutside
<1>3. PICK Y : LeftThrough(g, entry, b, Y) /\ d \notin Y
  BY <1>1, DominatedIsOutside
<1>4. PICK Z : Z = X \cap Y
  OBVIOUS
<1>5. {entry} \subseteq Z /\ Closed(g, Z) /\ b \notin Z
  BY <1>2, <1>3, <1>4 DEF LeftThrough, Closed
<1>6. Reach(g, {entry}) \subseteq Z
  BY <1>5, ReachIsLeastClosed
<1> QED
  BY <1>5, <1>6

(* What dominates a block that can be reached can be reached. *)
LEMMA DominatorIsReached ==
  ASSUME NEW g, IsGraph(g), NEW entry \in DOMAIN g, NEW d, NEW b \in Reach(g, {entry}),
         Dominates(g, entry, d, b)
  PROVE  d \in Reach(g, {entry})
<1> DEFINE R == Reach(g, {entry})
<1>1. R \in SUBSET DOMAIN g /\ entry \in R /\ Closed(g, R)
  BY ReachIsLeastClosed
<1>2. CASE d = b \/ d = entry
  BY <1>1, <1>2
<1>3. CASE d # b /\ d # entry
  <2>1. PICK X : LeftThrough(g, entry, d, X) /\ b \notin X
    BY <1>3, DominatedIsOutside
  <2>2. ASSUME d \notin R PROVE FALSE
    <3>1. PICK Z : Z = X \cap R
      OBVIOUS
    <3>2. {entry} \subseteq Z /\ Closed(g, Z)
      BY <1>1, <2>1, <2>2, <3>1 DEF LeftThrough, Closed
    <3>3. R \subseteq Z
      BY <3>2, ReachIsLeastClosed
    <3> QED
      BY <2>1, <3>1, <3>3
  <2> QED
    BY <2>2
<1> QED
  BY <1>2, <1>3

(* A dominator of a block, other than the block, dominates all before it. *)
LEMMA DominatesBefore ==
  ASSUME NEW g, IsGraph(g), NEW entry \in DOMAIN g, NEW d, NEW p \in DOMAIN g, NEW b \in g[p],
         Dominates(g, entry, d, b), d # b
  PROVE  Dominates(g, entry, d, p)
<1>1. CASE d = p \/ d = entry
  BY <1>1 DEF Dominates
<1>2. CASE d # p /\ d # entry
  <2>1. PICK X : LeftThrough(g, entry, d, X) /\ b \notin X
    BY <1>2, DominatedIsOutside
  <2>2. p \notin X
    BY <2>1 DEF LeftThrough
  <2> QED
    BY <2>1, <2>2, OutsideIsDominated
<1> QED
  BY <1>1, <1>2

(* What dominates all ways into a block, those aside that have passed it,  *)
(* dominates the block.                                                    *)
LEMMA DominatesMerge ==
  ASSUME NEW g, IsGraph(g), NEW entry \in DOMAIN g, NEW d, NEW b, b # entry,
         \A p \in Reach(g, {entry}) :
           b \in g[p] => Dominates(g, entry, d, p) \/ Dominates(g, entry, b, p)
  PROVE  Dominates(g, entry, d, b)
<1>1. CASE d = b \/ d = entry
  BY <1>1 DEF Dominates
<1>2. CASE d # b /\ d # entry
  <2> DEFINE R == Reach(g, {entry})
             X == {x \in R : ~Dominates(g, entry, d, x) /\ ~Dominates(g, entry, b, x)}
  <2>1. R \in SUBSET DOMAIN g /\ entry \in R /\ Closed(g, R)
    BY ReachIsLeastClosed
  <2>2. entry \in X
    BY <1>2, <2>1, EntryDominated
  <2>3. d \notin X /\ b \notin X
    BY DEF Dominates
  <2>4. ASSUME NEW x \in X, NEW y \in g[x], y # d PROVE y \in X
    <3>1. x \in DOMAIN g /\ y \in R
      BY <2>1, <2>4 DEF Closed
    <3>2. y # b
      OBVIOUS
    <3>3. ~Dominates(g, entry, d, y) /\ ~Dominates(g, entry, b, y)
      BY <2>4, <3>1, <3>2, DominatesBefore
    <3> QED
      BY <3>1, <3>3
  <2>5. LeftThrough(g, entry, d, X)
    <3>1. X \subseteq DOMAIN g
      BY <2>1
    <3> HIDE DEF X
    <3> QED
      BY <2>2, <2>3, <2>4, <3>1 DEF LeftThrough
  <2> HIDE DEF X
  <2> QED
    BY <2>3, <2>5, OutsideIsDominated
<1> QED
  BY <1>1, <1>2

(* A block that can be reached can be reached from one that has not passed *)
(* it.                                                                     *)
LEMMA ReachedFromOutside ==
  ASSUME NEW g, IsGraph(g), NEW entry \in DOMAIN g, NEW b \in Reach(g, {entry}), b # entry
  PROVE  \E p \in Reach(g, {entry}) : b \in g[p] /\ ~Dominates(g, entry, b, p)
<1> SUFFICES ASSUME \A p \in Reach(g, {entry}) : b \in g[p] => Dominates(g, entry, b, p)
             PROVE  FALSE
  OBVIOUS
<1> DEFINE R == Reach(g, {entry})
           X == {x \in R : ~Dominates(g, entry, b, x)}
<1>1. R \in SUBSET DOMAIN g /\ entry \in R /\ Closed(g, R)
  BY ReachIsLeastClosed
<1>2. entry \in X
  BY <1>1, EntryDominated
<1>3. ASSUME NEW x \in X, NEW y \in g[x] PROVE y \in X
  <2>1. x \in DOMAIN g /\ y \in R
    BY <1>1, <1>3 DEF Closed
  <2>2. y # b
    OBVIOUS
  <2>3. ~Dominates(g, entry, b, y)
    BY <1>3, <2>1, <2>2, DominatesBefore
  <2> QED
    BY <2>1, <2>3
<1>4. b \notin X
  BY DEF Dominates
<1> HIDE DEF X
<1>5. Closed(g, X) /\ {entry} \subseteq X
  BY <1>2, <1>3 DEF Closed
<1>6. R \subseteq X
  BY <1>5, ReachIsLeastClosed
<1> QED
  BY <1>4, <1>6
=============================================================================
