----------------------------- MODULE ScopesProofs -----------------------------
(***************************************************************************)
(* Names: for programs of any size and nesting, a name means the same to   *)
(* the verifier, to C and to the generator, which finds its storage.       *)
(***************************************************************************)
EXTENDS Scopes, TLAPS, SequenceTheorems, WellFoundedInduction

-----------------------------------------------------------------------------
(* The last of some indices. *)
LEMMA LastIs ==
  ASSUME NEW n \in Nat, NEW has \in SUBSET (1..n), has # {}
  PROVE  Last(has) \in has /\ \A j \in has : j <= Last(has)
<1> DEFINE T == {n - i : i \in has}
<1>1. T \subseteq Nat /\ T # {}
  <2>1. \A i \in 1..n : n - i \in Nat
    OBVIOUS
  <2>2. PICK i \in has : TRUE
    OBVIOUS
  <2>3. n - i \in T
    OBVIOUS
  <2> QED
    BY <2>1, <2>3
<1>2. IsWellFoundedOn(OpToRel(<, Nat), Nat)
  BY NatLessThanWellFounded
<1>3. PICK x \in T : \A y \in T : ~(<<y, x>> \in OpToRel(<, Nat))
  <2> HIDE DEF T
  <2> QED
    BY <1>1, <1>2, WFMin
<1>4. \A y \in T : ~(y < x)
  BY <1>1, <1>3 DEF OpToRel
<1>5. PICK i \in has : x = n - i
  OBVIOUS
<1>6. \A j \in has : j <= i
  <2> SUFFICES ASSUME NEW j \in has PROVE j <= i
    OBVIOUS
  <2>1. n - j \in T
    OBVIOUS
  <2> QED
    BY <1>4, <1>5, <2>1
<1>7. \E k \in has : \A j \in has : j <= k
  BY <1>6
<1> QED
  BY <1>7, Zenon DEF Last

-----------------------------------------------------------------------------
Tables == [Names -> Types \cup {NoType}]
Events == [op : {"declare", "refer"}, chain : Seq(Nat), name : Names, found : Nat,
           type : Types \cup {NoType}]

(* The scopes around a node, outermost first. *)
Chain(c) ==
  /\ c \in Seq(Nat)
  /\ Len(c) >= 1
  /\ c[1] = program
  /\ \A k \in 1..Len(c) : c[k] \in 1..Len(table)

(* Scopes are nested: what is around a scope does not depend on the node. *)
Agree(c, d) ==
  \A k \in 1..Len(c), l \in 1..Len(d) :
    c[k] = d[l] => k = l /\ \A i \in 1..k : c[i] = d[i]

(* Chains that meet in a scope agree up to there. *)
LEMMA AgreeAt ==
  ASSUME NEW c, NEW d, Agree(c, d), NEW k \in 1..Len(c), NEW l \in 1..Len(d), c[k] = d[l]
  PROVE  k = l /\ \A i \in 1..k : c[i] = d[i]
  BY DEF Agree

Typed ==
  /\ table \in Seq(Tables)
  /\ statements \in BOOLEAN /\ errors \in BOOLEAN /\ pos \in Nat
  /\ walk \in Seq(Events)
  /\ Chain(path)
  /\ \A i \in 1..Len(walk) : Chain(walk[i].chain)

(* Scopes are nested, and a scope that has been left is never entered      *)
(* again.                                                                  *)
Nested ==
  /\ Agree(path, path)
  /\ \A i \in 1..Len(walk) : Agree(walk[i].chain, path)
  /\ \A i \in 1..Len(walk), j \in 1..Len(walk) :
       i <= j => Agree(walk[i].chain, walk[j].chain)
  /\ \A i \in 1..Len(walk), j \in 1..Len(walk), s \in Nat :
       i < j /\ In(s, walk[i].chain) /\ ~In(s, walk[j].chain) => ~In(s, path)
  /\ \A i \in 1..Len(walk), j \in 1..Len(walk), l \in 1..Len(walk), s \in Nat :
       i < j /\ j < l /\ In(s, walk[i].chain) /\ ~In(s, walk[j].chain)
         => ~In(s, walk[l].chain)

(* The tables hold the declarations that have been visited, each in the    *)
(* innermost scope around it.                                              *)
Recorded ==
  /\ \A s \in 1..Len(table), n \in Names : table[s][n] # NoType =>
       \E d \in 1..Len(walk) : Declares(d) /\ walk[d].found = s /\ walk[d].name = n
  /\ \A d \in 1..Len(walk) : Declares(d) =>
       /\ walk[d].found = walk[d].chain[Len(walk[d].chain)]
       /\ table[walk[d].found][walk[d].name] # NoType
       /\ ~errors => table[walk[d].found][walk[d].name] = walk[d].type

(* No reference has yet been seen in a scope that can still get            *)
(* declarations, but for the program.                                      *)
DeclarationsFirst ==
  ~statements /\ Innermost # program =>
    \A i \in 1..Len(walk) : Refers(i) => ~In(Innermost, walk[i].chain)

(* What a reference has found is still what it finds. *)
Found ==
  ~errors => \A i \in 1..Len(walk) : Refers(i) =>
    /\ Having(walk[i].chain, walk[i].name) # {}
    /\ Locate(walk[i].chain, walk[i].name) = walk[i].found
    /\ walk[i].found \in 1..Len(table)
    /\ table[walk[i].found][walk[i].name] = walk[i].type
    /\ \E d \in 1..(i - 1) :
         Declares(d) /\ walk[d].found = walk[i].found /\ walk[d].name = walk[i].name

(* The generator has the storage of what is referred to, or is still to    *)
(* visit its declaration.                                                  *)
Stored ==
  pos >= 1 =>
    /\ ~errors
    /\ storage \in [1..Len(table) -> Tables]
    /\ \A s \in 1..Len(table), n \in Names : storage[s][n] \in {NoType, table[s][n]}
    /\ \A i \in pos..Len(walk) : Refers(i) =>
         \/ storage[walk[i].found][walk[i].name] = walk[i].type
         \/ \E d \in pos..(i - 1) :
              Declares(d) /\ walk[d].found = walk[i].found /\ walk[d].name = walk[i].name

ScopesInv ==
  Typed /\ Nested /\ Recorded /\ DeclarationsFirst /\ Found /\ Stored /\ MeansLikeInC

-----------------------------------------------------------------------------
(* The scope of the program, without declarations. *)
LEMMA InitScopesInv == ScopesInit => ScopesInv
<1> SUFFICES ASSUME ScopesInit PROVE ScopesInv
  OBVIOUS
<1>1. EmptyTable \in Tables
  BY DEF EmptyTable, Tables
<1>2. table \in Seq(Tables) /\ Len(table) = 1 /\ table[1] = EmptyTable
  BY <1>1 DEF ScopesInit
<1>3. walk \in Seq(Events) /\ Len(walk) = 0 /\ DOMAIN walk = {}
  BY DEF ScopesInit
<1>4. path \in Seq(Nat) /\ Len(path) = 1 /\ path[1] = 1
  BY DEF ScopesInit, program
<1>5. Typed
  <2>1. Chain(path)
    BY <1>2, <1>4 DEF Chain, program
  <2>2. statements \in BOOLEAN /\ errors \in BOOLEAN /\ pos \in Nat
    BY DEF ScopesInit
  <2> QED
    BY <2>1, <2>2, <1>2, <1>3 DEF Typed
<1>6. Nested
  BY <1>3, <1>4 DEF Nested, Agree
<1>7. Recorded
  BY <1>2, <1>3 DEF Recorded, EmptyTable
<1>8. DeclarationsFirst /\ Found
  BY <1>3 DEF DeclarationsFirst, Found
<1>9. Stored /\ MeansLikeInC
  BY <1>3 DEF Stored, MeansLikeInC, ScopesInit
<1> QED
  BY <1>5, <1>6, <1>7, <1>8, <1>9 DEF ScopesInv

-----------------------------------------------------------------------------
(* The first walk, one action at a time. *)
LEMMA Walked ==
  ASSUME Typed, NEW e \in Events, walk' = Append(walk, e)
  PROVE  /\ walk' \in Seq(Events)
         /\ Len(walk') = Len(walk) + 1
         /\ \A i \in 1..Len(walk) : walk'[i] = walk[i]
         /\ walk'[Len(walk) + 1] = e
         /\ DOMAIN walk' = 1..(Len(walk) + 1)
         /\ DOMAIN walk = 1..Len(walk)
  BY AppendProperties DEF Typed

(* The declarations and references recorded so far. *)
LEMMA EventFacts ==
  ASSUME Typed, NEW i \in 1..Len(walk)
  PROVE  /\ walk[i] \in Events
         /\ walk[i].op \in {"declare", "refer"} /\ walk[i].name \in Names
         /\ walk[i].chain \in Seq(Nat) /\ DOMAIN walk[i].chain = 1..Len(walk[i].chain)
         /\ Len(walk[i].chain) \in Nat
         /\ Chain(walk[i].chain)
<1>1. walk[i] \in Events
  BY ElementOfSeq DEF Typed
<1>2. Chain(walk[i].chain)
  BY DEF Typed
<1> QED
  BY <1>1, <1>2 DEF Events

(* The scope that is open. *)
LEMMA InnermostFacts ==
  ASSUME Typed
  PROVE  /\ Len(path) \in Nat \ {0} /\ path \in Seq(Nat) /\ DOMAIN path = 1..Len(path)
         /\ Innermost \in 1..Len(table) /\ Innermost \in Nat /\ In(Innermost, path)
         /\ Len(table) \in Nat /\ Len(walk) \in Nat
         /\ table[Innermost] \in Tables
<1>1. Len(path) \in Nat /\ Len(path) >= 1 /\ path \in Seq(Nat)
  BY DEF Typed, Chain
<1>2. Innermost \in 1..Len(table)
  BY <1>1 DEF Typed, Chain, Innermost
<1>3. Len(table) \in Nat /\ Len(walk) \in Nat
  BY DEF Typed
<1>4. table[Innermost] \in Tables
  BY <1>2, ElementOfSeq DEF Typed
<1>5. In(Innermost, path)
  BY <1>1 DEF In, Innermost
<1> QED
  BY <1>1, <1>2, <1>3, <1>4, <1>5

(* A declaration or reference opens no scope. *)
LEMMA VisitedKeepsNested ==
  ASSUME Typed, Nested, NEW e \in Events, e.chain = path,
         walk' = Append(walk, e), path' = path
  PROVE  Nested'
<1> DEFINE L == Len(walk)
<1>1. L \in Nat /\ Len(walk') = L + 1 /\ walk'[L + 1].chain = path
  BY Walked, InnermostFacts
<1>2. \A i \in 1..L : walk'[i] = walk[i]
  BY Walked
<1>3. \A i \in 1..(L + 1) : i \in 1..L \/ i = L + 1
  BY <1>1
<1>4. Agree(path, path) /\ \A i \in 1..L : Agree(walk[i].chain, path)
  BY DEF Nested
<1>5. \A i \in 1..(L + 1) : Agree(walk'[i].chain, path')
  BY <1>1, <1>2, <1>3, <1>4
<1>6. \A i \in 1..(L + 1), j \in 1..(L + 1) : i <= j => Agree(walk'[i].chain, walk'[j].chain)
  <2> SUFFICES ASSUME NEW i \in 1..(L + 1), NEW j \in 1..(L + 1), i <= j
               PROVE  Agree(walk'[i].chain, walk'[j].chain)
    OBVIOUS
  <2>1. CASE j = L + 1
    BY <2>1, <1>1, <1>5
  <2>2. CASE j \in 1..L
    <3>1. i \in 1..L
      BY <2>2, <1>1
    <3> QED
      BY <2>2, <3>1, <1>2 DEF Nested
  <2> QED
    BY <2>1, <2>2, <1>3
<1>7. \A i \in 1..(L + 1), j \in 1..(L + 1), s \in Nat :
        i < j /\ In(s, walk'[i].chain) /\ ~In(s, walk'[j].chain) => ~In(s, path')
  <2> SUFFICES ASSUME NEW i \in 1..(L + 1), NEW j \in 1..(L + 1), NEW s \in Nat,
                      i < j, In(s, walk'[i].chain), ~In(s, walk'[j].chain)
               PROVE  ~In(s, path)
    OBVIOUS
  <2>1. CASE j = L + 1
    BY <2>1, <1>1
  <2>2. CASE j \in 1..L
    <3>1. i \in 1..L
      BY <2>2, <1>1
    <3> QED
      BY <2>2, <3>1, <1>2 DEF Nested
  <2> QED
    BY <2>1, <2>2, <1>3
<1>8. \A i \in 1..(L + 1), j \in 1..(L + 1), l \in 1..(L + 1), s \in Nat :
        i < j /\ j < l /\ In(s, walk'[i].chain) /\ ~In(s, walk'[j].chain)
          => ~In(s, walk'[l].chain)
  <2> SUFFICES ASSUME NEW i \in 1..(L + 1), NEW j \in 1..(L + 1), NEW l \in 1..(L + 1),
                      NEW s \in Nat, i < j, j < l,
                      In(s, walk'[i].chain), ~In(s, walk'[j].chain)
               PROVE  ~In(s, walk'[l].chain)
    OBVIOUS
  <2>1. i \in 1..L /\ j \in 1..L
    BY <1>1
  <2>2. CASE l = L + 1
    BY <2>2, <1>1, <1>7
  <2>3. CASE l \in 1..L
    BY <2>1, <2>3, <1>2 DEF Nested
  <2> QED
    BY <2>2, <2>3, <1>3
<1> QED
  BY <1>1, <1>4, <1>5, <1>6, <1>7, <1>8 DEF Nested

(* Declarations and uses that have been visited keep their meaning. *)
LEMMA SameVisible ==
  ASSUME Typed, NEW i \in 1..Len(walk), \A j \in 1..Len(walk) : walk'[j] = walk[j]
  PROVE  Visible(i)' = Visible(i)
<1>1. \A d \in 1..(i - 1) : walk'[d] = walk[d]
  BY InnermostFacts
<1>2. walk'[i] = walk[i]
  OBVIOUS
<1> QED
  BY <1>1, <1>2 DEF Visible, Declares

(* What was seen before keeps its meaning. *)
LEMMA SameMeaning ==
  ASSUME Typed, MeansLikeInC, ~errors, NEW i \in 1..Len(walk), Refers(i),
         \A j \in 1..Len(walk) : walk'[j] = walk[j]
  PROVE  /\ Visible(i)' # {}
         /\ walk'[i].found = walk'[Last(Visible(i)')].found
         /\ walk'[i].type = walk'[Last(Visible(i)')].type
<1>1. Visible(i)' = Visible(i)
  BY SameVisible
<1>2. Visible(i) # {} /\ walk[i].found = walk[Last(Visible(i))].found
      /\ walk[i].type = walk[Last(Visible(i))].type
  BY DEF MeansLikeInC, Typed
<1>3. Last(Visible(i)) \in 1..Len(walk)
  <2>1. i - 1 \in Nat /\ Visible(i) \in SUBSET (1..(i - 1))
    BY InnermostFacts DEF Visible
  <2>2. Last(Visible(i)) \in Visible(i)
    BY <2>1, <1>2, LastIs
  <2> QED
    BY <2>1, <2>2, InnermostFacts
<1>4. walk'[Last(Visible(i))] = walk[Last(Visible(i))] /\ walk'[i] = walk[i]
  BY <1>3
<1> QED
  BY <1>1, <1>2, <1>4, Zenon

(* The verifier visits a declaration. *)
LEMMA DeclareKeepsInv ==
  ASSUME ScopesInv, NEW n \in Names, NEW t \in Types, VisitVarDecl(n, t)
  PROVE  ScopesInv'
<1> DEFINE e == [op |-> "declare", chain |-> path, name |-> n, found |-> Innermost, type |-> t]
           L == Len(walk)
           entry == table[Innermost]
<1>0. Typed /\ Nested /\ Recorded /\ DeclarationsFirst /\ Found /\ MeansLikeInC
  BY DEF ScopesInv
<1>1. /\ pos = 0 /\ pos' = 0 /\ path' = path /\ statements' = statements /\ ~statements
      /\ walk' = Append(walk, e) /\ table' = [table EXCEPT ![Innermost] = Insert(@, n, t)]
      /\ errors' = (errors \/ entry[n] # NoType) /\ Innermost' = Innermost
  BY DEF VisitVarDecl, Visited, Innermost
<1>2. e \in Events
  BY <1>0, InnermostFacts DEF Events
<1>3. /\ walk' \in Seq(Events) /\ Len(walk') = L + 1 /\ L \in Nat
      /\ \A i \in 1..L : walk'[i] = walk[i]
      /\ walk'[L + 1] = e
      /\ DOMAIN walk' = 1..(L + 1)
  BY <1>0, <1>1, <1>2, Walked, InnermostFacts
<1>4. t # NoType
  BY ScopesAssumption
<1>5. /\ Insert(entry, n, t) \in Tables
      /\ Insert(entry, n, t)[n] = (IF entry[n] = NoType THEN t ELSE entry[n])
      /\ \A m \in Names : m # n => Insert(entry, n, t)[m] = entry[m]
  <2>1. entry \in Tables
    BY <1>0, InnermostFacts
  <2> QED
    BY <2>1 DEF Insert, Tables
<1>6. /\ table' \in Seq(Tables) /\ Len(table') = Len(table)
      /\ \A s \in 1..Len(table) : s # Innermost => table'[s] = table[s]
      /\ table'[Innermost] = Insert(entry, n, t)
  BY <1>0, <1>1, <1>5, InnermostFacts DEF Typed
<1>7. \A s \in 1..Len(table), m \in Names :
        \/ table'[s][m] = table[s][m]
        \/ s = Innermost /\ m = n /\ table[s][m] = NoType /\ table'[s][m] = t
  BY <1>5, <1>6
<1>8. table'[Innermost][n] # NoType /\ (~errors' => table'[Innermost][n] = t)
  BY <1>1, <1>4, <1>5, <1>6
<1>9. \A i \in 1..(L + 1) : i \in 1..L \/ i = L + 1
  BY <1>3
<1> HIDE DEF e, L, entry
<1>10. Typed'
  <2>1. \A i \in 1..(L + 1) : Chain(walk'[i].chain)
    <3>1. \A i \in 1..L : Chain(walk[i].chain)
      BY <1>0 DEF Typed, L
    <3>2. Chain(e.chain)
      BY <1>0 DEF Typed, e
    <3> QED
      BY <1>3, <1>9, <3>1, <3>2
  <2>2. \A i \in 1..Len(walk') : Chain(walk[i].chain)'
    BY <2>1, <1>3, <1>6 DEF Chain
  <2>3. Chain(path)'
    BY <1>0, <1>1, <1>6 DEF Typed, Chain
  <2>4. errors' \in BOOLEAN /\ statements' \in BOOLEAN /\ pos' \in Nat
    BY <1>0, <1>1 DEF Typed
  <2> QED
    BY <2>2, <2>3, <2>4, <1>3, <1>6 DEF Typed
<1>11. Nested'
  <2>1. e.chain = path
    BY DEF e
  <2> QED
    BY <1>0, <1>1, <1>2, <2>1, VisitedKeepsNested
<1>12. Recorded'
  <2>1. ASSUME NEW s \in 1..Len(table), NEW m \in Names, table'[s][m] # NoType
        PROVE  \E d \in 1..(L + 1) : Declares(d)' /\ walk'[d].found = s /\ walk'[d].name = m
    <3>1. CASE table'[s][m] = table[s][m]
      <4>1. PICK d \in 1..L : Declares(d) /\ walk[d].found = s /\ walk[d].name = m
        BY <3>1, <2>1, <1>0 DEF Recorded, L
      <4>2. d \in 1..(L + 1)
        BY <1>3
      <4> QED
        BY <4>1, <4>2, <1>3 DEF Declares
    <3>2. CASE s = Innermost /\ m = n
      <4>1. L + 1 \in 1..(L + 1)
        BY <1>3
      <4> QED
        BY <4>1, <3>2, <1>3 DEF Declares, e
    <3> QED
      BY <3>1, <3>2, <1>7
  <2>2. ASSUME NEW d \in 1..(L + 1), Declares(d)'
        PROVE  /\ walk'[d].found = walk'[d].chain[Len(walk'[d].chain)]
               /\ table'[walk'[d].found][walk'[d].name] # NoType
               /\ ~errors' => table'[walk'[d].found][walk'[d].name] = walk'[d].type
    <3>1. CASE d = L + 1
      <4>1. walk'[d].found = Innermost /\ walk'[d].chain = path /\ walk'[d].name = n
            /\ walk'[d].type = t
        BY <3>1, <1>3 DEF e
      <4> QED
        BY <4>1, <1>8 DEF Innermost
    <3>2. CASE d \in 1..L
      <4>1. walk'[d] = walk[d] /\ Declares(d)
        BY <2>2, <3>2, <1>3 DEF Declares
      <4>2. /\ walk[d].found = walk[d].chain[Len(walk[d].chain)]
            /\ table[walk[d].found][walk[d].name] # NoType
            /\ ~errors => table[walk[d].found][walk[d].name] = walk[d].type
        BY <4>1, <3>2, <1>0 DEF Recorded, L
      <4>3. walk[d].found \in 1..Len(table) /\ walk[d].name \in Names
        BY <4>2, <3>2, <1>0, EventFacts DEF Chain, L
      <4>4. table'[walk[d].found][walk[d].name] = table[walk[d].found][walk[d].name]
        BY <4>2, <4>3, <1>7
      <4> QED
        BY <4>1, <4>2, <4>4, <1>1
    <3> QED
      BY <3>1, <3>2, <1>9
  <2> QED
    BY <2>1, <2>2, <1>3, <1>6 DEF Recorded
<1>13. DeclarationsFirst'
  <2>1. \A i \in 1..(L + 1) : Refers(i)' => i \in 1..L /\ Refers(i) /\ walk'[i] = walk[i]
    BY <1>3, <1>9 DEF Refers, e
  <2> QED
    BY <2>1, <1>0, <1>1, <1>3 DEF DeclarationsFirst, L
<1>14. Found'
  <2> SUFFICES ASSUME ~errors', NEW i \in 1..(L + 1), Refers(i)'
               PROVE  /\ Having(walk[i].chain, walk[i].name)' # {}
                      /\ Locate(walk[i].chain, walk[i].name)' = walk'[i].found
                      /\ walk'[i].found \in 1..Len(table)
                      /\ table'[walk'[i].found][walk'[i].name] = walk'[i].type
                      /\ \E d \in 1..(i - 1) :
                           Declares(d)' /\ walk'[d].found = walk'[i].found
                           /\ walk'[d].name = walk'[i].name
    BY <1>3, <1>6 DEF Found
  <2>1. i \in 1..L /\ Refers(i) /\ walk'[i] = walk[i]
    BY <1>3, <1>9 DEF Refers, e
  <2> DEFINE c == walk[i].chain
             m == walk[i].name
             found == walk[i].found
  <2>2. ~errors /\ entry[n] = NoType
    BY <1>1
  <2>3. /\ Having(c, m) # {} /\ Locate(c, m) = found /\ found \in 1..Len(table)
        /\ table[found][m] = walk[i].type
        /\ \E d \in 1..(i - 1) : Declares(d) /\ walk[d].found = found /\ walk[d].name = m
    BY <2>1, <2>2, <1>0 DEF Found, L
  <2>4. /\ c \in Seq(Nat) /\ DOMAIN c = 1..Len(c) /\ Len(c) \in Nat /\ m \in Names
        /\ Chain(c)
    BY <2>1, <1>0, EventFacts DEF L
  <2>5. Last(Having(c, m)) \in Having(c, m) /\ \A k \in Having(c, m) : k <= Last(Having(c, m))
    BY <2>3, <2>4, LastIs DEF Having
  <2>6. Having(c, m) \subseteq Having(c, m)' /\ Having(c, m)' \subseteq Having(c, m) \cup {1}
    <3>1. ASSUME NEW k \in 1..Len(c)
          PROVE  /\ table[c[k]][m] # NoType => table'[c[k]][m] # NoType
                 /\ table'[c[k]][m] # NoType => table[c[k]][m] # NoType \/ k = 1
      <4>1. c[k] \in 1..Len(table)
        BY <2>4 DEF Chain
      <4>2. CASE table'[c[k]][m] = table[c[k]][m]
        BY <4>2
      <4>3. CASE c[k] = Innermost /\ m = n /\ table[c[k]][m] = NoType
        <5>1. In(Innermost, c)
          BY <4>3 DEF In
        <5>2. Innermost = program
          BY <5>1, <2>1, <1>0, <1>1 DEF DeclarationsFirst, L
        <5>3. c[1] = program /\ 1 \in 1..Len(c)
          BY <2>4 DEF Chain
        <5>4. Agree(c, c)
          BY <2>1, <1>0, <1>3 DEF Nested, L
        <5>5. k = 1
          BY <4>3, <5>2, <5>3, <5>4 DEF Agree
        <5> QED
          BY <5>5, <4>3
      <4> QED
        BY <4>1, <4>2, <4>3, <1>7, <2>4
    <3>2. c' = c /\ m' = m
      BY <2>1
    <3>3. Having(c, m)' = {k \in 1..Len(c) : table'[c[k]][m] # NoType}
      BY <3>2, <2>4 DEF Having
    <3>4. Having(c, m) = {k \in 1..Len(c) : table[c[k]][m] # NoType}
      BY <2>4 DEF Having
    <3> QED
      BY <3>1, <3>3, <3>4
  <2>7. Having(c, m)' # {} /\ Having(c, m)' \in SUBSET (1..Len(c))
    <3>1. Having(c, m) \in SUBSET (1..Len(c)) /\ 1 \in 1..Len(c)
      BY <2>4 DEF Having, Chain
    <3> QED
      BY <2>3, <2>6, <3>1
  <2>8. /\ Last(Having(c, m)') \in Having(c, m)'
        /\ \A k \in Having(c, m)' : k <= Last(Having(c, m)')
    BY <2>4, <2>7, LastIs
  <2>9. Last(Having(c, m)') = Last(Having(c, m))
    <3> DEFINE l == Last(Having(c, m))
               r == Last(Having(c, m)')
    <3>1. l \in 1..Len(c) /\ r \in 1..Len(c)
      BY <2>5, <2>7, <2>8, <2>6
    <3>2. l <= r
      BY <2>5, <2>6, <2>8
    <3>3. r <= l
      <4>1. CASE r \in Having(c, m)
        BY <4>1, <2>5
      <4>2. CASE r = 1
        BY <4>2, <3>1, <2>4
      <4> QED
        BY <4>1, <4>2, <2>6, <2>8
    <3> HIDE DEF l, r
    <3>4. l = r
      BY <3>1, <3>2, <3>3, <2>4
    <3> QED
      BY <3>4 DEF l, r
  <2>10. Locate(c, m)' = c'[Last(Having(c, m)')]
    BY <2>7 DEF Locate
  <2>11. Locate(walk[i].chain, walk[i].name)' = found
    <3>1. c' = c /\ m' = m
      BY <2>1
    <3>2. Locate(c, m) = c[Last(Having(c, m))]
      BY <2>3 DEF Locate
    <3> QED
      BY <3>1, <3>2, <2>3, <2>9, <2>10
  <2>12. table'[found][m] = table[found][m]
    <3>1. table[found][m] # NoType
      BY <2>3, <2>5, <2>4 DEF Locate, Having
    <3> QED
      BY <3>1, <2>3, <2>4, <1>7
  <2>13. \E d \in 1..(i - 1) : Declares(d)' /\ walk'[d].found = found /\ walk'[d].name = m
    <3>1. PICK d \in 1..(i - 1) : Declares(d) /\ walk[d].found = found /\ walk[d].name = m
      BY <2>3
    <3>2. walk'[d] = walk[d]
      BY <2>1, <1>3
    <3> QED
      BY <3>1, <3>2 DEF Declares
  <2> QED
    BY <2>1, <2>3, <2>7, <2>11, <2>12, <2>13
<1>15. MeansLikeInC'
  <2> SUFFICES ASSUME ~errors', NEW i \in 1..(L + 1), Refers(i)'
               PROVE  /\ Visible(i)' # {}
                      /\ walk'[i].found = walk'[Last(Visible(i)')].found
                      /\ walk'[i].type = walk'[Last(Visible(i)')].type
    BY <1>3 DEF MeansLikeInC
  <2>1. i \in 1..L /\ Refers(i)
    BY <1>3, <1>9 DEF Refers, e
  <2>2. ~errors
    BY <1>1
  <2> QED
    BY <2>1, <2>2, <1>0, <1>3, SameMeaning DEF L
<1>16. Stored'
  BY <1>1 DEF Stored
<1> QED
  BY <1>10, <1>11, <1>12, <1>13, <1>14, <1>15, <1>16 DEF ScopesInv

(* To open or close a scope changes only which scopes are open. *)
LEMMA PathKeepsInv ==
  ASSUME ScopesInv, UNCHANGED <<walk, errors>>, pos' = 0, statements' \in BOOLEAN,
         table' \in Seq(Tables), Len(table) <= Len(table'),
         \A s \in 1..Len(table) : table'[s] = table[s],
         \A s \in 1..Len(table'), n \in Names : s > Len(table) => table'[s][n] = NoType,
         Chain(path)', Agree(path', path'),
         \A i \in 1..Len(walk) : Agree(walk[i].chain, path'),
         \A s \in 1..Len(table) : In(s, path') => In(s, path),
         DeclarationsFirst'
  PROVE  ScopesInv'
<1>1. Typed /\ Nested /\ Recorded /\ Found /\ MeansLikeInC /\ walk' = walk
      /\ (errors' = errors) /\ Len(table) \in Nat /\ Len(table') \in Nat
  BY InnermostFacts DEF ScopesInv
<1>2. \A s \in 1..Len(table) : s \in 1..Len(table')
  BY <1>1
<1>3. Typed'
  <2>1. \A i \in 1..Len(walk) : Chain(walk[i].chain)'
    BY <1>1, <1>2 DEF Typed, Chain
  <2> QED
    BY <2>1, <1>1 DEF Typed
<1>4. Nested'
  <2>1. ASSUME NEW i \in 1..Len(walk), NEW j \in 1..Len(walk), NEW s \in Nat,
               i < j, In(s, walk[i].chain), ~In(s, walk[j].chain)
        PROVE  ~In(s, path')
    <3>1. s \in 1..Len(table)
      BY <2>1, <1>1, EventFacts DEF Chain, In
    <3>2. ~In(s, path)
      BY <2>1, <1>1 DEF Nested
    <3> QED
      BY <3>1, <3>2
  <2> QED
    BY <2>1, <1>1 DEF Nested
<1>5. Recorded'
  <2>1. ASSUME NEW s \in 1..Len(table'), NEW n \in Names, table'[s][n] # NoType
        PROVE  \E d \in 1..Len(walk) :
                 Declares(d)' /\ walk[d].found = s /\ walk[d].name = n
    <3>1. s \in 1..Len(table) /\ table[s][n] # NoType
      BY <2>1, <1>1
    <3> QED
      BY <3>1, <1>1 DEF Recorded, Declares
  <2>2. ASSUME NEW d \in 1..Len(walk), Declares(d)'
        PROVE  /\ walk[d].found = walk[d].chain[Len(walk[d].chain)]
               /\ table'[walk[d].found] = table[walk[d].found]
               /\ Declares(d)
    <3>1. Declares(d) /\ walk[d].found = walk[d].chain[Len(walk[d].chain)]
      BY <2>2, <1>1 DEF Declares, Recorded
    <3>2. walk[d].found \in 1..Len(table)
      BY <3>1, <1>1, EventFacts, SMTT(30) DEF Chain
    <3> QED
      BY <3>1, <3>2
  <2> QED
    BY <2>1, <2>2, <1>1 DEF Recorded
<1>6. Found'
  <2> SUFFICES ASSUME ~errors, NEW i \in 1..Len(walk), Refers(i)
               PROVE  /\ Having(walk[i].chain, walk[i].name)' # {}
                      /\ Locate(walk[i].chain, walk[i].name)' = walk[i].found
                      /\ walk[i].found \in 1..Len(table')
                      /\ table'[walk[i].found][walk[i].name] = walk[i].type
                      /\ \E d \in 1..(i - 1) :
                           Declares(d)' /\ walk[d].found = walk[i].found
                           /\ walk[d].name = walk[i].name
    BY <1>1 DEF Found, Refers
  <2>1. /\ Having(walk[i].chain, walk[i].name) # {}
        /\ Locate(walk[i].chain, walk[i].name) = walk[i].found
        /\ walk[i].found \in 1..Len(table)
        /\ table[walk[i].found][walk[i].name] = walk[i].type
        /\ \E d \in 1..(i - 1) :
             Declares(d) /\ walk[d].found = walk[i].found /\ walk[d].name = walk[i].name
    BY <1>1 DEF Found
  <2>2. Having(walk[i].chain, walk[i].name)' = Having(walk[i].chain, walk[i].name)
    <3>1. \A k \in 1..Len(walk[i].chain) : table'[walk[i].chain[k]] = table[walk[i].chain[k]]
      BY <1>1, EventFacts DEF Chain
    <3>2. DOMAIN walk[i].chain = 1..Len(walk[i].chain)
      BY <1>1, EventFacts
    <3> QED
      BY <3>1, <3>2, <1>1 DEF Having
  <2>3. Locate(walk[i].chain, walk[i].name)' = Locate(walk[i].chain, walk[i].name)
    BY <2>1, <2>2, <1>1 DEF Locate
  <2>4. \A d \in 1..(i - 1) : Declares(d)' = Declares(d)
    BY <1>1 DEF Declares
  <2> QED
    BY <2>1, <2>2, <2>3, <2>4, <1>2
<1>7. MeansLikeInC'
  <2>1. \A i \in DOMAIN walk : Visible(i)' = Visible(i)
    BY <1>1 DEF Visible, Declares
  <2>2. \A i \in DOMAIN walk : Refers(i)' = Refers(i)
    BY <1>1 DEF Refers
  <2> QED
    BY <2>1, <2>2, <1>1 DEF MeansLikeInC
<1>8. Stored'
  BY DEF Stored
<1> QED
  BY <1>3, <1>4, <1>5, <1>6, <1>7, <1>8 DEF ScopesInv

(* It enters a scope. *)
LEMMA ScopeKeepsInv ==
  ASSUME ScopesInv, VisitScope
  PROVE  ScopesInv'
<1> DEFINE N == Len(table) + 1
           K == Len(path)
<1>0. Typed /\ Nested /\ DeclarationsFirst
  BY DEF ScopesInv
<1>1. /\ pos' = 0 /\ statements' = FALSE /\ UNCHANGED <<walk, errors>>
      /\ table' = Append(table, EmptyTable) /\ path' = Append(path, N)
  BY DEF VisitScope
<1>2. EmptyTable \in Tables
  BY DEF EmptyTable, Tables
<1>3. /\ table' \in Seq(Tables) /\ Len(table') = N /\ N \in Nat /\ N > 1
      /\ Len(table) \in Nat /\ Len(table) <= N
      /\ \A s \in 1..Len(table) : table'[s] = table[s]
      /\ table'[N] = EmptyTable
  BY <1>0, <1>1, <1>2, InnermostFacts, AppendProperties DEF Typed
<1>4. /\ path' \in Seq(Nat) /\ Len(path') = K + 1 /\ K \in Nat \ {0}
      /\ \A k \in 1..K : path'[k] = path[k] /\ path[k] \in 1..Len(table)
      /\ path'[K + 1] = N /\ path[1] = program
  <2>1. path \in Seq(Nat) /\ K \in Nat \ {0} /\ path[1] = program
        /\ \A k \in 1..K : path[k] \in 1..Len(table)
    BY <1>0, InnermostFacts DEF Typed, Chain
  <2> QED
    BY <2>1, <1>1, <1>3, AppendProperties
<1> HIDE DEF N, K
<1>5. \A k \in 1..(K + 1) : k \in 1..K \/ k = K + 1
  BY <1>4
<1>6. \A k \in 1..K : path'[k] # N
  BY <1>3, <1>4 DEF N
<1>7. Chain(path)'
  <2>1. \A k \in 1..K : path'[k] \in 1..N
    BY <1>3, <1>4
  <2>2. path'[K + 1] \in 1..N
    BY <1>3, <1>4
  <2> QED
    BY <2>1, <2>2, <1>3, <1>4, <1>5 DEF Chain
<1>8. Agree(path', path')
  <2>1. Agree(path, path)
    BY <1>0 DEF Nested
  <2> SUFFICES ASSUME NEW k \in 1..(K + 1), NEW l \in 1..(K + 1), path'[k] = path'[l]
               PROVE  k = l
    BY <1>4 DEF Agree
  <2>2. CASE k \in 1..K /\ l \in 1..K
    BY <2>1, <2>2, <1>4 DEF Agree, K
  <2> QED
    BY <2>2, <1>4, <1>5, <1>6
<1>9. \A i \in 1..Len(walk) : Agree(walk[i].chain, path')
  <2> SUFFICES ASSUME NEW i \in 1..Len(walk),
                      NEW k \in 1..Len(walk[i].chain), NEW l \in 1..(K + 1),
                      walk[i].chain[k] = path'[l]
               PROVE  k = l /\ \A j \in 1..k : walk[i].chain[j] = path'[j]
    BY <1>4 DEF Agree
  <2>1. Agree(walk[i].chain, path)
    BY <1>0 DEF Nested
  <2>2. walk[i].chain[k] \in 1..Len(table)
    BY <1>0, EventFacts DEF Chain
  <2>3. l \in 1..K
    BY <2>2, <1>3, <1>4, <1>5 DEF N
  <2>4. k = l /\ \A j \in 1..k : walk[i].chain[j] = path[j]
    BY <2>1, <2>3, <1>4 DEF Agree, K
  <2> QED
    BY <2>3, <2>4, <1>4
<1>10. \A s \in 1..Len(table) : In(s, path') => In(s, path)
  BY <1>3, <1>4, <1>5 DEF In, K, N
<1>11. DeclarationsFirst'
  <2>1. Innermost' = N
    BY <1>4 DEF Innermost
  <2>2. \A i \in 1..Len(walk) : ~In(N, walk[i].chain)
    BY <1>0, <1>3, EventFacts DEF Chain, In, N
  <2> QED
    BY <2>1, <2>2, <1>1 DEF DeclarationsFirst, In
<1>12. \A s \in 1..Len(table'), n \in Names : s > Len(table) => table'[s][n] = NoType
  <2>1. \A s \in 1..Len(table') : s > Len(table) => s = N
    BY <1>0, <1>3, InnermostFacts DEF N
  <2> QED
    BY <2>1, <1>3 DEF EmptyTable
<1>13. Len(table) <= Len(table') /\ statements' \in BOOLEAN
  BY <1>1, <1>3
<1> QED
  BY <1>1, <1>3, <1>7, <1>8, <1>9, <1>10, <1>11, <1>12, <1>13, PathKeepsInv

(* It leaves one. *)
LEMMA LeaveKeepsInv ==
  ASSUME ScopesInv, LeaveScope
  PROVE  ScopesInv'
<1> DEFINE K == Len(path)
<1>0. Typed /\ Nested
  BY DEF ScopesInv
<1>1. /\ pos' = 0 /\ statements' = (K > 2) /\ UNCHANGED <<walk, errors, table>>
      /\ path' = SubSeq(path, 1, K - 1) /\ Innermost # program
  BY DEF LeaveScope
<1>2. K \in Nat \ {0} /\ path \in Seq(Nat) /\ path[1] = program
      /\ \A k \in 1..K : path[k] \in 1..Len(table)
  BY <1>0, InnermostFacts DEF Typed, Chain
<1>3. K > 1
  BY <1>1, <1>2 DEF Innermost
<1>4. /\ path' \in Seq(Nat) /\ Len(path') = K - 1
      /\ \A k \in 1..(K - 1) : path'[k] = path[k]
  <2>1. \A k \in 1..(K - 1) : path[k] \in Nat
    BY <1>2
  <2> QED
    BY <2>1, <1>1, <1>2, <1>3, SubSeqProperties
<1>5. \A k \in 1..(K - 1) : k \in 1..K
  BY <1>2
<1>6. Agree(path, path) /\ \A i \in 1..Len(walk) : Agree(walk[i].chain, path)
  BY <1>0 DEF Nested
<1> HIDE DEF K
<1>7. Chain(path)'
  BY <1>1, <1>2, <1>3, <1>4, <1>5 DEF Chain
<1>8. Agree(path', path')
  BY <1>2, <1>4, <1>5, <1>6 DEF Agree, K
<1>9. \A i \in 1..Len(walk) : Agree(walk[i].chain, path')
  <2> SUFFICES ASSUME NEW i \in 1..Len(walk),
                      NEW k \in 1..Len(walk[i].chain), NEW l \in 1..(K - 1),
                      walk[i].chain[k] = path'[l]
               PROVE  k = l /\ \A j \in 1..k : walk[i].chain[j] = path'[j]
    BY <1>4, SMTT(30) DEF Agree
  <2>0. Agree(walk[i].chain, path) /\ l \in 1..Len(path) /\ walk[i].chain[k] = path[l]
    BY <1>4, <1>5, <1>6 DEF K
  <2>1. k = l /\ \A j \in 1..k : walk[i].chain[j] = path[j]
    BY <2>0 DEF Agree
  <2>2. \A j \in 1..k : j \in 1..(K - 1)
    BY <2>1, <1>2
  <2> QED
    BY <2>1, <2>2, <1>4
<1>10. \A s \in 1..Len(table) : In(s, path') => In(s, path)
  BY <1>4, <1>5 DEF In, K
<1>11. DeclarationsFirst'
  <2>1. CASE K > 2
    BY <2>1, <1>1 DEF DeclarationsFirst
  <2>2. CASE K = 2
    <3>1. Innermost' = program
      BY <2>2, <1>2, <1>4 DEF Innermost
    <3> QED
      BY <3>1 DEF DeclarationsFirst, program
  <2> QED
    BY <2>1, <2>2, <1>2, <1>3
<1>12. table' \in Seq(Tables) /\ Len(table) <= Len(table') /\ statements' \in BOOLEAN
       /\ (\A s \in 1..Len(table) : table'[s] = table[s])
       /\ \A s \in 1..Len(table'), n \in Names : s > Len(table) => table'[s][n] = NoType
  BY <1>0, <1>1, InnermostFacts DEF Typed
<1> QED
  BY <1>1, <1>7, <1>8, <1>9, <1>10, <1>11, <1>12, PathKeepsInv

(* It visits a reference. *)
LEMMA ReferKeepsInv ==
  ASSUME ScopesInv, NEW n \in Names, VisitReference(n)
  PROVE  ScopesInv'
<1> DEFINE found == Locate(path, n)
           type == IF found = 0 THEN NoType ELSE table[found][n]
           e == [op |-> "refer", chain |-> path, name |-> n, found |-> found, type |-> type]
           L == Len(walk)
<1>0. Typed /\ Nested /\ Recorded /\ Found /\ MeansLikeInC
  BY DEF ScopesInv
<1>1. /\ pos = 0 /\ pos' = 0 /\ path' = path /\ table' = table /\ statements' = TRUE
      /\ walk' = Append(walk, e) /\ errors' = (errors \/ found = 0)
  BY DEF VisitReference, Visited
<1>2. /\ path \in Seq(Nat) /\ Len(path) \in Nat /\ DOMAIN path = 1..Len(path)
      /\ \A k \in 1..Len(path) : path[k] \in 1..Len(table)
  BY <1>0, InnermostFacts DEF Typed, Chain
<1>3. Having(path, n) \in SUBSET (1..Len(path))
      /\ \A k \in 1..Len(path) : table[path[k]][n] # NoType => k \in Having(path, n)
  BY <1>2 DEF Having
<1>4. ASSUME found # 0
      PROVE  /\ Having(path, n) # {}
             /\ Last(Having(path, n)) \in Having(path, n)
             /\ \A k \in Having(path, n) : k <= Last(Having(path, n))
             /\ found = path[Last(Having(path, n))] /\ found \in 1..Len(table)
             /\ table[found][n] # NoType
  <2>1. Having(path, n) # {} /\ found = path[Last(Having(path, n))]
    BY <1>4 DEF Locate
  <2>2. /\ Last(Having(path, n)) \in Having(path, n)
        /\ \A k \in Having(path, n) : k <= Last(Having(path, n))
    BY <2>1, <1>2, <1>3, LastIs
  <2>3. table[found][n] # NoType
    BY <2>1, <2>2 DEF Having
  <2> QED
    BY <2>1, <2>2, <2>3, <1>2, <1>3
<1>5. found \in Nat /\ type \in Types \cup {NoType}
  <2>1. CASE found = 0
    BY <2>1
  <2>2. CASE found # 0
    <3>1. found \in 1..Len(table) /\ Len(table) \in Nat
      BY <2>2, <1>0, <1>4, InnermostFacts
    <3>2. table[found] \in Tables
      BY <3>1, <1>0, ElementOfSeq DEF Typed
    <3> QED
      BY <2>2, <3>1, <3>2 DEF Tables
  <2> QED
    BY <2>1, <2>2
<1> HIDE DEF found, type
<1>6. e \in Events
  BY <1>2, <1>5 DEF Events
<1>7. /\ walk' \in Seq(Events) /\ Len(walk') = L + 1 /\ L \in Nat
      /\ \A i \in 1..L : walk'[i] = walk[i]
      /\ walk'[L + 1] = e
      /\ DOMAIN walk' = 1..(L + 1)
  BY <1>0, <1>1, <1>6, Walked, InnermostFacts
<1>8. \A i \in 1..(L + 1) : i \in 1..L \/ i = L + 1
  BY <1>7
<1>9. e.op = "refer" /\ e.chain = path /\ e.name = n /\ e.found = found /\ e.type = type
  OBVIOUS
<1> HIDE DEF e, L
<1>10. Typed'
  <2>1. \A i \in 1..L : Chain(walk[i].chain)
    BY <1>0 DEF Typed, L
  <2>2. Chain(path)
    BY <1>0 DEF Typed
  <2>3. \A i \in 1..(L + 1) : Chain(walk'[i].chain)
    BY <2>1, <2>2, <1>7, <1>8, <1>9
  <2>4. \A i \in 1..(L + 1) : Chain(walk[i].chain)'
    BY <2>3, <1>1 DEF Chain
  <2>5. Chain(path)'
    BY <2>2, <1>1 DEF Chain
  <2>6. errors' \in BOOLEAN /\ statements' \in BOOLEAN /\ pos' \in Nat
    BY <1>0, <1>1 DEF Typed
  <2>7. table' \in Seq(Tables)
    BY <1>0, <1>1 DEF Typed
  <2> QED
    BY <2>4, <2>5, <2>6, <2>7, <1>7 DEF Typed
<1>11. Nested'
  BY <1>0, <1>1, <1>6, <1>9, VisitedKeepsNested
<1>12. \A d \in 1..(L + 1) : Declares(d)' => d \in 1..L /\ Declares(d)
  BY <1>7, <1>8, <1>9 DEF Declares
<1>13. Recorded'
  <2>1. ASSUME NEW s \in 1..Len(table), NEW m \in Names, table[s][m] # NoType
        PROVE  \E d \in 1..(L + 1) : Declares(d)' /\ walk'[d].found = s /\ walk'[d].name = m
    <3>1. PICK d \in 1..L : Declares(d) /\ walk[d].found = s /\ walk[d].name = m
      BY <2>1, <1>0 DEF Recorded, L
    <3>2. d \in 1..(L + 1)
      BY <1>7
    <3> QED
      BY <3>1, <3>2, <1>7 DEF Declares
  <2>2. \A d \in 1..(L + 1) : Declares(d)' =>
          /\ walk'[d].found = walk'[d].chain[Len(walk'[d].chain)]
          /\ table[walk'[d].found][walk'[d].name] # NoType
          /\ ~errors' => table[walk'[d].found][walk'[d].name] = walk'[d].type
    BY <1>0, <1>1, <1>7, <1>12, ZenonT(30) DEF Recorded, L
  <2> QED
    BY <2>1, <2>2, <1>1, <1>7 DEF Recorded
<1>14. DeclarationsFirst'
  BY <1>1 DEF DeclarationsFirst
<1>15. Found'
  <2> SUFFICES ASSUME ~errors', NEW i \in 1..(L + 1), Refers(i)'
               PROVE  /\ Having(walk[i].chain, walk[i].name)' # {}
                      /\ Locate(walk[i].chain, walk[i].name)' = walk'[i].found
                      /\ walk'[i].found \in 1..Len(table)
                      /\ table[walk'[i].found][walk'[i].name] = walk'[i].type
                      /\ \E d \in 1..(i - 1) :
                           Declares(d)' /\ walk'[d].found = walk'[i].found
                           /\ walk'[d].name = walk'[i].name
    BY <1>1, <1>7 DEF Found
  <2>1. /\ Having(walk[i].chain, walk[i].name)' = Having(walk'[i].chain, walk'[i].name)
        /\ Locate(walk[i].chain, walk[i].name)' = Locate(walk'[i].chain, walk'[i].name)
    BY <1>1 DEF Locate, Having
  <2>2. CASE i \in 1..L
    <3>1. walk'[i] = walk[i] /\ Refers(i) /\ ~errors
      BY <2>2, <1>1, <1>7 DEF Refers
    <3>2. /\ Having(walk[i].chain, walk[i].name) # {}
          /\ Locate(walk[i].chain, walk[i].name) = walk[i].found
          /\ walk[i].found \in 1..Len(table)
          /\ table[walk[i].found][walk[i].name] = walk[i].type
          /\ \E d \in 1..(i - 1) :
               Declares(d) /\ walk[d].found = walk[i].found /\ walk[d].name = walk[i].name
      BY <2>2, <3>1, <1>0 DEF Found, L
    <3>3. \A d \in 1..(i - 1) : walk'[d] = walk[d] /\ Declares(d)' = Declares(d)
      BY <2>2, <1>7 DEF Declares
    <3> QED
      BY <2>1, <3>1, <3>2, <3>3
  <2>3. CASE i = L + 1
    <3>1. found # 0
      BY <1>1
    <3>2. walk'[i] = e
      BY <2>3, <1>7
    <3>3. PICK d \in 1..L : Declares(d) /\ walk[d].found = found /\ walk[d].name = n
      BY <3>1, <1>0, <1>4 DEF Recorded, L
    <3>4. d \in 1..(i - 1) /\ Declares(d)' /\ walk'[d] = walk[d]
      BY <2>3, <3>3, <1>7 DEF Declares
    <3>5. type = table[found][n]
      BY <3>1 DEF type
    <3>6. Locate(path, n) = found
      BY DEF found
    <3> QED
      BY <2>1, <3>1, <3>2, <3>3, <3>4, <3>5, <3>6, <1>4, <1>9
  <2> QED
    BY <2>2, <2>3, <1>8
<1>16. MeansLikeInC'
  <2> SUFFICES ASSUME ~errors', NEW i \in 1..(L + 1), Refers(i)'
               PROVE  /\ Visible(i)' # {}
                      /\ walk'[i].found = walk'[Last(Visible(i)')].found
                      /\ walk'[i].type = walk'[Last(Visible(i)')].type
    BY <1>7 DEF MeansLikeInC
  <2>1. CASE i \in 1..L
    <3>1. Refers(i) /\ ~errors
      BY <2>1, <1>1, <1>7 DEF Refers
    <3> QED
      BY <2>1, <3>1, <1>0, <1>7, SameMeaning DEF L
  <2>2. CASE i = L + 1
    <3> DEFINE V == {d \in 1..L : /\ Declares(d) /\ walk[d].name = n
                                  /\ In(walk[d].found, path)}
               v == Last(V)
               h == Last(Having(path, n))
    <3>1. Visible(i)' = V
      <4>1. walk'[i] = e /\ i - 1 = L
        BY <2>2, <1>7
      <4>2. \A d \in 1..L : Declares(d)' = Declares(d) /\ walk'[d] = walk[d]
        BY <1>7 DEF Declares
      <4> QED
        BY <4>1, <4>2, <1>9 DEF Visible
    <3>2. found # 0 /\ ~errors
      BY <1>1
    <3>3. h \in 1..Len(path) /\ found = path[h] /\ found \in Nat
          /\ \A k \in Having(path, n) : k <= h
      BY <3>2, <1>3, <1>4
    <3> HIDE DEF h
    <3>4. PICK d \in 1..L : Declares(d) /\ walk[d].found = found /\ walk[d].name = n
      BY <3>2, <1>0, <1>4 DEF Recorded, L
    <3>5. d \in V
      BY <3>3, <3>4 DEF In
    <3>6. v \in V /\ d <= v
      <4>1. V \in SUBSET (1..L) /\ V # {}
        BY <3>5
      <4> HIDE DEF V
      <4> QED
        BY <4>1, <3>5, <1>7, LastIs
    <3>7. v \in 1..L /\ Declares(v) /\ walk[v].name = n /\ In(walk[v].found, path)
      BY <3>6
    <3> HIDE DEF V, v
    <3>8. PICK k \in 1..Len(path) : path[k] = walk[v].found
      BY <3>7 DEF In
    <3>9. /\ walk[v].found = walk[v].chain[Len(walk[v].chain)]
          /\ table[path[k]][n] # NoType
          /\ table[path[k]][n] = walk[v].type
      BY <3>2, <3>7, <3>8, <1>0 DEF Recorded, L
    <3>10. k \in Having(path, n) /\ k <= h
      BY <3>3, <3>9, <1>3
    <3>11. k = h
      <4> SUFFICES ASSUME k # h PROVE FALSE
        OBVIOUS
      <4>1. k < h
        BY <3>3, <3>10, <1>2
      <4>2. Agree(path, path) /\ Agree(walk[v].chain, path)
        BY <3>7, <1>0 DEF Nested, L
      <4>3. d # v
        BY <3>3, <3>4, <3>8, <4>1, <4>2 DEF Agree
      <4>4. d < v
        BY <3>4, <3>6, <3>7, <4>3, <1>7
      <4>5. In(found, walk[d].chain)
        <5>1. /\ walk[d].found = walk[d].chain[Len(walk[d].chain)]
              /\ Len(walk[d].chain) \in Nat /\ Len(walk[d].chain) >= 1
          BY <3>4, <1>0, EventFacts DEF Recorded, Chain, L
        <5>2. Len(walk[d].chain) \in 1..Len(walk[d].chain)
          BY <5>1
        <5> QED
          BY <5>1, <5>2, <3>4 DEF In
      <4>6. Len(walk[v].chain) \in Nat /\ Len(walk[v].chain) >= 1
        BY <3>7, <1>0, EventFacts DEF Chain, L
      <4>7. Len(walk[v].chain) = k
        <5>1. Len(walk[v].chain) \in 1..Len(walk[v].chain)
          BY <4>6
        <5>2. walk[v].chain[Len(walk[v].chain)] = path[k]
          BY <3>8, <3>9
        <5> QED
          BY <4>2, <5>1, <5>2 DEF Agree
      <4>8. ~In(found, walk[v].chain)
        BY <4>1, <4>2, <4>7, <3>3, <1>2 DEF Agree, In
      <4>9. ~In(found, path)
        BY <3>3, <3>4, <3>7, <4>4, <4>5, <4>8, <1>0 DEF Nested, L
      <4> QED
        BY <4>9, <3>3 DEF In
    <3>12. walk'[i] = e /\ walk'[v] = walk[v]
      BY <2>2, <3>7, <1>7
    <3>13. type = table[found][n]
      BY <3>2 DEF type
    <3>14. found = walk[v].found /\ type = walk[v].type
      BY <3>3, <3>8, <3>9, <3>11, <3>13
    <3> QED
      BY <3>1, <3>5, <3>12, <3>14, <1>9 DEF v
  <2> QED
    BY <2>1, <2>2, <1>8
<1>17. Stored'
  BY <1>1 DEF Stored
<1> QED
  BY <1>10, <1>11, <1>13, <1>14, <1>15, <1>16, <1>17 DEF ScopesInv

-----------------------------------------------------------------------------
(* The second walk changes neither the tables nor what has been visited. *)
LEMMA SecondWalk ==
  ASSUME ScopesInv, UNCHANGED firstWalk, pos' \in Nat, Stored'
  PROVE  ScopesInv'
<1>1. /\ table' = table /\ path' = path /\ statements' = statements
      /\ walk' = walk /\ (errors' = errors)
  BY DEF firstWalk
<1>2. Typed'
  <2>1. \A i \in 1..Len(walk) : Chain(walk[i].chain)' = Chain(walk[i].chain)
    BY <1>1 DEF Chain
  <2>2. Chain(path)' = Chain(path)
    BY <1>1 DEF Chain
  <2> QED
    BY <2>1, <2>2, <1>1 DEF ScopesInv, Typed
<1>3. Nested'
  BY <1>1 DEF ScopesInv, Nested
<1>4. Recorded'
  BY <1>1 DEF ScopesInv, Recorded, Declares
<1>5. DeclarationsFirst'
  BY <1>1 DEF ScopesInv, DeclarationsFirst, Innermost, Refers
<1>6. Found'
  <2>1. \A i \in 1..Len(walk) : /\ Refers(i)' = Refers(i) /\ Declares(i)' = Declares(i)
                                /\ Having(walk[i].chain, walk[i].name)'
                                     = Having(walk[i].chain, walk[i].name)
    BY <1>1 DEF Refers, Declares, Having
  <2>2. \A i \in 1..Len(walk) : Locate(walk[i].chain, walk[i].name)'
                                = Locate(walk[i].chain, walk[i].name)
    BY <1>1, <2>1 DEF Locate
  <2>3. \A i \in 1..Len(walk) : \A d \in 1..(i - 1) : Declares(d)' = Declares(d)
    BY <1>1 DEF Declares
  <2> QED
    BY <2>1, <2>2, <2>3, <1>1 DEF ScopesInv, Found
<1>7. MeansLikeInC'
  <2>1. \A i \in DOMAIN walk : Visible(i)' = Visible(i)
    BY <1>1 DEF Visible, Declares
  <2>2. \A i \in DOMAIN walk : Refers(i)' = Refers(i)
    BY <1>1 DEF Refers
  <2> QED
    BY <2>1, <2>2, <1>1 DEF ScopesInv, MeansLikeInC
<1> QED
  BY <1>2, <1>3, <1>4, <1>5, <1>6, <1>7 DEF ScopesInv

(* The generator starts. *)
LEMMA StartKeepsInv ==
  ASSUME ScopesInv, StartGenerator
  PROVE  ScopesInv'
<1>0. Typed /\ Found
  BY DEF ScopesInv
<1>1. /\ ~errors /\ pos' = 1 /\ storage' = [s \in DOMAIN table |-> EmptyTable]
      /\ UNCHANGED firstWalk
  BY DEF StartGenerator
<1>2. table' = table /\ walk' = walk /\ (errors' = errors)
  BY <1>1 DEF firstWalk
<1>3. DOMAIN table = 1..Len(table)
  BY <1>0 DEF Typed
<1>4. EmptyTable \in Tables
  BY DEF EmptyTable, Tables
<1>5. storage' \in [1..Len(table) -> Tables]
  BY <1>1, <1>3, <1>4
<1>6. \A s \in 1..Len(table), n \in Names : storage'[s][n] = NoType
  BY <1>1, <1>3 DEF EmptyTable
<1>7. \A i \in 1..Len(walk) : Refers(i) =>
        \E d \in 1..(i - 1) :
          Declares(d) /\ walk[d].found = walk[i].found /\ walk[d].name = walk[i].name
  BY <1>0, <1>1 DEF Found
<1>8. Stored'
  BY <1>1, <1>2, <1>5, <1>6, <1>7 DEF Stored, Refers, Declares
<1> QED
  BY <1>1, <1>8, SecondWalk

(* It creates the storage of a variable. *)
LEMMA GenerateDeclKeepsInv ==
  ASSUME ScopesInv, GenerateVarDecl
  PROVE  ScopesInv'
<1> DEFINE n == walk[pos].name
           s0 == walk[pos].found
<1>0. Typed /\ Found /\ Recorded /\ Stored
  BY DEF ScopesInv
<1>1. /\ storage' = [storage EXCEPT ![s0][n] = table[s0][n]]
      /\ pos' = pos + 1 /\ UNCHANGED firstWalk /\ Declares(pos) /\ pos \in 1..Len(walk)
      /\ pos \in Nat /\ pos >= 1
  BY <1>0 DEF GenerateVarDecl, Generating, Declared, Declares, Typed
<1>2. /\ table' = table /\ walk' = walk /\ (errors' = errors) /\ Len(table) \in Nat
      /\ Len(walk) \in Nat
  BY <1>0, <1>1, InnermostFacts DEF firstWalk
<1>3. s0 \in 1..Len(table) /\ n \in Names /\ table[s0] \in Tables
  <2>1. walk[pos].found = walk[pos].chain[Len(walk[pos].chain)] /\ n \in Names
    BY <1>0, <1>1, EventFacts DEF Recorded
  <2>2. s0 \in 1..Len(table)
    BY <2>1, <1>0, <1>1, EventFacts DEF Chain
  <2> QED
    BY <2>1, <2>2, <1>0, ElementOfSeq DEF Typed
<1>4. /\ ~errors /\ storage \in [1..Len(table) -> Tables]
      /\ \A s \in 1..Len(table), m \in Names : storage[s][m] \in {NoType, table[s][m]}
  BY <1>0, <1>1 DEF Stored
<1> HIDE DEF n, s0
<1>5. \A s \in 1..Len(table), m \in Names :
        storage'[s][m] = IF s = s0 /\ m = n THEN table[s0][n] ELSE storage[s][m]
  BY <1>1, <1>3, <1>4 DEF Tables
<1>6. storage' \in [1..Len(table) -> Tables]
  BY <1>1, <1>3, <1>4 DEF Tables
<1>7. \A s \in 1..Len(table), m \in Names : storage'[s][m] \in {NoType, table[s][m]}
  BY <1>4, <1>5
<1>8. ASSUME NEW i \in (pos + 1)..Len(walk), Refers(i)
      PROVE  \/ storage'[walk[i].found][walk[i].name] = walk[i].type
             \/ \E d \in (pos + 1)..(i - 1) :
                  Declares(d) /\ walk[d].found = walk[i].found /\ walk[d].name = walk[i].name
  <2>1. i \in pos..Len(walk) /\ i \in 1..Len(walk)
    BY <1>1, <1>2
  <2>2. walk[i].found \in 1..Len(table) /\ walk[i].name \in Names
        /\ table[walk[i].found][walk[i].name] = walk[i].type
    BY <2>1, <1>0, <1>4, <1>8, EventFacts DEF Found
  <2>3. CASE storage[walk[i].found][walk[i].name] = walk[i].type
    BY <2>2, <2>3, <1>5
  <2>4. ASSUME NEW d \in pos..(i - 1), Declares(d), walk[d].found = walk[i].found,
               walk[d].name = walk[i].name
        PROVE  \/ storage'[walk[i].found][walk[i].name] = walk[i].type
               \/ d \in (pos + 1)..(i - 1)
    <3>1. CASE d = pos
      BY <3>1, <2>2, <2>4, <1>5 DEF n, s0
    <3>2. CASE d # pos
      BY <3>2, <2>1, <1>1
    <3> QED
      BY <3>1, <3>2
  <2> QED
    BY <2>1, <2>3, <2>4, <1>0, <1>1, <1>8 DEF Stored
<1>9. Stored'
  BY <1>1, <1>2, <1>4, <1>6, <1>7, <1>8 DEF Stored, Refers, Declares
<1> QED
  BY <1>1, <1>9, SecondWalk

(* Declarations that are still to come are not lost when the generator     *)
(* goes on to p, unless the references to them are skipped too.            *)
LEMMA SkipKeepsInv ==
  ASSUME ScopesInv, UNCHANGED <<firstWalk, storage>>, pos \in 1..Len(walk),
         NEW p \in (pos + 1)..(Len(walk) + 1), pos' = p,
         \A i \in p..Len(walk), d \in pos..(p - 1) :
           Refers(i) /\ Declares(d) => walk[d].found # walk[i].found
  PROVE  ScopesInv'
<1>0. Typed /\ Stored /\ Len(walk) \in Nat
  BY InnermostFacts DEF ScopesInv
<1>1. /\ table' = table /\ walk' = walk /\ (errors' = errors) /\ storage' = storage
      /\ UNCHANGED firstWalk /\ pos \in Nat /\ pos >= 1 /\ p \in Nat /\ p > pos
  BY <1>0 DEF firstWalk
<1>2. ASSUME NEW i \in p..Len(walk), Refers(i)
      PROVE  \/ storage[walk[i].found][walk[i].name] = walk[i].type
             \/ \E d \in p..(i - 1) :
                  Declares(d) /\ walk[d].found = walk[i].found /\ walk[d].name = walk[i].name
  <2>1. i \in pos..Len(walk)
    BY <1>1
  <2>2. ASSUME NEW d \in pos..(i - 1), Declares(d), walk[d].found = walk[i].found
        PROVE  d \in p..(i - 1)
    <3>1. d \notin pos..(p - 1)
      BY <2>2, <1>2
    <3> QED
      BY <3>1, <2>1, <1>1
  <2> QED
    BY <2>1, <2>2, <1>0, <1>1, <1>2 DEF Stored
<1>3. Stored'
  BY <1>0, <1>1, <1>2 DEF Stored, Refers, Declares
<1> QED
  BY <1>1, <1>3, SecondWalk

(* It visits a reference that is not skipped. *)
LEMMA GenerateReferenceKeepsInv ==
  ASSUME ScopesInv, GenerateReference
  PROVE  ScopesInv'
<1>0. Typed /\ Len(walk) \in Nat /\ pos \in Nat
  BY InnermostFacts DEF ScopesInv, Typed
<1>1. /\ pos \in 1..Len(walk) /\ ~Declares(pos) /\ pos' = pos + 1
      /\ UNCHANGED <<firstWalk, storage>>
  BY <1>0 DEF GenerateReference, Generating, Declares, Typed
<1>2. pos + 1 \in (pos + 1)..(Len(walk) + 1) /\ \A d \in pos..(pos + 1 - 1) : d = pos
  BY <1>0, <1>1
<1> QED
  BY <1>1, <1>2, SkipKeepsInv

(* A declaration that is skipped is in a scope that is not open at any     *)
(* reference behind the skipped part.                                      *)
LEMMA SkipRestKeepsInv ==
  ASSUME ScopesInv, NEW s \in DOMAIN table, SkipRest(s)
  PROVE  ScopesInv'
<1>0. Typed /\ Nested /\ Recorded /\ Found /\ Stored /\ Len(walk) \in Nat /\ pos \in Nat
      /\ s \in Nat
  BY InnermostFacts DEF ScopesInv, Typed
<1>1. pos \in 1..Len(walk) /\ UNCHANGED <<firstWalk, storage>> /\ DOMAIN walk = 1..Len(walk)
  BY <1>0 DEF SkipRest, Typed
<1>2. PICK p \in (pos + 1)..(Len(walk) + 1) :
        /\ \A i \in pos..(p - 1) : In(s, walk[i].chain)
        /\ p \in DOMAIN walk => ~In(s, walk[p].chain)
        /\ pos' = p
  BY DEF SkipRest
<1>3. ASSUME NEW i \in p..Len(walk), NEW d \in pos..(p - 1), Refers(i), Declares(d),
             walk[d].found = walk[i].found
      PROVE  FALSE
  <2>1. /\ p \in 1..Len(walk) /\ i \in 1..Len(walk) /\ d \in 1..Len(walk) /\ d < p
        /\ p <= i /\ d <= i
    BY <1>0, <1>1, <1>2
  <2>2. In(s, walk[d].chain) /\ ~In(s, walk[p].chain)
    BY <2>1, <1>1, <1>2
  <2>3. ~In(s, walk[i].chain)
    <3>1. CASE i = p
      BY <3>1, <2>2
    <3>2. CASE p < i
      BY <3>2, <2>1, <2>2, <1>0 DEF Nested
    <3> QED
      BY <3>1, <3>2, <2>1
  <2>4. /\ walk[d].found = walk[d].chain[Len(walk[d].chain)]
        /\ Len(walk[d].chain) \in Nat /\ Len(walk[d].chain) >= 1
    BY <1>0, <1>3, <2>1, EventFacts DEF Recorded, Chain
  <2>5. PICK k \in 1..Len(walk[i].chain) : walk[i].chain[k] = walk[i].found
    <3>1. ~errors /\ Having(walk[i].chain, walk[i].name) # {}
          /\ Locate(walk[i].chain, walk[i].name) = walk[i].found
      BY <1>0, <1>1, <1>3, <2>1 DEF Stored, Found
    <3>2. Len(walk[i].chain) \in Nat
          /\ Having(walk[i].chain, walk[i].name) \in SUBSET (1..Len(walk[i].chain))
      BY <1>0, <2>1, EventFacts DEF Having
    <3>3. Last(Having(walk[i].chain, walk[i].name)) \in 1..Len(walk[i].chain)
      BY <3>1, <3>2, LastIs
    <3> QED
      BY <3>1, <3>3 DEF Locate
  <2>6. Agree(walk[d].chain, walk[i].chain)
    BY <1>0, <2>1 DEF Nested
  <2>7. /\ Len(walk[d].chain) \in 1..Len(walk[d].chain)
        /\ walk[d].chain[Len(walk[d].chain)] = walk[i].chain[k]
    <3>1. \A m \in Nat : m >= 1 => m \in 1..m
      OBVIOUS
    <3>2. walk[d].chain[Len(walk[d].chain)] = walk[d].found
      BY <2>4
    <3> QED
      BY <1>3, <2>4, <2>5, <3>1, <3>2, Zenon
  <2>8. /\ Len(walk[d].chain) = k
        /\ \A j \in 1..Len(walk[d].chain) : walk[d].chain[j] = walk[i].chain[j]
    <3> DEFINE c == walk[d].chain
               b == walk[i].chain
    <3>1. Agree(c, b) /\ Len(c) \in 1..Len(c) /\ k \in 1..Len(b) /\ c[Len(c)] = b[k]
      BY <2>5, <2>6, <2>7
    <3> HIDE DEF c, b
    <3>2. Len(c) = k /\ \A j \in 1..Len(c) : c[j] = b[j]
      BY <3>1, AgreeAt
    <3> QED
      BY <3>2 DEF c, b
  <2>9. Len(walk[i].chain) \in Nat
    BY <1>0, <2>1, EventFacts
  <2>10. \A j \in 1..Len(walk[d].chain) : j \in 1..Len(walk[i].chain)
    BY <2>5, <2>8, <2>9
  <2> QED
    BY <2>2, <2>3, <2>8, <2>10 DEF In
<1> QED
  BY <1>1, <1>2, <1>3, SkipKeepsInv

-----------------------------------------------------------------------------
(* Every step keeps the invariant. *)
LEMMA NextKeepsScopesInv == ScopesInv /\ [ScopesNext]_scopeVars => ScopesInv'
<1> SUFFICES ASSUME ScopesInv, [ScopesNext]_scopeVars
             PROVE  ScopesInv'
  OBVIOUS
<1>1. ASSUME NEW n \in Names, NEW t \in Types, VisitVarDecl(n, t)
      PROVE  ScopesInv'
  BY <1>1, DeclareKeepsInv
<1>2. ASSUME NEW n \in Names, VisitReference(n)
      PROVE  ScopesInv'
  BY <1>2, ReferKeepsInv
<1>3. ASSUME NEW s \in DOMAIN table, SkipRest(s)
      PROVE  ScopesInv'
  BY <1>3, SkipRestKeepsInv
<1>4. CASE VisitScope \/ LeaveScope
  BY <1>4, ScopeKeepsInv, LeaveKeepsInv
<1>5. CASE StartGenerator \/ GenerateVarDecl \/ GenerateReference
  BY <1>5, StartKeepsInv, GenerateDeclKeepsInv, GenerateReferenceKeepsInv
<1>6. CASE UNCHANGED scopeVars
  <2>1. UNCHANGED firstWalk /\ pos' = pos /\ storage' = storage
    BY <1>6 DEF scopeVars
  <2>2. pos' \in Nat /\ Stored'
    BY <2>1, SMTT(30) DEF ScopesInv, Typed, Stored, firstWalk, Refers, Declares
  <2> QED
    BY <2>1, <2>2, SecondWalk
<1> QED
  BY <1>1, <1>2, <1>3, <1>4, <1>5, <1>6 DEF ScopesNext

(* The inductive invariant: scopes are nested and never entered again, the *)
(* tables hold what was declared, and references find what they found.     *)
THEOREM ScopesInvariant == ScopesSpec => []ScopesInv
<1>1. ScopesInit => ScopesInv
  BY InitScopesInv
<1>2. ScopesInv /\ [ScopesNext]_scopeVars => ScopesInv'
  BY NextKeepsScopesInv
<1> QED
  BY <1>1, <1>2, PTL DEF ScopesSpec

(* In programs of any size, the generator's lookup in the complete tables  *)
(* finds the variable that the verifier has checked.                       *)
THEOREM LookupIsStable == ScopesSpec => []LookupStable
<1>1. ScopesInv => LookupStable
  <2> SUFFICES ASSUME ScopesInv PROVE LookupStable
    OBVIOUS
  <2>1. Found /\ DOMAIN walk = 1..Len(walk)
    BY DEF ScopesInv, Typed
  <2> QED
    BY <2>1 DEF Found, LookupStable
<1> QED
  BY <1>1, ScopesInvariant, PTL

(* In programs of any size, a variable that the generator refers to has    *)
(* its storage, of the type that was checked.                              *)
THEOREM StorageIsReady == ScopesSpec => []StorageReady
<1>1. ScopesInv => StorageReady
  <2> SUFFICES ASSUME ScopesInv, Generating("refer")
               PROVE  /\ Locate(walk[pos].chain, walk[pos].name) # 0
                      /\ storage[Locate(walk[pos].chain, walk[pos].name)][walk[pos].name]
                           = walk[pos].type
    BY DEF StorageReady
  <2>1. /\ Found /\ Stored /\ pos \in 1..Len(walk) /\ Refers(pos) /\ Len(walk) \in Nat
        /\ pos \in Nat /\ pos >= 1 /\ pos \in pos..Len(walk)
    BY InnermostFacts DEF ScopesInv, Typed, Generating, Refers
  <2>2. ~errors /\ \A d \in pos..(pos - 1) : FALSE
    BY <2>1 DEF Stored
  <2>3. storage[walk[pos].found][walk[pos].name] = walk[pos].type
    BY <2>1, <2>2 DEF Stored
  <2>4. /\ Locate(walk[pos].chain, walk[pos].name) = walk[pos].found
        /\ walk[pos].found # 0
    BY <2>1, <2>2 DEF Found
  <2> QED
    BY <2>3, <2>4
<1> QED
  BY <1>1, ScopesInvariant, PTL

(* In programs of any size, a name means what it means in C. *)
THEOREM NamesMeanLikeInC == ScopesSpec => []MeansLikeInC
<1>1. ScopesInv => MeansLikeInC
  BY DEF ScopesInv
<1> QED
  BY <1>1, ScopesInvariant, PTL
=============================================================================
