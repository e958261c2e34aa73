---------------------------- MODULE PromotionProofs ----------------------------
(***************************************************************************)
(* Proofs about Promotion and PromotionEquivalence: in functions of any    *)
(* number of blocks and scalars, whatever the order of TargetAllocas,      *)
(* nothing refers to an erased access or phi, and the function passes the  *)
(* values to calls and arrays that it passed before, provided that no      *)
(* scalar is copied to another that is processed before it.                *)
(***************************************************************************)
EXTENDS PromotionEquivalence, CFGProofs, FiniteSetTheorems, TLAPS

(* A value that can be referred to for good. *)
Stays(v) == (v.k = "ins" => ~IsTargetAccess(v)) /\ (v.k = "phi" => v \in phis)

(* A load that step 3 is still to replace. *)
Pending(v) ==
  /\ v.k = "ins"
  /\ \E k \in 1..M : Accesses(v, k) /\ (ai < k \/ (ai = k /\ ~Before(v, at, pc)))

PassTypes ==
  /\ prog \in Programs
  /\ TargetAllocas \in [1..M -> Scalars]
  /\ \A i, j \in 1..M : TargetAllocas[i] = TargetAllocas[j] => i = j
  /\ phase \in {"replace", "fill", "erase", "clean", "done"}
  /\ phase = "replace" => /\ ai \in 1..M /\ at \in Blocks
                          /\ pc \in 1..(Len(prog.code[at]) + 1)
  /\ phis \subseteq {Phi(b, a) : b \in Blocks, a \in Scalars}
  /\ DOMAIN arg \subseteq Positions /\ (phase \notin {"clean", "done"} => DOMAIN arg = Positions)
  /\ DOMAIN incoming = phis
  /\ \A phi \in phis : DOMAIN incoming[phi] \subseteq Blocks
  /\ changed \in BOOLEAN

(* What is not pending stays, and what is pending is as it was. *)
ArgsOK ==
  \A v \in DOMAIN arg :
    Stays(arg[v]) \/ (phase = "replace" /\ arg[v] = InsAt(v).arg /\ Pending(arg[v]))
IncomingOK == \A phi \in phis : \A p \in DOMAIN incoming[phi] : Stays(incoming[phi][p])
ValuesOK ==
  /\ phase = "replace" => Stays(current)
  /\ phase \in {"replace", "fill"} =>
       /\ DOMAIN Post = Blocks
       /\ \A b \in Blocks : DOMAIN Post[b] = Scalars /\ \A a \in Scalars : Stays(Post[b][a])

UsesOK == ArgsOK /\ IncomingOK /\ ValuesOK

-----------------------------------------------------------------------------
(***************************************************************************)
(* The function.                                                           *)
(***************************************************************************)
LEMMA ScalarsAre == N \in Nat \ {0} /\ M \in Nat /\ (Scalars # {} => M # 0)
  BY PromotionAssumption, FS_CardinalityType, FS_EmptySet DEF M

(* The places of the instructions. *)
LEMMA PositionsAre ==
  ASSUME prog \in Programs
  PROVE  /\ \A b \in Blocks : /\ Len(prog.code[b]) \in Nat
                              /\ DOMAIN prog.code[b] = 1..Len(prog.code[b])
         /\ \A b \in Blocks : \A i \in DOMAIN prog.code[b] : Ins(b, i) \in Positions
         /\ \A v \in Positions : /\ v = Ins(v.b, v.n)
                                 /\ v.b \in Blocks /\ v.n \in 1..Len(prog.code[v.b])
<1>1. \A b \in Blocks : /\ Len(prog.code[b]) \in Nat
                        /\ DOMAIN prog.code[b] = 1..Len(prog.code[b])
  <2> DEFINE Instructions == [op : {"load", "store", "call"}, a : Nat,
                              arg : {Null} \cup [k : {"ins"}, b : Blocks, n : Nat]]
  <2>1. \A b \in Blocks : prog.code[b] \in Seq(Instructions)
    BY PromotionAssumption, Zenon
  <2> HIDE DEF Instructions
  <2> QED
    BY <2>1
<1>2. \A v : v \in Positions <=> \E b \in Blocks : \E i \in DOMAIN prog.code[b] : v = Ins(b, i)
  BY DEF Positions
<1>3. \A b, i : Ins(b, i).b = b /\ Ins(b, i).n = i
  BY DEF Ins
<1> QED
  BY <1>1, <1>2, <1>3

(* An operand is the result of an instruction that has one. *)
LEMMA ArgsAre ==
  ASSUME prog \in Programs, NEW v \in Positions
  PROVE  \/ InsAt(v).arg = Null
         \/ InsAt(v).arg \in Positions /\ InsAt(InsAt(v).arg).op # "store"
<1>1. v.b \in Blocks /\ v.n \in DOMAIN prog.code[v.b]
  BY PositionsAre
<1> DEFINE w == prog.code[v.b][v.n].arg
<1>2. w \in {Null} \cup [k : {"ins"}, b : Blocks, n : Nat]
  <2> DEFINE Instructions == [op : {"load", "store", "call"}, a : Nat,
                              arg : {Null} \cup [k : {"ins"}, b : Blocks, n : Nat]]
  <2>1. prog.code[v.b] \in Seq(Instructions)
    BY <1>1, PromotionAssumption
  <2>2. prog.code[v.b][v.n] \in Instructions
    <3> HIDE DEF Instructions
    <3> QED
      BY <1>1, <2>1
  <2> QED
    BY <2>2
<1>3. w # Null => w.n \in DOMAIN prog.code[w.b] /\ prog.code[w.b][w.n].op # "store"
  BY <1>1, PromotionAssumption
<1>4. w # Null => w = Ins(w.b, w.n) /\ w.b \in Blocks
  BY <1>2 DEF Ins
<1>5. w # Null => Ins(w.b, w.n) \in Positions
  BY <1>3, <1>4, PositionsAre
<1> QED
  BY <1>3, <1>4, <1>5 DEF InsAt

(* Undef and null are never erased. *)
LEMMA NullStays == Stays(Undef) /\ Stays(Null)
  BY DEF Stays, Undef, Null

(* An access to a target is an access to one of the scalars in the vector. *)
LEMMA AccessIs ==
  ASSUME PassTypes, NEW v, IsTargetAccess(v)
  PROVE  \E k \in 1..M : Accesses(v, k)
<1>1. PICK i \in DOMAIN TargetAllocas : InsAt(v).a = TargetAllocas[i]
  BY DEF IsTargetAccess, Targets
<1> QED
  BY <1>1 DEF PassTypes, Accesses

(* The program and the vector do not change. *)
Fixed == prog' = prog /\ TargetAllocas' = TargetAllocas

(* No step changes the program or the vector. *)
LEMMA NextFixed == PromotionNext => Fixed
  BY DEF PromotionNext, Replace, RecordPost, FillPhis, Erase, CleanPhi, CleanNextBlock, CleanAgain, Fixed

(* Nor, then, what depends on them alone. *)
LEMMA FixedKeeps ==
  ASSUME Fixed
  PROVE  /\ Positions' = Positions
         /\ \A v : InsAt(v)' = InsAt(v)
         /\ \A v : IsTargetAccess(v)' <=> IsTargetAccess(v)
         /\ \A v, k : Accesses(v, k)' <=> Accesses(v, k)
         /\ CopiesInOrder' <=> CopiesInOrder
<1>1. Positions' = Positions /\ \A v : InsAt(v)' = InsAt(v)
  BY DEF Fixed, Positions, InsAt
<1>2. \A v : IsTargetAccess(v)' <=> IsTargetAccess(v)
  BY <1>1 DEF Fixed, IsTargetAccess, Targets
<1>3. \A v, k : Accesses(v, k)' <=> Accesses(v, k)
  BY <1>1, <1>2 DEF Fixed, Accesses
<1>4. CopiesInOrder' <=> CopiesInOrder
  BY <1>1, <1>3, Zenon DEF CopiesInOrder
<1> QED
  BY <1>1, <1>2, <1>3, <1>4

(* What stays does so as long as no phi is erased. *)
LEMMA StaysStill ==
  ASSUME Fixed, phis' = phis
  PROVE  \A v : Stays(v)' <=> Stays(v)
  BY FixedKeeps DEF Stays

-----------------------------------------------------------------------------
(***************************************************************************)
(* Step 3.                                                                 *)
(***************************************************************************)
(* The visited instruction is the only one that the walk leaves behind.    *)
LEMMA PendingMoves ==
  ASSUME PassTypes, phase = "replace", Fixed, ai' = ai, at' = at, pc' = pc + 1,
         NEW u \in Positions, Pending(u), u # Ins(at, pc) \/ ~Accesses(u, ai)
  PROVE  Pending(u)'
<1>1. PICK k \in 1..M : Accesses(u, k) /\ (ai < k \/ (ai = k /\ ~Before(u, at, pc)))
  BY DEF Pending
<1>2. Accesses(u, k)' /\ u.k = "ins"
  BY <1>1, FixedKeeps DEF Pending
<1>3. CASE ai < k
  BY <1>1, <1>2, <1>3 DEF Pending
<1>4. CASE ai = k /\ ~Before(u, at, pc)
  <2>1. u = Ins(u.b, u.n) /\ u.b \in Nat /\ u.n \in Nat
    BY PositionsAre, ScalarsAre DEF PassTypes, Blocks
  <2>2. at \in Nat /\ pc \in Nat
    BY PositionsAre, ScalarsAre DEF PassTypes, Blocks
  <2>3. ~(u.b = at /\ u.n = pc)
    BY <1>1, <1>4, <2>1
  <2>4. ~Before(u, at, pc + 1)
    BY <1>4, <2>1, <2>2, <2>3 DEF Before
  <2> QED
    BY <1>1, <1>2, <1>4, <2>4 DEF Pending, Before
<1> QED
  BY <1>1, <1>3, <1>4

(* One instruction: a store saves a value that stays, since what it stores *)
(* was replaced when its own scalar was processed; a load is replaced by   *)
(* such a value.                                                           *)
LEMMA ReplaceKeeps ==
  ASSUME PassTypes, UsesOK, CopiesInOrder, Replace
  PROVE  UsesOK'
<1> DEFINE ins == Ins(at, pc)
           AI == TargetAllocas[ai]
           value == IF current = Null THEN Undef ELSE current
<1>1. /\ phase = "replace" /\ phase' = "replace" /\ Fixed /\ phis' = phis /\ Post' = Post
      /\ ai' = ai /\ at' = at /\ pc' = pc + 1
      /\ ai \in 1..M /\ at \in Blocks /\ pc \in DOMAIN prog.code[at] /\ DOMAIN arg = Positions
  BY DEF Replace, Fixed, PassTypes
<1>2. ins \in Positions /\ prog \in Programs /\ ins.b = at /\ ins.n = pc /\ ins.k = "ins"
  BY <1>1, PositionsAre DEF PassTypes, Ins
<1>3. Stays(current) /\ Stays(value)
  BY <1>1, NullStays DEF UsesOK, ValuesOK
<1>4. \A v : Stays(v)' <=> Stays(v)
  BY <1>1, StaysStill
<1>5. \A v \in Positions : Stays(arg[v]) \/
        (arg[v] = InsAt(v).arg /\ arg[v] \in Positions /\ Pending(arg[v]) /\ InsAt(arg[v]).op # "store")
  <2> SUFFICES ASSUME NEW v \in Positions, ~Stays(arg[v])
               PROVE  /\ arg[v] = InsAt(v).arg /\ arg[v] \in Positions
                      /\ Pending(arg[v]) /\ InsAt(arg[v]).op # "store"
    OBVIOUS
  <2>1. arg[v] = InsAt(v).arg /\ Pending(arg[v])
    BY <1>1 DEF UsesOK, ArgsOK
  <2>2. InsAt(v).arg # Null
    BY <2>1, NullStays
  <2> QED
    BY <1>2, <2>1, <2>2, ArgsAre
<1>6. ASSUME NEW v \in Positions, arg'[v] = arg[v], arg[v] # ins \/ ~Accesses(ins, ai)
      PROVE  Stays(arg[v]) \/ (arg[v] = InsAt(v).arg /\ Pending(arg[v])')
  BY <1>1, <1>2, <1>5, <1>6, PendingMoves
<1>7. ASSUME NEW v \in Positions, Stays(arg[v]) \/ (arg[v] = InsAt(v).arg /\ Pending(arg[v])'),
             arg'[v] = arg[v]
      PROVE  (Stays(arg[v]) \/ (phase = "replace" /\ arg[v] = InsAt(v).arg /\ Pending(arg[v])))'
  BY <1>1, <1>4, <1>7, FixedKeeps DEF Pending
<1>8. ASSUME current' = current \/ Stays(current') PROVE ValuesOK'
  <2>1. Stays(current')
    BY <1>3, <1>8
  <2>2. Stays(current)'
    BY <1>4, <2>1 DEF Stays
  <2>3. /\ DOMAIN Post = Blocks
        /\ \A b \in Blocks : DOMAIN Post[b] = Scalars /\ \A a \in Scalars : Stays(Post[b][a])
    BY <1>1 DEF UsesOK, ValuesOK
  <2> QED
    BY <1>1, <1>4, <2>2, <2>3 DEF ValuesOK, Stays
<1>9. IsTargetAccess(ins) <=> InsAt(ins).op \in {"load", "store"} /\ InsAt(ins).a \in Targets
  BY DEF IsTargetAccess
<1>10. AI \in Targets
  BY <1>1 DEF PassTypes, Targets
<1>11. ASSUME \A v \in Positions : arg'[v] = arg[v] /\ (arg[v] # ins \/ ~Accesses(ins, ai)),
              DOMAIN arg' = Positions
       PROVE  ArgsOK'
  <2>1. \A v \in Positions :
          (Stays(arg[v]) \/ (phase = "replace" /\ arg[v] = InsAt(v).arg /\ Pending(arg[v])))'
    BY <1>6, <1>7, <1>11
  <2> QED
    BY <1>11, <2>1 DEF ArgsOK
<1>12. ASSUME incoming' = incoming PROVE IncomingOK'
  <2>1. \A phi \in phis : \A p \in DOMAIN incoming[phi] : Stays(incoming[phi][p])
    BY DEF UsesOK, IncomingOK
  <2> QED
    BY <1>1, <1>4, <1>12, <2>1 DEF IncomingOK, Stays
<1>13. CASE /\ InsAt(ins).a # AI \/ InsAt(ins).op = "call"
            /\ UNCHANGED <<current, arg, incoming>>
  <2>1. ~Accesses(ins, ai)
    BY <1>9, <1>13 DEF Accesses
  <2> QED
    BY <1>1, <1>8, <1>11, <1>12, <1>13, <2>1 DEF UsesOK
<1>14. CASE /\ InsAt(ins).a = AI /\ InsAt(ins).op = "store"
            /\ current' = arg[ins]
            /\ UNCHANGED <<arg, incoming>>
  <2>1. Accesses(ins, ai) /\ ~Stays(ins)
    BY <1>2, <1>9, <1>10, <1>14 DEF Accesses, Stays
  <2>2. \A v \in Positions : arg[v] # ins
    BY <1>5, <1>14, <2>1
  <2>3. Stays(arg[ins])
    <3> SUFFICES ASSUME ~Stays(arg[ins]) PROVE FALSE
      OBVIOUS
    <3>1. arg[ins] = InsAt(ins).arg /\ arg[ins].k = "ins" /\ Pending(arg[ins])
      BY <1>2, <1>5 DEF Pending
    <3>2. PICK k \in 1..M : Accesses(arg[ins], k) /\ (ai < k \/ (ai = k /\ ~Before(arg[ins], at, pc)))
      BY <3>1 DEF Pending
    <3>3. k < ai \/ (k = ai /\ Before(arg[ins], ins.b, ins.n))
      BY <1>1, <1>2, <1>14, <2>1, <3>1, <3>2 DEF CopiesInOrder
    <3> HIDE DEF ins
    <3> QED
      BY <1>1, <1>2, <3>2, <3>3, ScalarsAre
  <2> QED
    BY <1>1, <1>8, <1>11, <1>12, <1>14, <2>2, <2>3 DEF UsesOK
<1>15. CASE /\ InsAt(ins).a = AI /\ InsAt(ins).op = "load"
            /\ current' = value
            /\ ReplaceAllUses(ins, value)
  <2>1. /\ arg' = [v \in Positions |-> IF arg[v] = ins THEN value ELSE arg[v]]
        /\ incoming' = [phi \in DOMAIN incoming |->
                          [p \in DOMAIN incoming[phi] |->
                             IF incoming[phi][p] = ins THEN value ELSE incoming[phi][p]]]
    BY <1>1, <1>15 DEF ReplaceAllUses
  <2>2. ValuesOK'
    BY <1>3, <1>8, <1>15
  <2>3. ArgsOK'
    <3>1. ASSUME NEW v \in Positions
          PROVE  (Stays(arg[v]) \/ (phase = "replace" /\ arg[v] = InsAt(v).arg /\ Pending(arg[v])))'
      <4>1. CASE arg[v] = ins
        <5>1. arg'[v] = value
          BY <2>1, <4>1
        <5>2. Stays(arg[v])'
          BY <1>3, <1>4, <5>1 DEF Stays
        <5> QED
          BY <5>2
      <4>2. CASE arg[v] # ins
        <5>1. arg'[v] = arg[v]
          BY <2>1, <4>2
        <5> QED
          BY <1>6, <1>7, <4>2, <5>1
      <4> QED
        BY <4>1, <4>2
    <3> QED
      BY <2>1, <3>1 DEF ArgsOK
  <2>4. IncomingOK'
    <3>1. DOMAIN incoming = phis
      BY DEF PassTypes
    <3>2. ASSUME NEW phi \in phis, NEW p \in DOMAIN incoming[phi]
          PROVE  Stays(incoming'[phi][p])
      <4>1. incoming'[phi][p] \in {value, incoming[phi][p]}
        BY <2>1, <3>1, <3>2
      <4>2. Stays(incoming[phi][p])
        BY <3>2 DEF UsesOK, IncomingOK
      <4> QED
        BY <1>3, <4>1, <4>2
    <3>3. \A phi \in phis : DOMAIN incoming'[phi] = DOMAIN incoming[phi]
      BY <2>1, <3>1
    <3> QED
      BY <1>1, <1>4, <3>2, <3>3 DEF IncomingOK, Stays
  <2> QED
    BY <2>2, <2>3, <2>4 DEF UsesOK
<1> QED
  BY <1>13, <1>14, <1>15 DEF Replace

(* At the end of a block, what is pending stands in a later block, or      *)
(* belongs to a later scalar.                                              *)
LEMMA PendingNext ==
  ASSUME PassTypes, RecordPost, NEW u \in Positions, Pending(u)
  PROVE  phase' = "replace" /\ Pending(u)'
<1>1. PICK k \in 1..M : Accesses(u, k) /\ (ai < k \/ (ai = k /\ ~Before(u, at, pc)))
  BY DEF Pending
<1>2. Fixed
  BY NextFixed DEF PromotionNext
<1>3. Accesses(u, k)' /\ u.k = "ins"
  BY <1>1, <1>2, FixedKeeps DEF Pending
<1>4. /\ ai \in 1..M /\ at \in 1..N /\ pc \in 1..(Len(prog.code[at]) + 1)
      /\ pc \notin DOMAIN prog.code[at] /\ pc' = 1 /\ phase = "replace"
      /\ DOMAIN TargetAllocas = 1..M
  BY DEF RecordPost, PassTypes, Blocks
<1>5. /\ u.b \in 1..N /\ u.n \in 1..Len(prog.code[u.b])
      /\ \A b \in 1..N : Len(prog.code[b]) \in Nat /\ DOMAIN prog.code[b] = 1..Len(prog.code[b])
  BY PositionsAre DEF PassTypes, Blocks
<1>6. ai = k => u.b > at
  <2> SUFFICES ASSUME ai = k PROVE u.b > at
    OBVIOUS
  <2>1. ~(u.b < at) /\ ~(u.b = at /\ u.n < pc)
    BY <1>1, <1>4 DEF Before
  <2> QED
    BY <1>4, <1>5, <2>1
<1>7. CASE at < N
  <2>1. at' = at + 1 /\ ai' = ai /\ phase' = "replace"
    BY <1>4, <1>7 DEF RecordPost
  <2>2. ai = k => ~Before(u, at + 1, 1)
    BY <1>4, <1>5, <1>6 DEF Before
  <2>3. (ai' < k \/ (ai' = k /\ ~Before(u, at', pc')))
    BY <1>1, <1>4, <2>1, <2>2
  <2> QED
    BY <1>3, <2>1, <2>3 DEF Pending, Before
<1>8. CASE at = N
  <2>1. ai < k
    BY <1>1, <1>5, <1>6, <1>8, ScalarsAre
  <2>2. ai + 1 \in 1..M
    BY <1>4, <2>1, ScalarsAre
  <2>3. at' = 1 /\ ai' = ai + 1 /\ phase' = "replace"
    BY <1>4, <1>8, <2>2, ScalarsAre DEF RecordPost
  <2>4. ~Before(u, 1, 1)
    BY <1>5 DEF Before
  <2>5. (ai' < k \/ (ai' = k /\ ~Before(u, at', pc')))
    BY <1>4, <2>1, <2>3, <2>4
  <2> QED
    BY <1>3, <2>3, <2>5 DEF Pending, Before
<1> QED
  <2>1. at < N \/ at = N
    BY <1>4, ScalarsAre
  <2> QED
    BY <2>1, <1>7, <1>8

(* The end of a block: what is not replaced by then is still pending, and  *)
(* after the last block of the last scalar nothing is.                     *)
LEMMA RecordPostKeeps ==
  ASSUME PassTypes, UsesOK, RecordPost
  PROVE  UsesOK'
<1> DEFINE AI == TargetAllocas[ai]
           value == IF current = Null THEN Undef ELSE current
<1>1. /\ phase = "replace" /\ Fixed /\ phis' = phis /\ arg' = arg /\ incoming' = incoming
      /\ Post' = [Post EXCEPT ![at][AI] = value]
      /\ phase' \in {"replace", "fill"} /\ prog \in Programs
      /\ AI \in Scalars /\ at \in Blocks /\ DOMAIN arg = Positions
  BY DEF RecordPost, PassTypes, Fixed
<1>2. \A v : Stays(v)' <=> Stays(v)
  BY <1>1, StaysStill
<1>3. Stays(value) /\ Stays(current)
  BY <1>1, NullStays DEF UsesOK, ValuesOK
<1>4. current' \in phis \/ current' = Null
  BY DEF RecordPost
<1>5. Stays(current')
  <2>1. \A v \in phis : v.k = "phi"
    BY DEF PassTypes, Phi
  <2> QED
    BY <1>4, <2>1, NullStays DEF Stays
<1>6. ArgsOK'
  <2>1. ASSUME NEW v \in Positions
        PROVE  \/ Stays(arg[v])
               \/ phase' = "replace" /\ arg[v] = InsAt(v).arg /\ Pending(arg[v])'
    <3> SUFFICES ASSUME ~Stays(arg[v])
                 PROVE  phase' = "replace" /\ arg[v] = InsAt(v).arg /\ Pending(arg[v])'
      OBVIOUS
    <3>1. arg[v] = InsAt(v).arg /\ Pending(arg[v])
      BY <1>1 DEF UsesOK, ArgsOK
    <3>2. arg[v] # Null
      BY NullStays
    <3>3. arg[v] \in Positions
      BY <1>1, <3>1, <3>2, ArgsAre
    <3>4. PICK u \in Positions : u = arg[v]
      BY <3>3
    <3>5. phase' = "replace" /\ Pending(u)'
      BY <3>1, <3>4, PendingNext
    <3> QED
      BY <1>1, <3>1, <3>4, <3>5
  <2> QED
    BY <1>1, <1>2, <2>1, FixedKeeps DEF ArgsOK, Stays, Pending
<1>7. IncomingOK'
  <2>1. \A phi \in phis : \A p \in DOMAIN incoming[phi] : Stays(incoming[phi][p])
    BY DEF UsesOK, IncomingOK
  <2> QED
    BY <1>1, <1>2, <2>1 DEF IncomingOK, Stays
<1>8. ValuesOK'
  <2>1. /\ DOMAIN Post = Blocks
        /\ \A b \in Blocks : DOMAIN Post[b] = Scalars /\ \A a \in Scalars : Stays(Post[b][a])
    BY <1>1 DEF UsesOK, ValuesOK
  <2>2. DOMAIN Post' = Blocks
    BY <1>1, <2>1
  <2>3. ASSUME NEW b \in Blocks
        PROVE  DOMAIN Post'[b] = Scalars /\ \A a \in Scalars : Stays(Post'[b][a])
    <3>1. b = at => Post'[b] = [Post[b] EXCEPT ![AI] = value]
      BY <1>1, <2>1
    <3>2. b # at => Post'[b] = Post[b]
      BY <1>1, <2>1
    <3>3. CASE b = at
      <4>1. DOMAIN Post'[b] = Scalars
        BY <2>1, <3>1, <3>3
      <4>2. \A a \in Scalars : Post'[b][a] \in {value, Post[b][a]}
        BY <2>1, <3>1, <3>3
      <4> QED
        BY <1>3, <2>1, <4>1, <4>2
    <3> QED
      BY <2>1, <3>2, <3>3
  <2>4. Stays(current)'
    BY <1>2, <1>5 DEF Stays
  <2> QED
    BY <1>2, <2>2, <2>3, <2>4 DEF ValuesOK, Stays
<1> QED
  BY <1>6, <1>7, <1>8 DEF UsesOK

-----------------------------------------------------------------------------
(***************************************************************************)
(* Steps 4 to 7.                                                           *)
(***************************************************************************)
(* The values at the ends of the blocks are all there is to fill in.       *)
LEMMA FillKeeps ==
  ASSUME PassTypes, UsesOK, FillPhis
  PROVE  UsesOK'
<1>1. /\ phase = "fill" /\ phase' = "erase" /\ Fixed /\ phis' = phis /\ arg' = arg
      /\ incoming' = [phi \in phis |-> [p \in preds(phi.b) |-> Post[p][phi.n]]]
  BY DEF FillPhis, Fixed
<1>2. \A v : Stays(v)' <=> Stays(v)
  BY <1>1, StaysStill
<1>3. ArgsOK'
  BY <1>1, <1>2 DEF ArgsOK, UsesOK, Stays
<1>4. ASSUME NEW phi \in phis, NEW p \in DOMAIN incoming'[phi]
      PROVE  Stays(incoming'[phi][p])
  <2>1. p \in preds(phi.b) /\ incoming'[phi][p] = Post[p][phi.n]
    BY <1>1, <1>4
  <2>2. p \in Blocks /\ phi.n \in Scalars
    BY <2>1 DEF preds, PassTypes, Phi
  <2> QED
    BY <1>1, <2>1, <2>2 DEF UsesOK, ValuesOK
<1>5. IncomingOK'
  BY <1>1, <1>2, <1>4 DEF IncomingOK, Stays
<1>6. ValuesOK'
  BY <1>1 DEF ValuesOK
<1> QED
  BY <1>3, <1>5, <1>6 DEF UsesOK

(* The operands that are left have been there before. *)
LEMMA EraseKeeps ==
  ASSUME PassTypes, UsesOK, Erase
  PROVE  UsesOK'
<1>1. /\ phase = "erase" /\ phase' = "clean" /\ Fixed /\ phis' = phis /\ incoming' = incoming
      /\ arg' = [v \in {u \in Positions : ~IsTargetAccess(u)} |-> arg[v]]
      /\ DOMAIN arg = Positions
  BY DEF Erase, Fixed, PassTypes
<1>2. \A v : Stays(v)' <=> Stays(v)
  BY <1>1, StaysStill
<1>3. \A v \in DOMAIN arg' : Stays(arg'[v])
  BY <1>1 DEF ArgsOK, UsesOK
<1>4. ArgsOK'
  BY <1>2, <1>3 DEF ArgsOK, Stays
<1>5. IncomingOK'
  BY <1>1, <1>2 DEF IncomingOK, UsesOK, Stays
<1>6. ValuesOK'
  BY <1>1 DEF ValuesOK
<1> QED
  BY <1>4, <1>5, <1>6 DEF UsesOK

(* The value that takes the place of a phi is not the phi.                 *)
LEMMA CleanKeeps ==
  ASSUME PassTypes, UsesOK, CleanPhi
  PROVE  UsesOK'
<1> DEFINE phi == Phi(at, TargetAllocas[ai])
           common == IF Others(phi) = {} THEN Undef ELSE CHOOSE v \in Others(phi) : TRUE
<1>1. phase = "clean" /\ phase' = "clean" /\ Fixed
  BY DEF CleanPhi, Fixed
<1>2. ValuesOK'
  BY <1>1 DEF ValuesOK
<1>3. \A v \in DOMAIN arg : Stays(arg[v])
  BY <1>1 DEF UsesOK, ArgsOK
<1>4. \A q \in phis : \A p \in DOMAIN incoming[q] : Stays(incoming[q][p])
  BY DEF UsesOK, IncomingOK
<1>5. CASE UNCHANGED <<phis, changed, arg, incoming>>
  <2>1. \A v : Stays(v)' <=> Stays(v)
    BY <1>1, <1>5, StaysStill
  <2>2. ArgsOK'
    BY <1>3, <1>5, <2>1 DEF ArgsOK, Stays
  <2>3. IncomingOK'
    BY <1>4, <1>5, <2>1 DEF IncomingOK, Stays
  <2> QED
    BY <1>2, <2>2, <2>3 DEF UsesOK
<1>6. CASE phi \in phis /\ EraseFor(phi, common)
  <2>1. Stays(common) /\ common # phi
    <3>1. \A v \in Others(phi) : Stays(v) /\ v # phi
      BY <1>4, <1>6 DEF Others
    <3>2. Undef # phi
      BY DEF Undef, Phi
    <3> HIDE DEF phi
    <3> QED
      BY <3>1, <3>2, NullStays
  <2>2. /\ phis' = phis \ {phi}
        /\ arg' = [u \in DOMAIN arg |-> IF arg[u] = phi THEN common ELSE arg[u]]
        /\ incoming' = [q \in phis \ {phi} |->
                          [p \in DOMAIN incoming[q] |->
                             IF incoming[q][p] = phi THEN common ELSE incoming[q][p]]]
    BY <1>6 DEF EraseFor
  <2> HIDE DEF phi, common
  <2>3. \A v : Stays(v) /\ v # phi => Stays(v)'
    BY <1>1, <2>2, FixedKeeps DEF Stays
  <2>4. \A v \in DOMAIN arg' : Stays(arg'[v]) /\ arg'[v] # phi
    BY <1>3, <2>1, <2>2
  <2>5. ArgsOK'
    BY <2>3, <2>4 DEF ArgsOK, Stays
  <2>6. ASSUME NEW q \in phis', NEW p \in DOMAIN incoming'[q]
        PROVE  Stays(incoming'[q][p]) /\ incoming'[q][p] # phi
    <3>1. q \in phis /\ p \in DOMAIN incoming[q]
      BY <2>2, <2>6
    <3>2. incoming'[q][p] = IF incoming[q][p] = phi THEN common ELSE incoming[q][p]
      BY <2>2, <2>6, <3>1
    <3> QED
      BY <1>4, <2>1, <3>1, <3>2
  <2>7. IncomingOK'
    BY <2>3, <2>6 DEF IncomingOK, Stays
  <2> QED
    BY <1>2, <2>5, <2>7 DEF UsesOK
<1> QED
  BY <1>5, <1>6 DEF CleanPhi

-----------------------------------------------------------------------------
(***************************************************************************)
(* The invariant.                                                          *)
(***************************************************************************)
PassInv == PassTypes /\ (CopiesInOrder => UsesOK)

(* The types hold when the pass is entered. *)
LEMMA TypesInit ==
  ASSUME PromotionInit
  PROVE  PassTypes
<1>1. prog \in Programs /\ at = 1 /\ ai = 1 /\ pc = 1
  BY DEF PromotionInit
<1>2. /\ TargetAllocas \in [1..M -> Scalars]
      /\ \A i, j \in 1..M : TargetAllocas[i] = TargetAllocas[j] => i = j
  <2>1. TargetAllocas \in SetToSeqs(Scalars)
    BY DEF PromotionInit
  <2> QED
    BY <2>1, Zenon DEF SetToSeqs, M
<1>3. phase = "replace" => ai \in 1..M /\ at \in Blocks
  BY <1>1, ScalarsAre DEF PromotionInit, Blocks
<1>4. phase = "replace" => pc \in 1..(Len(prog.code[at]) + 1)
  BY <1>1, <1>3, PositionsAre
<1>5. phis = {Phi(b, a) : b \in {c \in Blocks \ {entryBB} : preds(c) # {}}, a \in Scalars}
  BY DEF PromotionInit
<1>6. phis \subseteq {Phi(b, a) : b \in Blocks, a \in Scalars}
  BY <1>5
<1>7. DOMAIN arg = Positions /\ changed \in BOOLEAN /\ phase \in {"replace", "done"}
  BY DEF PromotionInit
<1>8. incoming = [phi \in phis |-> [p \in preds(phi.b) |-> Undef]]
  BY DEF PromotionInit
<1>9. DOMAIN incoming = phis /\ \A phi \in phis : DOMAIN incoming[phi] \subseteq Blocks
  BY <1>8 DEF preds
<1> QED
  BY <1>1, <1>2, <1>3, <1>4, <1>6, <1>7, <1>9 DEF PassTypes

(* Before the first step all loads are pending. *)
LEMMA UsesInit ==
  ASSUME PromotionInit, PassTypes
  PROVE  UsesOK
<1>1. /\ prog \in Programs /\ at = 1 /\ ai = 1 /\ pc = 1 /\ current = Null
      /\ arg = [v \in Positions |-> InsAt(v).arg]
      /\ incoming = [phi \in phis |-> [p \in preds(phi.b) |-> Undef]]
      /\ Post = [b \in Blocks |-> [a \in Scalars |-> Undef]]
  BY DEF PromotionInit
<1>2. ASSUME NEW v \in Positions, ~Stays(arg[v])
      PROVE  phase = "replace" /\ arg[v] = InsAt(v).arg /\ Pending(arg[v])
  <2>1. arg[v] = InsAt(v).arg
    BY <1>1
  <2>2. arg[v] \in Positions
    BY <1>1, <1>2, <2>1, ArgsAre, NullStays
  <2>3. IsTargetAccess(arg[v]) /\ arg[v].k = "ins"
    <3>1. arg[v] = Ins(arg[v].b, arg[v].n)
      BY <1>1, <2>2, PositionsAre
    <3>2. arg[v].k = "ins"
      BY <3>1 DEF Ins
    <3> QED
      BY <1>2, <3>2 DEF Stays
  <2>4. PICK k \in 1..M : Accesses(arg[v], k)
    BY <2>3, AccessIs
  <2>5. phase = "replace"
    <3>1. Scalars # {}
      BY <2>4 DEF PassTypes
    <3> QED
      BY <3>1 DEF PromotionInit
  <2>6. ~Before(arg[v], 1, 1)
    <3>1. arg[v].b \in 1..N /\ arg[v].n \in 1..Len(prog.code[arg[v].b])
      BY <1>1, <2>2, PositionsAre DEF Blocks
    <3>2. arg[v].b >= 1 /\ arg[v].n >= 1
      BY <3>1, ScalarsAre
    <3> QED
      BY <3>1, <3>2, ScalarsAre DEF Before
  <2>7. ai < k \/ ai = k
    BY <1>1, ScalarsAre
  <2> QED
    BY <1>1, <2>1, <2>3, <2>4, <2>5, <2>6, <2>7 DEF Pending
<1>3. ArgsOK
  BY <1>1, <1>2 DEF ArgsOK
<1>4. IncomingOK
  BY <1>1, NullStays DEF IncomingOK
<1>5. ValuesOK
  BY <1>1, NullStays DEF ValuesOK
<1> QED
  BY <1>3, <1>4, <1>5 DEF UsesOK

(* Every step keeps the types. *)
LEMMA TypesStep ==
  ASSUME PassTypes, PromotionNext
  PROVE  PassTypes'
<1>1. prog' = prog /\ TargetAllocas' = TargetAllocas /\ Positions' = Positions
  BY NextFixed, FixedKeeps DEF Fixed
<1>2. /\ (prog \in Programs)'
      /\ (TargetAllocas \in [1..M -> Scalars])'
      /\ (\A i, j \in 1..M : TargetAllocas[i] = TargetAllocas[j] => i = j)'
  BY <1>1 DEF PassTypes
<1>3. phase' \in {"replace", "fill", "erase", "clean", "done"}
  <2>1. CASE Replace \/ RecordPost \/ FillPhis \/ Erase
    BY <2>1 DEF PassTypes, Replace, RecordPost, FillPhis, Erase
  <2>2. CASE CleanPhi \/ CleanNextBlock \/ CleanAgain
    BY <2>2 DEF CleanPhi, CleanNextBlock, CleanAgain
  <2> QED
    BY <2>1, <2>2 DEF PromotionNext
<1>4. phase' = "replace" => /\ ai' \in 1..M /\ at' \in Blocks
                            /\ pc' \in 1..(Len(prog.code[at']) + 1)
  <2>1. CASE Replace
    <3>1. /\ ai' = ai /\ at' = at /\ pc' = pc + 1 /\ phase = "replace"
          /\ pc \in DOMAIN prog.code[at]
      BY <2>1 DEF Replace
    <3>2. Len(prog.code[at]) \in Nat /\ pc \in 1..Len(prog.code[at])
      BY <3>1, PositionsAre DEF PassTypes
    <3> QED
      BY <3>1, <3>2 DEF PassTypes
  <2>2. CASE RecordPost
    <3>1. ai \in 1..M /\ at \in 1..N /\ DOMAIN TargetAllocas = 1..M
      BY <2>2 DEF RecordPost, PassTypes, Blocks
    <3>2. /\ at' = (IF at < N THEN at + 1 ELSE 1) /\ pc' = 1
          /\ ai' = (IF at < N THEN ai ELSE ai + 1)
          /\ phase' = "replace" => ai' \in 1..M
      BY <2>2, <3>1 DEF RecordPost
    <3>3. at' \in 1..N
      BY <3>1, <3>2, ScalarsAre
    <3>4. Len(prog.code[at']) \in Nat
      BY <3>3, PositionsAre DEF PassTypes, Blocks
    <3> QED
      BY <3>2, <3>3, <3>4 DEF Blocks
  <2>3. CASE FillPhis \/ Erase \/ CleanPhi \/ CleanNextBlock \/ CleanAgain
    BY <2>3 DEF FillPhis, Erase, CleanPhi, CleanNextBlock, CleanAgain
  <2> QED
    BY <2>1, <2>2, <2>3 DEF PromotionNext
<1>5. phis' \subseteq phis
  BY DEF PromotionNext, Replace, RecordPost, FillPhis, Erase, CleanPhi, EraseFor,
         CleanNextBlock, CleanAgain
<1>6. DOMAIN arg' \subseteq Positions /\ (phase' \notin {"clean", "done"} => DOMAIN arg' = Positions)
  <2>1. CASE Replace \/ RecordPost \/ FillPhis
    <3>1. DOMAIN arg' = DOMAIN arg /\ phase \notin {"clean", "done"}
      BY <2>1 DEF Replace, ReplaceAllUses, RecordPost, FillPhis
    <3> QED
      BY <3>1 DEF PassTypes
  <2>2. CASE Erase
    BY <2>2 DEF Erase
  <2>3. CASE CleanPhi \/ CleanNextBlock \/ CleanAgain
    <3>1. DOMAIN arg' = DOMAIN arg /\ phase' \in {"clean", "done"}
      BY <2>3 DEF CleanPhi, EraseFor, CleanNextBlock, CleanAgain
    <3> QED
      BY <3>1 DEF PassTypes
  <2> QED
    BY <2>1, <2>2, <2>3 DEF PromotionNext
<1>7. DOMAIN incoming' = phis' /\ \A phi \in phis' : DOMAIN incoming'[phi] \subseteq Blocks
  <2>1. CASE UNCHANGED <<incoming, phis>>
    BY <2>1 DEF PassTypes
  <2>2. CASE FillPhis
    BY <2>2 DEF FillPhis, preds
  <2>3. ASSUME NEW ins, NEW value, ReplaceAllUses(ins, value), phis' = phis
        PROVE  DOMAIN incoming' = phis' /\ \A phi \in phis' : DOMAIN incoming'[phi] \subseteq Blocks
    BY <2>3 DEF ReplaceAllUses, PassTypes
  <2>4. ASSUME NEW phi, NEW value, EraseFor(phi, value)
        PROVE  DOMAIN incoming' = phis' /\ \A q \in phis' : DOMAIN incoming'[q] \subseteq Blocks
    BY <2>4 DEF EraseFor, PassTypes
  <2>5. CASE Replace
    BY <2>1, <2>3, <2>5 DEF Replace
  <2>6. CASE CleanPhi
    BY <2>1, <2>4, <2>6 DEF CleanPhi
  <2>7. CASE RecordPost \/ Erase \/ CleanNextBlock \/ CleanAgain
    BY <2>1, <2>7 DEF RecordPost, Erase, CleanNextBlock, CleanAgain
  <2> QED
    BY <2>2, <2>5, <2>6, <2>7 DEF PromotionNext
<1>8. phis' \subseteq {Phi(b, a) : b \in Blocks, a \in Scalars}
  BY <1>5 DEF PassTypes
<1>9. changed' \in BOOLEAN
  <2>1. changed' = changed \/ changed' = TRUE \/ changed' = FALSE
    BY Zenon DEF PromotionNext, Replace, RecordPost, FillPhis, Erase, CleanPhi, CleanNextBlock,
                 CleanAgain
  <2>2. changed \in BOOLEAN
    BY DEF PassTypes
  <2> QED
    BY <2>1, <2>2
<1> QED
  BY <1>1, <1>2, <1>3, <1>4, <1>6, <1>7, <1>8, <1>9 DEF PassTypes

(* Every step keeps what is referred to. *)
LEMMA UsesStep ==
  ASSUME PassTypes, UsesOK, CopiesInOrder, PromotionNext
  PROVE  UsesOK'
<1>1. CASE CleanNextBlock \/ CleanAgain
  <2>1. phase = "clean" /\ phase' \in {"clean", "done"} /\ UNCHANGED <<arg, incoming, phis>> /\ Fixed
    BY <1>1 DEF CleanNextBlock, CleanAgain, Fixed
  <2>2. \A v : Stays(v)' <=> Stays(v)
    BY <2>1, StaysStill
  <2>3. ArgsOK'
    BY <2>1, <2>2 DEF UsesOK, ArgsOK, Stays
  <2>4. IncomingOK'
    BY <2>1, <2>2 DEF UsesOK, IncomingOK, Stays
  <2>5. ValuesOK'
    BY <2>1 DEF ValuesOK
  <2> QED
    BY <2>3, <2>4, <2>5 DEF UsesOK
<1> QED
  BY <1>1, ReplaceKeeps, RecordPostKeeps, FillKeeps, EraseKeeps, CleanKeeps DEF PromotionNext

(* Steps that change nothing. *)
LEMMA Stutters ==
  ASSUME PassInv, UNCHANGED passVars
  PROVE  PassInv'
<1>1. Fixed /\ phis' = phis
  BY DEF passVars, Fixed
<1>2. /\ Positions' = Positions /\ (CopiesInOrder' <=> CopiesInOrder)
      /\ \A v : InsAt(v)' = InsAt(v)
      /\ \A v : Stays(v)' <=> Stays(v)
      /\ \A v, k : Accesses(v, k)' <=> Accesses(v, k)
  BY <1>1, FixedKeeps, StaysStill
<1>3. \A v : Pending(v)' <=> Pending(v)
  BY <1>2 DEF Pending, Before, passVars, cursor
<1>4. PassTypes'
  BY <1>2 DEF PassInv, PassTypes, passVars
<1>5. ArgsOK' <=> ArgsOK
  BY <1>2, <1>3, Zenon DEF ArgsOK, passVars
<1>6. IncomingOK' <=> IncomingOK
  BY <1>2, Zenon DEF IncomingOK, passVars
<1>7. ValuesOK' <=> ValuesOK
  BY <1>2, Zenon DEF ValuesOK, passVars
<1> QED
  BY <1>2, <1>4, <1>5, <1>6, <1>7 DEF PassInv, UsesOK

(* In every state of the pass: its types, and, if copies are in order, no  *)
(* operand, phi or saved value refers to what is to be erased, but for the *)
(* loads that step 3 is still to replace.                                  *)
THEOREM PromotionInvariant == PromotionSpec => []PassInv
<1>1. PromotionInit => PassInv
  BY TypesInit, UsesInit DEF PassInv
<1>2. PassInv /\ [PromotionNext]_passVars => PassInv'
  <2>1. ASSUME PassInv, PromotionNext PROVE PassInv'
    BY <2>1, TypesStep, UsesStep, NextFixed, FixedKeeps DEF PassInv
  <2> QED
    BY <2>1, Stutters
<1> QED
  BY <1>1, <1>2, PTL DEF PromotionSpec

(* When the dead loads and stores are gone, and while the phis go, nothing *)
(* refers to one of them, in functions of any size and for every order of  *)
(* the allocas in which a copied scalar comes before the one it is stored  *)
(* in.  Without that order it is false: the store has recorded the load,   *)
(* which is only replaced, and deleted, later.                             *)
THEOREM NothingRefersToErased == PromotionSpec => []NoUseOfErased
<1>1. PassInv => NoUseOfErased
  <2> SUFFICES ASSUME PassInv, CopiesInOrder, phase \in {"clean", "done"}
               PROVE  /\ \A v \in DOMAIN arg : Stays(arg[v])
                      /\ \A phi \in phis : \A p \in DOMAIN incoming[phi] : Stays(incoming[phi][p])
    BY DEF NoUseOfErased, ErasedAreDead, Stays
  <2> QED
    BY DEF PassInv, UsesOK, ArgsOK, IncomingOK
<1> QED
  BY <1>1, PromotionInvariant, PTL

-----------------------------------------------------------------------------
(***************************************************************************)
(* The values.  A certificate says what the pass has established: val, the *)
(* value of the k-th scalar before instruction i of block b, and res, what *)
(* the uses of an instruction were replaced by.                            *)
(***************************************************************************)
Live == Reach(prog.succ, {entryBB})
Dom(d, b) == Dominates(prog.succ, entryBB, d, b)
End(b) == Len(prog.code[b]) + 1
Merge(b, k) == Phi(b, TargetAllocas[k])

(* The value of a scalar that only phis without uses were tracking. *)
Dead == [k |-> "dead", b |-> 0, n |-> 0]

(* Instruction n of block c has been executed, or place j of block c been  *)
(* passed, whenever place i of block b is reached.                         *)
Ahead(c, n, b, i) == IF c = b THEN n < i ELSE Dom(c, b)
Leads(c, j, b, i) == IF c = b THEN j <= i ELSE Dom(c, b)

AvailableAt(v, b, i) ==
  /\ v.k = "ins" => Ahead(v.b, v.n, b, i)
  /\ v.k = "phi" => Dom(v.b, b)

(* A load that step 3 will still replace, and a place it has come to. *)
Open(v) == phase = "replace" /\ Pending(v)
Known(b, i, k) ==
  \/ phase # "replace" \/ i = 1 \/ k < ai
  \/ k = ai /\ (b < at \/ (b = at /\ i <= pc))

(* Null stands for undef in current. *)
Value(v) == IF v = Null THEN Undef ELSE v

Operand(res, v) == IF InsAt(v).arg = Null THEN Null ELSE res[InsAt(v).arg]

(* A value that is not replaced by step 3. *)
Settled == {v \in Positions : ~IsTargetAccess(v)} \cup phis \cup {Undef, Dead}

(* A load of a scalar stands for the value of that scalar. *)
LoadsRead(val, res) ==
  \A v \in Positions :
    /\ \A k \in 1..M : Accesses(v, k) /\ InsAt(v).op = "load" /\ ~Open(v) => res[v] = val[v.b][v.n][k]
    /\ ~IsTargetAccess(v) \/ InsAt(v).op = "store" \/ Open(v) => res[v] = v

(* A store to a scalar sets its value, and nothing else does within a      *)
(* block.                                                                  *)
Flows(val, res) ==
  \A v \in Positions : \A k \in 1..M : Known(v.b, v.n + 1, k) =>
    val[v.b][v.n + 1][k] = IF InsAt(v).op = "store" /\ Accesses(v, k)
                             THEN Value(Operand(res, v)) ELSE val[v.b][v.n][k]

(* The values are there for good, and are computed before they are used.   *)
Sound(val) ==
  \A b \in Blocks : \A i \in 1..End(b) : \A k \in 1..M : Known(b, i, k) =>
    val[b][i][k] \in Settled /\ (b \in Live => AvailableAt(val[b][i][k], b, i))

Rewritten(res) == \A v \in DOMAIN arg : arg[v] = Operand(res, v) /\ arg[v] # Dead

Unassigned(val) == \A k \in 1..M : val[entryBB][1][k] = Undef

Core(val, res) ==
  LoadsRead(val, res) /\ Flows(val, res) /\ Sound(val) /\ Rewritten(res) /\ Unassigned(val)

(* Steps 3 and 4: each block begins with its phis. *)
Recorded(b, k) == phase = "fill" \/ k < ai \/ (k = ai /\ b < at)
Walking(val) ==
  phase \in {"replace", "fill"} =>
    /\ \A b \in Blocks : \A k \in 1..M :
         /\ val[b][1][k] = IF Merge(b, k) \in phis THEN Merge(b, k) ELSE Undef
         /\ Merge(b, k) \notin phis => preds(b) = {}
         /\ Recorded(b, k) => Post[b][TargetAllocas[k]] = val[b][End(b)][k]
         /\ \A i \in 1..End(b) : Known(b, i, k) => val[b][i][k] # Dead
    /\ phase = "replace" => Value(current) = val[at][pc][ai]
    /\ DOMAIN Post = Blocks /\ \A b \in Blocks : DOMAIN Post[b] = Scalars

(* From then on: a phi merges the values at the ends of its predecessors;  *)
(* without a phi they are all the same.                                    *)
Merges(val) ==
  phase \in {"erase", "clean", "done"} =>
    \A b \in Blocks : \A k \in 1..M :
      IF Merge(b, k) \in phis
        THEN /\ val[b][1][k] = Merge(b, k)
             /\ DOMAIN incoming[Merge(b, k)] = preds(b)
             /\ \A p \in preds(b) : /\ incoming[Merge(b, k)][p] = val[p][End(p)][k]
                                    /\ val[p][End(p)][k] # Dead
        ELSE \/ val[b][1][k] = Dead
             \/ \A p \in preds(b) : val[p][End(p)][k] = val[b][1][k]

Sites ==
  /\ phase \in {"clean", "done"} => DOMAIN arg = {v \in Positions : ~IsTargetAccess(v)}
  /\ phase = "clean" => ai \in 0..M

Certificate(val, res) == Core(val, res) /\ Walking(val) /\ Merges(val) /\ Sites

-----------------------------------------------------------------------------
(* The graph of the function. *)
LEMMA GraphIs ==
  ASSUME prog \in Programs
  PROVE  /\ IsGraph(prog.succ) /\ DOMAIN prog.succ = Blocks
         /\ entryBB \in Blocks /\ entryBB \in Live /\ Live \subseteq Blocks
         /\ \A b \in Live : prog.succ[b] \subseteq Live
         /\ \A b \in Blocks : b \in prog.succ[b] => b # entryBB
         /\ preds(entryBB) = {}
<1>1. prog.succ \in [Blocks -> SUBSET Blocks]
  BY PromotionAssumption
<1>2. IsFiniteSet(Blocks) /\ entryBB \in Blocks
  BY ScalarsAre, FS_Interval DEF Blocks, entryBB
<1>3. IsGraph(prog.succ) /\ DOMAIN prog.succ = Blocks
  BY <1>1, <1>2 DEF IsGraph
<1>4. {entryBB} \subseteq Live /\ Live \in SUBSET Blocks /\ Closed(prog.succ, Live)
  <2>1. PICK g : g = prog.succ
    OBVIOUS
  <2>2. IsGraph(g) /\ {entryBB} \in SUBSET DOMAIN g
    BY <1>2, <1>3, <2>1
  <2>3. /\ Reach(g, {entryBB}) \in SUBSET DOMAIN g
        /\ {entryBB} \subseteq Reach(g, {entryBB})
        /\ Closed(g, Reach(g, {entryBB}))
    BY <2>2, ReachIsLeastClosed
  <2> QED
    BY <1>3, <2>1, <2>3 DEF Live
<1>5. \A b \in Blocks : entryBB \notin prog.succ[b]
  BY FunctionsAssumption
<1> QED
  BY <1>2, <1>3, <1>4, <1>5 DEF Closed, preds

(* Dominance in it. *)
LEMMA DomIs ==
  ASSUME prog \in Programs
  PROVE  /\ \A b : Dom(b, b)
         /\ \A c, d, b : Dom(d, c) /\ Dom(c, b) => Dom(d, b)
         /\ \A d : \A b \in Live : Dom(d, b) /\ Dom(b, d) => d = b
         /\ \A d : \A b \in Live : Dom(d, b) => d \in Live
         /\ \A d : \A p \in Blocks : \A b \in prog.succ[p] : Dom(d, b) /\ d # b => Dom(d, p)
         /\ \A d : \A b \in Live \ {entryBB} :
              (\A p \in Live : b \in prog.succ[p] => Dom(d, p) \/ Dom(b, p)) => Dom(d, b)
         /\ \A b \in Live \ {entryBB} : \E p \in Live : b \in prog.succ[p] /\ ~Dom(b, p)
<1>1. PICK g : g = prog.succ
  OBVIOUS
<1>2. IsGraph(g) /\ DOMAIN g = Blocks /\ entryBB \in DOMAIN g
  BY <1>1, GraphIs
<1>3. /\ \A d, b : Dom(d, b) <=> Dominates(g, entryBB, d, b)
      /\ Live = Reach(g, {entryBB})
  BY <1>1 DEF Dom, Live
<1>4. \A b : Dom(b, b)
  BY DEF Dom, Dominates
<1>5. \A c, d, b : Dom(d, c) /\ Dom(c, b) => Dom(d, b)
  BY <1>2, <1>3, DominatesTransitive
<1>6. \A d : \A b \in Live : Dom(d, b) /\ Dom(b, d) => d = b
  BY <1>2, <1>3, DominatesAntisymmetric
<1>7. \A d : \A b \in Live : Dom(d, b) => d \in Live
  BY <1>2, <1>3, DominatorIsReached
<1>8. \A d : \A p \in Blocks : \A b \in prog.succ[p] : Dom(d, b) /\ d # b => Dom(d, p)
  BY <1>1, <1>2, <1>3, DominatesBefore
<1>9. ASSUME NEW d, NEW b \in Live \ {entryBB},
             \A p \in Live : b \in prog.succ[p] => Dom(d, p) \/ Dom(b, p)
      PROVE  Dom(d, b)
  BY <1>1, <1>2, <1>3, <1>9, DominatesMerge
<1>10. \A b \in Live \ {entryBB} : \E p \in Live : b \in prog.succ[p] /\ ~Dom(b, p)
  BY <1>1, <1>2, <1>3, ReachedFromOutside
<1> QED
  BY <1>4, <1>5, <1>6, <1>7, <1>8, <1>9, <1>10

(* What is available at a place is so wherever that place leads. *)
LEMMA AvailableLater ==
  ASSUME prog \in Programs, NEW v, NEW c, NEW j \in Int, NEW b \in Live, NEW i \in Int,
         v.k = "ins" => v.n \in Int, AvailableAt(v, c, j), Leads(c, j, b, i)
  PROVE  AvailableAt(v, b, i)
<1>1. ASSUME v.k = "phi" PROVE Dom(v.b, b)
  BY <1>1, DomIs DEF AvailableAt, Leads
<1>2. ASSUME v.k = "ins" PROVE Ahead(v.b, v.n, b, i)
  <2>1. PICK d : d = v.b
    OBVIOUS
  <2>2. PICK n \in Int : n = v.n
    BY <1>2
  <2>3. IF d = c THEN n < j ELSE Dom(d, c)
    BY <1>2, <2>1, <2>2 DEF AvailableAt, Ahead
  <2>4. IF c = b THEN j <= i ELSE Dom(c, b)
    BY DEF Leads
  <2>5. IF d = b THEN n < i ELSE Dom(d, b)
    <3>1. CASE d = c /\ c = b
      BY <2>3, <2>4, <3>1
    <3>2. CASE d # c /\ c # b
      BY <2>3, <2>4, <3>2, DomIs
    <3>3. CASE ~(d = c /\ c = b) /\ ~(d # c /\ c # b)
      BY <2>3, <2>4, <3>3
    <3> QED
      BY <3>1, <3>2, <3>3
  <2> QED
    BY <2>1, <2>2, <2>5 DEF Ahead
<1> QED
  BY <1>1, <1>2 DEF AvailableAt

(* An operand is the result of an instruction further ahead. *)
LEMMA OperandAhead ==
  ASSUME prog \in Programs, NEW v \in Positions, InsAt(v).arg # Null
  PROVE  /\ InsAt(v).arg \in Positions /\ InsAt(InsAt(v).arg).op # "store"
         /\ Ahead(InsAt(v).arg.b, InsAt(v).arg.n, v.b, v.n)
<1>1. v.b \in Blocks /\ v.n \in DOMAIN prog.code[v.b]
  BY PositionsAre
<1>2. PICK p, b, i : p = prog /\ b = v.b /\ i = v.n
  OBVIOUS
<1>3. PICK w : w = p.code[b][i].arg
  OBVIOUS
<1>4. w = InsAt(v).arg
  BY <1>2, <1>3 DEF InsAt
<1>5. IF w.b = b THEN w.n < i ELSE Dominates(p.succ, entryBB, w.b, b)
  BY <1>1, <1>2, <1>3, <1>4, FunctionsAssumption
<1>6. Ahead(w.b, w.n, b, i)
  BY <1>2, <1>5 DEF Ahead, Dom
<1> QED
  BY <1>2, <1>4, <1>6, ArgsAre

(* The values that are settled. *)
LEMMA SettledAre ==
  ASSUME PassTypes, NEW v \in Settled
  PROVE  /\ v.k = "ins" => v.n \in Int /\ v \in Positions /\ ~IsTargetAccess(v)
         /\ v.k = "phi" => v \in phis
         /\ v # Null
<1>1. \A u \in Positions : u.n \in Int /\ u.k = "ins"
  BY PositionsAre DEF PassTypes, Ins
<1>2. \A u \in phis : u.k = "phi"
  BY DEF PassTypes, Phi
<1>3. Undef.k = "undef" /\ Dead.k = "dead" /\ Null.k = "null"
  BY DEF Undef, Dead, Null
<1> QED
  BY <1>1, <1>2, <1>3 DEF Settled

(* What an access to a target is an access to. *)
LEMMA AccessesAre ==
  ASSUME PassTypes
  PROVE  /\ \A v, j, k : Accesses(v, j) /\ Accesses(v, k) /\ j \in 1..M /\ k \in 1..M => j = k
         /\ \A v, k : Accesses(v, k) => IsTargetAccess(v) /\ InsAt(v).op \in {"load", "store"}
  BY DEF PassTypes, Accesses, IsTargetAccess

(* The pass has come to what it has replaced. *)
LEMMA ReplacedIsKnown ==
  ASSUME PassTypes, NEW v \in Positions, NEW k \in 1..M, Accesses(v, k), ~Open(v)
  PROVE  Known(v.b, v.n, k) /\ Known(v.b, v.n + 1, k)
<1>1. v.k = "ins" /\ v.n \in Int /\ v.b \in Int
  BY PositionsAre, ScalarsAre DEF PassTypes, Ins, Blocks
<1>2. CASE phase # "replace"
  BY <1>2 DEF Known
<1>3. CASE phase = "replace"
  <2>1. ~(ai < k \/ (ai = k /\ ~Before(v, at, pc)))
    BY <1>1, <1>3 DEF Open, Pending
  <2>2. /\ ai \in Int /\ k \in Int /\ at \in Int /\ pc \in Int
    BY <1>3, ScalarsAre DEF PassTypes, Blocks
  <2> QED
    BY <1>1, <2>1, <2>2 DEF Before, Known
<1> QED
  BY <1>2, <1>3

(* What an instruction was replaced by. *)
LEMMA ResultIs ==
  ASSUME PassTypes, NEW val, NEW res, Core(val, res),
         NEW v \in Positions, InsAt(v).op # "store", ~Open(v)
  PROVE  /\ res[v] \in Settled
         /\ res[v] # v /\ v.b \in Live => AvailableAt(res[v], v.b, v.n)
         /\ \A b \in Live : \A i \in Int : Ahead(v.b, v.n, b, i) => AvailableAt(res[v], b, i)
<1>1. v.k = "ins" /\ v.n \in 1..Len(prog.code[v.b]) /\ v.b \in Blocks /\ prog \in Programs
      /\ Len(prog.code[v.b]) \in Nat
  BY PositionsAre DEF PassTypes, Ins
<1>2. CASE ~IsTargetAccess(v)
  <2>1. res[v] = v
    BY <1>2 DEF Core, LoadsRead
  <2> QED
    BY <1>1, <1>2, <2>1 DEF Settled, AvailableAt
<1>3. CASE IsTargetAccess(v)
  <2>1. PICK k \in 1..M : Accesses(v, k)
    BY <1>3, AccessIs
  <2>2. InsAt(v).op = "load"
    BY <2>1, AccessesAre
  <2>3. res[v] = val[v.b][v.n][k]
    BY <2>1, <2>2 DEF Core, LoadsRead
  <2>4. Known(v.b, v.n, k) /\ v.n \in 1..End(v.b)
    BY <1>1, <2>1, ReplacedIsKnown DEF End
  <2>5. res[v] \in Settled /\ (v.b \in Live => AvailableAt(res[v], v.b, v.n))
    BY <1>1, <2>3, <2>4 DEF Core, Sound
  <2>6. ASSUME NEW b \in Live, NEW i \in Int, Ahead(v.b, v.n, b, i) PROVE AvailableAt(res[v], b, i)
    <3>1. v.b \in Live /\ v.n \in Int
      BY <1>1, <2>6, DomIs DEF Ahead
    <3>2. Leads(v.b, v.n, b, i)
      BY <2>6, <3>1 DEF Ahead, Leads
    <3> QED
      BY <1>1, <2>5, <3>1, <3>2, AvailableLater, SettledAre
  <2> QED
    BY <2>5, <2>6
<1> QED
  BY <1>2, <1>3

-----------------------------------------------------------------------------
(* What does not change with the program and the vector. *)
LEMMA FixedViews ==
  ASSUME Fixed
  PROVE  /\ Live' = Live
         /\ \A b : End(b)' = End(b) /\ preds(b)' = preds(b)
         /\ \A b, k : Merge(b, k)' = Merge(b, k)
         /\ \A d, b : Dom(d, b)' <=> Dom(d, b)
         /\ \A v, b, i : AvailableAt(v, b, i)' <=> AvailableAt(v, b, i)
         /\ \A res, v : Operand(res, v)' = Operand(res, v)
         /\ (phis' = phis => Settled' = Settled)
<1>1. Live' = Live
  BY DEF Fixed, Live
<1>2. \A b : End(b)' = End(b) /\ preds(b)' = preds(b)
  BY DEF Fixed, End, preds
<1>3. \A b, k : Merge(b, k)' = Merge(b, k)
  BY DEF Fixed, Merge
<1>4. \A d, b : Dom(d, b)' <=> Dom(d, b)
  BY DEF Fixed, Dom
<1>5. \A v, b, i : AvailableAt(v, b, i)' <=> AvailableAt(v, b, i)
  BY <1>4 DEF AvailableAt, Ahead
<1>6. \A res, v : Operand(res, v)' = Operand(res, v)
  BY FixedKeeps DEF Operand
<1>7. phis' = phis => Settled' = Settled
  BY FixedKeeps, Zenon DEF Settled
<1> QED
  BY <1>1, <1>2, <1>3, <1>4, <1>5, <1>6, <1>7

(* Steps that give no value to a scalar and replace nothing. *)
LEMMA CoreKeeps ==
  ASSUME NEW val, NEW res, Core(val, res), PassTypes, Fixed, phis' = phis,
         \A v \in Positions : Open(v)' <=> Open(v),
         \A b \in Blocks : \A i \in 1..End(b) : \A k \in 1..M : Known(b, i, k)' => Known(b, i, k),
         DOMAIN arg' \subseteq DOMAIN arg, \A v \in DOMAIN arg' : arg'[v] = arg[v]
  PROVE  Core(val, res)'
<1>1. LoadsRead(val, res)'
  <2>1. Positions' = Positions
    BY FixedKeeps
  <2>2. ASSUME NEW v \in Positions
        PROVE  (/\ \A k \in 1..M : Accesses(v, k) /\ InsAt(v).op = "load" /\ ~Open(v) => res[v] = val[v.b][v.n][k]
                /\ ~IsTargetAccess(v) \/ InsAt(v).op = "store" \/ Open(v) => res[v] = v)'
    BY FixedKeeps DEF Core, LoadsRead
  <2> QED
    BY <2>1, <2>2 DEF LoadsRead
<1>2. Flows(val, res)'
  <2>1. Positions' = Positions
    BY FixedKeeps
  <2>2. ASSUME NEW v \in Positions, NEW k \in 1..M, Known(v.b, v.n + 1, k)'
        PROVE  (val[v.b][v.n + 1][k] = IF InsAt(v).op = "store" /\ Accesses(v, k)
                             THEN Value(Operand(res, v)) ELSE val[v.b][v.n][k])'
    <3>1. v.b \in Blocks /\ v.n + 1 \in 1..End(v.b)
      BY PositionsAre DEF PassTypes, End
    <3>2. Known(v.b, v.n + 1, k)
      BY <2>2, <3>1
    <3>3. val[v.b][v.n + 1][k] = IF InsAt(v).op = "store" /\ Accesses(v, k)
                             THEN Value(Operand(res, v)) ELSE val[v.b][v.n][k]
      BY <3>2 DEF Core, Flows
    <3> QED
      BY <3>3, FixedKeeps, FixedViews DEF Value
  <2> QED
    BY <2>1, <2>2 DEF Flows
<1>3. Sound(val)'
  <2>1. ASSUME NEW b \in Blocks, NEW i \in 1..End(b), NEW k \in 1..M, Known(b, i, k)'
        PROVE  (val[b][i][k] \in Settled /\ (b \in Live => AvailableAt(val[b][i][k], b, i)))'
    <3>1. val[b][i][k] \in Settled /\ (b \in Live => AvailableAt(val[b][i][k], b, i))
      BY <2>1 DEF Core, Sound
    <3> QED
      BY <3>1, FixedViews
  <2> QED
    BY <2>1, FixedViews DEF Sound
<1>4. Rewritten(res)'
  BY FixedViews DEF Core, Rewritten
<1>5. Unassigned(val)'
  BY DEF Core, Unassigned
<1> QED
  BY <1>1, <1>2, <1>3, <1>4, <1>5 DEF Core

(* Step 3, one instruction: where the walk has come to, and what is left   *)
(* for it to replace.                                                      *)
LEMMA WalkOn ==
  ASSUME PassTypes, phase = "replace", phase' = "replace", Fixed, ai' = ai, at' = at, pc' = pc + 1
  PROVE  /\ \A v \in Positions : Open(v)' <=> Open(v) /\ ~(v = Ins(at, pc) /\ Accesses(v, ai))
         /\ \A b \in Blocks : \A i \in Int : \A k \in 1..M :
              Known(b, i, k)' <=> Known(b, i, k) \/ (b = at /\ i = pc + 1 /\ k = ai)
         /\ ~Known(at, pc + 1, ai)
<1>1. /\ at \in Int /\ pc \in Nat \ {0} /\ ai \in 1..M /\ M \in Nat /\ at \in Blocks
      /\ \A b \in Blocks : b \in Int
      /\ \A v \in Positions : v.b \in Int /\ v.n \in Int /\ v = Ins(v.b, v.n) /\ v.k = "ins"
  BY PositionsAre, ScalarsAre DEF PassTypes, Blocks, Ins
<1>2. ASSUME NEW v \in Positions, Open(v)' PROVE Open(v) /\ ~(v = Ins(at, pc) /\ Accesses(v, ai))
  <2>1. PICK k \in 1..M : Accesses(v, k)' /\ (ai < k \/ (ai = k /\ ~Before(v, at, pc + 1)))
    BY <1>2 DEF Open, Pending, Before
  <2>2. Accesses(v, k)
    BY <2>1, FixedKeeps
  <2>3. ai < k \/ (ai = k /\ ~Before(v, at, pc))
    BY <1>1, <2>1 DEF Before
  <2>4. ~(v = Ins(at, pc) /\ Accesses(v, ai))
    <3> SUFFICES ASSUME v = Ins(at, pc), Accesses(v, ai) PROVE FALSE
      OBVIOUS
    <3>1. k = ai
      BY <1>1, <2>2, AccessesAre
    <3>2. v.b = at /\ v.n = pc
      BY DEF Ins
    <3> QED
      BY <1>1, <2>1, <3>1, <3>2 DEF Before
  <2> QED
    BY <1>1, <2>2, <2>3, <2>4 DEF Open, Pending
<1>3. ASSUME NEW v \in Positions, Open(v), ~(v = Ins(at, pc) /\ Accesses(v, ai)) PROVE Open(v)'
  BY <1>3, PendingMoves DEF Open
<1>4. ASSUME NEW b \in Blocks, NEW i \in Int, NEW k \in 1..M
      PROVE  Known(b, i, k)' <=> Known(b, i, k) \/ (b = at /\ i = pc + 1 /\ k = ai)
  BY <1>1 DEF Known
<1>5. ~Known(at, pc + 1, ai)
  BY <1>1 DEF Known
<1> QED
  BY <1>2, <1>3, <1>4, <1>5

(* When a store of a scalar is visited, its operand has been replaced. *)
LEMMA StoredIsReplaced ==
  ASSUME PassTypes, CopiesInOrder, NEW s \in Positions, NEW k \in 1..M, Accesses(s, k),
         InsAt(s).op = "store", InsAt(s).arg # Null
  PROVE  /\ phase = "replace" /\ s = Ins(at, pc) /\ k = ai => ~Open(InsAt(s).arg)
         /\ Known(s.b, s.n + 1, k) /\ phase = "replace" /\ Accesses(Ins(at, pc), ai)
              => InsAt(s).arg # Ins(at, pc)
<1>1. PICK w : w = InsAt(s).arg
  OBVIOUS
<1>2. w \in Positions
  BY <1>1, OperandAhead DEF PassTypes
<1>3. /\ \A u \in Positions : u.b \in Int /\ u.n \in Int /\ u.k = "ins" /\ u.n # 0
      /\ phase = "replace" => at \in Int /\ pc \in Int /\ ai \in Int /\ ai \in 1..M
      /\ k \in Int /\ M \in Nat
  BY PositionsAre, ScalarsAre DEF PassTypes, Blocks, Ins
<1>4. \A j \in 1..M : Accesses(w, j) => j < k \/ (j = k /\ Before(w, s.b, s.n))
  BY <1>1, <1>2, <1>3 DEF CopiesInOrder
<1>5. ASSUME phase = "replace", s = Ins(at, pc), k = ai, Open(w) PROVE FALSE
  <2>1. PICK j \in 1..M : Accesses(w, j) /\ (ai < j \/ (ai = j /\ ~Before(w, at, pc)))
    BY <1>5 DEF Open, Pending
  <2>2. s.b = at /\ s.n = pc
    BY <1>5 DEF Ins
  <2> QED
    BY <1>3, <1>4, <1>5, <2>1, <2>2
<1>6. ASSUME Known(s.b, s.n + 1, k), phase = "replace", Accesses(Ins(at, pc), ai), w = Ins(at, pc)
      PROVE FALSE
  <2>1. w.b = at /\ w.n = pc
    BY <1>6 DEF Ins
  <2>2. ai < k \/ (ai = k /\ Before(w, s.b, s.n))
    BY <1>3, <1>4, <1>6
  <2> QED
    BY <1>3, <1>6, <2>1, <2>2 DEF Known, Before
<1> QED
  BY <1>1, <1>5, <1>6

(* Step 3, one instruction: a place more is known. *)
LEMMA ReplaceCertified ==
  ASSUME PassTypes, CopiesInOrder, Replace, NEW val, NEW res, Certificate(val, res)
  PROVE  \E nval, nres : Certificate(nval, nres)'
<1> DEFINE ins == Ins(at, pc)
           reads == InsAt(ins).op = "load" /\ Accesses(ins, ai)
           writes == InsAt(ins).op = "store" /\ Accesses(ins, ai)
           value == Value(current)
           x == IF writes THEN Value(arg[ins]) ELSE value
<1>1. /\ phase = "replace" /\ phase' = "replace" /\ Fixed /\ phis' = phis /\ Post' = Post
      /\ ai' = ai /\ at' = at /\ pc' = pc + 1
      /\ ai \in 1..M /\ at \in Blocks /\ pc \in DOMAIN prog.code[at] /\ DOMAIN arg = Positions
      /\ prog \in Programs
  BY DEF Replace, Fixed, PassTypes
<1>2. /\ ins \in Positions /\ ins.b = at /\ ins.n = pc /\ ins.k = "ins"
      /\ pc \in Nat \ {0} /\ pc \in 1..End(at) /\ pc + 1 \in 1..End(at)
  BY <1>1, PositionsAre DEF Ins, End
<1>3. /\ Value(current') = x
      /\ DOMAIN arg' = Positions
      /\ \A v \in Positions : arg'[v] = IF reads /\ arg[v] = ins THEN value ELSE arg[v]
  <2>1. TargetAllocas[ai] \in Targets
    BY <1>1 DEF PassTypes, Targets
  <2>2. Undef # Null
    BY DEF Undef, Null
  <2>3. Value(value) = value
    BY <2>2 DEF Value
  <2>4. CASE /\ InsAt(ins).a # TargetAllocas[ai] \/ InsAt(ins).op = "call"
             /\ UNCHANGED <<current, arg, incoming>>
    <3>1. ~reads /\ ~writes
      BY <2>4 DEF Accesses
    <3> QED
      BY <1>1, <2>4, <3>1
  <2>5. CASE /\ InsAt(ins).a = TargetAllocas[ai] /\ InsAt(ins).op = "store"
             /\ current' = arg[ins]
             /\ UNCHANGED <<arg, incoming>>
    <3>1. ~reads /\ writes
      BY <2>1, <2>5 DEF Accesses, IsTargetAccess
    <3> QED
      BY <1>1, <2>5, <3>1
  <2>6. CASE /\ InsAt(ins).a = TargetAllocas[ai] /\ InsAt(ins).op = "load"
             /\ current' = value
             /\ ReplaceAllUses(ins, value)
    <3>1. reads /\ ~writes
      BY <2>1, <2>6 DEF Accesses, IsTargetAccess
    <3>2. arg' = [v \in Positions |-> IF arg[v] = ins THEN value ELSE arg[v]]
      BY <1>1, <2>6 DEF ReplaceAllUses
    <3> QED
      BY <2>3, <2>6, <3>1, <3>2
  <2> QED
    BY <2>4, <2>5, <2>6 DEF Replace, Value
<1>4. /\ \A v \in Positions : Open(v)' <=> Open(v) /\ ~(v = ins /\ Accesses(v, ai))
      /\ \A b \in Blocks : \A i \in Int : \A k \in 1..M :
           Known(b, i, k)' <=> Known(b, i, k) \/ (b = at /\ i = pc + 1 /\ k = ai)
      /\ ~Known(at, pc + 1, ai)
  BY <1>1, WalkOn
<1>5. /\ Core(val, res) /\ Walking(val)
      /\ val[at][pc][ai] = value /\ Known(at, pc, ai) /\ value # Dead /\ value \in Settled
      /\ at \in Live => AvailableAt(value, at, pc)
  <2>1. Known(at, pc, ai)
    BY <1>1, <1>2 DEF Known
  <2> QED
    BY <1>1, <1>2, <2>1 DEF Certificate, Walking, Core, Sound
<1>6. ~(ins \in Settled) \/ ~reads
  BY <1>2 DEF Settled, Accesses, PassTypes, Phi, Undef, Dead, Ins
<1>7. reads => Open(ins)
  <2>1. ~Before(ins, at, pc)
    BY <1>1, <1>2, ScalarsAre DEF Before, Blocks
  <2> QED
    BY <1>1, <1>2, <2>1 DEF Open, Pending
<1>8. PICK nval : \A b \in Blocks : \A i \in Nat : \A k \in 1..M :
        nval[b][i][k] = IF b = at /\ i = pc + 1 /\ k = ai THEN x ELSE val[b][i][k]
  <2> DEFINE f == [b \in Blocks |-> [i \in Nat |-> [k \in 1..M |->
                     IF b = at /\ i = pc + 1 /\ k = ai THEN x ELSE val[b][i][k]]]]
  <2>1. \A b \in Blocks : \A i \in Nat : \A k \in 1..M :
          f[b][i][k] = IF b = at /\ i = pc + 1 /\ k = ai THEN x ELSE val[b][i][k]
    BY Zenon
  <2> HIDE DEF f
  <2> WITNESS f
  <2> QED
    BY <2>1
<1>9. PICK nres : \A v \in Positions : nres[v] = IF reads /\ v = ins THEN value ELSE res[v]
  <2> DEFINE f == [v \in Positions |-> IF reads /\ v = ins THEN value ELSE res[v]]
  <2>1. \A v \in Positions : f[v] = IF reads /\ v = ins THEN value ELSE res[v]
    BY Zenon
  <2> HIDE DEF f
  <2> WITNESS f
  <2> QED
    BY <2>1
<1>10. \A b \in Blocks : \A i \in Nat : \A k \in 1..M : Known(b, i, k) => nval[b][i][k] = val[b][i][k]
  BY <1>4, <1>8
<1>11. \A b \in Blocks : \A k \in 1..M : nval[b][1][k] = val[b][1][k]
  BY <1>2, <1>8
<1> HIDE DEF ins, reads, writes, value, x
<1>12. \A v \in Positions : /\ v.b \in Blocks /\ v.n \in Nat /\ v.n + 1 \in Nat \ {1}
                            /\ v.n \in 1..End(v.b) /\ v.n + 1 \in 1..End(v.b)
                            /\ v = Ins(v.b, v.n) /\ v.k = "ins"
  BY PositionsAre DEF PassTypes, Ins, End
<1>13. ASSUME NEW v \in Positions, v # ins \/ ~reads, IsTargetAccess(v), InsAt(v).op = "load", ~Open(v),
              NEW k \in 1..M, Accesses(v, k)
       PROVE  nres[v] = nval[v.b][v.n][k]
  <2>1. Known(v.b, v.n, k)
    BY <1>13, ReplacedIsKnown
  <2>2. res[v] = val[v.b][v.n][k]
    BY <1>5, <1>13 DEF Core, LoadsRead
  <2> QED
    BY <1>9, <1>10, <1>12, <1>13, <2>1, <2>2
<1>14. LoadsRead(nval, nres)'
  <2>1. ASSUME NEW v \in Positions, NEW k \in 1..M, Accesses(v, k), InsAt(v).op = "load", ~Open(v)'
        PROVE  nres[v] = nval[v.b][v.n][k]
    <3>1. CASE v = ins /\ reads
      <4>1. k = ai
        BY <1>1, <2>1, <3>1, AccessesAre DEF reads
      <4>2. nval[at][pc][ai] = value
        BY <1>1, <1>2, <1>5, <1>10
      <4> QED
        BY <1>2, <1>9, <3>1, <4>1, <4>2
    <3>2. CASE ~(v = ins /\ reads)
      <4>1. ~Open(v)
        BY <1>4, <2>1, <3>2 DEF reads
      <4> QED
        BY <1>13, <2>1, <3>2, <4>1, AccessesAre
    <3> QED
      BY <3>1, <3>2
  <2>2. ASSUME NEW v \in Positions, ~IsTargetAccess(v) \/ InsAt(v).op = "store" \/ Open(v)'
        PROVE  nres[v] = v
    <3>1. ~(v = ins /\ reads)
      BY <1>4, <2>2, AccessesAre DEF reads
    <3>2. res[v] = v
      BY <1>4, <1>5, <2>2 DEF Core, LoadsRead
    <3> QED
      BY <1>9, <3>1, <3>2
  <2> QED
    BY <1>1, <2>1, <2>2, FixedKeeps DEF LoadsRead
<1>15. ASSUME NEW s \in Positions, NEW k \in 1..M, Accesses(s, k), InsAt(s).op = "store",
              Known(s.b, s.n + 1, k)'
       PROVE  Operand(nres, s) = Operand(res, s)
  <2>1. CASE InsAt(s).arg = Null
    BY <2>1 DEF Operand
  <2>2. CASE InsAt(s).arg # Null /\ ~reads
    BY <1>1, <1>9, <2>2, OperandAhead DEF Operand
  <2>3. CASE InsAt(s).arg # Null /\ reads
    <3>1. ~(s.b = at /\ s.n + 1 = pc + 1)
      <4> SUFFICES ASSUME s.b = at, s.n + 1 = pc + 1 PROVE FALSE
        OBVIOUS
      <4>1. s = ins
        BY <1>2, <1>12 DEF ins
      <4> QED
        BY <1>15, <2>3, <4>1 DEF reads
    <3>2. Known(s.b, s.n + 1, k)
      BY <1>4, <1>12, <1>15, <3>1
    <3>3. InsAt(s).arg # ins
      BY <1>1, <1>15, <2>3, <3>2, StoredIsReplaced DEF ins, reads
    <3> QED
      BY <1>1, <1>9, <2>3, <3>3, OperandAhead DEF Operand
  <2> QED
    BY <2>1, <2>2, <2>3
<1>16. Flows(nval, nres)'
  <2>1. ASSUME NEW v \in Positions, NEW k \in 1..M, Known(v.b, v.n + 1, k)'
        PROVE  nval[v.b][v.n + 1][k] = IF InsAt(v).op = "store" /\ Accesses(v, k)
                             THEN Value(Operand(nres, v)) ELSE nval[v.b][v.n][k]
    <3>1. CASE v.b = at /\ v.n = pc /\ k = ai
      <4>1. v = ins
        BY <1>12, <3>1 DEF ins
      <4>2. nval[v.b][v.n + 1][k] = x
        BY <1>1, <1>2, <1>8, <3>1
      <4>3. nval[v.b][v.n][k] = value
        BY <1>1, <1>2, <1>5, <1>10, <3>1
      <4>4. writes => Operand(nres, v) = Operand(res, v) /\ arg[ins] = Operand(res, ins)
        BY <1>1, <1>2, <1>5, <1>15, <2>1, <3>1, <4>1 DEF writes, Core, Rewritten
      <4> QED
        BY <3>1, <4>1, <4>2, <4>3, <4>4 DEF x, writes
    <3>2. CASE ~(v.b = at /\ v.n = pc /\ k = ai)
      <4>1. Known(v.b, v.n + 1, k)
        BY <1>2, <1>4, <1>12, <2>1, <3>2
      <4>2. Known(v.b, v.n, k)
        <5>1. v.n \in Nat /\ v.n + 1 # 1 /\ pc \in Nat
          BY <1>2, <1>12, <2>1
        <5> QED
          BY <1>1, <4>1, <5>1 DEF Known
      <4>3. val[v.b][v.n + 1][k] = IF InsAt(v).op = "store" /\ Accesses(v, k)
                             THEN Value(Operand(res, v)) ELSE val[v.b][v.n][k]
        BY <1>5, <4>1 DEF Core, Flows
      <4>4. nval[v.b][v.n + 1][k] = val[v.b][v.n + 1][k] /\ nval[v.b][v.n][k] = val[v.b][v.n][k]
        BY <1>10, <1>12, <4>1, <4>2
      <4> QED
        BY <1>15, <2>1, <4>3, <4>4
    <3> QED
      BY <3>1, <3>2
  <2>2. \A v : Operand(nres, v)' = Operand(nres, v)
    BY <1>1, FixedViews
  <2> QED
    BY <1>1, <2>1, <2>2, FixedKeeps DEF Flows, Value
<1>17. /\ x \in Settled /\ x # Dead
       /\ at \in Live => AvailableAt(x, at, pc + 1)
  <2>1. ASSUME NEW v, v \in Settled, at \in Live, AvailableAt(v, at, pc)
        PROVE  AvailableAt(v, at, pc + 1)
    <3>1. Leads(at, pc, at, pc + 1) /\ pc \in Int /\ pc + 1 \in Int
      BY <1>2 DEF Leads
    <3> QED
      BY <1>1, <2>1, <3>1, AvailableLater, SettledAre
  <2>2. CASE ~writes
    BY <1>5, <2>1, <2>2 DEF x
  <2>3. CASE writes /\ InsAt(ins).arg = Null
    <3>1. arg[ins] = Null
      BY <1>1, <1>2, <1>5, <2>3 DEF Core, Rewritten, Operand
    <3>2. x = Undef
      BY <2>3, <3>1 DEF x, Value
    <3> QED
      BY <3>2 DEF Settled, AvailableAt, Undef, Dead
  <2>4. CASE writes /\ InsAt(ins).arg # Null
    <3>1. PICK w : w = InsAt(ins).arg
      OBVIOUS
    <3>2. w \in Positions /\ InsAt(w).op # "store" /\ Ahead(w.b, w.n, at, pc)
      BY <1>1, <1>2, <2>4, <3>1, OperandAhead
    <3>3. ~Open(w)
      BY <1>1, <1>2, <2>4, <3>1, StoredIsReplaced DEF writes, ins
    <3>4. res[w] \in Settled /\ (at \in Live => AvailableAt(res[w], at, pc))
      BY <1>2, <1>5, <3>2, <3>3, ResultIs
    <3>5. arg[ins] = res[w] /\ arg[ins] # Dead
      BY <1>1, <1>2, <1>5, <2>4, <3>1 DEF Core, Rewritten, Operand
    <3>6. x = res[w]
      BY <2>4, <3>4, <3>5, SettledAre DEF x, Value
    <3> QED
      BY <2>1, <3>4, <3>5, <3>6
  <2> QED
    BY <2>2, <2>3, <2>4
<1>18. Sound(nval)'
  <2>1. ASSUME NEW b \in Blocks, NEW i \in 1..End(b), NEW k \in 1..M, Known(b, i, k)'
        PROVE  nval[b][i][k] \in Settled /\ (b \in Live => AvailableAt(nval[b][i][k], b, i))
    <3>1. i \in Nat
      OBVIOUS
    <3>2. CASE b = at /\ i = pc + 1 /\ k = ai
      BY <1>8, <1>17, <3>1, <3>2
    <3>3. CASE ~(b = at /\ i = pc + 1 /\ k = ai)
      <4>1. Known(b, i, k)
        BY <1>4, <2>1, <3>1, <3>3
      <4> QED
        BY <1>5, <1>10, <3>1, <4>1 DEF Core, Sound
    <3> QED
      BY <3>2, <3>3
  <2> QED
    BY <1>1, <2>1, FixedViews DEF Sound
<1>19. Rewritten(nres)'
  <2>1. ASSUME NEW v \in Positions
        PROVE  arg'[v] = Operand(nres, v) /\ arg'[v] # Dead
    <3>1. arg[v] = Operand(res, v) /\ arg[v] # Dead
      BY <1>1, <1>5, <2>1 DEF Core, Rewritten
    <3>2. CASE InsAt(v).arg = Null
      <4>1. arg[v] # ins
        BY <1>2, <3>1, <3>2 DEF Operand, Null
      <4> QED
        BY <1>3, <3>1, <3>2, <4>1 DEF Operand
    <3>3. CASE InsAt(v).arg # Null
      <4>1. PICK w : w = InsAt(v).arg
        OBVIOUS
      <4>2. w \in Positions /\ InsAt(w).op # "store"
        BY <1>1, <3>3, <4>1, OperandAhead
      <4>3. arg[v] = res[w] /\ Operand(nres, v) = nres[w]
        BY <3>1, <3>3, <4>1 DEF Operand
      <4>4. CASE reads /\ w = ins
        <5>1. res[w] = w
          BY <1>5, <1>7, <4>2, <4>4 DEF Core, LoadsRead
        <5> QED
          BY <1>3, <1>5, <1>9, <4>2, <4>3, <4>4, <5>1
      <4>5. CASE ~(reads /\ w = ins)
        <5>1. res[w] # ins \/ ~reads
          <6>1. CASE Open(w)
            BY <1>5, <4>2, <4>5, <6>1 DEF Core, LoadsRead
          <6>2. CASE ~Open(w)
            BY <1>5, <1>6, <4>2, <6>2, ResultIs
          <6> QED
            BY <6>1, <6>2
        <5> QED
          BY <1>3, <1>9, <3>1, <4>2, <4>3, <4>5, <5>1
      <4> QED
        BY <4>4, <4>5
    <3> QED
      BY <3>2, <3>3
  <2>2. DOMAIN arg' = Positions
    BY <1>3
  <2> QED
    BY <1>1, <2>1, <2>2, FixedViews, FixedKeeps DEF Rewritten
<1>20. Unassigned(nval)'
  <2>1. entryBB \in Blocks
    BY <1>1, GraphIs
  <2> QED
    BY <1>5, <1>11, <2>1 DEF Core, Unassigned
<1>21. Walking(nval)'
  <2>1. ASSUME NEW b \in Blocks, NEW k \in 1..M
        PROVE  /\ nval[b][1][k] = IF Merge(b, k) \in phis THEN Merge(b, k) ELSE Undef
               /\ Merge(b, k) \notin phis => preds(b) = {}
    BY <1>1, <1>5, <1>11 DEF Walking
  <2>2. ASSUME NEW b \in Blocks, NEW k \in 1..M, Recorded(b, k)
        PROVE  Post[b][TargetAllocas[k]] = nval[b][End(b)][k]
    <3>1. End(b) \in Nat
      BY <1>1, PositionsAre DEF End
    <3>2. ~(b = at /\ k = ai)
      BY <1>1, <2>2, ScalarsAre DEF Recorded, Blocks
    <3>3. nval[b][End(b)][k] = val[b][End(b)][k]
      BY <1>8, <3>1, <3>2
    <3> QED
      BY <1>1, <1>5, <2>2, <3>3 DEF Walking
  <2>3. ASSUME NEW b \in Blocks, NEW k \in 1..M, NEW i \in 1..End(b), Known(b, i, k)'
        PROVE  nval[b][i][k] # Dead
    <3>1. i \in Nat
      OBVIOUS
    <3>2. CASE b = at /\ i = pc + 1 /\ k = ai
      BY <1>8, <1>17, <3>1, <3>2
    <3>3. CASE ~(b = at /\ i = pc + 1 /\ k = ai)
      <4>1. Known(b, i, k)
        BY <1>4, <2>3, <3>1, <3>3
      <4>2. val[b][i][k] # Dead
        BY <1>1, <1>5, <4>1 DEF Walking
      <4> QED
        BY <1>10, <3>1, <4>1, <4>2
    <3> QED
      BY <3>2, <3>3
  <2>4. Value(current') = nval[at][pc + 1][ai]
    BY <1>1, <1>2, <1>3, <1>8
  <2>5. DOMAIN Post = Blocks /\ \A b \in Blocks : DOMAIN Post[b] = Scalars
    BY <1>1, <1>5 DEF Walking
  <2>6. \A b, k : Recorded(b, k)' <=> Recorded(b, k)
    BY <1>1 DEF Recorded
  <2>7. \A b \in Blocks : \A k \in 1..M :
          (/\ nval[b][1][k] = IF Merge(b, k) \in phis THEN Merge(b, k) ELSE Undef
           /\ Merge(b, k) \notin phis => preds(b) = {}
           /\ Recorded(b, k) => Post[b][TargetAllocas[k]] = nval[b][End(b)][k]
           /\ \A i \in 1..End(b) : Known(b, i, k) => nval[b][i][k] # Dead)'
    BY <1>1, <2>1, <2>2, <2>3, <2>6, FixedViews DEF Fixed
  <2>8. (Value(current) = nval[at][pc][ai])'
    BY <1>1, <2>4 DEF Value
  <2>9. (DOMAIN Post = Blocks /\ \A b \in Blocks : DOMAIN Post[b] = Scalars)'
    BY <1>1, <2>5
  <2> QED
    BY <2>7, <2>8, <2>9 DEF Walking
<1>22. Merges(nval)' /\ Sites'
  BY <1>1 DEF Merges, Sites
<1>23. Certificate(nval, nres)'
  BY <1>14, <1>16, <1>18, <1>19, <1>20, <1>21, <1>22 DEF Certificate, Core
<1> QED
  BY <1>23

(* Step 3, the end of a block. *)
LEMMA RecordPostCertified ==
  ASSUME PassTypes, RecordPost, NEW val, NEW res, Certificate(val, res)
  PROVE  Certificate(val, res)'
<1> DEFINE AI == TargetAllocas[ai]
<1>1. /\ phase = "replace" /\ phase' \in {"replace", "fill"} /\ Fixed /\ phis' = phis /\ arg' = arg
      /\ ai \in 1..M /\ at \in 1..N /\ pc = End(at) /\ pc' = 1 /\ N \in Nat \ {0} /\ M \in Nat
      /\ prog \in Programs /\ DOMAIN TargetAllocas = 1..M
      /\ Post' = [Post EXCEPT ![at][AI] = Value(current)]
  <2>1. pc \in 1..(Len(prog.code[at]) + 1) /\ at \in Blocks /\ prog \in Programs /\ pc \notin DOMAIN prog.code[at]
    BY DEF RecordPost, PassTypes
  <2>2. pc = End(at)
    BY <2>1, PositionsAre DEF End
  <2> QED
    BY <2>1, <2>2, ScalarsAre DEF RecordPost, PassTypes, Fixed, Value, Blocks
<1>2. \/ at < N /\ at' = at + 1 /\ ai' = ai /\ phase' = "replace"
      \/ at = N /\ at' = 1 /\ ai' = ai + 1 /\ (phase' = "replace" <=> ai # M)
  BY <1>1 DEF RecordPost
<1>3. \A b \in Blocks : b \in 1..N /\ End(b) \in Nat
  BY <1>1, PositionsAre DEF Blocks, End
<1>4. ASSUME NEW v \in Positions PROVE Open(v)' <=> Open(v)
  <2>1. ASSUME Open(v) PROVE Open(v)'
    BY <2>1, PendingNext DEF Open
  <2>2. ASSUME Open(v)' PROVE Open(v)
    <3>1. PICK k \in 1..M : Accesses(v, k)' /\ (ai' < k \/ (ai' = k /\ ~Before(v, at', 1))) /\ phase' = "replace"
      BY <1>1, <2>2 DEF Open, Pending, Before
    <3>2. v.b \in Int /\ v.n \in Int /\ v.k = "ins"
      BY <1>1, <1>3, PositionsAre DEF Ins
    <3>3. Accesses(v, k)
      BY <1>1, <3>1, FixedKeeps
    <3>4. ai < k \/ (ai = k /\ ~Before(v, at, pc))
      BY <1>1, <1>2, <3>1, <3>2 DEF Before
    <3> QED
      BY <1>1, <3>2, <3>3, <3>4 DEF Open, Pending
  <2> QED
    BY <2>1, <2>2
<1>5. ASSUME NEW b \in Blocks, NEW i \in 1..End(b), NEW k \in 1..M, Known(b, i, k)' PROVE Known(b, i, k)
  <2>1. b \in 1..N /\ i \in Nat
    BY <1>3
  <2>2. b = at => i <= pc
    BY <1>1, <1>3
  <2>3. CASE phase' # "replace"
    BY <1>1, <1>2, <2>1, <2>2, <2>3 DEF Known
  <2>4. CASE phase' = "replace"
    <3>1. i = 1 \/ k < ai' \/ (k = ai' /\ (b < at' \/ (b = at' /\ i <= 1)))
      BY <1>1, <1>5, <2>4 DEF Known
    <3> QED
      BY <1>1, <1>2, <2>1, <2>2, <2>4, <3>1 DEF Known
  <2> QED
    BY <2>3, <2>4
<1>6. Core(val, res) /\ Walking(val)
  BY DEF Certificate
<1>7. Core(val, res)'
  BY <1>1, <1>4, <1>5, <1>6, CoreKeeps
<1>8. /\ val[at][pc][ai] = Value(current)
      /\ DOMAIN Post = Blocks /\ \A b \in Blocks : DOMAIN Post[b] = Scalars
      /\ AI \in Scalars /\ at \in Blocks
  BY <1>1, <1>6 DEF Walking, PassTypes, Blocks
<1>9. ASSUME NEW b \in Blocks, NEW k \in 1..M, Recorded(b, k)'
      PROVE  Post'[b][TargetAllocas[k]] = val[b][End(b)][k]
  <2>1. TargetAllocas[k] \in Scalars /\ (TargetAllocas[k] = AI => k = ai)
    BY <1>1 DEF PassTypes
  <2>2. CASE b = at /\ k = ai
    BY <1>1, <1>8, <2>2
  <2>3. CASE ~(b = at /\ k = ai)
    <3>1. Recorded(b, k)
      BY <1>1, <1>2, <1>3, <1>9, <2>3 DEF Recorded
    <3>2. Post'[b][TargetAllocas[k]] = Post[b][TargetAllocas[k]]
      <4> HIDE DEF AI
      <4> QED
        BY <1>1, <1>8, <2>1, <2>3
    <3> QED
      BY <1>1, <1>6, <3>1, <3>2 DEF Walking
  <2> QED
    BY <2>2, <2>3
<1>10. DOMAIN Post' = Blocks /\ \A b \in Blocks : DOMAIN Post'[b] = Scalars
  BY <1>1, <1>8
<1>11. phase' = "replace" => Value(current') = val[at'][1][ai']
  <2> SUFFICES ASSUME phase' = "replace" PROVE Value(current') = val[at'][1][ai']
    OBVIOUS
  <2>1. ai' \in 1..M /\ at' \in Blocks
    BY <1>1, <1>2 DEF Blocks
  <2>2. val[at'][1][ai'] = IF Merge(at', ai') \in phis THEN Merge(at', ai') ELSE Undef
    BY <1>1, <1>6, <2>1 DEF Walking
  <2>3. current' = IF Merge(at', ai') \in phis THEN Merge(at', ai') ELSE Null
    BY <1>1, <1>2, <2>1 DEF RecordPost, Merge
  <2>4. \A v \in phis : v # Null
    BY DEF PassTypes, Phi, Null
  <2> QED
    BY <2>2, <2>3, <2>4 DEF Value
<1>12. Walking(val)'
  <2>1. \A b \in Blocks : \A k \in 1..M :
          (/\ val[b][1][k] = IF Merge(b, k) \in phis THEN Merge(b, k) ELSE Undef
           /\ Merge(b, k) \notin phis => preds(b) = {}
           /\ Recorded(b, k) => Post[b][TargetAllocas[k]] = val[b][End(b)][k]
           /\ \A i \in 1..End(b) : Known(b, i, k) => val[b][i][k] # Dead)'
    <3>1. ASSUME NEW b \in Blocks, NEW k \in 1..M
          PROVE  /\ val[b][1][k] = IF Merge(b, k) \in phis THEN Merge(b, k) ELSE Undef
                 /\ Merge(b, k) \notin phis => preds(b) = {}
                 /\ \A i \in 1..End(b) : Known(b, i, k)' => val[b][i][k] # Dead
      BY <1>1, <1>5, <1>6 DEF Walking
    <3> QED
      BY <1>1, <1>9, <3>1, FixedViews DEF Fixed
  <2>2. (Value(current) = val[at][pc][ai])' \/ phase' # "replace"
    BY <1>1, <1>11 DEF Value
  <2>3. (DOMAIN Post = Blocks /\ \A b \in Blocks : DOMAIN Post[b] = Scalars)'
    BY <1>10
  <2> QED
    BY <2>1, <2>2, <2>3 DEF Walking
<1>13. Merges(val)' /\ Sites'
  BY <1>1 DEF Merges, Sites
<1> QED
  BY <1>7, <1>12, <1>13 DEF Certificate

(* Beyond step 3 the places are all known, and no load is open. *)
LEMMA CorePersists ==
  ASSUME PassTypes, NEW val, NEW res, Core(val, res), Fixed, phis' = phis,
         phase # "replace", phase' # "replace",
         DOMAIN arg' \subseteq DOMAIN arg, \A v \in DOMAIN arg' : arg'[v] = arg[v]
  PROVE  Core(val, res)'
<1>1. \A v \in Positions : Open(v)' <=> Open(v)
  BY DEF Open
<1>2. \A b, i, k : Known(b, i, k)
  BY DEF Known
<1> QED
  BY <1>1, <1>2, CoreKeeps

(* Step 4. *)
LEMMA FillCertified ==
  ASSUME PassTypes, FillPhis, NEW val, NEW res, Certificate(val, res)
  PROVE  Certificate(val, res)'
<1>1. /\ phase = "fill" /\ phase' = "erase" /\ Fixed /\ phis' = phis /\ arg' = arg
      /\ incoming' = [phi \in phis |-> [p \in preds(phi.b) |-> Post[p][phi.n]]]
      /\ prog \in Programs
  BY DEF FillPhis, Fixed, PassTypes
<1>2. Core(val, res) /\ Walking(val)
  BY DEF Certificate
<1>3. Core(val, res)'
  BY <1>1, <1>2, CorePersists
<1>4. ASSUME NEW b \in Blocks, NEW k \in 1..M
      PROVE  IF Merge(b, k) \in phis
               THEN /\ val[b][1][k] = Merge(b, k)
                    /\ DOMAIN incoming'[Merge(b, k)] = preds(b)
                    /\ \A p \in preds(b) : /\ incoming'[Merge(b, k)][p] = val[p][End(p)][k]
                                           /\ val[p][End(p)][k] # Dead
               ELSE \/ val[b][1][k] = Dead
                    \/ \A p \in preds(b) : val[p][End(p)][k] = val[b][1][k]
  <2>1. CASE Merge(b, k) \notin phis
    BY <1>1, <1>2, <2>1 DEF Walking
  <2>2. CASE Merge(b, k) \in phis
    <3>1. val[b][1][k] = Merge(b, k)
      BY <1>1, <1>2, <2>2 DEF Walking
    <3>2. Merge(b, k).b = b /\ Merge(b, k).n = TargetAllocas[k]
      BY DEF Merge, Phi
    <3>3. incoming'[Merge(b, k)] = [p \in preds(b) |-> Post[p][TargetAllocas[k]]]
      BY <1>1, <2>2, <3>2
    <3>4. ASSUME NEW p \in preds(b)
          PROVE  Post[p][TargetAllocas[k]] = val[p][End(p)][k] /\ val[p][End(p)][k] # Dead
      <4>1. p \in Blocks /\ End(p) \in 1..End(p) /\ Recorded(p, k) /\ Known(p, End(p), k)
        BY <1>1, PositionsAre DEF preds, End, Recorded, Known
      <4> QED
        BY <1>1, <1>2, <4>1 DEF Walking
    <3> QED
      BY <2>2, <3>1, <3>3, <3>4
  <2> QED
    BY <2>1, <2>2
<1>5. Merges(val)'
  <2>1. ASSUME NEW b \in Blocks, NEW k \in 1..M
        PROVE (IF Merge(b, k) \in phis
                 THEN /\ val[b][1][k] = Merge(b, k)
                      /\ DOMAIN incoming[Merge(b, k)] = preds(b)
                      /\ \A p \in preds(b) : /\ incoming[Merge(b, k)][p] = val[p][End(p)][k]
                                             /\ val[p][End(p)][k] # Dead
                 ELSE \/ val[b][1][k] = Dead
                      \/ \A p \in preds(b) : val[p][End(p)][k] = val[b][1][k])'
    <3>1. /\ Merge(b, k)' = Merge(b, k) /\ preds(b)' = preds(b)
          /\ \A p : End(p)' = End(p)
          /\ phis' = phis
      BY <1>1, FixedViews
    <3> QED
      BY <1>4, <3>1
  <2> QED
    BY <2>1 DEF Merges
<1>6. Walking(val)' /\ Sites'
  BY <1>1 DEF Walking, Sites
<1> QED
  BY <1>3, <1>5, <1>6 DEF Certificate

(* Steps that keep the phis filled in. *)
LEMMA MergesKeep ==
  ASSUME NEW val, Merges(val), Fixed, phis' = phis, incoming' = incoming,
         phase \in {"erase", "clean", "done"} \/ phase' = phase
  PROVE  Merges(val)'
<1>1. ASSUME phase \in {"erase", "clean", "done"}, NEW b \in Blocks, NEW k \in 1..M
      PROVE (IF Merge(b, k) \in phis
               THEN /\ val[b][1][k] = Merge(b, k)
                    /\ DOMAIN incoming[Merge(b, k)] = preds(b)
                    /\ \A p \in preds(b) : /\ incoming[Merge(b, k)][p] = val[p][End(p)][k]
                                           /\ val[p][End(p)][k] # Dead
               ELSE \/ val[b][1][k] = Dead
                    \/ \A p \in preds(b) : val[p][End(p)][k] = val[b][1][k])'
  <2>1. IF Merge(b, k) \in phis
          THEN /\ val[b][1][k] = Merge(b, k)
               /\ DOMAIN incoming[Merge(b, k)] = preds(b)
               /\ \A p \in preds(b) : /\ incoming[Merge(b, k)][p] = val[p][End(p)][k]
                                      /\ val[p][End(p)][k] # Dead
          ELSE \/ val[b][1][k] = Dead
               \/ \A p \in preds(b) : val[p][End(p)][k] = val[b][1][k]
    BY <1>1 DEF Merges
  <2>2. /\ Merge(b, k)' = Merge(b, k) /\ preds(b)' = preds(b)
        /\ \A p : End(p)' = End(p)
    BY FixedViews
  <2> QED
    BY <2>1, <2>2
<1> QED
  BY <1>1 DEF Merges

(* Step 5. *)
LEMMA EraseCertified ==
  ASSUME PassTypes, Erase, NEW val, NEW res, Certificate(val, res)
  PROVE  Certificate(val, res)'
<1>1. /\ phase = "erase" /\ phase' = "clean" /\ Fixed /\ phis' = phis /\ incoming' = incoming
      /\ arg' = [v \in {u \in Positions : ~IsTargetAccess(u)} |-> arg[v]]
      /\ DOMAIN arg = Positions /\ ai' = Len(TargetAllocas)
  BY DEF Erase, Fixed, PassTypes
<1>2. Core(val, res)'
  BY <1>1, CorePersists DEF Certificate
<1>3. Merges(val)'
  BY <1>1, MergesKeep DEF Certificate
<1>4. Walking(val)'
  BY <1>1 DEF Walking
<1>5. Sites'
  <2>1. ai' \in 0..M
    <3>1. TargetAllocas \in [1..M -> Scalars] /\ M \in Nat
      BY ScalarsAre DEF PassTypes
    <3>2. Len(TargetAllocas) = M
      BY <3>1
    <3> QED
      BY <1>1, <3>1, <3>2
  <2>2. DOMAIN arg' = {u \in Positions : ~IsTargetAccess(u)}
    BY <1>1
  <2>3. {u \in Positions : ~IsTargetAccess(u)}' = {u \in Positions : ~IsTargetAccess(u)}
    BY <1>1, FixedKeeps
  <2> QED
    BY <2>1, <2>2, <2>3 DEF Sites
<1> QED
  BY <1>2, <1>3, <1>4, <1>5 DEF Certificate

(* Step 7, between two phis. *)
LEMMA SweepCertified ==
  ASSUME PassTypes, CleanNextBlock \/ CleanAgain, NEW val, NEW res, Certificate(val, res)
  PROVE  Certificate(val, res)'
<1>1. /\ phase = "clean" /\ phase' \in {"clean", "done"} /\ Fixed
      /\ phis' = phis /\ incoming' = incoming /\ arg' = arg
      /\ ai' = ai \/ ai' = Len(TargetAllocas)
  BY DEF CleanNextBlock, CleanAgain, Fixed
<1>2. Core(val, res)'
  BY <1>1, CorePersists DEF Certificate
<1>3. Merges(val)'
  BY <1>1, MergesKeep DEF Certificate
<1>4. Walking(val)'
  BY <1>1 DEF Walking
<1>5. Sites'
  <2>1. TargetAllocas \in [1..M -> Scalars] /\ M \in Nat
    BY ScalarsAre DEF PassTypes
  <2>2. Len(TargetAllocas) = M
    BY <2>1
  <2>3. ai' \in 0..M
    BY <1>1, <2>1, <2>2 DEF Certificate, Sites
  <2> QED
    BY <1>1, <2>3, FixedKeeps DEF Certificate, Sites
<1> QED
  BY <1>2, <1>3, <1>4, <1>5 DEF Certificate

(* Steps that change nothing. *)
LEMMA StutterCertified ==
  ASSUME PassTypes, UNCHANGED passVars, NEW val, NEW res, Certificate(val, res)
  PROVE  Certificate(val, res)'
<1>1. /\ Fixed /\ phis' = phis /\ phase' = phase /\ ai' = ai /\ at' = at /\ pc' = pc
      /\ arg' = arg /\ Post' = Post /\ incoming' = incoming /\ current' = current
  BY DEF passVars, cursor, Fixed
<1>2. \A v \in Positions : Open(v)' <=> Open(v)
  BY <1>1, FixedKeeps DEF Open, Pending, Before
<1>3. /\ \A b, i, k : Known(b, i, k)' <=> Known(b, i, k)
      /\ \A b, k : Recorded(b, k)' <=> Recorded(b, k)
  BY <1>1 DEF Known, Recorded
<1>4. Core(val, res)'
  BY <1>1, <1>2, <1>3, CoreKeeps DEF Certificate
<1>5. Merges(val)'
  BY <1>1, MergesKeep DEF Certificate
<1>6. Walking(val)'
  <2>1. ASSUME phase \in {"replace", "fill"}, NEW b \in Blocks, NEW k \in 1..M
        PROVE (/\ val[b][1][k] = IF Merge(b, k) \in phis THEN Merge(b, k) ELSE Undef
               /\ Merge(b, k) \notin phis => preds(b) = {}
               /\ Recorded(b, k) => Post[b][TargetAllocas[k]] = val[b][End(b)][k]
               /\ \A i \in 1..End(b) : Known(b, i, k) => val[b][i][k] # Dead)'
    <3>1. /\ val[b][1][k] = IF Merge(b, k) \in phis THEN Merge(b, k) ELSE Undef
          /\ Merge(b, k) \notin phis => preds(b) = {}
          /\ Recorded(b, k) => Post[b][TargetAllocas[k]] = val[b][End(b)][k]
          /\ \A i \in 1..End(b) : Known(b, i, k) => val[b][i][k] # Dead
      BY <2>1 DEF Certificate, Walking
    <3> QED
      BY <1>1, <1>3, <3>1, FixedViews DEF Fixed
  <2>2. phase = "replace" => (Value(current) = val[at][pc][ai])'
    BY <1>1 DEF Certificate, Walking, Value
  <2>3. phase \in {"replace", "fill"} =>
          (DOMAIN Post = Blocks /\ \A b \in Blocks : DOMAIN Post[b] = Scalars)'
    BY <1>1 DEF Certificate, Walking
  <2> QED
    BY <1>1, <2>1, <2>2, <2>3 DEF Walking
<1>7. Sites'
  BY <1>1, FixedKeeps DEF Certificate, Sites
<1> QED
  BY <1>4, <1>5, <1>6, <1>7 DEF Certificate

(* Before the pass nothing is replaced, and each block begins with its     *)
(* phis.                                                                   *)
LEMMA CertifiedInit ==
  ASSUME PromotionInit
  PROVE  \E val, res : Certificate(val, res)
<1>1. /\ PassTypes /\ prog \in Programs
      /\ phase = IF Scalars = {} THEN "done" ELSE "replace"
      /\ ai = 1 /\ at = 1 /\ pc = 1 /\ current = Null
      /\ arg = [v \in Positions |-> InsAt(v).arg]
      /\ Post = [b \in Blocks |-> [a \in Scalars |-> Undef]]
      /\ phis = {Phi(b, a) : b \in {c \in Blocks \ {entryBB} : preds(c) # {}}, a \in Scalars}
      /\ N \in Nat \ {0} /\ M \in Nat /\ (Scalars # {} => M # 0)
      /\ TargetAllocas \in [1..M -> Scalars] /\ DOMAIN TargetAllocas = 1..M
  <2>1. PassTypes
    BY TypesInit
  <2>2. prog \in Programs /\ TargetAllocas \in [1..M -> Scalars]
    BY <2>1 DEF PassTypes
  <2>3. DOMAIN TargetAllocas = 1..M
    BY <2>2
  <2> QED
    BY <2>1, <2>2, <2>3, ScalarsAre DEF PromotionInit
<1>2. phase = "done" => M = 0
  BY <1>1, FS_EmptySet DEF M
<1>3. \A b, k : Merge(b, k).b = b /\ Merge(b, k).n = TargetAllocas[k] /\ Merge(b, k).k = "phi"
  BY DEF Merge, Phi
<1>4. /\ \A b \in Blocks : \A k \in 1..M : Merge(b, k) \notin phis => preds(b) = {}
      /\ \A k \in 1..M : Merge(entryBB, k) \notin phis
  <2>1. \A b, a : Phi(b, a).b = b
    BY DEF Phi
  <2>2. \A k \in 1..M : Merge(entryBB, k) \notin phis
    BY <1>1, <1>3, <2>1
  <2>3. ASSUME NEW b \in Blocks, NEW k \in 1..M, preds(b) # {} PROVE Merge(b, k) \in phis
    <3>1. b # entryBB /\ TargetAllocas[k] \in Scalars
      BY <1>1, <2>3, GraphIs
    <3> QED
      BY <1>1, <2>3, <3>1 DEF Merge
  <2> QED
    BY <2>2, <2>3
<1>5. PICK val : \A b \in Blocks : \A i \in Nat : \A k \in 1..M :
        val[b][i][k] = IF Merge(b, k) \in phis THEN Merge(b, k) ELSE Undef
  <2> DEFINE f == [b \in Blocks |-> [i \in Nat |-> [k \in 1..M |->
                     IF Merge(b, k) \in phis THEN Merge(b, k) ELSE Undef]]]
  <2>1. \A b \in Blocks : \A i \in Nat : \A k \in 1..M :
          f[b][i][k] = IF Merge(b, k) \in phis THEN Merge(b, k) ELSE Undef
    BY Zenon
  <2> HIDE DEF f
  <2> WITNESS f
  <2> QED
    BY <2>1
<1>6. PICK res : \A v \in Positions : res[v] = v
  <2>1. \A v \in Positions : [u \in Positions |-> u][v] = v
    BY Zenon
  <2> QED
    BY <2>1
<1>7. /\ \A v \in Positions : v.b \in Blocks /\ v.n \in Nat \ {0} /\ v.k = "ins" /\ v.b >= 1
      /\ \A b \in Blocks : End(b) \in Nat
      /\ entryBB \in Blocks /\ entryBB = 1 /\ 1 \in Nat
  BY <1>1, PositionsAre, GraphIs DEF Ins, Blocks, End, entryBB
<1>8. ASSUME NEW v \in Positions, NEW k \in 1..M, Accesses(v, k) PROVE Open(v)
  <2>1. phase = "replace"
    BY <1>1, <1>2
  <2>2. 1 < k \/ (1 = k /\ ~Before(v, 1, 1))
    BY <1>7 DEF Before, Blocks
  <2> QED
    BY <1>1, <1>7, <1>8, <2>1, <2>2 DEF Open, Pending
<1>9. \A b \in Blocks : \A i \in 1..End(b) : \A k \in 1..M : Known(b, i, k) => i = 1
  BY <1>1, <1>2, <1>7 DEF Known, Blocks
<1>10. LoadsRead(val, res)
  BY <1>6, <1>8 DEF LoadsRead
<1>11. Flows(val, res)
  <2>1. ASSUME NEW v \in Positions, NEW k \in 1..M PROVE ~Known(v.b, v.n + 1, k)
    <3>1. v.n + 1 \in 1..End(v.b) /\ v.b \in Blocks /\ v.n + 1 # 1
      BY <1>1, PositionsAre DEF End
    <3> QED
      BY <1>9, <3>1
  <2> QED
    BY <2>1 DEF Flows
<1>12. Sound(val)
  <2>1. ASSUME NEW b \in Blocks, NEW k \in 1..M
        PROVE  val[b][1][k] \in Settled /\ AvailableAt(val[b][1][k], b, 1)
    <3>1. val[b][1][k] = IF Merge(b, k) \in phis THEN Merge(b, k) ELSE Undef
      BY <1>5, <1>7
    <3>2. AvailableAt(Merge(b, k), b, 1)
      BY <1>1, <1>3, DomIs DEF AvailableAt
    <3>3. AvailableAt(Undef, b, 1)
      BY DEF AvailableAt, Undef
    <3> QED
      BY <3>1, <3>2, <3>3 DEF Settled
  <2> QED
    BY <1>9, <2>1 DEF Sound
<1>13. Rewritten(res)
  <2>1. ASSUME NEW v \in Positions PROVE arg[v] = Operand(res, v) /\ arg[v] # Dead
    <3>1. arg[v] = InsAt(v).arg
      BY <1>1
    <3>2. Null # Dead
      BY DEF Null, Dead
    <3>3. InsAt(v).arg # Null => InsAt(v).arg \in Positions
      BY <1>1, OperandAhead
    <3>4. \A u \in Positions : u # Dead
      BY <1>7 DEF Dead
    <3> QED
      BY <1>6, <3>1, <3>2, <3>3, <3>4 DEF Operand
  <2> QED
    BY <1>1, <2>1 DEF Rewritten
<1>14. Unassigned(val)
  BY <1>4, <1>5, <1>7 DEF Unassigned
<1>15. Walking(val)
  <2>1. ASSUME NEW b \in Blocks, NEW k \in 1..M
        PROVE /\ val[b][1][k] = IF Merge(b, k) \in phis THEN Merge(b, k) ELSE Undef
              /\ Merge(b, k) \notin phis => preds(b) = {}
              /\ ~Recorded(b, k)
              /\ \A i \in 1..End(b) : Known(b, i, k) => val[b][i][k] # Dead
    <3>1. val[b][1][k] = IF Merge(b, k) \in phis THEN Merge(b, k) ELSE Undef
      BY <1>5, <1>7
    <3>2. Undef # Dead /\ Merge(b, k) # Dead
      BY <1>3 DEF Undef, Dead
    <3>3. ~Recorded(b, k)
      BY <1>1, <1>2 DEF Recorded, Blocks
    <3> QED
      BY <1>4, <1>9, <3>1, <3>2, <3>3
  <2>2. phase = "replace" => Value(current) = val[at][pc][ai]
    <3> SUFFICES ASSUME phase = "replace" PROVE Value(current) = val[at][pc][ai]
      OBVIOUS
    <3>1. 1 \in 1..M
      BY <1>1
    <3>2. val[entryBB][1][1] = Undef
      BY <1>14, <3>1 DEF Unassigned
    <3> QED
      BY <1>1, <1>7, <3>2 DEF Value
  <2>3. DOMAIN Post = Blocks /\ \A b \in Blocks : DOMAIN Post[b] = Scalars
    BY <1>1
  <2> QED
    BY <2>1, <2>2, <2>3 DEF Walking
<1>16. Merges(val)
  BY <1>1, <1>2 DEF Merges
<1>17. Sites
  <2>1. \A v \in Positions : phase = "done" => ~IsTargetAccess(v)
    BY <1>1, <1>2, AccessIs
  <2>2. DOMAIN arg = Positions
    BY <1>1
  <2> QED
    BY <1>1, <2>1, <2>2 DEF Sites
<1>18. Certificate(val, res)
  BY <1>10, <1>11, <1>12, <1>13, <1>14, <1>15, <1>16, <1>17 DEF Certificate, Core
<1> QED
  BY <1>18

(* Step 7, one phi: where a phi that merges nothing but v with itself is   *)
(* available, v is.                                                        *)
LEMMA CommonIsAvailable ==
  ASSUME PassTypes, NEW val, Sound(val), phase # "replace",
         NEW b \in Live \ {entryBB}, NEW k \in 1..M, NEW v \in Settled,
         \A p \in preds(b) : val[p][End(p)][k] \in {Merge(b, k), v}
  PROVE  AvailableAt(v, b, 1)
<1>1. prog \in Programs
  BY DEF PassTypes
<1>2. CASE v.k \in {"ins", "phi"}
  <2>1. PICK d : d = v.b
    OBVIOUS
  <2>2. ASSUME NEW p \in Live, b \in prog.succ[p]
        PROVE  Dom(d, p) \/ Dom(b, p)
    <3>1. p \in Blocks /\ p \in preds(b) /\ End(p) \in 1..End(p)
      BY <1>1, <2>2, GraphIs, PositionsAre DEF preds, End
    <3>2. AvailableAt(val[p][End(p)][k], p, End(p))
      BY <3>1 DEF Sound, Known
    <3>3. CASE val[p][End(p)][k] = Merge(b, k)
      BY <3>2, <3>3 DEF AvailableAt, Merge, Phi
    <3>4. CASE val[p][End(p)][k] = v
      <4>1. Dom(p, p)
        BY <1>1, DomIs
      <4> QED
        BY <1>2, <2>1, <3>2, <3>4, <4>1 DEF AvailableAt, Ahead
    <3> QED
      BY <3>1, <3>3, <3>4
  <2>3. Dom(d, b)
    BY <1>1, <2>2, DomIs
  <2>4. ASSUME v.k = "ins" PROVE d # b
    <3> SUFFICES ASSUME d = b PROVE FALSE
      OBVIOUS
    <3>1. PICK p \in Live : b \in prog.succ[p] /\ ~Dom(b, p)
      BY <1>1, DomIs
    <3> QED
      BY <2>2, <3>1
  <2> QED
    BY <2>1, <2>3, <2>4 DEF AvailableAt, Ahead
<1>3. CASE v.k \notin {"ins", "phi"}
  BY <1>3 DEF AvailableAt
<1> QED
  BY <1>2, <1>3

(* Step 7, one phi is erased: the value that replaces it, if there is one. *)
LEMMA ErasedFor ==
  ASSUME PassTypes, CleanPhi, NEW val, NEW res, Certificate(val, res),
         Merge(at, ai) \in phis, Unused(Merge(at, ai)) \/ \A v, w \in Others(Merge(at, ai)) : v = w
  PROVE  /\ at \in Blocks \ {entryBB} /\ ai \in 1..M
         /\ phis' = phis \ {Merge(at, ai)}
         /\ DOMAIN arg' = DOMAIN arg
         /\ \E c \in Settled \ {Merge(at, ai)} :
              /\ c # Dead => \A p \in preds(at) : val[p][End(p)][ai] \in {Merge(at, ai), c}
              /\ at \in Live => AvailableAt(c, at, 1)
              /\ \A u \in DOMAIN arg : /\ arg'[u] = IF arg[u] = Merge(at, ai) THEN c ELSE arg[u]
                                       /\ arg[u] = Merge(at, ai) => c # Dead
              /\ \A q \in phis \ {Merge(at, ai)} :
                   /\ DOMAIN incoming'[q] = DOMAIN incoming[q]
                   /\ \A p \in DOMAIN incoming[q] :
                        /\ incoming'[q][p] = IF incoming[q][p] = Merge(at, ai) THEN c ELSE incoming[q][p]
                        /\ incoming[q][p] = Merge(at, ai) => c # Dead
<1>1. PICK phi : phi = Merge(at, ai)
  OBVIOUS
<1> DEFINE common == IF Others(phi) = {} THEN Undef ELSE CHOOSE v \in Others(phi) : TRUE
           trivial == \A v, w \in Others(phi) : v = w
<1>2. /\ phase = "clean" /\ ai > 0 /\ EraseFor(phi, common)
  BY <1>1 DEF CleanPhi, Merge
<1>3. /\ ai \in 1..M /\ phi.b = at /\ phi.k = "phi" /\ at \in Blocks /\ prog \in Programs
  <2>1. ai \in 0..M /\ M \in Nat
    BY <1>2, ScalarsAre DEF Certificate, Sites
  <2>2. phi.b = at /\ phi.k = "phi"
    BY <1>1 DEF Merge, Phi
  <2>3. PICK b \in Blocks, a \in Scalars : phi = Phi(b, a)
    BY <1>1 DEF PassTypes
  <2>4. phi.b = b
    BY <2>3 DEF Phi
  <2> QED
    BY <1>2, <2>1, <2>2, <2>4 DEF PassTypes
<1>4. /\ val[at][1][ai] = phi /\ DOMAIN incoming[phi] = preds(at)
      /\ \A p \in preds(at) : incoming[phi][p] = val[p][End(p)][ai] /\ val[p][End(p)][ai] # Dead
  BY <1>1, <1>2, <1>3 DEF Certificate, Merges
<1>5. at # entryBB
  BY <1>3, <1>4 DEF Certificate, Core, Unassigned, Undef
<1>6. ASSUME NEW v \in Others(phi)
      PROVE  v \in Settled /\ v # phi /\ v # Dead
  <2>1. PICK p \in preds(at) : v = val[p][End(p)][ai] /\ v # phi
    BY <1>4 DEF Others
  <2>2. p \in Blocks /\ End(p) \in 1..End(p) /\ Known(p, End(p), ai)
    BY <1>2, <1>3, PositionsAre DEF preds, End, Known
  <2> QED
    BY <1>3, <1>4, <2>1, <2>2 DEF Certificate, Core, Sound
<1>7. phi \notin {Undef, Dead} /\ Undef # Dead
  BY <1>3 DEF Undef, Dead
<1>8. /\ phis' = phis \ {phi}
      /\ DOMAIN arg' = DOMAIN arg
      /\ \A u \in DOMAIN arg : arg'[u] = IF arg[u] = phi THEN common ELSE arg[u]
      /\ \A q \in phis \ {phi} :
           /\ DOMAIN incoming'[q] = DOMAIN incoming[q]
           /\ \A p \in DOMAIN incoming[q] :
                incoming'[q][p] = IF incoming[q][p] = phi THEN common ELSE incoming[q][p]
  <2> HIDE DEF common
  <2> QED
    BY <1>2 DEF EraseFor
<1>9. CASE trivial
  <2>1. common \in Settled \ {phi} /\ common # Dead
    <3>1. CASE Others(phi) = {}
      BY <1>7, <3>1 DEF Settled
    <3>2. CASE Others(phi) # {}
      <4>1. common \in Others(phi)
        BY <3>2
      <4> QED
        BY <1>6, <4>1
    <3> QED
      BY <3>1, <3>2
  <2>2. ASSUME NEW p \in preds(at) PROVE val[p][End(p)][ai] \in {phi, common}
    <3> SUFFICES ASSUME val[p][End(p)][ai] # phi PROVE val[p][End(p)][ai] = common
      OBVIOUS
    <3>1. val[p][End(p)][ai] \in Others(phi)
      BY <1>4 DEF Others
    <3>2. common \in Others(phi)
      BY <3>1
    <3> QED
      BY <1>9, <3>1, <3>2
  <2>3. at \in Live => AvailableAt(common, at, 1)
    <3> HIDE DEF common
    <3> QED
      BY <1>1, <1>2, <1>3, <1>5, <2>1, <2>2, CommonIsAvailable DEF Certificate, Core
  <2> HIDE DEF common
  <2> QED
    BY <1>1, <1>3, <1>5, <1>8, <2>1, <2>2, <2>3
<1>10. CASE ~trivial
  <2>1. Unused(phi)
    BY <1>1, <1>10
  <2>2. /\ \A u \in DOMAIN arg : arg[u] # phi
        /\ \A q \in phis : \A p \in DOMAIN incoming[q] : incoming[q][p] # phi
    BY <2>1 DEF Unused
  <2>3. Dead \in Settled \ {phi} /\ AvailableAt(Dead, at, 1)
    BY <1>7 DEF Settled, AvailableAt, Dead
  <2> HIDE DEF common, trivial
  <2> QED
    BY <1>1, <1>3, <1>5, <1>8, <2>2, <2>3
<1> QED
  BY <1>9, <1>10

(* The certificate follows: in it, too, the value replaces the phi. *)
LEMMA CleanCertified ==
  ASSUME PassTypes, CleanPhi, NEW val, NEW res, Certificate(val, res)
  PROVE  \E nval, nres : Certificate(nval, nres)'
<1>1. /\ phase = "clean" /\ phase' = "clean" /\ Fixed /\ ai \in 1..M /\ ai' = ai - 1
      /\ prog \in Programs
      /\ Core(val, res) /\ Merges(val)
  <2>1. ai \in 0..M /\ ai > 0 /\ M \in Nat
    BY ScalarsAre DEF CleanPhi, Certificate, Sites
  <2> QED
    BY <2>1 DEF CleanPhi, Fixed, Certificate, PassTypes
<1>2. ASSUME DOMAIN arg' = DOMAIN arg PROVE Sites'
  <2>1. ai' \in 0..M
    BY <1>1, ScalarsAre
  <2> QED
    BY <1>1, <1>2, <2>1, FixedKeeps DEF Certificate, Sites
<1>3. CASE ~(Merge(at, ai) \in phis /\ (Unused(Merge(at, ai)) \/ \A v, w \in Others(Merge(at, ai)) : v = w))
  <2>1. UNCHANGED <<phis, arg, incoming>>
    BY <1>3 DEF CleanPhi, Merge
  <2>2. Core(val, res)'
    BY <1>1, <2>1, CorePersists
  <2>3. Merges(val)'
    BY <1>1, <2>1, MergesKeep
  <2>4. Walking(val)'
    BY <1>1 DEF Walking
  <2>5. Certificate(val, res)'
    BY <1>2, <2>1, <2>2, <2>3, <2>4 DEF Certificate
  <2> QED
    BY <2>5
<1>4. CASE Merge(at, ai) \in phis /\ (Unused(Merge(at, ai)) \/ \A v, w \in Others(Merge(at, ai)) : v = w)
  <2>1. PICK phi : phi = Merge(at, ai)
    OBVIOUS
  <2>2. /\ at \in Blocks \ {entryBB} /\ phi \in phis
        /\ phis' = phis \ {phi} /\ DOMAIN arg' = DOMAIN arg
    BY <1>4, <2>1, ErasedFor
  <2>3. PICK c \in Settled \ {phi} :
              /\ c # Dead => \A p \in preds(at) : val[p][End(p)][ai] \in {phi, c}
              /\ at \in Live => AvailableAt(c, at, 1)
              /\ \A u \in DOMAIN arg : /\ arg'[u] = IF arg[u] = phi THEN c ELSE arg[u]
                                       /\ arg[u] = phi => c # Dead
              /\ \A q \in phis \ {phi} :
                   /\ DOMAIN incoming'[q] = DOMAIN incoming[q]
                   /\ \A p \in DOMAIN incoming[q] :
                        /\ incoming'[q][p] = IF incoming[q][p] = phi THEN c ELSE incoming[q][p]
                        /\ incoming[q][p] = phi => c # Dead
    BY <1>4, <2>1, ErasedFor
  <2>4. /\ phi.b = at /\ phi.k = "phi"
        /\ phi # Undef /\ phi # Dead /\ phi # Null /\ \A v \in Positions : v # phi
    <3>1. phi.b = at /\ phi.k = "phi"
      BY <2>1 DEF Merge, Phi
    <3>2. \A v \in Positions : v.k = "ins"
      BY <1>1, PositionsAre DEF Ins
    <3> QED
      BY <3>1, <3>2 DEF Undef, Dead, Null
  <2> DEFINE sub(v) == IF v = phi THEN c ELSE v
  <2>5. PICK nval : \A b \in Blocks : \A i \in Nat : \A k \in 1..M : nval[b][i][k] = sub(val[b][i][k])
    <3> DEFINE f == [b \in Blocks |-> [i \in Nat |-> [k \in 1..M |-> sub(val[b][i][k])]]]
    <3>1. \A b \in Blocks : \A i \in Nat : \A k \in 1..M : f[b][i][k] = sub(val[b][i][k])
      BY Zenon
    <3> HIDE DEF f
    <3> WITNESS f
    <3> QED
      BY <3>1
  <2>6. PICK nres : \A v \in Positions : nres[v] = sub(res[v])
    <3> DEFINE f == [v \in Positions |-> sub(res[v])]
    <3>1. \A v \in Positions : f[v] = sub(res[v])
      BY Zenon
    <3> HIDE DEF f
    <3> WITNESS f
    <3> QED
      BY <3>1
  <2>7. /\ \A v \in Positions : /\ v.b \in Blocks /\ v.n \in Nat /\ v.n + 1 \in Nat
                                /\ ~Open(v) /\ v.n \in 1..End(v.b) /\ v.n + 1 \in 1..End(v.b)
        /\ \A b \in Blocks : End(b) \in Nat /\ End(b) \in 1..End(b) /\ 1 \in 1..End(b)
        /\ \A b, i, k : Known(b, i, k) /\ Known(b, i, k)'
        /\ \A v : ~Open(v)'
    <3>1. \A v : ~Open(v) /\ ~Open(v)'
      BY <1>1 DEF Open
    <3>2. \A b, i, k : Known(b, i, k) /\ Known(b, i, k)'
      BY <1>1 DEF Known
    <3>3. \A b \in Blocks : End(b) \in Nat /\ End(b) \in 1..End(b) /\ 1 \in 1..End(b)
      BY <1>1, PositionsAre DEF End
    <3>4. \A v \in Positions : /\ v.b \in Blocks /\ v.n \in Nat /\ v.n + 1 \in Nat
                               /\ v.n \in 1..End(v.b) /\ v.n + 1 \in 1..End(v.b)
      BY <1>1, PositionsAre DEF End
    <3> QED
      BY <3>1, <3>2, <3>3, <3>4
  <2>8. ASSUME NEW v \in Positions
        PROVE  /\ Operand(nres, v) = sub(Operand(res, v))
               /\ Value(Operand(nres, v)) = sub(Value(Operand(res, v)))
    <3>1. CASE InsAt(v).arg = Null
      BY <2>4, <3>1 DEF Operand, Value
    <3>2. CASE InsAt(v).arg # Null
      <4>1. PICK w : w = InsAt(v).arg
        OBVIOUS
      <4>2. w \in Positions /\ InsAt(w).op # "store"
        BY <1>1, <3>2, <4>1, OperandAhead
      <4>3. Operand(res, v) = res[w] /\ Operand(nres, v) = sub(res[w])
        BY <2>6, <3>2, <4>1, <4>2 DEF Operand
      <4>4. res[w] \in Settled
        BY <1>1, <2>7, <4>2, ResultIs
      <4>5. res[w] # Null /\ c # Null
        BY <4>4, <2>3, SettledAre
      <4> QED
        BY <4>3, <4>5 DEF Value
    <3> QED
      BY <3>1, <3>2
  <2>9. Settled' = Settled \ {phi}
    <3>1. Positions' = Positions /\ \A v : IsTargetAccess(v)' <=> IsTargetAccess(v)
      BY <1>1, FixedKeeps
    <3>2. {v \in Positions : ~IsTargetAccess(v)}' = {v \in Positions : ~IsTargetAccess(v)}
      BY <3>1
    <3> QED
      BY <2>2, <2>4, <3>2 DEF Settled
  <2>10. LoadsRead(nval, nres)'
    <3>1. ASSUME NEW v \in Positions, NEW k \in 1..M, Accesses(v, k), InsAt(v).op = "load"
          PROVE  nres[v] = nval[v.b][v.n][k]
      <4>1. res[v] = val[v.b][v.n][k]
        BY <1>1, <2>7, <3>1 DEF Core, LoadsRead
      <4> QED
        BY <2>5, <2>6, <2>7, <4>1
    <3>2. ASSUME NEW v \in Positions, ~IsTargetAccess(v) \/ InsAt(v).op = "store"
          PROVE  nres[v] = v
      <4>1. res[v] = v
        BY <1>1, <3>2 DEF Core, LoadsRead
      <4> QED
        BY <2>4, <2>6, <4>1
    <3> QED
      BY <1>1, <2>7, <3>1, <3>2, FixedKeeps DEF LoadsRead
  <2>11. Flows(nval, nres)'
    <3>1. ASSUME NEW v \in Positions, NEW k \in 1..M
          PROVE  nval[v.b][v.n + 1][k] = IF InsAt(v).op = "store" /\ Accesses(v, k)
                             THEN Value(Operand(nres, v)) ELSE nval[v.b][v.n][k]
      <4>1. val[v.b][v.n + 1][k] = IF InsAt(v).op = "store" /\ Accesses(v, k)
                             THEN Value(Operand(res, v)) ELSE val[v.b][v.n][k]
        BY <1>1, <2>7 DEF Core, Flows
      <4>2. /\ nval[v.b][v.n + 1][k] = sub(val[v.b][v.n + 1][k])
            /\ nval[v.b][v.n][k] = sub(val[v.b][v.n][k])
        BY <2>5, <2>7
      <4> HIDE DEF sub
      <4> QED
        BY <2>8, <4>1, <4>2
    <3>2. \A v : Operand(nres, v)' = Operand(nres, v)
      BY <1>1, FixedViews
    <3> QED
      BY <1>1, <3>1, <3>2, FixedKeeps DEF Flows, Value
  <2>12. Sound(nval)'
    <3>1. ASSUME NEW b \in Blocks, NEW i \in 1..End(b), NEW k \in 1..M
          PROVE  nval[b][i][k] \in Settled' /\ (b \in Live => AvailableAt(nval[b][i][k], b, i))
      <4>1. val[b][i][k] \in Settled /\ (b \in Live => AvailableAt(val[b][i][k], b, i))
        BY <1>1, <2>7 DEF Core, Sound
      <4>2. nval[b][i][k] = sub(val[b][i][k])
        BY <2>5
      <4>3. ASSUME val[b][i][k] = phi, b \in Live PROVE AvailableAt(c, b, i)
        <5>1. Dom(at, b)
          BY <2>4, <4>1, <4>3 DEF AvailableAt
        <5>2. at \in Live
          BY <1>1, <4>3, <5>1, DomIs
        <5>3. AvailableAt(c, at, 1)
          BY <2>3, <5>2
        <5>4. Leads(at, 1, b, i) /\ i \in Int
          BY <5>1 DEF Leads
        <5> QED
          BY <1>1, <2>3, <4>3, <5>3, <5>4, AvailableLater, SettledAre
      <4> QED
        BY <2>3, <2>9, <4>1, <4>2, <4>3
    <3> QED
      BY <1>1, <3>1, FixedViews DEF Sound
  <2>13. Rewritten(nres)'
    <3>1. ASSUME NEW u \in DOMAIN arg PROVE arg'[u] = Operand(nres, u) /\ arg'[u] # Dead
      <4>1. u \in Positions
        BY DEF PassTypes
      <4>2. arg[u] = Operand(res, u) /\ arg[u] # Dead
        BY <1>1 DEF Core, Rewritten
      <4> QED
        BY <2>3, <2>8, <4>1, <4>2
    <3>2. \A v : Operand(nres, v)' = Operand(nres, v)
      BY <1>1, FixedViews
    <3> QED
      BY <2>2, <3>1, <3>2 DEF Rewritten
  <2>14. Unassigned(nval)'
    <3>1. entryBB \in Blocks /\ 1 \in Nat
      BY <1>1, GraphIs
    <3> QED
      BY <1>1, <2>4, <2>5, <3>1 DEF Core, Unassigned
  <2>15. Merges(nval)'
    <3>1. ASSUME NEW b \in Blocks, NEW k \in 1..M
          PROVE  IF Merge(b, k) \in phis'
                   THEN /\ nval[b][1][k] = Merge(b, k)
                        /\ DOMAIN incoming'[Merge(b, k)] = preds(b)
                        /\ \A p \in preds(b) : /\ incoming'[Merge(b, k)][p] = nval[p][End(p)][k]
                                               /\ nval[p][End(p)][k] # Dead
                   ELSE \/ nval[b][1][k] = Dead
                        \/ \A p \in preds(b) : nval[p][End(p)][k] = nval[b][1][k]
      <4>1. IF Merge(b, k) \in phis
              THEN /\ val[b][1][k] = Merge(b, k)
                   /\ DOMAIN incoming[Merge(b, k)] = preds(b)
                   /\ \A p \in preds(b) : /\ incoming[Merge(b, k)][p] = val[p][End(p)][k]
                                          /\ val[p][End(p)][k] # Dead
              ELSE \/ val[b][1][k] = Dead
                   \/ \A p \in preds(b) : val[p][End(p)][k] = val[b][1][k]
        BY <1>1 DEF Merges
      <4>2. /\ nval[b][1][k] = sub(val[b][1][k])
            /\ \A p \in preds(b) : nval[p][End(p)][k] = sub(val[p][End(p)][k])
        <5>1. \A p \in preds(b) : p \in Blocks /\ End(p) \in Nat
          BY <2>7 DEF preds
        <5> QED
          BY <2>5, <5>1
      <4>3. CASE Merge(b, k) \in phis /\ Merge(b, k) # phi
        <5>1. PICK q : q = Merge(b, k)
          OBVIOUS
        <5>2. q \in phis' /\ nval[b][1][k] = q
          BY <2>2, <4>1, <4>2, <4>3, <5>1
        <5>3. DOMAIN incoming'[q] = preds(b)
          BY <2>3, <4>1, <4>3, <5>1
        <5>4. ASSUME NEW p \in preds(b)
              PROVE  incoming'[q][p] = nval[p][End(p)][k] /\ nval[p][End(p)][k] # Dead
          <6>1. /\ incoming[q][p] = val[p][End(p)][k] /\ val[p][End(p)][k] # Dead
                /\ p \in DOMAIN incoming[q]
            BY <4>1, <4>3, <5>1
          <6>2. /\ incoming'[q][p] = sub(incoming[q][p])
                /\ incoming[q][p] = phi => c # Dead
            BY <2>3, <4>3, <5>1, <6>1
          <6> QED
            BY <4>2, <6>1, <6>2
        <5> QED
          BY <5>1, <5>2, <5>3, <5>4
      <4>4. CASE Merge(b, k) \notin phis
        BY <2>2, <2>4, <4>1, <4>2, <4>4
      <4>5. CASE Merge(b, k) = phi
        <5>1. b = at /\ k = ai
          <6>1. b = at /\ TargetAllocas[k] = TargetAllocas[ai]
            BY <2>1, <4>5 DEF Merge, Phi
          <6> QED
            BY <1>1, <6>1 DEF PassTypes
        <5>2. nval[b][1][k] = c
          BY <2>2, <4>1, <4>2, <4>5
        <5>3. Merge(b, k) \notin phis'
          BY <2>2, <4>5
        <5>4. c # Dead => \A p \in preds(b) : nval[p][End(p)][k] = c
          BY <2>3, <4>2, <5>1
        <5> QED
          BY <5>2, <5>3, <5>4
      <4> QED
        BY <4>3, <4>4, <4>5
    <3>2. ASSUME NEW b \in Blocks, NEW k \in 1..M
          PROVE (IF Merge(b, k) \in phis
                   THEN /\ nval[b][1][k] = Merge(b, k)
                        /\ DOMAIN incoming[Merge(b, k)] = preds(b)
                        /\ \A p \in preds(b) : /\ incoming[Merge(b, k)][p] = nval[p][End(p)][k]
                                               /\ nval[p][End(p)][k] # Dead
                   ELSE \/ nval[b][1][k] = Dead
                        \/ \A p \in preds(b) : nval[p][End(p)][k] = nval[b][1][k])'
      <4>1. /\ Merge(b, k)' = Merge(b, k) /\ preds(b)' = preds(b)
            /\ \A p : End(p)' = End(p)
        BY <1>1, FixedViews
      <4> QED
        BY <3>1, <4>1
    <3> QED
      BY <3>2 DEF Merges
  <2>16. Walking(nval)'
    BY <1>1 DEF Walking
  <2>17. Certificate(nval, nres)'
    BY <1>2, <2>2, <2>10, <2>11, <2>12, <2>13, <2>14, <2>15, <2>16 DEF Certificate, Core
  <2> QED
    BY <2>17
<1> QED
  BY <1>3, <1>4

-----------------------------------------------------------------------------
(***************************************************************************)
(* The runs of the two functions, side by side.                            *)
(***************************************************************************)
(* While the pass is under way nothing has been run. *)
RunStart ==
  /\ here = entryBB /\ pos = 1
  /\ memory = [a \in Allocas |-> Unset] /\ memoryAfter = [a \in Allocas |-> Unset]
  /\ old = [v \in AllValues |-> Unset] /\ new = [v \in AllValues |-> Unset]

(* A scalar in memory is the value the certificate gives for it at this    *)
(* place, an array is the same in both memories, and what has been         *)
(* computed on the way here is what its uses were replaced by.             *)
Agrees(val, res) ==
  /\ here \in Live /\ pos \in 1..End(here)
  /\ DOMAIN memory = Allocas /\ DOMAIN memoryAfter = Allocas
  /\ DOMAIN old = AllValues /\ DOMAIN new = AllValues
  /\ old[Null] = Unset /\ new[Undef] = Unset
  /\ \A k \in 1..M : val[here][pos][k] # Dead =>
       memory[TargetAllocas[k]] \in {Unset, new[val[here][pos][k]]}
  /\ \A a \in Allocas \ Targets : memory[a] \in {Unset, memoryAfter[a]}
  /\ \A v \in Positions : InsAt(v).op # "store" /\ Ahead(v.b, v.n, here, pos) /\ res[v] # Dead =>
       old[v] \in {Unset, new[res[v]]}

RunInv ==
  /\ PassTypes
  /\ phase # "done" => RunStart
  /\ CopiesInOrder => \E val, res : Certificate(val, res) /\ (phase = "done" => Agrees(val, res))

(* What the functions compute. *)
LEMMA ValuesAre ==
  ASSUME PassTypes
  PROVE  /\ Positions \subseteq AllValues /\ Undef \in AllValues /\ Null \in AllValues
         /\ phis \subseteq AllValues
         /\ Settled \ {Dead} \subseteq AllValues
         /\ \A k \in 1..M : TargetAllocas[k] \in Allocas /\ TargetAllocas[k] \in Targets
<1>1. phis \subseteq {Phi(b, a) : b \in Blocks, a \in Scalars}
  BY DEF PassTypes
<1>2. \A k \in 1..M : TargetAllocas[k] \in Allocas /\ TargetAllocas[k] \in Targets
  <2>1. TargetAllocas \in [1..M -> Scalars]
    BY DEF PassTypes
  <2>2. DOMAIN TargetAllocas = 1..M
    BY <2>1
  <2>3. Scalars \subseteq Allocas
    BY PromotionAssumption
  <2> QED
    BY <2>1, <2>2, <2>3 DEF Targets
<1> QED
  BY <1>1, <1>2 DEF AllValues, Settled

(* Before the first step everything agrees with everything. *)
LEMMA StartAgrees ==
  ASSUME PassTypes, RunStart, NEW val, NEW res
  PROVE  Agrees(val, res)
<1>1. here \in Live /\ pos \in 1..End(here)
  <2>1. entryBB \in Blocks /\ entryBB \in Live /\ Len(prog.code[entryBB]) \in Nat
    BY GraphIs, PositionsAre DEF PassTypes
  <2> QED
    BY <2>1 DEF RunStart, End
<1>2. \A a \in Allocas : memory[a] = Unset
  BY DEF RunStart
<1>3. \A v \in AllValues : old[v] = Unset /\ new[v] = Unset
  BY DEF RunStart
<1>4. /\ DOMAIN memory = Allocas /\ DOMAIN memoryAfter = Allocas
      /\ DOMAIN old = AllValues /\ DOMAIN new = AllValues
  BY DEF RunStart
<1> QED
  BY <1>1, <1>2, <1>3, <1>4, ValuesAre DEF Agrees

(* Steps of the pass do not disturb what agrees. *)
LEMMA AgreesKeep ==
  ASSUME Fixed, UNCHANGED runVars, NEW val, NEW res, Agrees(val, res)
  PROVE  Agrees(val, res)'
<1>1. /\ Positions' = Positions /\ AllValues' = AllValues /\ Targets' = Targets /\ Live' = Live
      /\ TargetAllocas' = TargetAllocas
      /\ \A b : End(b)' = End(b)
      /\ \A v : InsAt(v)' = InsAt(v)
      /\ \A c, n, b, i : Ahead(c, n, b, i)' <=> Ahead(c, n, b, i)
  BY FixedKeeps, FixedViews DEF Fixed, AllValues, Targets, Ahead
<1>2. /\ here' = here /\ pos' = pos /\ memory' = memory /\ memoryAfter' = memoryAfter
      /\ old' = old /\ new' = new
  BY DEF runVars
<1>3. (/\ here \in Live /\ pos \in 1..End(here)
       /\ DOMAIN memory = Allocas /\ DOMAIN memoryAfter = Allocas
       /\ DOMAIN old = AllValues /\ DOMAIN new = AllValues
       /\ old[Null] = Unset /\ new[Undef] = Unset)'
  BY <1>1, <1>2 DEF Agrees, Undef, Null, Unset
<1>4. (\A k \in 1..M : val[here][pos][k] # Dead =>
         memory[TargetAllocas[k]] \in {Unset, new[val[here][pos][k]]})'
  BY <1>1, <1>2 DEF Agrees
<1>5. (\A a \in Allocas \ Targets : memory[a] \in {Unset, memoryAfter[a]})'
  BY <1>1, <1>2 DEF Agrees
<1>6. (\A v \in Positions : InsAt(v).op # "store" /\ Ahead(v.b, v.n, here, pos) /\ res[v] # Dead =>
         old[v] \in {Unset, new[res[v]]})'
  <2>1. \A v \in Positions : InsAt(v).op # "store" /\ Ahead(v.b, v.n, here, pos) /\ res[v] # Dead =>
         old[v] \in {Unset, new[res[v]]}
    BY DEF Agrees
  <2>2. \A v : Ahead(v.b, v.n, here, pos)' <=> Ahead(v.b, v.n, here, pos)
    BY <1>2, FixedViews DEF Ahead
  <2> QED
    BY <1>1, <1>2, <2>1, <2>2
<1> QED
  BY <1>3, <1>4, <1>5, <1>6 DEF Agrees

(* What the pass has done with an operand is what a call or a store gets. *)
LEMMA OperandAgrees ==
  ASSUME PassTypes, phase = "done", NEW val, NEW res, Certificate(val, res), Agrees(val, res),
         pos \in DOMAIN prog.code[here]
  PROVE  /\ I \in Positions /\ here \in Blocks /\ I.b = here /\ I.n = pos
         /\ Operand(res, I) # Dead => old[InsAt(I).arg] \in {Unset, new[Value(Operand(res, I))]}
         /\ I \in DOMAIN arg => /\ ~IsTargetAccess(I) /\ arg[I] = Operand(res, I) /\ arg[I] # Dead
                                /\ old[InsAt(I).arg] \in {Unset, new[arg[I]]}
<1>1. here \in Blocks /\ prog \in Programs
  BY GraphIs DEF PassTypes, Agrees
<1>2. I \in Positions /\ I.b = here /\ I.n = pos
  BY <1>1, PositionsAre DEF I, Ins
<1>3. old[Null] = Unset
  BY DEF Agrees
<1>4. ASSUME InsAt(I).arg # Null
      PROVE  /\ Operand(res, I) # Dead => old[InsAt(I).arg] \in {Unset, new[Operand(res, I)]}
             /\ Value(Operand(res, I)) = Operand(res, I)
  <2>1. PICK w : w = InsAt(I).arg
    OBVIOUS
  <2>2. w \in Positions /\ InsAt(w).op # "store" /\ Ahead(w.b, w.n, here, pos)
    BY <1>1, <1>2, <1>4, <2>1, OperandAhead
  <2>3. Operand(res, I) = res[w]
    BY <1>4, <2>1 DEF Operand
  <2>4. res[w] \in Settled
    BY <2>2, ResultIs DEF Certificate, Open
  <2> QED
    BY <2>1, <2>2, <2>3, <2>4, SettledAre DEF Agrees, Value
<1>5. I \in DOMAIN arg => ~IsTargetAccess(I) /\ arg[I] = Operand(res, I) /\ arg[I] # Dead
  BY DEF Certificate, Sites, Core, Rewritten
<1>6. CASE InsAt(I).arg = Null
  BY <1>1, <1>2, <1>3, <1>5, <1>6
<1>7. CASE InsAt(I).arg # Null
  BY <1>1, <1>2, <1>4, <1>5, <1>7
<1> QED
  BY <1>6, <1>7

(* An instruction does not change what was computed before it. *)
LEMMA OthersAgree ==
  ASSUME PassTypes, phase = "done", NEW val, NEW res, Certificate(val, res),
         here \in Live, pos \in DOMAIN prog.code[here]
  PROVE  /\ \A v \in Positions : InsAt(v).op # "store" /\ Ahead(v.b, v.n, here, pos) /\ res[v] # Dead =>
              v # I /\ res[v] # I /\ res[v] \in AllValues
         /\ \A v \in Positions : Ahead(v.b, v.n, here, pos + 1) /\ v # I => Ahead(v.b, v.n, here, pos)
         /\ \A k \in 1..M : /\ val[here][pos][k] # I
                            /\ val[here][pos][k] # Dead => val[here][pos][k] \in AllValues
<1>1. here \in Blocks /\ prog \in Programs /\ pos \in Nat /\ pos \in 1..End(here)
  BY GraphIs, PositionsAre DEF PassTypes, End
<1>2. I \in Positions /\ I.b = here /\ I.n = pos /\ I.k = "ins" /\ I = Ins(here, pos)
  BY <1>1, PositionsAre DEF I, Ins
<1>3. \A v \in Positions : v.n \in Nat /\ v = Ins(v.b, v.n)
  BY <1>1, PositionsAre
<1>4. ~AvailableAt(I, here, pos)
  BY <1>1, <1>2 DEF AvailableAt, Ahead
<1>5. Core(val, res)
  BY DEF Certificate
<1>6. ASSUME NEW v \in Positions, InsAt(v).op # "store", Ahead(v.b, v.n, here, pos)
      PROVE  v # I /\ res[v] # I /\ (res[v] # Dead => res[v] \in AllValues)
  <2>1. res[v] \in Settled
    BY <1>5, <1>6, ResultIs DEF Open
  <2>2. v # I
    BY <1>1, <1>2, <1>6 DEF Ahead
  <2>3. AvailableAt(res[v], here, pos)
    BY <1>1, <1>5, <1>6, ResultIs DEF Open
  <2> QED
    BY <1>4, <2>1, <2>2, <2>3, ValuesAre
<1>7. ASSUME NEW v \in Positions, Ahead(v.b, v.n, here, pos + 1), v # I
      PROVE  Ahead(v.b, v.n, here, pos)
  <2>1. v.b = here => v.n # pos
    BY <1>2, <1>3, <1>7
  <2> QED
    BY <1>1, <1>3, <1>7, <2>1 DEF Ahead
<1>8. ASSUME NEW k \in 1..M
      PROVE  val[here][pos][k] # I /\ (val[here][pos][k] # Dead => val[here][pos][k] \in AllValues)
  <2>1. val[here][pos][k] \in Settled /\ AvailableAt(val[here][pos][k], here, pos)
    BY <1>1, <1>5 DEF Core, Sound, Known
  <2> QED
    BY <1>4, <2>1, ValuesAre
<1> QED
  BY <1>6, <1>7, <1>8

(* An instruction of the two functions: what agreed before it does so      *)
(* after it.                                                               *)
LEMMA ExecuteAgrees ==
  ASSUME PassTypes, NEW val, NEW res, Certificate(val, res), Agrees(val, res), Execute
  PROVE  Agrees(val, res)'
<1>1. /\ phase = "done" /\ Fixed /\ here' = here /\ pos' = pos + 1 /\ pos \in DOMAIN prog.code[here]
      /\ here \in Live /\ prog \in Programs
  BY DEF Execute, Fixed, passVars, Agrees, PassTypes
<1>2. /\ I \in Positions /\ here \in Blocks /\ I.b = here /\ I.n = pos
      /\ Operand(res, I) # Dead => old[InsAt(I).arg] \in {Unset, new[Value(Operand(res, I))]}
      /\ I \in DOMAIN arg => /\ ~IsTargetAccess(I) /\ arg[I] = Operand(res, I) /\ arg[I] # Dead
                             /\ old[InsAt(I).arg] \in {Unset, new[arg[I]]}
  BY <1>1, OperandAgrees
<1>3. /\ \A v \in Positions : InsAt(v).op # "store" /\ Ahead(v.b, v.n, here, pos) /\ res[v] # Dead =>
           v # I /\ res[v] # I /\ res[v] \in AllValues
      /\ \A v \in Positions : Ahead(v.b, v.n, here, pos + 1) /\ v # I => Ahead(v.b, v.n, here, pos)
      /\ \A k \in 1..M : /\ val[here][pos][k] # I
                         /\ val[here][pos][k] # Dead => val[here][pos][k] \in AllValues
  BY <1>1, OthersAgree
<1>4. I \in DOMAIN arg <=> ~IsTargetAccess(I)
  BY <1>1, <1>2 DEF Certificate, Sites
<1>5. \A k \in 1..M : val[here][pos + 1][k] = IF InsAt(I).op = "store" /\ Accesses(I, k)
                        THEN Value(Operand(res, I)) ELSE val[here][pos][k]
  BY <1>1, <1>2 DEF Certificate, Core, Flows, Known
<1>6. /\ Undef \in AllValues /\ Null \in AllValues /\ I \in AllValues /\ I # Undef /\ I # Null
      /\ \A k \in 1..M : TargetAllocas[k] \in Allocas /\ TargetAllocas[k] \in Targets
  BY <1>2, ValuesAre DEF I, Ins, Undef, Null
<1>7. /\ pos + 1 \in 1..End(here)
      /\ InsAt(I).op # "call" => InsAt(I).a \in Allocas
  <2>1. pos + 1 \in 1..End(here)
    BY <1>1, <1>2, PositionsAre DEF End
  <2> QED
    BY <1>1, <1>2, <2>1, FunctionsAssumption DEF InsAt
<1>8. /\ DOMAIN memory = Allocas /\ DOMAIN memoryAfter = Allocas
      /\ DOMAIN old = AllValues /\ DOMAIN new = AllValues
      /\ old[Null] = Unset /\ new[Undef] = Unset
      /\ \A k \in 1..M : val[here][pos][k] # Dead =>
           memory[TargetAllocas[k]] \in {Unset, new[val[here][pos][k]]}
      /\ \A a \in Allocas \ Targets : memory[a] \in {Unset, memoryAfter[a]}
      /\ \A v \in Positions : InsAt(v).op # "store" /\ Ahead(v.b, v.n, here, pos) /\ res[v] # Dead =>
           old[v] \in {Unset, new[res[v]]}
  BY DEF Agrees
<1> DEFINE After ==
             /\ DOMAIN memory' = Allocas /\ DOMAIN memoryAfter' = Allocas
             /\ DOMAIN old' = AllValues /\ DOMAIN new' = AllValues
             /\ old'[Null] = Unset /\ new'[Undef] = Unset
             /\ \A k \in 1..M : val[here][pos + 1][k] # Dead =>
                  memory'[TargetAllocas[k]] \in {Unset, new'[val[here][pos + 1][k]]}
             /\ \A a \in Allocas \ Targets : memory'[a] \in {Unset, memoryAfter'[a]}
             /\ \A v \in Positions : InsAt(v).op # "store" /\ Ahead(v.b, v.n, here, pos + 1) /\ res[v] # Dead =>
                  old'[v] \in {Unset, new'[res[v]]}
<1>9. ASSUME ~IsTargetAccess(I), InsAt(I).op # "store", memory' = memory, memoryAfter' = memoryAfter,
             DOMAIN old' = AllValues, DOMAIN new' = AllValues, old'[I] \in {Unset, new'[I]},
             \A v \in AllValues : v # I => old'[v] = old[v] /\ new'[v] = new[v]
      PROVE  After
  <2>1. res[I] = I
    BY <1>2, <1>9 DEF Certificate, Core, LoadsRead
  <2>2. /\ DOMAIN memory' = Allocas /\ DOMAIN memoryAfter' = Allocas
        /\ DOMAIN old' = AllValues /\ DOMAIN new' = AllValues
        /\ old'[Null] = Unset /\ new'[Undef] = Unset
    BY <1>6, <1>8, <1>9
  <2>3. ASSUME NEW k \in 1..M, val[here][pos + 1][k] # Dead
        PROVE  memory'[TargetAllocas[k]] \in {Unset, new'[val[here][pos + 1][k]]}
    <3>1. val[here][pos + 1][k] = val[here][pos][k]
      BY <1>5, <1>9
    <3> QED
      BY <1>3, <1>8, <1>9, <2>3, <3>1
  <2>4. \A a \in Allocas \ Targets : memory'[a] \in {Unset, memoryAfter'[a]}
    BY <1>8, <1>9
  <2>5. ASSUME NEW v \in Positions, InsAt(v).op # "store", Ahead(v.b, v.n, here, pos + 1), res[v] # Dead
        PROVE  old'[v] \in {Unset, new'[res[v]]}
    <3>1. CASE v = I
      BY <1>9, <2>1, <3>1
    <3>2. CASE v # I
      <4>1. Ahead(v.b, v.n, here, pos)
        BY <1>3, <2>5, <3>2
      <4>2. res[v] # I /\ res[v] \in AllValues /\ v \in AllValues
        BY <1>3, <2>5, <4>1, ValuesAre
      <4> QED
        BY <1>8, <1>9, <2>5, <3>2, <4>1, <4>2
    <3> QED
      BY <3>1, <3>2
  <2> QED
    BY <2>2, <2>3, <2>4, <2>5
<1>10. ASSUME InsAt(I).op = "load" /\ Load(InsAt(I).a) /\ IsTargetAccess(I) PROVE After
  <2>1. PICK k0 \in 1..M : Accesses(I, k0)
    BY <1>10, AccessIs
  <2>2. /\ memory' = memory /\ memoryAfter' = memoryAfter /\ new' = new
        /\ old' = [old EXCEPT ![I] = memory[TargetAllocas[k0]]]
    BY <1>4, <1>10, <2>1 DEF Load, Accesses
  <2>3. old'[I] = memory[TargetAllocas[k0]] /\ \A v \in AllValues : v # I => old'[v] = old[v]
    BY <1>6, <1>8, <2>2
  <2>4. res[I] = val[here][pos][k0]
    BY <1>1, <1>2, <1>10, <2>1 DEF Certificate, Core, LoadsRead, Open
  <2>5. \A k \in 1..M : val[here][pos + 1][k] = val[here][pos][k]
    BY <1>5, <1>10
  <2>6. ASSUME NEW v \in Positions, InsAt(v).op # "store", Ahead(v.b, v.n, here, pos + 1), res[v] # Dead
        PROVE  old'[v] \in {Unset, new'[res[v]]}
    <3>1. CASE v = I
      BY <1>8, <2>2, <2>3, <2>4, <2>6, <3>1
    <3>2. CASE v # I
      <4>1. Ahead(v.b, v.n, here, pos) /\ v \in AllValues
        BY <1>3, <2>6, <3>2, ValuesAre
      <4> QED
        BY <1>8, <2>2, <2>3, <2>6, <3>2, <4>1
    <3> QED
      BY <3>1, <3>2
  <2>7. /\ DOMAIN memory' = Allocas /\ DOMAIN memoryAfter' = Allocas
        /\ DOMAIN old' = AllValues /\ DOMAIN new' = AllValues
        /\ old'[Null] = Unset /\ new'[Undef] = Unset
    BY <1>6, <1>8, <2>2, <2>3
  <2>8. /\ \A k \in 1..M : val[here][pos + 1][k] # Dead =>
             memory'[TargetAllocas[k]] \in {Unset, new'[val[here][pos + 1][k]]}
        /\ \A a \in Allocas \ Targets : memory'[a] \in {Unset, memoryAfter'[a]}
    BY <1>8, <2>2, <2>5
  <2> QED
    BY <2>6, <2>7, <2>8
<1>11. ASSUME InsAt(I).op = "load" /\ Load(InsAt(I).a) /\ ~IsTargetAccess(I) PROVE After
  <2>1. /\ memory' = memory /\ memoryAfter' = memoryAfter
        /\ old' = [old EXCEPT ![I] = memory[InsAt(I).a]]
        /\ new' = [new EXCEPT ![I] = memoryAfter[InsAt(I).a]]
    BY <1>4, <1>11 DEF Load
  <2>2. InsAt(I).a \in Allocas \ Targets
    BY <1>7, <1>11 DEF IsTargetAccess
  <2>3. memory[InsAt(I).a] \in {Unset, memoryAfter[InsAt(I).a]}
    BY <1>8, <2>2
  <2>4. /\ old'[I] = memory[InsAt(I).a] /\ new'[I] = memoryAfter[InsAt(I).a]
        /\ DOMAIN old' = AllValues /\ DOMAIN new' = AllValues
        /\ \A v \in AllValues : v # I => old'[v] = old[v] /\ new'[v] = new[v]
    BY <1>6, <1>8, <2>1
  <2>5. memory' = memory /\ memoryAfter' = memoryAfter /\ InsAt(I).op # "store"
    BY <1>11, <2>1
  <2> HIDE DEF After
  <2> QED
    BY <1>9, <1>11, <2>3, <2>4, <2>5
<1>12. ASSUME InsAt(I).op = "call" /\ Call PROVE After
  <2>1. /\ memory' = memory /\ memoryAfter' = memoryAfter
        /\ old' = [old EXCEPT ![I] = token]
        /\ new' = [new EXCEPT ![I] = token]
    BY <1>12 DEF Call
  <2>2. ~IsTargetAccess(I) /\ InsAt(I).op # "store"
    BY <1>12 DEF IsTargetAccess
  <2>3. /\ old'[I] = token /\ new'[I] = token
        /\ DOMAIN old' = AllValues /\ DOMAIN new' = AllValues
        /\ \A v \in AllValues : v # I => old'[v] = old[v] /\ new'[v] = new[v]
    BY <1>6, <1>8, <2>1
  <2>4. memory' = memory /\ memoryAfter' = memoryAfter
    BY <2>1
  <2> HIDE DEF After
  <2> QED
    BY <1>9, <2>2, <2>3, <2>4
<1>13. ASSUME InsAt(I).op = "store" /\ Store(InsAt(I).a) PROVE After
  <2>1. /\ old' = old /\ new' = new
        /\ memory' = [memory EXCEPT ![InsAt(I).a] = old[InsAt(I).arg]]
        /\ memoryAfter' = IF IsTargetAccess(I) THEN memoryAfter
                          ELSE [memoryAfter EXCEPT ![InsAt(I).a] = new[arg[I]]]
    BY <1>4, <1>13 DEF Store
  <2>2. InsAt(I).a \in Allocas
    BY <1>7, <1>13
  <2>3. /\ memory'[InsAt(I).a] = old[InsAt(I).arg]
        /\ \A a \in Allocas : a # InsAt(I).a => memory'[a] = memory[a]
    BY <1>8, <2>1, <2>2
  <2>4. IsTargetAccess(I) <=> InsAt(I).a \in Targets
    BY <1>13 DEF IsTargetAccess
  <2>5. ASSUME NEW k \in 1..M, val[here][pos + 1][k] # Dead
        PROVE  memory'[TargetAllocas[k]] \in {Unset, new'[val[here][pos + 1][k]]}
    <3>1. CASE Accesses(I, k)
      <4>1. val[here][pos + 1][k] = Value(Operand(res, I)) /\ TargetAllocas[k] = InsAt(I).a
        BY <1>5, <1>13, <3>1 DEF Accesses
      <4>2. Operand(res, I) # Dead
        BY <2>5, <4>1 DEF Value, Null, Dead
      <4> QED
        BY <1>2, <2>1, <2>3, <4>1, <4>2
    <3>2. CASE ~Accesses(I, k)
      <4>1. TargetAllocas[k] # InsAt(I).a
        BY <1>6, <2>4, <3>2 DEF Accesses
      <4>2. val[here][pos + 1][k] = val[here][pos][k]
        BY <1>5, <3>2
      <4> QED
        BY <1>6, <1>8, <2>1, <2>3, <2>5, <4>1, <4>2
    <3> QED
      BY <3>1, <3>2
  <2>6. ASSUME NEW a \in Allocas \ Targets PROVE memory'[a] \in {Unset, memoryAfter'[a]}
    <3>1. CASE a = InsAt(I).a
      <4>1. ~IsTargetAccess(I) /\ I \in DOMAIN arg
        BY <1>4, <2>4, <3>1
      <4>2. memoryAfter'[a] = new[arg[I]]
        BY <1>8, <2>1, <3>1, <4>1
      <4> QED
        BY <1>2, <2>3, <3>1, <4>1, <4>2
    <3>2. CASE a # InsAt(I).a
      <4>1. memoryAfter'[a] = memoryAfter[a]
        BY <1>8, <2>1, <3>2
      <4> QED
        BY <1>8, <2>3, <3>2, <4>1
    <3> QED
      BY <3>1, <3>2
  <2>7. ASSUME NEW v \in Positions, InsAt(v).op # "store", Ahead(v.b, v.n, here, pos + 1), res[v] # Dead
        PROVE  old'[v] \in {Unset, new'[res[v]]}
    <3>1. v # I
      BY <1>13, <2>7
    <3> QED
      BY <1>3, <1>8, <2>1, <2>7, <3>1
  <2>8. /\ DOMAIN memory' = Allocas /\ DOMAIN memoryAfter' = Allocas
        /\ DOMAIN old' = AllValues /\ DOMAIN new' = AllValues
        /\ old'[Null] = Unset /\ new'[Undef] = Unset
    BY <1>8, <2>1
  <2> QED
    BY <2>5, <2>6, <2>7, <2>8
<1>14. After
  <2> HIDE DEF After
  <2> QED
    BY <1>10, <1>11, <1>12, <1>13 DEF Execute
<1>15. /\ Positions' = Positions /\ AllValues' = AllValues /\ Targets' = Targets /\ Live' = Live
       /\ TargetAllocas' = TargetAllocas
       /\ \A b : End(b)' = End(b)
       /\ \A v : InsAt(v)' = InsAt(v)
       /\ \A c, n, b, i : Ahead(c, n, b, i)' <=> Ahead(c, n, b, i)
  BY <1>1, FixedKeeps, FixedViews DEF Fixed, AllValues, Targets, Ahead
<1>16. (here \in Live /\ pos \in 1..End(here))'
  BY <1>1, <1>7, <1>15
<1>17. (\A v \in Positions : InsAt(v).op # "store" /\ Ahead(v.b, v.n, here, pos) /\ res[v] # Dead =>
          old[v] \in {Unset, new[res[v]]})'
  <2>1. \A v : Ahead(v.b, v.n, here, pos)' <=> Ahead(v.b, v.n, here, pos + 1)
    BY <1>1, FixedViews DEF Ahead
  <2> QED
    BY <1>14, <1>15, <2>1
<1>18. (\A k \in 1..M : val[here][pos][k] # Dead =>
          memory[TargetAllocas[k]] \in {Unset, new[val[here][pos][k]]})'
  BY <1>1, <1>14, <1>15
<1> QED
  BY <1>14, <1>15, <1>16, <1>17, <1>18 DEF Agrees

(* A branch: a phi gets the value at the end of the predecessor, and what  *)
(* is used across the branch is not one of the phis that change.           *)
LEMMA BranchAgrees ==
  ASSUME PassTypes, NEW val, NEW res, Certificate(val, res), Agrees(val, res), Branch
  PROVE  Agrees(val, res)'
<1>1. /\ phase = "done" /\ Fixed /\ pos' = 1 /\ pos \notin DOMAIN prog.code[here] /\ phis' = phis
      /\ memory' = memory /\ memoryAfter' = memoryAfter /\ old' = old
      /\ prog \in Programs /\ Core(val, res) /\ Merges(val)
  BY DEF Branch, Fixed, passVars, PassTypes, Certificate
<1>2. PICK b \in prog.succ[here] :
        /\ here' = b
        /\ new' = [v \in AllValues |-> IF v \in phis /\ v.b = b THEN new[incoming[v][here]] ELSE new[v]]
  BY DEF Branch
<1>3. /\ here \in Live /\ here \in Blocks /\ b \in Live /\ b \in Blocks /\ b # entryBB /\ here \in preds(b)
      /\ pos = End(here) /\ pos \in 1..End(here) /\ pos \in Nat /\ 1 \in 1..End(b)
  <2>1. here \in Live /\ here \in Blocks /\ pos \in 1..End(here)
    BY <1>1, GraphIs DEF Agrees
  <2>2. b \in Live
    BY <1>1, <2>1, GraphIs
  <2>3. b \in Blocks /\ here \in preds(b) /\ b # entryBB
    BY <1>1, <2>1, <2>2, GraphIs DEF preds
  <2>4. /\ Len(prog.code[here]) \in Nat /\ DOMAIN prog.code[here] = 1..Len(prog.code[here])
        /\ Len(prog.code[b]) \in Nat
    BY <1>1, <2>1, <2>3, PositionsAre
  <2>5. pos = End(here) /\ pos \in Nat /\ 1 \in 1..End(b)
    BY <1>1, <2>1, <2>4 DEF End
  <2> QED
    BY <2>1, <2>2, <2>3, <2>5
<1>4. /\ DOMAIN memory = Allocas /\ DOMAIN memoryAfter = Allocas
      /\ DOMAIN old = AllValues /\ DOMAIN new = AllValues
      /\ old[Null] = Unset /\ new[Undef] = Unset
      /\ \A k \in 1..M : val[here][pos][k] # Dead =>
           memory[TargetAllocas[k]] \in {Unset, new[val[here][pos][k]]}
      /\ \A a \in Allocas \ Targets : memory[a] \in {Unset, memoryAfter[a]}
      /\ \A v \in Positions : InsAt(v).op # "store" /\ Ahead(v.b, v.n, here, pos) /\ res[v] # Dead =>
           old[v] \in {Unset, new[res[v]]}
  BY DEF Agrees
<1>5. /\ DOMAIN new' = AllValues
      /\ \A v \in AllValues : ~(v \in phis /\ v.b = b) => new'[v] = new[v]
      /\ \A v \in phis : v.b = b => new'[v] = new[incoming[v][here]]
  BY <1>2, ValuesAre
<1>6. \A q \in phis : q.k = "phi"
  BY DEF PassTypes, Phi
<1>7. new'[Undef] = Unset
  BY <1>4, <1>5, <1>6, ValuesAre DEF Undef
<1>8. ASSUME NEW k \in 1..M, val[b][1][k] # Dead
      PROVE  memory[TargetAllocas[k]] \in {Unset, new'[val[b][1][k]]}
  <2>1. IF Merge(b, k) \in phis
          THEN /\ val[b][1][k] = Merge(b, k)
               /\ DOMAIN incoming[Merge(b, k)] = preds(b)
               /\ \A p \in preds(b) : /\ incoming[Merge(b, k)][p] = val[p][End(p)][k]
                                      /\ val[p][End(p)][k] # Dead
          ELSE \/ val[b][1][k] = Dead
               \/ \A p \in preds(b) : val[p][End(p)][k] = val[b][1][k]
    BY <1>1, <1>3 DEF Merges
  <2>2. CASE Merge(b, k) \in phis
    <3>1. Merge(b, k).b = b
      BY DEF Merge, Phi
    <3>2. new'[Merge(b, k)] = new[val[here][pos][k]] /\ val[here][pos][k] # Dead
      BY <1>3, <1>5, <2>1, <2>2, <3>1
    <3> QED
      BY <1>4, <2>1, <2>2, <3>2
  <2>3. CASE Merge(b, k) \notin phis
    <3>1. \A p \in preds(b) : val[p][End(p)][k] = val[b][1][k]
      BY <1>8, <2>1, <2>3
    <3>2. PICK v : v = val[b][1][k]
      OBVIOUS
    <3>3. v \in Settled
      BY <1>1, <1>3, <3>2 DEF Core, Sound, Known
    <3>4. ~(v \in phis /\ v.b = b)
      <4> SUFFICES ASSUME v \in phis, v.b = b PROVE FALSE
        OBVIOUS
      <4>1. PICK p \in Live : b \in prog.succ[p] /\ ~Dom(b, p)
        BY <1>1, <1>3, DomIs
      <4>2. p \in Blocks /\ p \in preds(b) /\ End(p) \in 1..End(p)
        BY <1>1, <4>1, GraphIs, PositionsAre DEF preds, End
      <4>3. AvailableAt(v, p, End(p))
        BY <1>1, <3>1, <3>2, <4>2 DEF Core, Sound, Known
      <4> QED
        BY <1>6, <4>1, <4>3 DEF AvailableAt
    <3>5. new'[v] = new[v]
      BY <1>5, <1>8, <3>2, <3>3, <3>4, ValuesAre
    <3>6. val[here][pos][k] = v
      BY <1>3, <3>1, <3>2
    <3> QED
      BY <1>4, <1>8, <3>2, <3>5, <3>6
  <2> QED
    BY <2>2, <2>3
<1>9. ASSUME NEW v \in Positions, InsAt(v).op # "store", Ahead(v.b, v.n, b, 1), res[v] # Dead
      PROVE  old[v] \in {Unset, new'[res[v]]}
  <2>1. v.n \in Nat \ {0} /\ v.k = "ins" /\ v.b \in Blocks /\ v.n \in 1..Len(prog.code[v.b]) /\ Len(prog.code[v.b]) \in Nat
    BY <1>1, PositionsAre DEF Ins
  <2>2. v.b # b /\ Dom(v.b, b)
    BY <1>9, <2>1 DEF Ahead
  <2>3. Dom(v.b, here)
    BY <1>1, <1>3, <2>2, DomIs
  <2>4. Ahead(v.b, v.n, here, pos)
    BY <1>3, <2>1, <2>3 DEF Ahead, End
  <2>5. v.b \in Live
    BY <1>1, <1>3, <2>2, DomIs
  <2>6. res[v] \in Settled /\ (res[v] # v => AvailableAt(res[v], v.b, v.n))
    BY <1>1, <1>9, <2>5, ResultIs DEF Open
  <2>7. ~(res[v] \in phis /\ res[v].b = b)
    <3> SUFFICES ASSUME res[v] \in phis, res[v].b = b PROVE FALSE
      OBVIOUS
    <3>1. res[v].k = "phi"
      BY <1>6
    <3>2. Dom(b, v.b)
      BY <2>1, <2>6, <3>1 DEF AvailableAt
    <3> QED
      BY <1>1, <1>3, <2>2, <3>2, DomIs
  <2>8. new'[res[v]] = new[res[v]]
    BY <1>5, <1>9, <2>6, <2>7, ValuesAre
  <2> QED
    BY <1>4, <1>9, <2>4, <2>8
<1>10. /\ Positions' = Positions /\ AllValues' = AllValues /\ Targets' = Targets /\ Live' = Live
       /\ TargetAllocas' = TargetAllocas
       /\ \A c : End(c)' = End(c)
       /\ \A v : InsAt(v)' = InsAt(v)
  BY <1>1, FixedKeeps, FixedViews DEF Fixed, AllValues, Targets
<1>11. (here \in Live /\ pos \in 1..End(here))'
  BY <1>1, <1>2, <1>3, <1>10
<1>12. (\A v \in Positions : InsAt(v).op # "store" /\ Ahead(v.b, v.n, here, pos) /\ res[v] # Dead =>
          old[v] \in {Unset, new[res[v]]})'
  <2>1. \A v : Ahead(v.b, v.n, here, pos)' <=> Ahead(v.b, v.n, b, 1)
    BY <1>1, <1>2, FixedViews DEF Ahead
  <2>2. old' = old
    BY <1>1
  <2> QED
    BY <1>9, <1>10, <2>1, <2>2 DEF Unset
<1>13. (\A k \in 1..M : val[here][pos][k] # Dead =>
          memory[TargetAllocas[k]] \in {Unset, new[val[here][pos][k]]})'
  <2>1. here' = b /\ pos' = 1 /\ memory' = memory
    BY <1>1, <1>2
  <2> QED
    BY <1>8, <1>10, <2>1
<1>14. (/\ DOMAIN memory = Allocas /\ DOMAIN memoryAfter = Allocas
        /\ DOMAIN old = AllValues /\ DOMAIN new = AllValues
        /\ old[Null] = Unset /\ new[Undef] = Unset
        /\ \A a \in Allocas \ Targets : memory[a] \in {Unset, memoryAfter[a]})'
  BY <1>1, <1>4, <1>5, <1>7, <1>10
<1> QED
  BY <1>11, <1>12, <1>13, <1>14 DEF Agrees

-----------------------------------------------------------------------------
(* At first there is nothing to compare. *)
LEMMA RunInvInit == RunInit => RunInv
<1> SUFFICES ASSUME RunInit PROVE RunInv
  OBVIOUS
<1>1. PromotionInit /\ RunStart
  BY DEF RunInit, RunStart
<1>2. PassTypes
  BY <1>1, TypesInit
<1>3. \E val, res : Certificate(val, res)
  BY <1>1, CertifiedInit
<1> QED
  BY <1>1, <1>2, <1>3, StartAgrees DEF RunInv

(* The types do not change if nothing does. *)
LEMMA TypesStutter ==
  ASSUME PassTypes, UNCHANGED passVars
  PROVE  PassTypes'
<1>1. Fixed
  BY DEF passVars, Fixed
<1>2. Positions' = Positions
  BY <1>1, FixedKeeps
<1> QED
  BY <1>2 DEF PassTypes, passVars, cursor

(* A step of the pass; the runs begin when it is done. *)
LEMMA PassStep ==
  ASSUME RunInv, RunPass
  PROVE  RunInv'
<1>1. PromotionNext /\ Fixed /\ PassTypes /\ PassTypes' /\ phase # "done" /\ RunStart
  <2>1. PromotionNext /\ PassTypes
    BY DEF RunInv, RunPass
  <2>2. phase # "done"
    BY <2>1 DEF PromotionNext, Replace, RecordPost, FillPhis, Erase, CleanPhi, CleanNextBlock, CleanAgain
  <2> QED
    BY <2>1, <2>2, TypesStep, NextFixed DEF RunInv
<1>2. RunStart'
  <2>1. AllValues' = AllValues
    BY <1>1, FixedKeeps DEF AllValues
  <2> QED
    BY <1>1, <2>1 DEF RunStart, RunPass, runVars
<1>3. ASSUME CopiesInOrder
      PROVE  \E val, res : Certificate(val, res)' /\ Agrees(val, res)'
  <2>1. PICK val, res : Certificate(val, res)
    BY <1>3 DEF RunInv
  <2>2. \E nval, nres : Certificate(nval, nres)'
    <3>1. CASE Replace
      BY <1>1, <1>3, <2>1, <3>1, ReplaceCertified
    <3>2. CASE RecordPost
      BY <1>1, <2>1, <3>2, RecordPostCertified
    <3>3. CASE FillPhis
      BY <1>1, <2>1, <3>3, FillCertified
    <3>4. CASE Erase
      BY <1>1, <2>1, <3>4, EraseCertified
    <3>5. CASE CleanPhi
      BY <1>1, <2>1, <3>5, CleanCertified
    <3>6. CASE CleanNextBlock \/ CleanAgain
      BY <1>1, <2>1, <3>6, SweepCertified
    <3> QED
      BY <1>1, <3>1, <3>2, <3>3, <3>4, <3>5, <3>6 DEF PromotionNext
  <2>3. PICK nval, nres : Certificate(nval, nres)'
    BY <2>2
  <2>4. Agrees(nval, nres)
    BY <1>1, StartAgrees
  <2>5. Agrees(nval, nres)'
    BY <1>1, <2>4, AgreesKeep DEF RunPass
  <2> QED
    BY <2>3, <2>5
<1>4. CopiesInOrder' <=> CopiesInOrder
  BY <1>1, FixedKeeps
<1> QED
  BY <1>1, <1>2, <1>3, <1>4 DEF RunInv

(* A step of the runs, or of nothing. *)
LEMMA RunStep ==
  ASSUME RunInv, Execute \/ Branch \/ UNCHANGED allVars
  PROVE  RunInv'
<1>1. UNCHANGED passVars /\ Fixed /\ PassTypes /\ phase' = phase
  BY DEF RunInv, Execute, Branch, allVars, passVars, Fixed
<1>2. PassTypes' /\ (CopiesInOrder' <=> CopiesInOrder)
  BY <1>1, TypesStutter, FixedKeeps
<1>3. phase # "done" => RunStart'
  <2> SUFFICES ASSUME phase # "done" PROVE RunStart'
    OBVIOUS
  <2>1. UNCHANGED runVars /\ RunStart
    BY DEF RunInv, Execute, Branch, allVars
  <2>2. AllValues' = AllValues
    BY <1>1, FixedKeeps DEF AllValues
  <2> QED
    BY <2>1, <2>2 DEF RunStart, runVars
<1>4. ASSUME CopiesInOrder
      PROVE  \E val, res : Certificate(val, res)' /\ (phase = "done" => Agrees(val, res)')
  <2>1. PICK val, res : Certificate(val, res) /\ (phase = "done" => Agrees(val, res))
    BY <1>4 DEF RunInv
  <2>2. Certificate(val, res)'
    BY <1>1, <2>1, StutterCertified
  <2>3. phase = "done" => Agrees(val, res)'
    <3> SUFFICES ASSUME phase = "done" PROVE Agrees(val, res)'
      OBVIOUS
    <3>1. CASE Execute
      BY <1>1, <2>1, <3>1, ExecuteAgrees
    <3>2. CASE Branch
      BY <1>1, <2>1, <3>2, BranchAgrees
    <3>3. CASE UNCHANGED allVars
      BY <1>1, <2>1, <3>3, AgreesKeep DEF allVars
    <3> QED
      BY <3>1, <3>2, <3>3
  <2> QED
    BY <2>2, <2>3
<1> QED
  BY <1>1, <1>2, <1>3, <1>4 DEF RunInv

(* In every state of the pass and of the runs that follow it there is a    *)
(* certificate, and once the pass is done the two runs agree with it.      *)
THEOREM RunInvariant == RunSpec => []RunInv
<1>1. RunInv /\ [RunNext]_allVars => RunInv'
  BY PassStep, RunStep DEF RunNext
<1> QED
  BY <1>1, RunInvInit, PTL DEF RunSpec

(* Promotion preserves the function: along any path of a function of any   *)
(* size, whatever its scalars and the order in which they were promoted,   *)
(* every value passed to a call or stored to an array is the value that    *)
(* was passed or stored before, if that one was initialized.  As before, a *)
(* copied scalar is to come before the one it is stored in.                *)
THEOREM PromotionPreservesRuns == RunSpec => []SameObservations
<1>1. RunInv => SameObservations
  <2> SUFFICES ASSUME RunInv, CopiesInOrder, phase = "done", pos \in DOMAIN prog.code[here], I \in DOMAIN arg
               PROVE  old[InsAt(I).arg] \in {Unset, new[arg[I]]}
    BY DEF SameObservations
  <2>1. PICK val, res : Certificate(val, res) /\ Agrees(val, res)
    BY DEF RunInv
  <2> QED
    BY <2>1, OperandAgrees DEF RunInv
<1> QED
  BY <1>1, RunInvariant, PTL
=============================================================================
