------------------------------ MODULE FunctionProofs ------------------------------
(***************************************************************************)
(* Proofs about the functions of a program: the verifier's table of them   *)
(* (FunctionTable) and their inlining (Inliner).                           *)
(***************************************************************************)
EXTENDS FunctionTable, Inliner, TLAPS, SequenceTheorems

-----------------------------------------------------------------------------
(***************************************************************************)
(* Functions: in every program, of any number of declarations and calls,   *)
(* that the verifier accepts, each name has one body at most, and bodies   *)
(* and calls fit the LLVM function that is made of the first declaration.  *)
(***************************************************************************)
Declarations == [name : Names, sig : Signatures, body : BOOLEAN]

FromLibrary(n) == syslib /\ n \in DOMAIN Library

(* i is the first declaration of the name n. *)
FirstOf(i, n) ==
  /\ i \in 1..Len(decls) /\ decls[i].name = n
  /\ \A j \in 1..Len(decls) : decls[j].name = n => i <= j

FuncTyped ==
  /\ syslib \in BOOLEAN /\ errors \in BOOLEAN
  /\ table \in [Names -> Signatures \cup {None}]
  /\ hasBody \subseteq Names
  /\ decls \in Seq(Declarations)

(* The table holds the library's signature or the first declaration's. *)
TableIsFirst ==
  \A n \in Names :
    /\ FromLibrary(n) => table[n] = Library[n] /\ n \in hasBody
    /\ ~FromLibrary(n) =>
         \/ table[n] = None /\ \A i \in 1..Len(decls) : decls[i].name # n
         \/ \E i \in 1..Len(decls) : FirstOf(i, n) /\ table[n] = decls[i].sig

(* Without errors all declarations and calls agree with the table. *)
Accepted ==
  ~errors =>
    /\ \A i \in 1..Len(decls) : decls[i].sig = table[decls[i].name]
    /\ \A i \in 1..Len(decls) : decls[i].body =>
         decls[i].name \in hasBody /\ ~FromLibrary(decls[i].name)
    /\ \A i, j \in 1..Len(decls) :
         decls[i].body /\ decls[j].body /\ decls[i].name = decls[j].name => i = j
    /\ \A c \in callees : c[1] \in Names /\ table[c[1]] # None /\ c[2] = table[c[1]]

FuncInv == FuncTyped /\ TableIsFirst /\ Accepted

-----------------------------------------------------------------------------
(* visitFuncDecl compares all of a signature. *)
LEMMA AgreesIsEqual ==
  ASSUME NEW old \in Signatures, NEW new \in Signatures, Agrees(old, new)
  PROVE  old = new
<1>1. old \in [ret : Types, params : Seq(Types)] /\ new \in [ret : Types, params : Seq(Types)]
  BY FunctionAssumption
<1>2. old.params \in Seq(Types) /\ new.params \in Seq(Types)
  BY <1>1
<1>3. Len(old.params) = Len(new.params) /\ \A i \in 1..Len(new.params) : old.params[i] = new.params[i]
  BY <1>2 DEF Agrees
<1>4. old.params = new.params
  BY <1>2, <1>3, SeqEqual
<1> QED
  BY <1>1, <1>4 DEF Agrees

(* The functions of minicio, if the program includes it. *)
LEMMA InitFuncInv == FuncInit => FuncInv
<1> SUFFICES ASSUME FuncInit PROVE FuncInv
  OBVIOUS
<1>1. decls \in Seq(Declarations) /\ Len(decls) = 0 /\ callees = {} /\ syslib \in BOOLEAN
      /\ (errors = FALSE)
  BY DEF FuncInit
<1>2. \A n \in Names : table[n] = IF FromLibrary(n) THEN Library[n] ELSE None
  BY DEF FuncInit, FromLibrary
<1>3. table \in [Names -> Signatures \cup {None}]
  BY FunctionAssumption DEF FuncInit
<1>4. hasBody \subseteq Names /\ \A n \in Names : FromLibrary(n) => n \in hasBody
  BY FunctionAssumption DEF FuncInit, FromLibrary
<1>5. FuncTyped
  <2>1. errors \in BOOLEAN
    BY <1>1
  <2> QED
    BY <2>1, <1>1, <1>3, <1>4 DEF FuncTyped
<1>6. TableIsFirst
  <2>1. \A i \in 1..Len(decls) : FALSE
    BY <1>1
  <2> QED
    BY <2>1, <1>2, <1>4, Zenon DEF TableIsFirst
<1>7. Accepted
  BY <1>1 DEF Accepted
<1> QED
  BY <1>5, <1>6, <1>7 DEF FuncInv

(* The declarations so far are declarations. *)
LEMMA Declared ==
  ASSUME FuncInv, NEW i \in 1..Len(decls)
  PROVE  decls[i] \in Declarations /\ decls[i].name \in Names
<1>1. decls[i] \in Declarations
  BY ElementOfSeq DEF FuncInv, FuncTyped
<1> QED
  BY <1>1 DEF Declarations

(* A declaration, with or without a body. *)
LEMMA DeclKeepsInv ==
  ASSUME FuncInv, NEW n \in Names, NEW sig \in Signatures, NEW body \in BOOLEAN,
         VisitFuncDecl(n, sig, body)
  PROVE  FuncInv'
<1> DEFINE d == [name |-> n, sig |-> sig, body |-> body]
           L == Len(decls)
<1>1. /\ syslib' = syslib /\ callees' = callees /\ decls' = Append(decls, d)
      /\ hasBody' = (IF body THEN hasBody \cup {n} ELSE hasBody)
  BY DEF VisitFuncDecl, SetHasBody
<1>2. /\ d \in Declarations /\ d.name = n /\ d.sig = sig /\ (d.body = body)
  BY DEF Declarations
<1> HIDE DEF d
<1>3. /\ decls' \in Seq(Declarations) /\ Len(decls') = L + 1 /\ L \in Nat
      /\ \A i \in 1..L : decls'[i] = decls[i]
      /\ decls'[L + 1] = d
  BY <1>1, <1>2, AppendProperties DEF FuncInv, FuncTyped
<1>4. \A i \in 1..L : decls[i] \in Declarations /\ decls[i].name \in Names
  BY Declared
<1>5. \A i \in 1..(L + 1) : i \in 1..L \/ i = L + 1
  BY <1>3
<1>6. \A m \in Names : FromLibrary(m)' = FromLibrary(m)
  BY <1>1 DEF FromLibrary
<1>7. CASE table[n] # None
  <2>1. /\ table' = table /\ errors' = (errors \/ ~Agrees(table[n], sig) \/ (body /\ n \in hasBody))
    BY <1>7 DEF VisitFuncDecl
  <2>2. table[n] \in Signatures
    BY <1>7 DEF FuncInv, FuncTyped
  <2>3. FuncTyped'
    BY <1>1, <1>3, <2>1 DEF FuncInv, FuncTyped
  <2>4. TableIsFirst'
    <3> SUFFICES ASSUME NEW m \in Names
                 PROVE  /\ FromLibrary(m) => table[m] = Library[m] /\ m \in hasBody'
                        /\ ~FromLibrary(m) =>
                             \/ table[m] = None /\ \A i \in 1..(L + 1) : decls'[i].name # m
                             \/ \E i \in 1..(L + 1) : FirstOf(i, m)' /\ table[m] = decls'[i].sig
      BY <1>3, <1>6, <2>1 DEF TableIsFirst
    <3>1. FromLibrary(m) => table[m] = Library[m] /\ m \in hasBody'
      BY <1>1 DEF FuncInv, TableIsFirst
    <3>2. ASSUME NEW i \in 1..L, FirstOf(i, m)
          PROVE  i \in 1..(L + 1) /\ FirstOf(i, m)' /\ decls'[i].sig = decls[i].sig
      <4>1. \A j \in 1..(L + 1) : decls'[j].name = m => i <= j
        BY <3>2, <1>3, <1>5 DEF FirstOf
      <4> QED
        BY <3>2, <4>1, <1>3 DEF FirstOf
    <3>3. ASSUME table[m] = None, \A i \in 1..L : decls[i].name # m
          PROVE  \A i \in 1..(L + 1) : decls'[i].name # m
      BY <3>3, <1>2, <1>3, <1>5, <1>7
    <3> QED
      BY <3>1, <3>2, <3>3 DEF FuncInv, TableIsFirst
  <2>5. Accepted'
    <3> SUFFICES ASSUME ~errors' PROVE Accepted'
      BY DEF Accepted
    <3>1. ~errors /\ Agrees(table[n], sig) /\ ~(body /\ n \in hasBody)
      BY <2>1
    <3>2. sig = table[n]
      BY <2>2, <3>1, AgreesIsEqual
    <3>3. /\ \A i \in 1..L : decls[i].sig = table[decls[i].name]
          /\ \A i \in 1..L : decls[i].body =>
               decls[i].name \in hasBody /\ ~FromLibrary(decls[i].name)
          /\ \A i, j \in 1..L :
               decls[i].body /\ decls[j].body /\ decls[i].name = decls[j].name => i = j
          /\ \A c \in callees : c[1] \in Names /\ table[c[1]] # None /\ c[2] = table[c[1]]
      BY <3>1 DEF FuncInv, Accepted
    <3>4. \A i \in 1..(L + 1) : decls'[i].sig = table[decls'[i].name]
      BY <3>2, <3>3, <1>2, <1>3, <1>5
    <3>5. body => n \notin hasBody /\ ~FromLibrary(n)
      BY <3>1 DEF FuncInv, TableIsFirst
    <3>6. \A i \in 1..(L + 1) : decls'[i].body =>
            decls'[i].name \in hasBody' /\ ~FromLibrary(decls'[i].name)
      BY <3>3, <3>5, <1>1, <1>2, <1>3, <1>5
    <3>7. ASSUME NEW i \in 1..(L + 1), NEW j \in 1..(L + 1),
                 decls'[i].body, decls'[j].body, decls'[i].name = decls'[j].name
          PROVE  i = j
      <4>1. CASE i \in 1..L /\ j \in 1..L
        BY <4>1, <3>3, <3>7, <1>3
      <4>2. CASE i \in 1..L /\ j = L + 1
        BY <4>2, <3>3, <3>5, <3>7, <1>2, <1>3
      <4>3. CASE i = L + 1 /\ j \in 1..L
        BY <4>3, <3>3, <3>5, <3>7, <1>2, <1>3
      <4> QED
        BY <4>1, <4>2, <4>3, <1>5
    <3>8. \A i \in 1..(L + 1) : decls'[i].name \in Names
      BY <1>2, <1>3, <1>4, <1>5
    <3>9. \A i \in 1..(L + 1) : decls'[i].body => ~FromLibrary(decls[i].name)'
      BY <3>6, <1>1 DEF FromLibrary
    <3> QED
      BY <3>3, <3>4, <3>6, <3>7, <3>9, <1>1, <1>3, <2>1 DEF Accepted
  <2> QED
    BY <2>3, <2>4, <2>5 DEF FuncInv
<1>8. CASE table[n] = None
  <2>1. /\ table' = [table EXCEPT ![n] = sig] /\ (errors' = errors)
    BY <1>8 DEF VisitFuncDecl
  <2>2. /\ table' \in [Names -> Signatures \cup {None}] /\ table'[n] = sig
        /\ \A m \in Names : m # n => table'[m] = table[m]
    BY <2>1 DEF FuncInv, FuncTyped
  <2>3. ~FromLibrary(n) /\ \A i \in 1..L : decls[i].name # n
    <3>1. ~FromLibrary(n)
      BY <1>8, FunctionAssumption DEF FuncInv, TableIsFirst, FromLibrary
    <3>2. \A i \in 1..L : decls[i].sig # None
      BY <1>4, FunctionAssumption DEF Declarations
    <3> QED
      BY <3>1, <3>2, <1>8 DEF FuncInv, TableIsFirst
  <2>4. FuncTyped'
    BY <1>1, <1>3, <2>1, <2>2 DEF FuncInv, FuncTyped
  <2>5. TableIsFirst'
    <3> SUFFICES ASSUME NEW m \in Names
                 PROVE  /\ FromLibrary(m) => table'[m] = Library[m] /\ m \in hasBody'
                        /\ ~FromLibrary(m) =>
                             \/ table'[m] = None /\ \A i \in 1..(L + 1) : decls'[i].name # m
                             \/ \E i \in 1..(L + 1) : FirstOf(i, m)' /\ table'[m] = decls'[i].sig
      BY <1>3, <1>6 DEF TableIsFirst
    <3>1. CASE m = n
      <4>1. FirstOf(Len(decls), n)' /\ Len(decls') \in 1..(L + 1)
        BY <1>2, <1>3, <1>5, <2>3 DEF FirstOf
      <4> QED
        BY <3>1, <4>1, <1>2, <1>3, <2>2, <2>3
    <3>2. CASE m # n
      <4>1. table'[m] = table[m] /\ (FromLibrary(m) => table[m] = Library[m] /\ m \in hasBody')
        BY <3>2, <1>1, <2>2 DEF FuncInv, TableIsFirst
      <4>2. ASSUME NEW i \in 1..L, FirstOf(i, m)
            PROVE  i \in 1..(L + 1) /\ FirstOf(i, m)' /\ decls'[i].sig = decls[i].sig
        <5>1. \A j \in 1..(L + 1) : decls'[j].name = m => i <= j
          BY <4>2, <1>3, <1>5 DEF FirstOf
        <5> QED
          BY <4>2, <5>1, <1>3 DEF FirstOf
      <4>3. ASSUME \A i \in 1..L : decls[i].name # m
            PROVE  \A i \in 1..(L + 1) : decls'[i].name # m
        BY <4>3, <3>2, <1>2, <1>3, <1>5
      <4> QED
        BY <4>1, <4>2, <4>3 DEF FuncInv, TableIsFirst
    <3> QED
      BY <3>1, <3>2
  <2>6. Accepted'
    <3> SUFFICES ASSUME ~errors' PROVE Accepted'
      BY DEF Accepted
    <3>1. ~errors
      BY <2>1
    <3>2. /\ \A i \in 1..L : decls[i].sig = table[decls[i].name]
          /\ \A i \in 1..L : decls[i].body =>
               decls[i].name \in hasBody /\ ~FromLibrary(decls[i].name)
          /\ \A i, j \in 1..L :
               decls[i].body /\ decls[j].body /\ decls[i].name = decls[j].name => i = j
          /\ \A c \in callees : c[1] \in Names /\ table[c[1]] # None /\ c[2] = table[c[1]]
      BY <3>1 DEF FuncInv, Accepted
    <3>3. \A i \in 1..(L + 1) : decls'[i].sig = table'[decls'[i].name]
      BY <3>2, <1>2, <1>3, <1>4, <1>5, <2>2, <2>3
    <3>4. \A i \in 1..(L + 1) : decls'[i].body =>
            decls'[i].name \in hasBody' /\ ~FromLibrary(decls'[i].name)
      BY <3>2, <1>1, <1>2, <1>3, <1>5, <2>3
    <3>5. ASSUME NEW i \in 1..(L + 1), NEW j \in 1..(L + 1),
                 decls'[i].body, decls'[j].body, decls'[i].name = decls'[j].name
          PROVE  i = j
      <4>1. CASE i \in 1..L /\ j \in 1..L
        BY <4>1, <3>2, <3>5, <1>3
      <4>2. CASE i \in 1..L /\ j = L + 1
        BY <4>2, <2>3, <3>5, <1>2, <1>3
      <4>3. CASE i = L + 1 /\ j \in 1..L
        BY <4>3, <2>3, <3>5, <1>2, <1>3
      <4> QED
        BY <4>1, <4>2, <4>3, <1>5
    <3>6. \A c \in callees : c[1] \in Names /\ table'[c[1]] # None /\ c[2] = table'[c[1]]
      BY <3>2, <2>2, <1>8
    <3>7. \A i \in 1..(L + 1) : decls'[i].body => ~FromLibrary(decls[i].name)'
      BY <3>4, <1>1 DEF FromLibrary
    <3> QED
      BY <3>3, <3>4, <3>5, <3>6, <3>7, <1>1, <1>3 DEF Accepted
  <2> QED
    BY <2>4, <2>5, <2>6 DEF FuncInv
<1> QED
  BY <1>7, <1>8

(* A call. *)
LEMMA CallKeepsInv ==
  ASSUME FuncInv, NEW n \in Names, NEW sig \in Signatures, VisitCall(n, sig.params)
  PROVE  FuncInv'
<1> DEFINE call == <<n, [ret |-> table[n].ret, params |-> sig.params]>>
<1>1. /\ syslib' = syslib /\ table' = table /\ hasBody' = hasBody /\ decls' = decls
      /\ errors' = (errors \/ table[n] = None \/ table[n].params # sig.params)
      /\ callees' = callees \cup {call}
  BY DEF VisitCall
<1>2. FuncTyped' /\ TableIsFirst'
  BY <1>1 DEF FuncInv, FuncTyped, TableIsFirst, FromLibrary, FirstOf
<1>3. ASSUME ~errors'
      PROVE  call[1] \in Names /\ table[call[1]] # None /\ call[2] = table[call[1]]
  <2>1. table[n] # None /\ table[n].params = sig.params
    BY <1>1, <1>3
  <2>2. table[n] \in [ret : Types, params : Seq(Types)]
    BY <2>1, FunctionAssumption DEF FuncInv, FuncTyped
  <2> QED
    BY <2>1, <2>2
<1> HIDE DEF call
<1>4. Accepted'
  BY <1>1, <1>3 DEF FuncInv, Accepted, FromLibrary
<1> QED
  BY <1>2, <1>4 DEF FuncInv

(* The inductive invariant: the table holds the first declarations, and    *)
(* what has been accepted agrees with it.                                  *)
THEOREM FunctionInvariant == FuncSpec => []FuncInv
<1>1. FuncInit => FuncInv
  BY InitFuncInv
<1>2. FuncInv /\ [FuncNext]_funcVars => FuncInv'
  <2> SUFFICES ASSUME FuncInv, [FuncNext]_funcVars PROVE FuncInv'
    OBVIOUS
  <2>1. CASE FuncNext
    BY <2>1, DeclKeepsInv, CallKeepsInv DEF FuncNext
  <2>2. CASE UNCHANGED funcVars
    BY <2>2 DEF funcVars, FuncInv, FuncTyped, TableIsFirst, Accepted, FromLibrary, FirstOf
  <2> QED
    BY <2>1, <2>2
<1> QED
  BY <1>1, <1>2, PTL DEF FuncSpec

(* The generator makes each function from what the table holds. *)
LEMMA ModuleIsTable ==
  ASSUME FuncInv, NEW n \in Names
  PROVE  ModuleFunction(n) = table[n]
<1> DEFINE of == {i \in DOMAIN decls : decls[i].name = n}
<1>1. DOMAIN decls = 1..Len(decls)
  BY DEF FuncInv, FuncTyped
<1>2. CASE FromLibrary(n)
  BY <1>2 DEF FuncInv, TableIsFirst, FromLibrary, ModuleFunction
<1>3. CASE ~FromLibrary(n) /\ of = {}
  <2>1. table[n] = None
    BY <1>1, <1>3 DEF FuncInv, TableIsFirst, FirstOf
  <2> QED
    BY <2>1, <1>3 DEF ModuleFunction, FromLibrary
<1>4. CASE ~FromLibrary(n) /\ of # {}
  <2>1. PICK i \in 1..Len(decls) : FirstOf(i, n) /\ table[n] = decls[i].sig
    BY <1>1, <1>4 DEF FuncInv, TableIsFirst
  <2>2. i \in of /\ \A j \in of : i <= j
    BY <2>1, <1>1 DEF FirstOf
  <2>3. \A k \in of : (\A j \in of : k <= j) => k = i
    BY <2>2, <1>1
  <2>4. (CHOOSE k \in of : \A j \in of : k <= j) = i
    BY <2>2, <2>3
  <2> QED
    BY <2>1, <2>4, <1>4 DEF ModuleFunction, FromLibrary
<1> QED
  BY <1>2, <1>3, <1>4

(* In programs of any length that are accepted, no function has two        *)
(* bodies.                                                                 *)
THEOREM FunctionsHaveOneBody == FuncSpec => []OneBody
<1>1. FuncInv => OneBody
  <2> SUFFICES ASSUME FuncInv, ~errors PROVE OneBody
    BY DEF OneBody
  <2>1. DOMAIN decls = 1..Len(decls)
    BY DEF FuncInv, FuncTyped
  <2> QED
    BY <2>1 DEF FuncInv, Accepted, OneBody, FromLibrary
<1> QED
  BY <1>1, FunctionInvariant, PTL

(* In programs of any length that are accepted, a body fits the function   *)
(* it is put in.                                                           *)
THEOREM BodiesFitModule == FuncSpec => []BodiesFit
<1>1. FuncInv => BodiesFit
  <2> SUFFICES ASSUME FuncInv, ~errors PROVE BodiesFit
    BY DEF BodiesFit
  <2>1. DOMAIN decls = 1..Len(decls)
    BY DEF FuncInv, FuncTyped
  <2>2. \A i \in 1..Len(decls) : decls[i].name \in Names
    BY Declared
  <2> QED
    BY <2>1, <2>2, ModuleIsTable DEF FuncInv, Accepted, BodiesFit
<1> QED
  BY <1>1, FunctionInvariant, PTL

(* In programs of any length that are accepted, a call fits the function   *)
(* it calls.                                                               *)
THEOREM CallsFitModule == FuncSpec => []CallsFit
<1>1. FuncInv => CallsFit
  BY ModuleIsTable DEF FuncInv, Accepted, CallsFit
<1> QED
  BY <1>1, FunctionInvariant, PTL

-----------------------------------------------------------------------------
(***************************************************************************)
(* Inlining: in every module, of any number of functions, a function can   *)
(* reach outside what it could reach before, and reaches nothing else.     *)
(***************************************************************************)
InlineTypeOK ==
  /\ module \in Programs
  /\ calls \in [Functions -> SUBSET Functions]
  /\ huge \subseteq Functions
  /\ fn \in 1..(F + 1)

(* What is closed under the calls before the pass still is. *)
ClosedStays ==
  \A R \in SUBSET Functions :
    /\ Closed(module.calls, R) => Closed(calls, R)
    /\ \A f \in Functions : Closed(module.calls, R) /\ module.calls[f] \subseteq R => calls[f] \subseteq R

(* What could be reached outside of the module still can. *)
ExternalStays ==
  \A f \in Functions :
    Reached(module.calls, f) \ module.defined \subseteq Reached(calls, f) \ module.defined

(* The functions before fn are finished. *)
Finished ==
  \A f \in module.defined \cap module.targets :
    f < fn => \A g \in calls[f] \cap module.defined : g < f => g \in huge \/ g \in calls[g]

InlineInv == InlineTypeOK /\ ClosedStays /\ ExternalStays /\ Finished

(* The parts of a module. *)
LEMMA ProgramFacts ==
  ASSUME InlineTypeOK
  PROVE  /\ module.calls \in [Functions -> SUBSET Functions]
         /\ module.defined \subseteq Functions /\ module.targets \subseteq Functions
         /\ module.huge \subseteq Functions
         /\ F \in Nat \ {0} /\ \A f \in Functions : f \in Nat
<1>1. module \in [calls : [Functions -> SUBSET Functions], defined : SUBSET Functions,
                  targets : SUBSET Functions, huge : SUBSET Functions]
  BY InlinerAssumption DEF InlineTypeOK
<1> QED
  BY <1>1, InlinerAssumption DEF Functions

(* Before the pass nothing has been inlined. *)
LEMMA InitInlineInv == InlineInit => InlineInv
<1> SUFFICES ASSUME InlineInit PROVE InlineInv
  OBVIOUS
<1>1. module \in [calls : [Functions -> SUBSET Functions], defined : SUBSET Functions,
                  targets : SUBSET Functions, huge : SUBSET Functions]
  BY InlinerAssumption DEF InlineInit
<1>2. InlineTypeOK
  BY <1>1, InlinerAssumption DEF InlineInit, InlineTypeOK
<1>3. ClosedStays /\ ExternalStays
  BY DEF InlineInit, ClosedStays, ExternalStays
<1>4. Finished
  BY <1>1 DEF InlineInit, Finished, Functions
<1> QED
  BY <1>2, <1>3, <1>4 DEF InlineInv

-----------------------------------------------------------------------------
(* One round: the calls that are inlined are replaced by those of the      *)
(* callees.                                                                *)
LEMMA RoundKeepsInv ==
  ASSUME InlineInv, InlineRound
  PROVE  InlineInv'
<1> DEFINE inlined == {g \in calls[fn] : Inlinable(g)}
           body == (calls[fn] \ inlined) \cup UNION {calls[g] : g \in inlined}
<1>1. /\ fn \in module.defined \cap module.targets /\ module' = module /\ fn' = fn
      /\ calls' = [calls EXCEPT ![fn] = body]
      /\ huge' \in {huge, huge \cup {fn}}
  BY DEF InlineRound
<1>2. /\ InlineTypeOK /\ fn \in Functions /\ calls \in [Functions -> SUBSET Functions]
      /\ calls[fn] \in SUBSET Functions
  BY <1>1, ProgramFacts DEF InlineInv, InlineTypeOK
<1>3. /\ inlined \subseteq calls[fn] /\ fn \notin inlined /\ inlined \subseteq module.defined
      /\ inlined \subseteq Functions
  BY <1>2 DEF Inlinable
<1>4. \A g \in inlined : calls[g] \subseteq body
  OBVIOUS
<1>5. \A R : calls[fn] \subseteq R /\ (\A g \in inlined : calls[g] \subseteq R) => body \subseteq R
  OBVIOUS
<1>6. calls[fn] \subseteq body \cup inlined
  OBVIOUS
<1>7. body \in SUBSET Functions
  BY <1>2, <1>3
<1> HIDE DEF inlined, body
<1>8. /\ calls' \in [Functions -> SUBSET Functions] /\ calls'[fn] = body
      /\ \A g \in Functions : g # fn => calls'[g] = calls[g]
  BY <1>1, <1>2, <1>7
<1>9. InlineTypeOK'
  BY <1>1, <1>2, <1>8 DEF InlineTypeOK
<1>10. ClosedStays'
  <2> SUFFICES ASSUME NEW R \in SUBSET Functions, Closed(module.calls, R)
               PROVE  /\ Closed(calls', R)
                      /\ \A f \in Functions : module.calls[f] \subseteq R => calls'[f] \subseteq R
    BY <1>1 DEF ClosedStays
  <2>1. Closed(calls, R) /\ \A f \in Functions : module.calls[f] \subseteq R => calls[f] \subseteq R
    BY DEF InlineInv, ClosedStays
  <2>2. calls[fn] \subseteq R => body \subseteq R
    BY <2>1, <1>3, <1>5 DEF Closed
  <2>3. \A f \in Functions : calls[f] \subseteq R => calls'[f] \subseteq R
    BY <2>2, <1>8
  <2> QED
    BY <2>1, <2>3 DEF Closed
<1>11. ASSUME NEW f \in Functions, NEW e \in Reached(calls, f), e \notin module.defined
       PROVE  e \in Reached(calls', f)
  <2> SUFFICES ASSUME NEW R \in SUBSET Functions, calls'[f] \subseteq R, Closed(calls', R)
               PROVE  e \in R
    BY DEF Reached
  <2> DEFINE S == R \cup {g \in inlined : fn \in R \/ f = fn}
  <2>1. fn \in R \/ f = fn => body \subseteq R
    BY <1>1, <1>8 DEF Closed
  <2>2. S \in SUBSET Functions
    BY <1>3
  <2>3. calls[f] \subseteq S
    BY <2>1, <1>6, <1>8
  <2>4. \A g \in R : calls[g] \subseteq S
    BY <2>1, <1>6, <1>8 DEF Closed
  <2>5. \A g \in inlined : fn \in R \/ f = fn => calls[g] \subseteq S
    BY <2>1, <1>4
  <2>6. Closed(calls, S)
    BY <2>4, <2>5 DEF Closed
  <2>7. e \in S
    BY <2>2, <2>3, <2>6 DEF Reached
  <2> QED
    BY <2>7, <1>3, <1>11
<1>12. ExternalStays'
  BY <1>1, <1>11 DEF InlineInv, ExternalStays
<1>13. Finished'
  <2> SUFFICES ASSUME NEW f \in module.defined \cap module.targets, f < fn,
                      NEW g \in calls'[f] \cap module.defined, g < f
               PROVE  g \in huge' \/ g \in calls'[g]
    BY <1>1 DEF Finished
  <2>1. f \in Functions /\ g \in Functions /\ f # fn /\ g # fn
    BY <1>2, ProgramFacts
  <2>2. calls'[f] = calls[f] /\ calls'[g] = calls[g]
    BY <2>1, <1>8
  <2> QED
    BY <2>2, <1>1 DEF InlineInv, Finished
<1> QED
  BY <1>9, <1>10, <1>12, <1>13 DEF InlineInv

(* A step to the next function, which changes no calls. *)
LEMMA AdvanceKeepsInv ==
  ASSUME InlineInv, fn \in Functions, fn' = fn + 1, module' = module, calls' = calls,
         huge' \in {huge, huge \ {fn}},
         fn \in module.defined \cap module.targets => \A g \in calls[fn] : ~Inlinable(g)
  PROVE  InlineInv'
<1>1. InlineTypeOK'
  BY InlinerAssumption DEF InlineInv, InlineTypeOK, Functions
<1>2. ClosedStays' /\ ExternalStays'
  BY DEF InlineInv, ClosedStays, ExternalStays
<1>3. Finished'
  <2> SUFFICES ASSUME NEW f \in module.defined \cap module.targets, f < fn + 1,
                      NEW g \in calls[f] \cap module.defined, g < f
               PROVE  g \in huge' \/ g \in calls[g]
    BY DEF Finished
  <2>1. InlineTypeOK /\ Finished
    BY DEF InlineInv
  <2>2. f \in Nat /\ g \in Nat /\ fn \in Nat
    BY <2>1, ProgramFacts
  <2>3. g # fn
    BY <2>2
  <2>4. CASE f = fn
    BY <2>3, <2>4 DEF Inlinable
  <2>5. CASE f < fn
    BY <2>1, <2>3, <2>5 DEF Finished
  <2> QED
    BY <2>2, <2>4, <2>5
<1> QED
  BY <1>1, <1>2, <1>3 DEF InlineInv

(* The inductive invariant: what is closed stays closed, what is reached   *)
(* outside is still reached, and the functions before fn are finished.     *)
THEOREM InlineInvariant == InlineSpec => []InlineInv
<1>1. InlineInit => InlineInv
  BY InitInlineInv
<1>2. InlineInv /\ [InlineNext]_inlineVars => InlineInv'
  <2> SUFFICES ASSUME InlineInv, [InlineNext]_inlineVars PROVE InlineInv'
    OBVIOUS
  <2>1. CASE SkipFunction
    BY <2>1, AdvanceKeepsInv DEF SkipFunction
  <2>2. CASE InlineRound
    BY <2>2, RoundKeepsInv
  <2>3. CASE FinishFunction
    <3>1. fn \in Functions
      BY <2>3, ProgramFacts DEF FinishFunction, InlineInv
    <3> QED
      BY <2>3, <3>1, AdvanceKeepsInv DEF FinishFunction
  <2>4. CASE UNCHANGED inlineVars
    BY <2>4 DEF inlineVars, InlineInv, InlineTypeOK, ClosedStays, ExternalStays, Finished
  <2> QED
    BY <2>1, <2>2, <2>3, <2>4 DEF InlineNext
<1> QED
  BY <1>1, <1>2, PTL DEF InlineSpec

(* In every module, no recursion is created. *)
THEOREM NoRecursionIsMade == InlineSpec => []NoNewRecursion
<1>1. InlineInv => NoNewRecursion
  BY DEF InlineInv, ClosedStays, NoNewRecursion, Reached
<1> QED
  BY <1>1, InlineInvariant, PTL

(* In every module, the calls of external functions that a function can    *)
(* cause stay the same.                                                    *)
THEOREM ExternalCallsAreKept == InlineSpec => []ExternalCallsKept
<1>1. InlineInv => ExternalCallsKept
  <2> SUFFICES ASSUME InlineInv, NEW f \in Functions
               PROVE  Reached(calls, f) \ module.defined = Reached(module.calls, f) \ module.defined
    BY DEF ExternalCallsKept
  <2>1. Reached(calls, f) \subseteq Reached(module.calls, f)
    BY DEF InlineInv, ClosedStays, Reached
  <2> QED
    BY <2>1 DEF InlineInv, ExternalStays
<1> QED
  BY <1>1, InlineInvariant, PTL

(* In every module, no call is left at the end that should have been       *)
(* inlined.                                                                *)
THEOREM InliningIsExhaustive == InlineSpec => []InlinedExhaustively
<1>1. InlineInv => InlinedExhaustively
  <2> SUFFICES ASSUME InlineInv, fn > F PROVE InlinedExhaustively
    BY DEF InlinedExhaustively, InlineDone
  <2>1. \A f \in module.defined \cap module.targets : f < fn
    BY ProgramFacts DEF InlineInv, InlineTypeOK, Functions
  <2> QED
    BY <2>1 DEF InlineInv, Finished, InlinedExhaustively
<1> QED
  BY <1>1, InlineInvariant, PTL
=============================================================================
