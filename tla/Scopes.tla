-------------------------------- MODULE Scopes --------------------------------
(***************************************************************************)
(* Variables and scopes: the symbol tables VerifyAndBuildSymbols fills as  *)
(* it walks the program, the lookup of ASTNode.cpp in them, and the second *)
(* walk by IRGenerator, which looks the names up again when all tables are *)
(* complete and keeps the storage of a variable in its table entry.        *)
(*                                                                         *)
(* The first walk chooses the program and leaves it in walk.  Scopes are   *)
(* numbered in the order in which they are opened; scope 1 is the program. *)
(* A scope holds declarations first and statements after them, but the     *)
(* program holds declarations of variables and of functions in any order.  *)
(***************************************************************************)
EXTENDS Integers, Sequences, FiniteSets

CONSTANTS
  Names,     \* names of variables and parameters
  Types,     \* their types
  MaxScopes, \* bound: scopes of the program
  MaxDecls,  \* bound: declarations of variables and parameters
  MaxRefs    \* bound: references to them

NoType == "no type"

ASSUME ScopesAssumption ==
  MaxScopes \in Nat \ {0} /\ MaxDecls \in Nat /\ MaxRefs \in Nat /\ NoType \notin Types

VARIABLES
  table,      \* scope -> its VarSymbolTable: name -> type, or NoType
  path,       \* the scopes that are open, outermost first
  statements, \* the innermost open scope has had a statement
  walk,       \* what has been visited: [op, chain, name, found, type]
  errors,     \* the verifier has reported an error
  pos,        \* what the generator visits next; 0: it has not been started
  storage     \* scope -> name -> the type of its LLVMValue, NoType if null

firstWalk == <<table, path, statements, walk, errors>>
scopeVars == <<firstWalk, pos, storage>>

program == 1
Innermost == path[Len(path)]
EmptyTable == [n \in Names |-> NoType]

In(s, chain) == \E k \in 1..Len(chain) : chain[k] = s
Refers(i) == walk[i].op = "refer"
Declares(i) == walk[i].op = "declare"
CountOf(op) == Cardinality({i \in DOMAIN walk : walk[i].op = op})

ScopesInit ==
  /\ table = <<EmptyTable>>
  /\ path = <<program>>
  /\ statements = FALSE
  /\ walk = << >>
  /\ errors = FALSE
  /\ pos = 0
  /\ storage = << >>

Outermost(has) == CHOOSE i \in has : \A j \in has : i <= j
Last(has) == CHOOSE i \in has : \A j \in has : j <= i
Having(chain, n) == {i \in DOMAIN chain : table[chain[i]][n] # NoType}

(* Seeded bug: the search begins at the program. *)
Locate_Outermost(chain, n) ==
  IF Having(chain, n) = {} THEN 0 ELSE chain[Outermost(Having(chain, n))]

(* locateDeclaringTableForVar: the innermost of the scopes around a node   *)
(* whose table has the name, or 0.                                         *)
Locate(chain, n) == IF Having(chain, n) = {} THEN 0 ELSE chain[Last(Having(chain, n))]

Visited(op, n, found, type) ==
  walk' = Append(walk, [op |-> op, chain |-> path, name |-> n, found |-> found, type |-> type])

(* VarSymbolTable::insert leaves an entry that exists as it is. *)
Insert(t, n, type) == IF t[n] = NoType THEN [t EXCEPT ![n] = type] ELSE t

(* Seeded bug: declarations may stand among the statements. *)
VisitVarDecl_Anywhere(n, type) ==
  /\ pos = 0
  /\ CountOf("declare") < MaxDecls
  /\ table' = [table EXCEPT ![Innermost] = Insert(@, n, type)]
  /\ errors' = (errors \/ table[Innermost][n] # NoType)
  /\ Visited("declare", n, Innermost, type)
  /\ UNCHANGED <<path, statements, pos, storage>>

(* visitVarDecl, one variable; and visitFuncDecl, one parameter, which it  *)
(* enters into the table of the body in the same way.                      *)
VisitVarDecl(n, type) ==
  /\ pos = 0
  /\ CountOf("declare") < MaxDecls
  /\ ~statements
  /\ table' = [table EXCEPT ![Innermost] = Insert(@, n, type)]
  /\ errors' = (errors \/ table[Innermost][n] # NoType)
  /\ Visited("declare", n, Innermost, type)
  /\ UNCHANGED <<path, statements, pos, storage>>

(* visitScope: the body of a function in the program; in a function a      *)
(* statement that is a scope, alone or as the body of a loop or an if.     *)
VisitScope ==
  /\ pos = 0
  /\ Len(table) < MaxScopes
  /\ table' = Append(table, EmptyTable)
  /\ path' = Append(path, Len(table) + 1)
  /\ statements' = FALSE
  /\ UNCHANGED <<walk, errors, pos, storage>>

LeaveScope ==
  /\ pos = 0
  /\ Innermost # program
  /\ path' = SubSeq(path, 1, Len(path) - 1)
  /\ statements' = (Len(path) > 2)
  /\ UNCHANGED <<table, walk, errors, pos, storage>>

(* verifyVarReference: only statements refer to variables. *)
VisitReference(n) ==
  LET found == Locate(path, n)
  IN  /\ pos = 0
      /\ Innermost # program
      /\ CountOf("refer") < MaxRefs
      /\ statements' = TRUE
      /\ Visited("refer", n, found, IF found = 0 THEN NoType ELSE table[found][n])
      /\ errors' = (errors \/ found = 0)
      /\ UNCHANGED <<table, path, pos, storage>>

-----------------------------------------------------------------------------
(* main: nothing is generated after an error. *)
StartGenerator ==
  /\ pos = 0
  /\ Innermost = program
  /\ ~errors
  /\ pos' = 1
  /\ storage' = [s \in DOMAIN table |-> EmptyTable]
  /\ UNCHANGED firstWalk

Generating(op) == pos \in DOMAIN walk /\ walk[pos].op = op

(* Seeded bug: it goes into the outermost table that has the name. *)
Declared_Outermost == Locate_Outermost(walk[pos].chain, walk[pos].name)

(* The table of the scope of the declaration. *)
Declared == walk[pos].found

(* visitVarDecl and the parameters in visitFuncDecl: a global or an alloca *)
(* of the type in the table.                                               *)
GenerateVarDecl ==
  LET n == walk[pos].name
  IN  /\ Generating("declare")
      /\ storage' = [storage EXCEPT ![Declared][n] = table[Declared][n]]
      /\ pos' = pos + 1
      /\ UNCHANGED firstWalk

(* visitVarExpr and visitAssignmentExpr; see LookupStable and StorageReady *)
(* for what they find.                                                     *)
GenerateReference ==
  /\ Generating("refer")
  /\ pos' = pos + 1
  /\ UNCHANGED <<firstWalk, storage>>

(* visitScope stops behind a return, break or continue: the rest of scope  *)
(* s is not generated, its scopes included.  Only a statement ends so.     *)
SkipRest(s) ==
  /\ pos \in DOMAIN walk
  /\ s # program
  /\ In(s, walk[pos].chain)
  /\ ~(Declares(pos) /\ walk[pos].found = s)
  /\ \E p \in (pos + 1)..(Len(walk) + 1) :
       /\ \A i \in pos..(p - 1) : In(s, walk[i].chain)
       /\ p \in DOMAIN walk => ~In(s, walk[p].chain)
       /\ pos' = p
  /\ UNCHANGED <<firstWalk, storage>>

ScopesNext ==
  \/ \E n \in Names, t \in Types : VisitVarDecl(n, t)
  \/ VisitScope \/ LeaveScope
  \/ \E n \in Names : VisitReference(n)
  \/ StartGenerator \/ GenerateVarDecl \/ GenerateReference
  \/ \E s \in DOMAIN table : SkipRest(s)

ScopesSpec == ScopesInit /\ [][ScopesNext]_scopeVars

-----------------------------------------------------------------------------
(* The second walk finds what the first one found.  IRGenerator looks a    *)
(* name up when every table is complete, and must get the variable whose   *)
(* type the verifier has checked: no declaration that comes after a        *)
(* reference captures it.                                                  *)
LookupStable ==
  ~errors => \A i \in DOMAIN walk : Refers(i) =>
    /\ Locate(walk[i].chain, walk[i].name) = walk[i].found
    /\ table[walk[i].found][walk[i].name] = walk[i].type

(* And the storage of that variable exists, with the type that was         *)
(* checked, although code behind a jump is never visited and the pointer   *)
(* in the entry is null until the declaration has been.                    *)
StorageReady ==
  Generating("refer") =>
    LET found == Locate(walk[pos].chain, walk[pos].name)
    IN  found # 0 /\ storage[found][walk[pos].name] = walk[pos].type

(* What a reference may mean in C: a declaration of the name, before it,   *)
(* whose scope is still open.                                              *)
Visible(i) ==
  {d \in 1..(i - 1) : /\ Declares(d)
                      /\ walk[d].name = walk[i].name
                      /\ In(walk[d].found, walk[i].chain)}

(* A name means what it means in C: the last of these declarations, which  *)
(* hides the others.                                                       *)
MeansLikeInC ==
  ~errors => \A i \in DOMAIN walk : Refers(i) =>
    /\ Visible(i) # {}
    /\ walk[i].found = walk[Last(Visible(i))].found
    /\ walk[i].type = walk[Last(Visible(i))].type
=============================================================================
