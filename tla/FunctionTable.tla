---------------------------- MODULE FunctionTable ----------------------------
(***************************************************************************)
(* Functions of a program: the symbol table VerifyAndBuildSymbols fills    *)
(* while it walks the declarations, and the functions IRGenerator creates  *)
(* in the LLVM module before it generates any body.                        *)
(*                                                                         *)
(* The table is filled in program order, so a call is checked against the  *)
(* declarations before it; the module is made from all of them at once.    *)
(***************************************************************************)
EXTENDS Integers, Sequences

CONSTANTS
  Names,      \* function names, those of minicio among them
  Library,    \* the names in Names that minicio declares: name -> signature
  Types,      \* types of results and parameters
  Signatures, \* the signatures [ret, params] declarations use
  MaxDecls    \* bound: declarations of the program

None == [ret |-> "none", params |-> << >>]

ASSUME FunctionAssumption ==
  /\ DOMAIN Library \subseteq Names
  /\ Signatures \subseteq [ret : Types, params : Seq(Types)]
  /\ None \notin Signatures
  /\ \A n \in DOMAIN Library : Library[n] \in Signatures
  /\ MaxDecls \in Nat

VARIABLES
  syslib,   \* the program starts with #include "minicio.h"
  table,    \* FuncSymbolTable: name -> signature, or None
  hasBody,  \* FuncSymbolTable: the names with HasBody
  decls,    \* the FuncDeclarations of the program: [name, sig, body]
  callees,  \* the calls of the program: <<name, signature it is used with>>
  errors    \* the verifier has reported an error

funcVars == <<syslib, table, hasBody, decls, callees, errors>>

(* visitProgram enters the functions of minicio, as defined ones. *)
FuncInit ==
  /\ syslib \in BOOLEAN
  /\ table = [n \in Names |-> IF syslib /\ n \in DOMAIN Library THEN Library[n] ELSE None]
  /\ hasBody = IF syslib THEN DOMAIN Library ELSE {}
  /\ decls = << >>
  /\ callees = {}
  /\ errors = FALSE

(* Seeded bug: the return types are not compared. *)
Agrees_ParamsOnly(old, new) == old.params = new.params

(* The return types, the number of parameters and each of their types.     *)
Agrees(old, new) ==
  /\ old.ret = new.ret
  /\ Len(old.params) = Len(new.params)
  /\ \A i \in DOMAIN new.params : old.params[i] = new.params[i]

(* Seeded bug: a body that follows a prototype is not recorded. *)
SetHasBody_NewOnly(n, body) ==
  hasBody' = IF body /\ table[n] = None THEN hasBody \cup {n} ELSE hasBody

SetHasBody(n, body) == hasBody' = IF body THEN hasBody \cup {n} ELSE hasBody

(* visitFuncDecl.  The signature of the first declaration stays, HasBody   *)
(* is updated.                                                             *)
VisitFuncDecl(n, sig, body) ==
  /\ Len(decls) < MaxDecls
  /\ decls' = Append(decls, [name |-> n, sig |-> sig, body |-> body])
  /\ IF table[n] # None
       THEN /\ errors' = (errors \/ ~Agrees(table[n], sig) \/ (body /\ n \in hasBody))
            /\ UNCHANGED table
       ELSE /\ table' = [table EXCEPT ![n] = sig]
            /\ UNCHANGED errors
  /\ SetHasBody(n, body)
  /\ UNCHANGED <<syslib, callees>>

(* Seeded bug: the arguments are not compared with the parameters. *)
VisitCall_NameOnly(n, params) ==
  /\ decls # << >> /\ decls[Len(decls)].body
  /\ errors' = (errors \/ table[n] = None)
  /\ callees' = callees \cup {<<n, [ret |-> table[n].ret, params |-> params]>>}
  /\ UNCHANGED <<syslib, table, hasBody, decls>>

(* visitCallExpr, in the body of the function declared last.  The result   *)
(* type of the call is the one in the table.                               *)
VisitCall(n, params) ==
  /\ decls # << >> /\ decls[Len(decls)].body
  /\ errors' = (errors \/ table[n] = None \/ table[n].params # params)
  /\ callees' = callees \cup {<<n, [ret |-> table[n].ret, params |-> params]>>}
  /\ UNCHANGED <<syslib, table, hasBody, decls>>

FuncNext ==
  \E n \in Names, sig \in Signatures :
    \/ \E body \in BOOLEAN : VisitFuncDecl(n, sig, body)
    \/ VisitCall(n, sig.params)

FuncSpec == FuncInit /\ [][FuncNext]_funcVars

(* The LLVM function of the name: the library's, or the first declaration. *)
ModuleFunction(n) ==
  LET of == {i \in DOMAIN decls : decls[i].name = n}
  IN  IF syslib /\ n \in DOMAIN Library THEN Library[n]
      ELSE IF of = {} THEN None
      ELSE decls[CHOOSE i \in of : \A j \in of : i <= j].sig

-----------------------------------------------------------------------------
(* In an accepted program no name has two bodies; a name of minicio has    *)
(* none when the library is included.  IRGenerator would put the second    *)
(* body into the same LLVM function.                                       *)
OneBody ==
  ~errors =>
    \A n \in Names :
      LET bodies == {i \in DOMAIN decls : decls[i].name = n /\ decls[i].body}
      IN  /\ \A i, j \in bodies : i = j
          /\ syslib /\ n \in DOMAIN Library => bodies = {}

(* In an accepted program every body fits the LLVM function it is put in,  *)
(* although that was created from another declaration: visitFuncDecl       *)
(* stores one argument for each of its own parameters.                     *)
BodiesFit == ~errors => \A i \in DOMAIN decls : decls[i].sig = ModuleFunction(decls[i].name)

(* And every call fits the LLVM function it calls, whatever is declared    *)
(* after it.                                                               *)
CallsFit == ~errors => \A c \in callees : c[2] = ModuleFunction(c[1])
=============================================================================
