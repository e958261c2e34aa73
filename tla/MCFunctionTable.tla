--------------------------- MODULE MCFunctionTable ---------------------------
(***************************************************************************)
(* Model checking of FunctionTable: two functions, one of them with a name *)
(* of minicio, and three declarations.                                     *)
(***************************************************************************)
EXTENDS FunctionTable

Sig(ret, params) == [ret |-> ret, params |-> params]
MCLibrary == [n \in {"putint"} |-> Sig("void", <<"int">>)]
MCSignatures == {Sig("void", <<"int">>), Sig("int", <<"int">>), Sig("void", <<"char">>),
                 Sig("void", <<"int", "int">>)}
=============================================================================
