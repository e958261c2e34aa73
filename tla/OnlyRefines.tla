------------------------------ MODULE OnlyRefines ------------------------------
(***************************************************************************)
(* What an optimizer promises, whatever it does to the code: a function    *)
(* goes on doing what it did, on every input on which that was defined.    *)
(***************************************************************************)
CONSTANTS Inputs, Undefined

VARIABLE meaning   \* input -> what the function does, or Undefined

Start == DOMAIN meaning = Inputs

Rewrite ==
  /\ DOMAIN meaning' = Inputs
  /\ \A i \in Inputs : meaning[i] # Undefined => meaning'[i] = meaning[i]

Spec == Start /\ [][Rewrite]_meaning
=============================================================================
