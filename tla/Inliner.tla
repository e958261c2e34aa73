------------------------------- MODULE Inliner -------------------------------
(***************************************************************************)
(* inlineCalls of src/Alloca2Reg.cpp over a whole module: the pass runs on *)
(* one function after the other, in the order of the module, and inlines   *)
(* in each the calls of small functions until it finds none.               *)
(*                                                                         *)
(* Of a function body its callees and its size are kept, and of the size   *)
(* only whether it is above the limit of 100 instructions.                 *)
(***************************************************************************)
EXTENDS Integers

CONSTANTS
  F,         \* number of functions, in module order
  Programs   \* the modules: [calls, defined, targets, huge]

Functions == 1..F

ASSUME InlinerAssumption ==
  /\ F \in Nat \ {0}
  /\ Programs \subseteq [calls : [Functions -> SUBSET Functions], defined : SUBSET Functions,
                         targets : SUBSET Functions, huge : SUBSET Functions]

VARIABLES
  module,  \* the module before the pass; never changes
  calls,   \* function -> the functions it calls
  huge,    \* the functions of more than 100 instructions
  fn       \* the function the pass is working on; F + 1: the pass is over

inlineVars == <<module, calls, huge, fn>>

InlineInit ==
  /\ module \in Programs
  /\ calls = module.calls
  /\ huge = module.huge
  /\ fn = 1

(* The pass does nothing to a declaration, and returns early from a        *)
(* function without allocas to promote.                                    *)
SkipFunction ==
  /\ fn \in Functions
  /\ fn \notin module.defined \cap module.targets
  /\ fn' = fn + 1
  /\ UNCHANGED <<module, calls, huge>>

(* Seeded bugs: calls of declarations are inlined too; or calls of         *)
(* functions that call themselves.                                         *)
Inlinable_Declarations(g) == g # fn /\ g \notin huge /\ g \notin calls[g]
Inlinable_Recursive(g) == g \in module.defined /\ g # fn /\ g \notin huge

Inlinable(g) ==
  g \in module.defined /\ g # fn /\ g \notin huge /\ g \notin calls[g]

(* Seeded bug: the caller's body goes into the callees. *)
InlineRound_Swapped ==
  LET inlined == {g \in calls[fn] : Inlinable(g)}
  IN  /\ fn \in module.defined \cap module.targets
      /\ inlined # {}
      /\ calls' = [g \in Functions |-> IF g \in inlined THEN calls[g] \cup calls[fn] ELSE calls[g]]
      /\ UNCHANGED <<module, fn, huge>>

(* One round: the calls are collected, then all of them are inlined.  The  *)
(* callees do not change meanwhile.  The body may outgrow the limit.       *)
InlineRound ==
  LET inlined == {g \in calls[fn] : Inlinable(g)}
  IN  /\ fn \in module.defined \cap module.targets
      /\ inlined # {}
      /\ calls' = [calls EXCEPT ![fn] = (@ \ inlined) \cup UNION {calls[g] : g \in inlined}]
      /\ huge' \in {huge, huge \cup {fn}}
      /\ UNCHANGED <<module, fn>>

(* Seeded bug: the pass goes on although calls can still be inlined. *)
FinishFunction_Early ==
  /\ fn \in module.defined \cap module.targets
  /\ fn' = fn + 1
  /\ UNCHANGED <<module, calls, huge>>

(* No call is left to inline: the function is optimised, which may bring   *)
(* it below the limit again, and the pass goes on to the next one.         *)
FinishFunction ==
  /\ fn \in module.defined \cap module.targets
  /\ \A g \in calls[fn] : ~Inlinable(g)
  /\ huge' \in {huge, huge \ {fn}}
  /\ fn' = fn + 1
  /\ UNCHANGED <<module, calls>>

InlineNext == SkipFunction \/ InlineRound \/ FinishFunction

InlineSpec == InlineInit /\ [][InlineNext]_inlineVars /\ WF_inlineVars(InlineNext)

InlineDone == fn > F

-----------------------------------------------------------------------------
Closed(c, R) == \A g \in R : c[g] \subseteq R

(* What f may call, in one step or several: what is in every set that      *)
(* holds the callees of f and of its members.                              *)
Reached(c, f) ==
  {g \in Functions : \A R \in SUBSET Functions : c[f] \subseteq R /\ Closed(c, R) => g \in R}

(* Inlining loses no effect: whatever a function could cause to be called  *)
(* outside of the module it still can, and nothing else.                   *)
ExternalCallsKept ==
  \A f \in Functions :
    Reached(calls, f) \ module.defined = Reached(module.calls, f) \ module.defined

(* Inlining never makes a function reach, or call, one it did not reach    *)
(* before: no recursion is created, and a function once recognised as      *)
(* self-recursive was recursive in the source.                             *)
NoNewRecursion == \A f \in Functions : Reached(calls, f) \subseteq Reached(module.calls, f)

(* When the pass is over, a function that was optimised has no call left   *)
(* to a function before it, except to one that is too large or calls       *)
(* itself: the inlining is exhaustive although the bodies change while the *)
(* pass moves through the module.  Nothing is said of the functions it     *)
(* returns early from.                                                     *)
InlinedExhaustively ==
  InlineDone =>
    \A f \in module.defined \cap module.targets :
      \A g \in calls[f] \cap module.defined :
        g < f => g \in huge \/ g \in calls[g]

(* A function reaches itself only by calling itself. *)
NoMutualRecursion(c) == \A f \in Functions : \A g \in c[f] \ {f} : f \notin Reached(c, g)

(* The pass ends on a module without mutual recursion. *)
InlineTerminates == NoMutualRecursion(module.calls) => <>InlineDone

(* Recursive functions are not inlined, and so the pass always ends. *)
InlineAlwaysTerminates == <>InlineDone
=============================================================================
