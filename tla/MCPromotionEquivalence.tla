------------------------ MODULE MCPromotionEquivalence ------------------------
(***************************************************************************)
(* Model checking of PromotionEquivalence on the functions of MCPromotion. *)
(***************************************************************************)
EXTENDS MCPromotion, PromotionEquivalence
=============================================================================
