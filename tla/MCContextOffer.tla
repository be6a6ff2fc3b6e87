--------------------------- MODULE MCContextOffer ---------------------------
(***************************************************************************)
(* ContextOffer for TLC: events of one priority are interchangeable.       *)
(***************************************************************************)
EXTENDS ContextOffer, TLC

SameEvents == Permutations(High) \cup Permutations(Lines \ High)
=============================================================================
