---------------------------- MODULE MCWhatsAppQueue ----------------------------
(* Model checking of WhatsAppQueue on its own, with arbitrary callers.       *)
EXTENDS WhatsAppQueue, TLC

Symmetry == Permutations(Claims) \cup Permutations(Groups)
=============================================================================
