-------------------------- MODULE MCWhatsAppDispatch --------------------------
(* Model checking of WhatsAppDispatch: claims (dispatchers) and groups are   *)
(* interchangeable, so runs without liveness properties use their symmetry.  *)
EXTENDS WhatsAppDispatch, TLC

Symmetry == Permutations(Claims) \cup Permutations(Groups)
=============================================================================
