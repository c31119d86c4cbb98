-------------------------- MODULE MCPublicationWorker --------------------------
(* Model checking of PublicationWorker.  Workers are interchangeable.        *)
EXTENDS PublicationWorker, TLC

Symmetry == Permutations(Workers)
=============================================================================
