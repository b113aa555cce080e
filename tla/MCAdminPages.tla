--------------------------- MODULE MCAdminPages ----------------------------
(* AdminPages for TLC.  Neither visits nor tokens are told apart, and every *)
(* property quantifies over all of them, so permuting them is sound.        *)
EXTENDS AdminPages, TLC

Symmetry == Permutations(Visits) \cup Permutations(Tokens)
=============================================================================
