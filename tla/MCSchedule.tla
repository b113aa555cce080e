---------------------------- MODULE MCSchedule ----------------------------
(***************************************************************************)
(* Small instances of Schedule for TLC.                                    *)
(***************************************************************************)
EXTENDS Schedule, TLC

\* Rows differ only by identity.
PostSymmetry == Permutations(Posts)
=============================================================================
