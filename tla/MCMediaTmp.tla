----------------------------- MODULE MCMediaTmp -----------------------------
(***************************************************************************)
(* Small instances of MediaTmp for TLC.                                    *)
(***************************************************************************)
EXTENDS MediaTmp, TLC

\* Calls differ only by identity.
JobSymmetry == Permutations(Jobs)
=============================================================================
