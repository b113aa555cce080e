---------------------------- MODULE MCNewsmaker ----------------------------
(***************************************************************************)
(* Small instances of Newsmaker for TLC.                                   *)
(***************************************************************************)
EXTENDS Newsmaker, TLC

\* Every post goes to all channels.
ToAll == [p \in Posts |-> Channels]

\* Rows and channels differ only by identity.
RowAndChannelSymmetry == Permutations(Posts) \cup Permutations(Channels)
=============================================================================
