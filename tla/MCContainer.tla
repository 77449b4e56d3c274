----------------------------- MODULE MCContainer -----------------------------
(***************************************************************************)
(* One channel has all videos.                                             *)
(***************************************************************************)
EXTENDS Container

CONSTANT c1

MCChannelOf == [v \in Video |-> c1]

=============================================================================
