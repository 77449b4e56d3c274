------------------------ MODULE MCApplicationPipeline ------------------------
(***************************************************************************)
(* Values for the constants of ApplicationPipeline that a configuration    *)
(* file cannot write.                                                      *)
(***************************************************************************)
EXTENDS ApplicationPipeline, TLC

CONSTANTS v1, v2, v3, v4, c1, c2

\* The first video has a channel of its own.
MCChannelOf == [v \in Video |-> IF v = v1 THEN c1 ELSE c2]

\* Videos are interchangeable together with their channels.
Symmetry ==
  {f \in Permutations(Video \cup Channel) :
     \A v \in Video : /\ f[v] \in Video
                      /\ f[ChannelOf[v]] = ChannelOf[f[v]]
                      /\ v \in Short <=> f[v] \in Short}

\* The state without its history, which no guard reads and no property of
\* progress.cfg.
WithoutHistory == <<world, disk, run>>

=============================================================================
