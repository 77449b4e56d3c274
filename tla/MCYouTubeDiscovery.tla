-------------------------- MODULE MCYouTubeDiscovery --------------------------
(***************************************************************************)
(* Lists for the constants of YouTubeDiscovery.                            *)
(***************************************************************************)
EXTENDS YouTubeDiscovery

CONSTANTS c1, c2, v1, v2, v3, v4

\* More than a page of channels, the last with more than a page of uploads.
MCSubscriptions == <<c1, c2>>

MCUploads ==
  [c \in {c1, c2} |-> IF c = c2 THEN <<v1, v2, v3, v4>> ELSE <<>>]

=============================================================================
