---------------------------- MODULE DeliveryLedger ----------------------------
(***************************************************************************)
(* What scheduled application runs promise about the videos of the         *)
(* subscribed channels, without runs, files and attempts: a video is open  *)
(* until a run deals with it, held while its captions are retried, and     *)
(* closed when nothing more is due; the completed windows form one growing *)
(* interval that leaves no open video behind.                              *)
(***************************************************************************)
EXTENDS Integers

CONSTANTS
  Video,    \* Video ids.
  NoWindow  \* The bounds of the interval before the first completed window.

VARIABLES
  publishedAt,  \* When each video is published.
  stage,        \* What is due about each video.
  since,        \* The start of the first completed window.
  until         \* The end of the last completed window.

vars == <<publishedAt, stage, since, until>>

Stages == {"open", "held", "closed"}

\* A video never returns to an earlier stage.
Onward(old, new) ==
  new = old \/ old = "open" \/ (old = "held" /\ new = "closed")

Init ==
  /\ stage = [v \in Video |-> "open"]
  /\ since = NoWindow /\ until = NoWindow

\* A step of a run, or the end of one, moves some videos on.
Move ==
  /\ stage' \in [Video -> Stages]
  /\ \A v \in Video : Onward(stage[v], stage'[v])
  /\ UNCHANGED <<publishedAt, since, until>>

\* A window is completed: it continues the last one, and none of its videos
\* is open.
Complete ==
  /\ until' > until
  /\ IF until = NoWindow THEN since' < until' ELSE since' = since
  /\ \A v \in Video :
       since' <= publishedAt[v] /\ publishedAt[v] < until' => stage[v] # "open"
  /\ UNCHANGED <<publishedAt, stage>>

Next == Move \/ Complete

Spec == Init /\ [][Next]_vars

=============================================================================
