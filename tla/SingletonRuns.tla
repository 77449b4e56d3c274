---------------------------- MODULE SingletonRuns ----------------------------
(***************************************************************************)
(* What the schedulers on one data volume promise, without processes,      *)
(* locks, polls and cursors: at most one run or maintenance is active at a *)
(* time; each occurrence of cron and each restart request is used at most  *)
(* once, and both in their order.                                          *)
(***************************************************************************)
EXTENDS Integers

CONSTANTS
  Holder,       \* Who may be active: services and maintenance.
  Nobody,       \* Nobody is active.
  Occurrences,  \* When cron is due.
  Request      \* The ids of restart requests.

VARIABLES
  active,  \* Who runs the application, or maintains the volume.
  tried,   \* How often each occurrence was used.
  served   \* How often each request was used.

vars == <<active, tried, served>>

Init ==
  /\ active = Nobody
  /\ tried = [o \in Occurrences |-> 0]
  /\ served = [i \in Request |-> 0]

\* An occurrence makes a service try to run.  It may find another one active.
Try(o) ==
  /\ \A q \in Occurrences : q >= o => tried[q] = 0
  /\ tried' = [tried EXCEPT ![o] = 1]
  /\ UNCHANGED <<active, served>>

\* A run, or maintenance, begins, for all requests of batch at once.
Begin(h, batch) ==
  /\ active = Nobody
  /\ active' = h
  /\ \A i \in batch, j \in Request : j >= i => served[j] = 0
  /\ served' = [i \in Request |-> IF i \in batch THEN 1 ELSE served[i]]
  /\ UNCHANGED tried

\* It ends, or is cut off by a crash.
End ==
  /\ active # Nobody
  /\ active' = Nobody
  /\ UNCHANGED <<tried, served>>

Next ==
  \/ \E o \in Occurrences : Try(o)
  \/ \E h \in Holder, batch \in SUBSET Request : Begin(h, batch)
  \/ End

Spec == Init /\ [][Next]_vars

=============================================================================
