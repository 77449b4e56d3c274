-------------------------- MODULE SubscriptionState --------------------------
(***************************************************************************)
(* The two durable documents of FileSubscriptionState                      *)
(* (src/texttube/adapters/state.py) and what one method call makes of      *)
(* them: the cutoff of the last completed subscription window and the      *)
(* failed native-caption attempts of every pending video.                  *)
(*                                                                         *)
(* The pending document is a JSON object from video id to attempt count.   *)
(* A count is at least one and below the attempt limit when the document   *)
(* validates, so an absent id is represented by the count zero.            *)
(***************************************************************************)
EXTENDS Integers

CONSTANTS
  Video,        \* Video ids.
  MaxAttempts,  \* MAX_NATIVE_CAPTION_ATTEMPTS.
  Day           \* The default window length, timedelta(days=1), in ticks.

ASSUME MaxAttemptsAssumption == MaxAttempts \in Nat \ {0}
ASSUME DayAssumption == Day \in Nat \ {0}

\* A cutoff file that is missing or blank.
NoCutoff == -1

\* What _read_pending_state accepts: every stored count below the limit.
Documents == [Video -> 0 .. MaxAttempts - 1]

NoFailures == [v \in Video |-> 0]

\* pending_caption_failures: the ids that are still to be retried.
PendingVideos(doc) == {v \in Video : doc[v] > 0}

\* Mutant of AttemptNumber: an absent id counts as one failure.
AttemptNumberFromOne(doc, v) == (IF doc[v] = 0 THEN 1 ELSE doc[v]) + 1

\* The attempt number record_caption_failure returns.
AttemptNumber(doc, v) == doc[v] + 1

\* Mutants of RecordFailure: the entry outlives the last attempt; it is popped
\* one attempt before the last.
RecordFailureKept(doc, v) == [doc EXCEPT ![v] = AttemptNumber(doc, v)]

RecordFailurePoppedEarly(doc, v) ==
  [doc EXCEPT ![v] = IF AttemptNumber(doc, v) >= MaxAttempts - 1
                       THEN 0
                       ELSE AttemptNumber(doc, v)]

\* The document record_caption_failure writes: the entry is popped by the
\* attempt that reaches the limit, before the caller uses the description.
RecordFailure(doc, v) ==
  [doc EXCEPT ![v] = IF AttemptNumber(doc, v) >= MaxAttempts
                       THEN 0
                       ELSE AttemptNumber(doc, v)]

\* Mutants of CompleteRetry: the file is not rewritten; it is cleared.
CompleteRetryForgotten(doc, v) == doc

CompleteRetryClears(doc, v) == NoFailures

\* The document complete_caption_retry leaves behind.
CompleteRetry(doc, v) == [doc EXCEPT ![v] = 0]

\* subscription_window: the completed cutoff, or one day before the run.
WindowStart(cutoff, windowEnd) ==
  IF cutoff = NoCutoff THEN windowEnd - Day ELSE cutoff

=============================================================================
