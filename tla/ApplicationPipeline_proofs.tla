---------------------- MODULE ApplicationPipeline_proofs ----------------------
(***************************************************************************)
(* What holds of ApplicationPipeline for every value of its constants: of  *)
(* runs in any order, and of runs that do not overlap, with and without a  *)
(* limit, what their retry document keeps: a run changes its own entry     *)
(* only, the description is used after the last failure, and a second      *)
(* message has an explanation.                                             *)
(***************************************************************************)
EXTENDS ApplicationPipeline, TLAPS

USE MaxAttemptsAssumption

------------------------------------------------------------------------------
\* The documents and records the actions build.

\* Every document the state adapter writes is one that it accepts.
LEMMA DocumentsClosed ==
  ASSUME NEW doc \in Documents, NEW v \in Video
  PROVE  /\ RecordFailure(doc, v) \in Documents
         /\ CompleteRetry(doc, v) \in Documents
         /\ NoFailures \in Documents
         /\ PendingVideos(doc) \subseteq Video
  BY DEF Documents, RecordFailure, AttemptNumber, CompleteRetry, NoFailures,
         PendingVideos

LEMMA IdleRunType ==
  IdleRun \in Runs /\ IdleRun.pc = "idle" /\ IdleRun.video \notin Video
  BY NoVideoAssumption DEF IdleRun, Runs, RunFields, AttemptSteps, Steps, NoFailures, Documents

\* A run that resumes after an attempt returns to its loop, or has reached
\* its limit, with everything but the attempt as it was.
LEMMA ResumeEffect ==
  ASSUME NEW r \in Runs, NEW delivered \in BOOLEAN
  PROVE  LET s == Resume(r, delivered) IN
         /\ s \in Runs
         /\ s.video \notin Video
         /\ r.mode = "single" => s = IdleRun
         /\ r.mode # "single" =>
              /\ s.mode = r.mode /\ s.limit = r.limit
              /\ s.start = r.start /\ s.end = r.end
              /\ s.queue = r.queue /\ s.attempted = r.attempted
              /\ s.channels = r.channels /\ s.seen = r.seen
              /\ s.tried = r.tried
              /\ s.sent = IF delivered THEN r.sent + 1 ELSE r.sent
              /\ \/ s.pc = "retry" /\ s.mode = "retry"
                 \/ s.pc = "discover" /\ s.mode = "discover"
                 \/ s.pc = "finish" /\ Full(s)
<1> DEFINE n == IF delivered THEN r.sent + 1 ELSE r.sent
           q == [r EXCEPT !.sent = n, !.video = NoVideo,
                          !.delivered = FALSE, !.doc = NoFailures]
<1>1. NoFailures \in Documents
  BY DEF NoFailures, Documents
<1>2. n \in Nat
  BY r.sent \in Nat DEF Runs, RunFields
<1>3. Resume(r, delivered) =
        CASE r.mode = "single"   -> IdleRun
          [] r.mode = "retry"    -> [q EXCEPT !.pc = "retry"]
          [] r.mode = "discover" ->
               IF delivered /\ Full(q)
                 THEN [q EXCEPT !.pc = "finish", !.stopped = TRUE]
                 ELSE [q EXCEPT !.pc = "discover"]
  BY DEF Resume
<1> HIDE DEF n
<1>4. /\ q \in RunFields /\ q.sent = n /\ q.video = NoVideo
      /\ q.mode = r.mode /\ q.limit = r.limit
      /\ q.start = r.start /\ q.end = r.end
      /\ q.queue = r.queue /\ q.attempted = r.attempted
      /\ q.channels = r.channels /\ q.seen = r.seen /\ q.tried = r.tried
  BY <1>1, <1>2 DEF Runs, RunFields
<1> HIDE DEF q
<1>5. q.video \notin Video
  BY <1>4, NoVideoAssumption
<1>6. CASE r.mode = "single"
  BY <1>3, <1>6, IdleRunType
<1>7. CASE r.mode = "retry"
  <2> DEFINE s == [q EXCEPT !.pc = "retry"]
  <2>1. Resume(r, delivered) = s
    BY <1>3, <1>7
  <2>2. s \in Runs /\ s.video \notin Video
    BY <1>4, <1>5 DEF Runs, RunFields, Steps, AttemptSteps
  <2> QED
    BY <1>4, <1>7, <2>1, <2>2 DEF RunFields, n
<1>8. CASE r.mode = "discover" /\ delivered /\ Full(q)
  <2> DEFINE s == [q EXCEPT !.pc = "finish", !.stopped = TRUE]
  <2>1. Resume(r, delivered) = s
    BY <1>3, <1>8
  <2>2. s \in Runs /\ s.video \notin Video
    BY <1>4, <1>5 DEF Runs, RunFields, Steps, AttemptSteps
  <2>3. Full(s)
    BY <1>4, <1>8 DEF RunFields, Full
  <2> QED
    BY <1>4, <1>8, <2>1, <2>2, <2>3 DEF RunFields, n
<1>9. CASE r.mode = "discover" /\ ~ (delivered /\ Full(q))
  <2> DEFINE s == [q EXCEPT !.pc = "discover"]
  <2>1. Resume(r, delivered) = s
    BY <1>3, <1>9
  <2>2. s \in Runs /\ s.video \notin Video
    BY <1>4, <1>5 DEF Runs, RunFields, Steps, AttemptSteps
  <2> QED
    BY <1>4, <1>9, <2>1, <2>2 DEF RunFields, n
<1>10. r.mode \in {"single", "retry", "discover"}
  BY DEF Runs, RunFields
<1> QED
  BY <1>6, <1>7, <1>8, <1>9, <1>10

\* The effect of Become on the runs.
LEMMA BecomeRun ==
  ASSUME run \in [Proc -> Runs], NEW p \in Proc, NEW r \in Runs, Become(p, r)
  PROVE  /\ run' \in [Proc -> Runs]
         /\ run'[p] = r
         /\ \A q \in Proc \ {p} : run'[q] = run[q]
  BY DEF Become

\* The bookkeeping of messages, failures and fates is typed.
LEMMA OutcomesType ==
  ASSUME TypeOK, NEW v \in Video
  PROVE  /\ \A result \in SendResults :
              Send(v, result) => messages' \in [Video -> 0 .. 2]
         /\ Settle(v) => fate' \in [Video -> Fates]
         /\ \A S, event : event \in Fates /\ Explain(S, event)
                           => fate' \in [Video -> Fates]
  BY DEF TypeOK, Send, Settle, Explain, Fates

------------------------------------------------------------------------------
\* Type correctness.

\* A step that only moves a run forward keeps the types.
LEMMA MoveType ==
  ASSUME TypeOK, NEW p \in Proc, NEW r \in Runs, Become(p, r),
         UNCHANGED <<world, disk, outcomes, windows>>,
         repeated' \subseteq Video
  PROVE  TypeOK'
<1>1. run' \in [Proc -> Runs]
  BY BecomeRun DEF TypeOK
<1> QED
  BY <1>1 DEF TypeOK, world, disk, outcomes, windows

LEMMA AbortType ==
  ASSUME TypeOK, NEW p \in Proc, Abort(p)
  PROVE  TypeOK'
<1>1. run' \in [Proc -> Runs]
  BY IdleRunType, BecomeRun DEF Abort, TypeOK
<1>2. fate' \in [Video -> Fates]
  BY DEF Abort, Explain, TypeOK, Fates
<1>3. run[p].attempted \subseteq Video
  BY DEF TypeOK, Runs, RunFields
<1> QED
  BY <1>1, <1>2, <1>3 DEF Abort, TypeOK, world, disk, windows

LEMMA InitType == Init => TypeOK
<1> SUFFICES ASSUME Init PROVE TypeOK
  OBVIOUS
<1>1. run \in [Proc -> Runs] /\ pending \in Documents
  BY IdleRunType DEF Init, NoFailures, Documents
<1> QED
  BY <1>1, TimeAssumption DEF Init, TypeOK, NoCutoff, Fates

LEMMA NextType ==
  ASSUME TypeOK, [Next]_vars
  PROVE  TypeOK'
<1>1. CASE Tick
  BY <1>1 DEF TypeOK, Tick, disk, outcomes, windows
<1>2. ASSUME NEW v \in Video, Withdraw(v)
      PROVE  TypeOK'
  BY <1>2 DEF TypeOK, Withdraw, disk, outcomes, windows
<1>3. ASSUME NEW p \in Proc, NEW limit \in Limits, StartSubscriptions(p, limit)
      PROVE  TypeOK'
  <2> DEFINE r == [IdleRun EXCEPT !.pc = "read_pending", !.mode = "retry",
                               !.limit = limit, !.end = now,
                               !.start = WindowStart(cutoff, now)]
  <2>1. WindowStart(cutoff, now) \in Int /\ now \in Int
    BY DayAssumption DEF TypeOK, WindowStart
  <2>2. r \in Runs
    BY <2>1, IdleRunType, LimitAssumption DEF Runs, RunFields, AttemptSteps, Steps
  <2> QED
    BY <1>3, <2>2, MoveType DEF StartSubscriptions, TypeOK
<1>4. ASSUME NEW p \in Proc, NEW v \in Video, StartSingle(p, v)
      PROVE  TypeOK'
  <2>1. [IdleRun EXCEPT !.pc = "process", !.video = v] \in Runs
    BY IdleRunType DEF Runs, RunFields, AttemptSteps, Steps
  <2> QED
    BY <1>4, <2>1, MoveType DEF StartSingle, TypeOK
<1>5. ASSUME NEW p \in Proc, NEW c \in Channel, ChannelUnavailable(p, c)
      PROVE  TypeOK'
  <2>1. [run[p] EXCEPT !.channels = @ \ {c}] \in Runs
    BY <1>5 DEF ChannelUnavailable, TypeOK, Runs, RunFields, AttemptSteps
  <2>2. run' \in [Proc -> Runs]
    BY <1>5, <2>1, BecomeRun DEF ChannelUnavailable, TypeOK
  <2>3. fate' \in [Video -> Fates]
    BY <1>5 DEF ChannelUnavailable, Explain, TypeOK, Fates
  <2> QED
    BY <1>5, <2>2, <2>3 DEF ChannelUnavailable, TypeOK, world, disk, windows
<1>6. ASSUME NEW p \in Proc, RunStep(p)
      PROVE  TypeOK'
  <2> DEFINE r == run[p]
  <2>1. r \in Runs /\ pending \in Documents
    BY DEF TypeOK
  <2>2. CASE ReadPending(p)
    <3>1. PendingVideos(pending) \subseteq Video
      BY DEF PendingVideos
    <3>2. [r EXCEPT !.pc = "retry", !.queue = PendingVideos(pending)] \in Runs
      BY <2>1, <2>2, <3>1
         DEF ReadPending, Runs, RunFields, AttemptSteps, Steps
    <3> QED
      BY <2>2, <3>2, MoveType DEF ReadPending, TypeOK
  <2>3. CASE RetryStops(p)
    <3>1. [r EXCEPT !.pc = "finish", !.queue = {}, !.stopped = TRUE] \in Runs
      BY <2>1, <2>3 DEF RetryStops, Runs, RunFields, AttemptSteps, Steps
    <3> QED
      BY <2>3, <3>1, MoveType DEF RetryStops, TypeOK
  <2>4. CASE RetryEnds(p)
    <3>1. [r EXCEPT !.pc = "discover", !.mode = "discover", !.channels = Channel] \in Runs
      BY <2>1, <2>4 DEF RetryEnds, Runs, RunFields, AttemptSteps, Steps
    <3> QED
      BY <2>4, <3>1, MoveType DEF RetryEnds, TypeOK
  <2>5. CASE DiscoverStops(p)
    <3>1. [r EXCEPT !.pc = "finish", !.stopped = TRUE] \in Runs
      BY <2>1, <2>5 DEF DiscoverStops, Runs, RunFields, AttemptSteps, Steps
    <3> QED
      BY <2>5, <3>1, MoveType DEF DiscoverStops, TypeOK
  <2>6. CASE DiscoveryEnds(p)
    <3>1. [r EXCEPT !.pc = "finish"] \in Runs
      BY <2>1, <2>6 DEF DiscoveryEnds, Runs, RunFields, AttemptSteps, Steps
    <3> QED
      BY <2>6, <3>1, MoveType DEF DiscoveryEnds, TypeOK
  <2>7. CASE SettleRead(p)
    <3>1. [r EXCEPT !.pc = "settle_write", !.doc = pending] \in Runs
      BY <2>1, <2>7 DEF SettleRead, Runs, RunFields, AttemptSteps, Steps
    <3> QED
      BY <2>7, <3>1, MoveType DEF SettleRead, TypeOK
  <2>8. CASE RecordRead(p)
    <3>1. [r EXCEPT !.pc = "record_write", !.doc = pending] \in Runs
      BY <2>1, <2>8 DEF RecordRead, Runs, RunFields, AttemptSteps, Steps
    <3> QED
      BY <2>8, <3>1, MoveType DEF RecordRead, TypeOK
  <2>9. CASE Finish(p)
    <3>1. [r EXCEPT !.pc = "complete"] \in Runs
      BY <2>1, <2>9 DEF Finish, Runs, RunFields, AttemptSteps, Steps
    <3> QED
      BY <2>9, <3>1, MoveType DEF Finish, TypeOK
  <2>10. CASE RetryNext(p)
    <3>1. ASSUME NEW v \in Video
          PROVE  [r EXCEPT !.pc = "process", !.video = v, !.queue = @ \ {v},
                                 !.attempted = @ \cup {v}] \in Runs
      BY <2>1, <2>10 DEF RetryNext, Runs, RunFields, AttemptSteps, Steps
    <3>2. \A v : v \in r.queue \ withdrawn => v \in Video
      BY <2>1 DEF Runs, RunFields, AttemptSteps, Unseen
    <3> QED
      BY <2>10, <3>1, <3>2, MoveType DEF RetryNext, TypeOK
  <2>11. CASE DiscoverNext(p)
    <3>1. ASSUME NEW v \in Video
          PROVE  [r EXCEPT !.pc = "process", !.video = v, !.seen = @ \cup {v},
                                 !.attempted = @ \cup {v}] \in Runs
      BY <2>1, <2>11 DEF DiscoverNext, Runs, RunFields, AttemptSteps, Steps
    <3>2. \A v : v \in Unseen(r) \ r.attempted => v \in Video
      BY <2>1 DEF Runs, RunFields, AttemptSteps, Unseen
    <3> QED
      BY <2>11, <3>1, <3>2, MoveType DEF DiscoverNext, TypeOK
  <2>12. CASE SkipAttempted(p)
    <3>1. ASSUME NEW v \in Video
          PROVE  [r EXCEPT !.seen = @ \cup {v}] \in Runs
      BY <2>1, <2>12 DEF SkipAttempted, Runs, RunFields, AttemptSteps, Steps
    <3>2. \A v : v \in Unseen(r) \cap r.attempted => v \in Video
      BY <2>1 DEF Runs, RunFields, AttemptSteps, Unseen
    <3> QED
      BY <2>12, <3>1, <3>2, MoveType DEF SkipAttempted, TypeOK
  <2>13. CASE SkipShort(p)
    <3>1. Attempt(r, "settle_read") \in Runs
      BY <2>1, <2>13
         DEF SkipShort, Runs, RunFields, AttemptSteps, Steps, Attempt
    <3> QED
      BY <2>13, <3>1, MoveType DEF SkipShort, TypeOK
  <2>14. CASE CaptionsUnavailable(p)
    <3>1. Attempt(r, "record_read") \in Runs
      BY <2>1, <2>14
         DEF CaptionsUnavailable, Runs, RunFields, AttemptSteps, Steps, Attempt
    <3>2. failures' \in [Video -> 0 .. MaxAttempts]
      <4>1. failures \in [Video -> 0 .. MaxAttempts]
        BY DEF TypeOK
      <4>2. failures' = [failures EXCEPT ![r.video] =
                           IF @ < MaxAttempts THEN @ + 1 ELSE @]
        BY <2>14 DEF CaptionsUnavailable
      <4>3. \A n \in 0 .. MaxAttempts :
              (IF n < MaxAttempts THEN n + 1 ELSE n) \in 0 .. MaxAttempts
        OBVIOUS
      <4> QED
        BY <4>1, <4>2, <4>3
    <3>3. run' \in [Proc -> Runs]
      BY <2>14, <3>1, BecomeRun DEF CaptionsUnavailable, TypeOK
    <3> QED
      BY <2>14, <3>2, <3>3 DEF CaptionsUnavailable, TypeOK, world, disk, windows
  <2>15. CASE Summarize(p)
    <3>1. Attempt(r, "deliver") \in Runs
      BY <2>1, <2>15
         DEF Summarize, Runs, RunFields, AttemptSteps, Steps, Attempt
    <3> QED
      BY <2>15, <3>1, MoveType DEF Summarize, TypeOK
  <2>16. CASE Deliver(p)
    <3>1. \A b \in BOOLEAN :
            [r EXCEPT !.pc = "settle_read", !.delivered = b] \in Runs
      BY <2>1, <2>16 DEF Deliver, Runs, RunFields, AttemptSteps, Steps
    <3>2. messages' \in [Video -> 0 .. 2] /\ run' \in [Proc -> Runs]
      BY <2>1, <2>16, <3>1, BecomeRun, OutcomesType
         DEF Deliver, TypeOK, Runs, AttemptSteps
    <3> QED
      BY <2>16, <3>2 DEF Deliver, TypeOK, world, disk, windows
  <2>17. CASE SettleWrite(p)
    <3>1. r.video \in Video /\ r.doc \in Documents /\ r.delivered \in BOOLEAN
      BY <2>1, <2>17 DEF SettleWrite, Runs, RunFields, AttemptSteps
    <3>2. pending' \in Documents
      BY <2>1, <2>17, <3>1, DocumentsClosed DEF SettleWrite
    <3>3. run' \in [Proc -> Runs]
      BY <2>1, <2>17, <3>1, ResumeEffect, BecomeRun DEF SettleWrite, TypeOK
    <3>4. fate' \in [Video -> Fates]
      BY <2>17, <3>1, OutcomesType DEF SettleWrite
    <3> QED
      BY <2>17, <3>2, <3>3, <3>4 DEF SettleWrite, TypeOK, world, windows
  <2>18. CASE RecordWrite(p)
    <3>1. r.video \in Video /\ r.doc \in Documents
      BY <2>1, <2>18 DEF RecordWrite, Runs, RunFields, AttemptSteps
    <3>2. pending' \in Documents
      BY <2>18, <3>1, DocumentsClosed DEF RecordWrite
    <3>3. [r EXCEPT !.pc = "fallback", !.doc = NoFailures] \in Runs
      BY <2>1, <3>1, DocumentsClosed DEF Runs, RunFields, AttemptSteps, Steps
    <3>4. run' \in [Proc -> Runs]
      BY <2>1, <2>18, <3>3, ResumeEffect, BecomeRun DEF RecordWrite, TypeOK
    <3> QED
      BY <2>18, <3>2, <3>4 DEF RecordWrite, TypeOK, world, outcomes, windows
  <2>19. CASE Fallback(p)
    <3>1. r.video \in Video
      BY <2>1, <2>19 DEF Fallback, Runs, AttemptSteps
    <3>2. messages' \in [Video -> 0 .. 2] /\ fate' \in [Video -> Fates]
      BY <2>19, <3>1, OutcomesType DEF Fallback
    <3>3. run' \in [Proc -> Runs]
      BY <2>1, <2>19, ResumeEffect, BecomeRun DEF Fallback, TypeOK
    <3> QED
      BY <2>19, <3>2, <3>3 DEF Fallback, TypeOK, world, disk, windows
  <2>20. CASE TruncateCutoff(p)
    <3>1. [r EXCEPT !.pc = "write_cutoff"] \in Runs
      BY <2>1, <2>20 DEF TruncateCutoff, Runs, RunFields, AttemptSteps, Steps
    <3>2. run' \in [Proc -> Runs]
      BY <2>20, <3>1, BecomeRun DEF TruncateCutoff, TypeOK
    <3> QED
      BY <2>20, <3>2
         DEF TruncateCutoff, TypeOK, NoCutoff, world, outcomes, windows
  <2>21. CASE WriteCutoff(p)
    <3>1. r.start \in Int /\ r.end \in Int
      BY <2>1 DEF Runs, RunFields
    <3>2. run' \in [Proc -> Runs]
      BY <2>21, IdleRunType, BecomeRun DEF WriteCutoff, TypeOK
    <3> QED
      BY <2>21, <3>1, <3>2 DEF WriteCutoff, TypeOK, world, outcomes
  <2>22. CASE RetryUnavailable(p)
    BY <2>22, AbortType DEF RetryUnavailable
  <2> QED
    BY <1>6, <2>2, <2>3, <2>4, <2>5, <2>6, <2>7, <2>8, <2>9, <2>10, <2>11,
       <2>12, <2>13, <2>14, <2>15, <2>16, <2>17, <2>18, <2>19, <2>20, <2>21,
       <2>22 DEF RunStep
<1>7. ASSUME NEW p \in Proc, RunEndsEarly(p)
      PROVE  TypeOK'
  BY <1>7, AbortType
     DEF RunEndsEarly, NoticeFails, RunFails, Interrupt, TearCutoff
<1>8. CASE UNCHANGED vars
  BY <1>8 DEF TypeOK, vars, world, disk, outcomes, windows
<1> QED
  BY <1>1, <1>2, <1>3, <1>4, <1>5, <1>6, <1>7, <1>8 DEF Next

\* Every variable has its type in every reachable state, for any catalogue of
\* videos, any number of processes, any limits and any failures.
THEOREM TypeCorrect == Spec => []TypeOK
<1>1. Init => TypeOK
  BY InitType
<1>2. TypeOK /\ [Next]_vars => TypeOK'
  BY NextType
<1> QED
  BY <1>1, <1>2, PTL DEF Spec

------------------------------------------------------------------------------
\* One attempt per run, within the limit.

LEMMA IdleOrder == AttemptOrder(IdleRun)
  BY NoVideoAssumption DEF AttemptOrder, IdleRun

\* An attempt that started below the limit ends at most at the limit.
LEMMA ResumeOrder ==
  ASSUME NEW r \in Runs, NEW delivered \in BOOLEAN,
         AttemptOrder(r), r.video \in Video
  PROVE  AttemptOrder(Resume(r, delivered))
<1>1. CASE r.mode = "single"
  BY <1>1, ResumeEffect, IdleOrder
<1>2. CASE r.mode # "single"
  <2> DEFINE s == Resume(r, delivered)
  <2>1. /\ r.sent \in Nat /\ r.limit \in Nat
        /\ r.limit > 0 => r.sent + 1 <= r.limit
    <3>1. r.sent \in Nat /\ r.limit \in Nat
      BY DEF Runs, RunFields
    <3>2. ~ (r.limit > 0 /\ r.sent >= r.limit)
      BY DEF AttemptOrder, Full
    <3> QED
      BY <3>1, <3>2
  <2>2. s.limit > 0 => s.sent <= s.limit
    BY <1>2, <2>1, ResumeEffect
  <2> QED
    BY <1>2, <2>2, ResumeEffect DEF AttemptOrder
<1> QED
  BY <1>1, <1>2

LEMMA OrderStep ==
  ASSUME AttemptInv, NEW p \in Proc, NEW r, Become(p, r), AttemptOrder(r)
  PROVE  (\A q \in Proc : AttemptOrder(run[q]))'
  BY DEF AttemptInv, TypeOK, Become

LEMMA AttemptNext ==
  ASSUME AttemptInv, [Next]_vars
  PROVE  AttemptInv'
<1>1. TypeOK'
  BY NextType DEF AttemptInv
<1> SUFFICES (\A q \in Proc : AttemptOrder(run[q]))'
  BY <1>1 DEF AttemptInv
<1>2. CASE Tick \/ (\E v \in Video : Withdraw(v)) \/ UNCHANGED vars
  BY <1>2 DEF Tick, Withdraw, vars, AttemptInv
<1>3. ASSUME NEW p \in Proc, NEW limit \in Limits, StartSubscriptions(p, limit)
      PROVE  (\A q \in Proc : AttemptOrder(run[q]))'
  <2> DEFINE r == [IdleRun EXCEPT !.pc = "read_pending", !.mode = "retry",
                               !.limit = limit, !.end = now,
                               !.start = WindowStart(cutoff, now)]
  <2>1. AttemptOrder(r)
    BY LimitAssumption, NoVideoAssumption DEF AttemptOrder, IdleRun
  <2> QED
    BY <1>3, <2>1, OrderStep DEF StartSubscriptions
<1>4. ASSUME NEW p \in Proc, NEW v \in Video, StartSingle(p, v)
      PROVE  (\A q \in Proc : AttemptOrder(run[q]))'
  <2>1. AttemptOrder([IdleRun EXCEPT !.pc = "process", !.video = v])
    BY DEF AttemptOrder, IdleRun, Full
  <2> QED
    BY <1>4, <2>1, OrderStep DEF StartSingle
<1>5. ASSUME NEW p \in Proc,
             Abort(p) \/ RunEndsEarly(p) \/ RetryUnavailable(p) \/ WriteCutoff(p)
      PROVE  (\A q \in Proc : AttemptOrder(run[q]))'
  <2>1. Become(p, IdleRun)
    BY <1>5 DEF RunEndsEarly, NoticeFails, RunFails, Interrupt, TearCutoff,
                RetryUnavailable, WriteCutoff, Abort
  <2> QED
    BY <2>1, IdleOrder, OrderStep
<1>6. ASSUME NEW p \in Proc,
             \/ \E c \in Channel : ChannelUnavailable(p, c)
             \/ RunStep(p) /\ ~ RetryUnavailable(p) /\ ~ WriteCutoff(p)
      PROVE  (\A q \in Proc : AttemptOrder(run[q]))'
  <2> DEFINE r == run[p]
  <2>1. r \in Runs /\ AttemptOrder(r)
    BY DEF AttemptInv, TypeOK
  <2>2. CASE ReadPending(p)
    <3>1. AttemptOrder([r EXCEPT !.pc = "retry", !.queue = PendingVideos(pending)])
      BY <2>1, <2>2 DEF ReadPending, AttemptOrder, Full, Attempt, Runs, RunFields,
                       AttemptSteps
    <3> QED
      BY <2>2, <3>1, OrderStep DEF ReadPending
  <2>3. CASE RetryNext(p)
    <3>1. ASSUME NEW v \in r.queue \ withdrawn
          PROVE  AttemptOrder([r EXCEPT !.pc = "process", !.video = v,
                                       !.queue = @ \ {v},
                                       !.attempted = @ \cup {v}])
      BY <2>1, <2>3 DEF RetryNext, AttemptOrder, Full, Unseen, Runs, RunFields,
                       AttemptSteps
    <3> QED
      BY <2>3, <3>1, OrderStep DEF RetryNext
  <2>4. CASE RetryStops(p)
    <3>1. AttemptOrder([r EXCEPT !.pc = "finish", !.queue = {}, !.stopped = TRUE])
      BY <2>1, <2>4 DEF RetryStops, AttemptOrder, Full, Attempt, Runs, RunFields,
                       AttemptSteps
    <3> QED
      BY <2>4, <3>1, OrderStep DEF RetryStops
  <2>5. CASE RetryEnds(p)
    <3>1. AttemptOrder([r EXCEPT !.pc = "discover", !.mode = "discover",
                               !.channels = Channel])
      BY <2>1, <2>5 DEF RetryEnds, AttemptOrder, Full, Attempt, Runs, RunFields,
                       AttemptSteps
    <3> QED
      BY <2>5, <3>1, OrderStep DEF RetryEnds
  <2>6. CASE DiscoverNext(p)
    <3>1. ASSUME NEW v \in Unseen(r) \ r.attempted
          PROVE  AttemptOrder([r EXCEPT !.pc = "process", !.video = v,
                                       !.seen = @ \cup {v},
                                       !.attempted = @ \cup {v}])
      BY <2>1, <2>6 DEF DiscoverNext, AttemptOrder, Full, Unseen, Runs, RunFields,
                       AttemptSteps
    <3> QED
      BY <2>6, <3>1, OrderStep DEF DiscoverNext
  <2>7. CASE SkipAttempted(p)
    <3>1. ASSUME NEW v \in Unseen(r) \cap r.attempted
          PROVE  AttemptOrder([r EXCEPT !.seen = @ \cup {v}])
      BY <2>1, <2>7 DEF SkipAttempted, AttemptOrder, Full, Unseen, Runs, RunFields,
                       AttemptSteps
    <3> QED
      BY <2>7, <3>1, OrderStep DEF SkipAttempted
  <2>8. CASE DiscoverStops(p)
    <3>1. AttemptOrder([r EXCEPT !.pc = "finish", !.stopped = TRUE])
      BY <2>1, <2>8 DEF DiscoverStops, AttemptOrder, Full, Attempt, Runs, RunFields,
                       AttemptSteps
    <3> QED
      BY <2>8, <3>1, OrderStep DEF DiscoverStops
  <2>9. CASE DiscoveryEnds(p)
    <3>1. AttemptOrder([r EXCEPT !.pc = "finish"])
      BY <2>1, <2>9 DEF DiscoveryEnds, AttemptOrder, Full, Attempt, Runs, RunFields,
                       AttemptSteps
    <3> QED
      BY <2>9, <3>1, OrderStep DEF DiscoveryEnds
  <2>10. CASE SkipShort(p)
    <3>1. AttemptOrder(Attempt(r, "settle_read"))
      BY <2>1, <2>10 DEF SkipShort, AttemptOrder, Full, Attempt, Runs, RunFields,
                       AttemptSteps
    <3> QED
      BY <2>10, <3>1, OrderStep DEF SkipShort
  <2>11. CASE CaptionsUnavailable(p)
    <3>1. AttemptOrder(Attempt(r, "record_read"))
      BY <2>1, <2>11 DEF CaptionsUnavailable, AttemptOrder, Full, Attempt, Runs, RunFields,
                       AttemptSteps
    <3> QED
      BY <2>11, <3>1, OrderStep DEF CaptionsUnavailable
  <2>12. CASE Summarize(p)
    <3>1. AttemptOrder(Attempt(r, "deliver"))
      BY <2>1, <2>12 DEF Summarize, AttemptOrder, Full, Attempt, Runs, RunFields,
                       AttemptSteps
    <3> QED
      BY <2>12, <3>1, OrderStep DEF Summarize
  <2>13. CASE SettleRead(p)
    <3>1. AttemptOrder([r EXCEPT !.pc = "settle_write", !.doc = pending])
      BY <2>1, <2>13 DEF SettleRead, AttemptOrder, Full, Attempt, Runs, RunFields,
                       AttemptSteps
    <3> QED
      BY <2>13, <3>1, OrderStep DEF SettleRead
  <2>14. CASE RecordRead(p)
    <3>1. AttemptOrder([r EXCEPT !.pc = "record_write", !.doc = pending])
      BY <2>1, <2>14 DEF RecordRead, AttemptOrder, Full, Attempt, Runs, RunFields,
                       AttemptSteps
    <3> QED
      BY <2>14, <3>1, OrderStep DEF RecordRead
  <2>15. CASE Finish(p)
    <3>1. AttemptOrder([r EXCEPT !.pc = "complete"])
      BY <2>1, <2>15 DEF Finish, AttemptOrder, Full, Attempt, Runs, RunFields,
                       AttemptSteps
    <3> QED
      BY <2>15, <3>1, OrderStep DEF Finish
  <2>16. CASE TruncateCutoff(p)
    <3>1. AttemptOrder([r EXCEPT !.pc = "write_cutoff"])
      BY <2>1, <2>16 DEF TruncateCutoff, AttemptOrder, Full, Attempt, Runs, RunFields,
                       AttemptSteps
    <3> QED
      BY <2>16, <3>1, OrderStep DEF TruncateCutoff
  <2>17. CASE Deliver(p)
    <3>1. ASSUME NEW b \in BOOLEAN
          PROVE  AttemptOrder([r EXCEPT !.pc = "settle_read", !.delivered = b])
      BY <2>1, <2>17 DEF Deliver, AttemptOrder, Full, Runs, RunFields, AttemptSteps
    <3> QED
      BY <2>17, <3>1, OrderStep DEF Deliver
  <2>18. CASE SettleWrite(p)
    <3>1. r.video \in Video /\ r.delivered \in BOOLEAN
      BY <2>1, <2>18 DEF SettleWrite, Runs, RunFields, AttemptSteps
    <3> QED
      BY <2>1, <2>18, <3>1, ResumeOrder, OrderStep DEF SettleWrite
  <2>19. CASE RecordWrite(p)
    <3>1. r.video \in Video
      BY <2>1, <2>19 DEF RecordWrite, Runs, AttemptSteps
    <3>2. AttemptOrder([r EXCEPT !.pc = "fallback", !.doc = NoFailures])
      BY <2>1, <2>19 DEF RecordWrite, AttemptOrder, Full, Runs, RunFields
    <3> QED
      BY <2>1, <2>19, <3>1, <3>2, ResumeOrder, OrderStep DEF RecordWrite
  <2>20. CASE Fallback(p)
    <3>1. r.video \in Video
      BY <2>1, <2>20 DEF Fallback, Runs, AttemptSteps
    <3> QED
      BY <2>1, <2>20, <3>1, ResumeOrder, OrderStep DEF Fallback
  <2>21. ASSUME NEW c \in Channel, ChannelUnavailable(p, c)
        PROVE  (\A q \in Proc : AttemptOrder(run[q]))'
    <3>1. AttemptOrder([r EXCEPT !.channels = @ \ {c}])
      BY <2>1 DEF AttemptOrder, Full, Runs, RunFields
    <3> QED
      BY <2>21, <3>1, OrderStep DEF ChannelUnavailable
  <2> QED
    BY <1>6, <2>2, <2>3, <2>4, <2>5, <2>6, <2>7, <2>8, <2>9, <2>10, <2>11, <2>12, <2>13, <2>14, <2>15, <2>16, <2>17, <2>18, <2>19, <2>20, <2>21
       DEF RunStep
<1> QED
  BY <1>2, <1>3, <1>4, <1>5, <1>6 DEF Next

LEMMA AttemptInvariant == Spec => []AttemptInv
<1>1. Init => AttemptInv
  BY InitType, IdleOrder DEF Init, AttemptInv
<1>2. AttemptInv /\ [Next]_vars => AttemptInv'
  BY AttemptNext
<1> QED
  BY <1>1, <1>2, PTL DEF Spec

\* No run attempts a video twice, whether it comes from the retry document,
\* from the current window or from both, and whatever else is running.
THEOREM OneAttempt == Spec => []OneAttemptPerRun
<1>1. AttemptInv => OneAttemptPerRun
  BY DEF AttemptInv, AttemptOrder, OneAttemptPerRun
<1> QED
  BY <1>1, AttemptInvariant, PTL

\* No run counts more messages than its limit.
THEOREM Limit == Spec => []LimitRespected
<1>1. AttemptInv => LimitRespected
  BY DEF AttemptInv, AttemptOrder, LimitRespected
<1> QED
  BY <1>1, AttemptInvariant, PTL

------------------------------------------------------------------------------
\* Runs that do not overlap.

\* No other run is active: the other processes have no run.
Alone(p) == \A q \in Proc \ {p} : run[q].pc = "idle"

\* While runs do not overlap, a process that begins a run is alone, and so is
\* one that continues it.
LEMMA StartsAlone ==
  ASSUME SingleRun', TypeOK, NEW p \in Proc,
         \/ \E limit \in Limits : StartSubscriptions(p, limit)
         \/ \E v \in Video : StartSingle(p, v)
  PROVE  Alone(p)
<1>1. ASSUME NEW r, Become(p, r), r.pc # "idle"
      PROVE  Alone(p)
  <2>1. run'[p] = r /\ \A q \in Proc \ {p} : run'[q] = run[q]
    BY <1>1 DEF Become, TypeOK
  <2> QED
    BY <1>1, <2>1 DEF Alone, SingleRun
<1> QED
  BY <1>1 DEF StartSubscriptions, StartSingle, IdleRun

LEMMA StepsAlone ==
  ASSUME SingleRun, NEW p \in Proc,
         \/ RunStep(p) \/ RunEndsEarly(p)
         \/ \E c \in Channel : ChannelUnavailable(p, c)
  PROVE  Alone(p)
<1>1. run[p].pc # "idle"
  BY DEF RunStep, RunEndsEarly, ChannelUnavailable, ReadPending, RetryNext,
         RetryStops, RetryEnds, RetryUnavailable, DiscoverNext, SkipAttempted,
         DiscoverStops, DiscoveryEnds, SkipShort, CaptionsUnavailable, Summarize,
         Deliver, SettleRead, SettleWrite, RecordRead, RecordWrite, Fallback,
         Finish, TruncateCutoff, WriteCutoff, NoticeFails, RunFails, Interrupt,
         TearCutoff
<1> QED
  BY <1>1 DEF Alone, SingleRun

------------------------------------------------------------------------------
\* The retry document of runs that do not overlap, with and without a limit.

\* The document a run holds is the one on disk, and the failures it has seen
\* are those of the document and the one it is recording.
Book(r) ==
  /\ r.pc \in {"settle_write", "record_write"} => r.doc = pending
  /\ r.pc \in {"record_read", "record_write"} => pending[r.video] < failures[r.video]
  /\ r.pc = "fallback" => failures[r.video] >= MaxAttempts

BookInv ==
  /\ AttemptInv
  /\ \A p \in Proc : Book(run[p])
  /\ \A v \in Video : pending[v] <= failures[v]

\* The next message about v is its first, or has an explanation.
Unsent(v) == messages[v] = 0 \/ v \in repeated

\* A video that has its message is out of the reach of the next windows and of
\* the retry document, or the run remembers it.
Sent(r, v) ==
  \/ pending[v] = 0 /\ (publishedAt[v] < covered \/ v \in r.attempted)
  \/ r.pc \in {"settle_read", "settle_write"} /\ v = r.video

\* In a run that overlaps no other: what it attempts has no message yet.
Sole(r) ==
  /\ r.pc = "idle" => r.mode = "single"
  /\ r.mode = "single" =>
       /\ r.pc \in {"idle"} \cup AttemptSteps
       /\ r.attempted = {} /\ r.queue = {}
       /\ r.video \in Video => r.video \in repeated
  /\ r.mode # "single" =>
       /\ covered = NoCutoff \/ r.start = covered
       /\ covered < r.end
  /\ \A v \in r.queue : pending[v] > 0
  /\ \A v \in r.attempted : v \in repeated \/ publishedAt[v] < r.end
  /\ r.pc \in {"process", "deliver", "record_read", "record_write", "fallback"}
       => Unsent(r.video)
  /\ r.pc = "fallback" => pending[r.video] = 0
  /\ \A v \in Video : Unsent(v) \/ Sent(r, v)
  /\ \A v \in Video :
       pending[v] > 0 => v \in repeated \/ publishedAt[v] < covered \/ v \in r.attempted

SoleInv ==
  /\ BookInv
  /\ CutoffPreserved
  /\ DuplicatesExplained
  /\ \A p \in Proc : Alone(p) => Sole(run[p])

------------------------------------------------------------------------------
\* What a step has to establish.

LEMMA SoleTypes ==
  ASSUME SoleInv
  PROVE  /\ AttemptInv /\ TypeOK /\ BookInv
         /\ pending \in Documents /\ \A v \in Video : pending[v] \in Nat
         /\ \A v \in Video : publishedAt[v] \in Nat
         /\ \A v \in Video : messages[v] \in 0 .. 2
         /\ covered \in Int
<1>1. AttemptInv /\ TypeOK /\ BookInv
  BY DEF SoleInv, BookInv, AttemptInv
<1>2. pending \in Documents /\ covered \in Int
  BY <1>1 DEF TypeOK
<1>3. \A v \in Video : pending[v] \in 0 .. MaxAttempts - 1
  BY <1>2 DEF Documents
<1>4. \A v \in Video : publishedAt[v] \in PublishTimes /\ messages[v] \in 0 .. 2
  BY <1>1 DEF TypeOK
<1>5. \A v \in Video : publishedAt[v] \in Nat
  BY <1>4, TimeAssumption
<1> QED
  BY <1>1, <1>2, <1>3, <1>4, <1>5

\* The state of the only run.
LEMMA SoleFacts ==
  ASSUME SoleInv, NEW p \in Proc, Alone(p), NEW r, r = run[p]
  PROVE  r \in Runs /\ Book(r) /\ Sole(r) /\ AttemptOrder(r)
  BY DEF SoleInv, BookInv, AttemptInv, TypeOK

\* When the run that is alone comes to its end, every process is alone and has
\* the same state.
LEMMA SoleStep ==
  ASSUME SoleInv, AttemptInv', NEW p \in Proc, Alone(p), NEW s, Become(p, s),
         Book(s)', Sole(s)',
         (\A v \in Video : pending[v] <= failures[v])',
         CutoffPreserved', DuplicatesExplained'
  PROVE  SoleInv'
<1>1. run'[p] = s /\ \A q \in Proc \ {p} : run'[q] = run[q]
  BY SoleTypes DEF Become, TypeOK
<1>2. \A q \in Proc \ {p} : run'[q] = IdleRun
  BY <1>1, SoleTypes DEF Alone, TypeOK, Runs
<1>3. (\A q \in Proc : Book(run[q]))'
  BY <1>1, <1>2, IdleRunType DEF Book
<1>4. ASSUME NEW q \in Proc, Alone(q)'
      PROVE  Sole(run[q])'
  <2>1. CASE q = p
    BY <1>1, <2>1
  <2>2. CASE q # p
    <3>1. run'[p].pc = "idle" /\ run' \in [Proc -> Runs]
      BY <1>4, <2>2 DEF Alone, AttemptInv, TypeOK
    <3>2. run'[p] = IdleRun
      BY <3>1 DEF Runs
    <3>3. run'[q] = s
      BY <1>1, <1>2, <2>2, <3>2
    <3> QED
      BY <3>3
  <2> QED
    BY <2>1, <2>2
<1> QED
  BY <1>3, <1>4 DEF SoleInv, BookInv

\* A run that does not write the cutoff file leaves it preserved.
LEMMA CutoffUntouched ==
  ASSUME SoleInv, NEW p \in Proc, Alone(p), run[p].pc # "write_cutoff",
         UNCHANGED <<cutoff, covered>>
  PROVE  CutoffPreserved'
<1>1. \A q \in Proc : run[q].pc # "write_cutoff"
  BY DEF Alone
<1>2. cutoff = covered
  BY <1>1 DEF SoleInv, CutoffPreserved
<1> QED
  BY <1>2 DEF CutoffPreserved

Unmoved == UNCHANGED <<publishedAt, pending, messages, failures, repeated, covered>>

LEMMA UnmovedFacts ==
  ASSUME SoleInv, Unmoved
  PROVE  /\ (\A v \in Video : pending[v] <= failures[v])'
         /\ DuplicatesExplained'
  BY DEF Unmoved, SoleInv, BookInv, DuplicatesExplained

\* A step that moves the run on and keeps its window, its video and the videos
\* it has attempted.
LEMMA SameStep ==
  ASSUME SoleInv, AttemptInv', Unmoved, CutoffPreserved',
         NEW p \in Proc, Alone(p), NEW r, NEW s, r = run[p], Become(p, s),
         /\ s.mode = r.mode \/ (r.mode = "retry" /\ s.mode = "discover")
         /\ s.start = r.start /\ s.end = r.end
         /\ s.attempted = r.attempted /\ s.video = r.video,
         \A v \in s.queue : v \in r.queue \/ pending[v] > 0,
         r.pc # "idle" /\ s.pc \notin {"idle", "record_read", "fallback"},
         s.pc \in {"settle_write", "record_write"} => s.doc = pending,
         s.pc = "record_write" => r.pc = "record_read",
         r.pc \in {"settle_read", "settle_write"}
           => s.pc \in {"settle_read", "settle_write"},
         s.pc \in {"process", "deliver"} => r.pc \in {"process", "deliver"},
         s.mode = "single" => s.pc \in AttemptSteps /\ s.queue = {}
  PROVE  SoleInv'
<1>1. r \in Runs /\ Book(r) /\ Sole(r) /\ AttemptOrder(r)
  BY SoleFacts
<1>2. Book(s)'
  BY <1>1 DEF Book, Unmoved
<1>3. Sole(s)'
  <2>1. \A v \in Video : Unsent(v)' <=> Unsent(v)
    BY DEF Unsent, Unmoved
  <2>2. \A v \in Video : Sent(r, v) => Sent(s, v)'
    BY DEF Sent, Unmoved
  <2>3. s.pc \in {"process", "deliver", "record_read", "record_write", "fallback"}
          => Unsent(s.video)'
    BY <1>1 DEF Sole, Unsent, Unmoved
  <2>4. s.mode # "single" =>
          /\ covered' = NoCutoff \/ s.start = covered'
          /\ covered' < s.end
    BY <1>1 DEF Sole, Unmoved
  <2>5. /\ \A v \in s.queue : pending'[v] > 0
        /\ \A v \in s.attempted : v \in repeated' \/ publishedAt'[v] < s.end
        /\ \A v \in Video :
             pending'[v] > 0 => v \in repeated' \/ publishedAt'[v] < covered'
                                \/ v \in s.attempted
    BY <1>1 DEF Sole, Unmoved
  <2>6. s.mode = "single" =>
          /\ s.attempted = {}
          /\ s.video \in Video => s.video \in repeated'
    BY <1>1 DEF Sole, Unmoved
  <2>7. \A v \in Video : Unsent(v)' \/ Sent(s, v)'
    BY <1>1, <2>1, <2>2 DEF Sole
  <2> QED
    BY <2>3, <2>4, <2>5, <2>6, <2>7 DEF Sole
<1> QED
  BY <1>2, <1>3, SoleStep, UnmovedFacts

\* A new attempt of a video that has no message yet.
LEMMA AttemptStep ==
  ASSUME SoleInv, AttemptInv', Unmoved, CutoffPreserved',
         NEW p \in Proc, Alone(p), NEW r, NEW s, r = run[p], Become(p, s),
         NEW v \in Video,
         /\ s.pc = "process" /\ s.video = v /\ s.mode = r.mode
         /\ s.start = r.start /\ s.end = r.end
         /\ s.attempted = r.attempted \cup {v} /\ s.queue \subseteq r.queue,
         r.pc \in {"retry", "discover"},
         Unsent(v), v \in repeated \/ publishedAt[v] < r.end
  PROVE  SoleInv'
<1>1. r \in Runs /\ Book(r) /\ Sole(r) /\ AttemptOrder(r)
  BY SoleFacts
<1>2. Book(s)'
  BY DEF Book
<1>3. s.mode # "single"
  BY <1>1 DEF Sole, AttemptSteps
<1>4. Sole(s)'
  <2>1. Unsent(s.video)'
    BY DEF Unsent, Unmoved
  <2>2. /\ covered' = NoCutoff \/ s.start = covered'
        /\ covered' < s.end
    BY <1>1, <1>3 DEF Sole, Unmoved
  <2>3. /\ \A w \in s.queue : pending'[w] > 0
        /\ \A w \in s.attempted : w \in repeated' \/ publishedAt'[w] < s.end
        /\ \A w \in Video :
             pending'[w] > 0 => w \in repeated' \/ publishedAt'[w] < covered'
                                \/ w \in s.attempted
    BY <1>1 DEF Sole, Unmoved
  <2>4. \A w \in Video : Unsent(w)' \/ Sent(s, w)'
    <3>1. \A w \in Video : Unsent(w) \/ Sent(r, w)
      BY <1>1 DEF Sole
    <3>2. \A w \in Video : Unsent(w)' <=> Unsent(w)
      BY DEF Unsent, Unmoved
    <3>3. \A w \in Video : Sent(r, w) => Sent(s, w)'
      BY DEF Sent, Unmoved
    <3> QED
      BY <3>1, <3>2, <3>3
  <2> QED
    BY <1>3, <2>1, <2>2, <2>3, <2>4 DEF Sole
<1> QED
  BY <1>2, <1>4, SoleStep, UnmovedFacts

------------------------------------------------------------------------------
\* The steps that only move the run.

LEMMA MovingSteps ==
  ASSUME SoleInv, AttemptInv', NEW p \in Proc, Alone(p),
         \/ ReadPending(p) \/ RetryStops(p) \/ DiscoverStops(p) \/ DiscoveryEnds(p)
         \/ SkipShort(p) \/ Summarize(p) \/ SettleRead(p) \/ RecordRead(p) \/ Finish(p)
         \/ SkipAttempted(p) \/ RetryEnds(p)
         \/ \E c \in Channel : ChannelUnavailable(p, c)
  PROVE  SoleInv'
<1>1. PICK r : r = run[p]
  OBVIOUS
<1>2. r \in Runs /\ Book(r) /\ Sole(r) /\ AttemptOrder(r)
  BY <1>1, SoleFacts
<1>3. CASE ReadPending(p)
  <2>1. PICK s : s = [r EXCEPT !.pc = "retry", !.queue = PendingVideos(pending)]
    OBVIOUS
  <2>2. /\ s.pc = "retry" /\ s.mode = r.mode /\ s.start = r.start /\ s.end = r.end
        /\ s.attempted = r.attempted /\ s.video = r.video
        /\ s.queue = PendingVideos(pending)
    BY <1>2, <2>1 DEF Runs, RunFields, Attempt
  <2>3. r.pc = "read_pending" /\ Become(p, s) /\ Unmoved /\ cutoff' = cutoff
    BY <1>1, <1>3, <2>1 DEF ReadPending, Unmoved, world, disk, outcomes, windows
  <2>4. CutoffPreserved'
    BY <1>1, <2>3, CutoffUntouched DEF Unmoved
  <2> QED
    BY <1>1, <1>2, <2>2, <2>3, <2>4, SameStep DEF Sole, AttemptSteps, PendingVideos
<1>4. CASE RetryStops(p)
  <2>1. PICK s : s = [r EXCEPT !.pc = "finish", !.queue = {}, !.stopped = TRUE]
    OBVIOUS
  <2>2. /\ s.pc = "finish" /\ s.mode = r.mode /\ s.start = r.start /\ s.end = r.end
        /\ s.attempted = r.attempted /\ s.video = r.video /\ s.queue = {}
    BY <1>2, <2>1 DEF Runs, RunFields, Attempt
  <2>3. r.pc = "retry" /\ Become(p, s) /\ Unmoved /\ cutoff' = cutoff
    BY <1>1, <1>4, <2>1 DEF RetryStops, Unmoved, world, disk, outcomes, windows
  <2>4. CutoffPreserved'
    BY <1>1, <2>3, CutoffUntouched DEF Unmoved
  <2> QED
    BY <1>1, <1>2, <2>2, <2>3, <2>4, SameStep DEF Sole, AttemptSteps, PendingVideos
<1>5. CASE DiscoverStops(p)
  <2>1. PICK s : s = [r EXCEPT !.pc = "finish", !.stopped = TRUE]
    OBVIOUS
  <2>2. /\ s.pc = "finish" /\ s.mode = r.mode /\ s.start = r.start /\ s.end = r.end
        /\ s.attempted = r.attempted /\ s.video = r.video /\ s.queue = r.queue
    BY <1>2, <2>1 DEF Runs, RunFields, Attempt
  <2>3. r.pc = "discover" /\ Become(p, s) /\ Unmoved /\ cutoff' = cutoff
    BY <1>1, <1>5, <2>1 DEF DiscoverStops, Unmoved, world, disk, outcomes, windows
  <2>4. CutoffPreserved'
    BY <1>1, <2>3, CutoffUntouched DEF Unmoved
  <2> QED
    BY <1>1, <1>2, <2>2, <2>3, <2>4, SameStep DEF Sole, AttemptSteps, PendingVideos
<1>6. CASE DiscoveryEnds(p)
  <2>1. PICK s : s = [r EXCEPT !.pc = "finish"]
    OBVIOUS
  <2>2. /\ s.pc = "finish" /\ s.mode = r.mode /\ s.start = r.start /\ s.end = r.end
        /\ s.attempted = r.attempted /\ s.video = r.video /\ s.queue = r.queue
    BY <1>2, <2>1 DEF Runs, RunFields, Attempt
  <2>3. r.pc = "discover" /\ Become(p, s) /\ Unmoved /\ cutoff' = cutoff
    BY <1>1, <1>6, <2>1 DEF DiscoveryEnds, Unmoved, world, disk, outcomes, windows
  <2>4. CutoffPreserved'
    BY <1>1, <2>3, CutoffUntouched DEF Unmoved
  <2> QED
    BY <1>1, <1>2, <2>2, <2>3, <2>4, SameStep DEF Sole, AttemptSteps, PendingVideos
<1>7. CASE SkipShort(p)
  <2>1. PICK s : s = Attempt(r, "settle_read")
    OBVIOUS
  <2>2. /\ s.pc = "settle_read" /\ s.mode = r.mode /\ s.start = r.start /\ s.end = r.end
        /\ s.attempted = r.attempted /\ s.video = r.video /\ s.queue = r.queue
    BY <1>2, <2>1 DEF Runs, RunFields, Attempt
  <2>3. r.pc = "process" /\ Become(p, s) /\ Unmoved /\ cutoff' = cutoff
    BY <1>1, <1>7, <2>1 DEF SkipShort, Unmoved, world, disk, outcomes, windows
  <2>4. CutoffPreserved'
    BY <1>1, <2>3, CutoffUntouched DEF Unmoved
  <2> QED
    BY <1>1, <1>2, <2>2, <2>3, <2>4, SameStep DEF Sole, AttemptSteps, PendingVideos
<1>8. CASE Summarize(p)
  <2>1. PICK s : s = Attempt(r, "deliver")
    OBVIOUS
  <2>2. /\ s.pc = "deliver" /\ s.mode = r.mode /\ s.start = r.start /\ s.end = r.end
        /\ s.attempted = r.attempted /\ s.video = r.video /\ s.queue = r.queue
    BY <1>2, <2>1 DEF Runs, RunFields, Attempt
  <2>3. r.pc = "process" /\ Become(p, s) /\ Unmoved /\ cutoff' = cutoff
    BY <1>1, <1>8, <2>1 DEF Summarize, Unmoved, world, disk, outcomes, windows
  <2>4. CutoffPreserved'
    BY <1>1, <2>3, CutoffUntouched DEF Unmoved
  <2> QED
    BY <1>1, <1>2, <2>2, <2>3, <2>4, SameStep DEF Sole, AttemptSteps, PendingVideos
<1>9. CASE SettleRead(p)
  <2>1. PICK s : s = [r EXCEPT !.pc = "settle_write", !.doc = pending]
    OBVIOUS
  <2>2. /\ s.pc = "settle_write" /\ s.mode = r.mode /\ s.start = r.start /\ s.end = r.end
        /\ s.attempted = r.attempted /\ s.video = r.video /\ s.queue = r.queue /\ s.doc = pending
    BY <1>2, <2>1 DEF Runs, RunFields, Attempt
  <2>3. r.pc = "settle_read" /\ Become(p, s) /\ Unmoved /\ cutoff' = cutoff
    BY <1>1, <1>9, <2>1 DEF SettleRead, Unmoved, world, disk, outcomes, windows
  <2>4. CutoffPreserved'
    BY <1>1, <2>3, CutoffUntouched DEF Unmoved
  <2> QED
    BY <1>1, <1>2, <2>2, <2>3, <2>4, SameStep DEF Sole, AttemptSteps, PendingVideos
<1>10. CASE RecordRead(p)
  <2>1. PICK s : s = [r EXCEPT !.pc = "record_write", !.doc = pending]
    OBVIOUS
  <2>2. /\ s.pc = "record_write" /\ s.mode = r.mode /\ s.start = r.start /\ s.end = r.end
        /\ s.attempted = r.attempted /\ s.video = r.video /\ s.queue = r.queue /\ s.doc = pending
    BY <1>2, <2>1 DEF Runs, RunFields, Attempt
  <2>3. r.pc = "record_read" /\ Become(p, s) /\ Unmoved /\ cutoff' = cutoff
    BY <1>1, <1>10, <2>1 DEF RecordRead, Unmoved, world, disk, outcomes, windows
  <2>4. CutoffPreserved'
    BY <1>1, <2>3, CutoffUntouched DEF Unmoved
  <2> QED
    BY <1>1, <1>2, <2>2, <2>3, <2>4, SameStep DEF Sole, AttemptSteps, PendingVideos
<1>11. CASE Finish(p)
  <2>1. PICK s : s = [r EXCEPT !.pc = "complete"]
    OBVIOUS
  <2>2. /\ s.pc = "complete" /\ s.mode = r.mode /\ s.start = r.start /\ s.end = r.end
        /\ s.attempted = r.attempted /\ s.video = r.video /\ s.queue = r.queue
    BY <1>2, <2>1 DEF Runs, RunFields, Attempt
  <2>3. r.pc = "finish" /\ Become(p, s) /\ Unmoved /\ cutoff' = cutoff
    BY <1>1, <1>11, <2>1 DEF Finish, Unmoved, world, disk, outcomes, windows
  <2>4. CutoffPreserved'
    BY <1>1, <2>3, CutoffUntouched DEF Unmoved
  <2> QED
    BY <1>1, <1>2, <2>2, <2>3, <2>4, SameStep DEF Sole, AttemptSteps, PendingVideos
<1>12. CASE SkipAttempted(p)
  <2>1. PICK v : Become(p, [r EXCEPT !.seen = @ \cup {v}])
    BY <1>1, <1>12 DEF SkipAttempted
  <2>2. PICK s : s = [r EXCEPT !.seen = @ \cup {v}]
    OBVIOUS
  <2>3. /\ s.pc = r.pc /\ s.mode = r.mode /\ s.start = r.start /\ s.end = r.end
        /\ s.attempted = r.attempted /\ s.video = r.video /\ s.queue = r.queue
    BY <1>2, <2>2 DEF Runs, RunFields
  <2>4. r.pc = "discover" /\ Become(p, s) /\ Unmoved /\ cutoff' = cutoff
    BY <1>1, <1>12, <2>1, <2>2 DEF SkipAttempted, Unmoved, world, disk, outcomes, windows
  <2>5. CutoffPreserved'
    BY <1>1, <2>4, CutoffUntouched DEF Unmoved
  <2> QED
    BY <1>1, <1>2, <2>3, <2>4, <2>5, SameStep DEF Sole, AttemptSteps
<1>13. CASE RetryEnds(p)
  <2>1. PICK s : s = [r EXCEPT !.pc = "discover", !.mode = "discover",
                               !.channels = Channel]
    OBVIOUS
  <2>2. /\ s.pc = "discover" /\ s.mode = "discover"
        /\ s.start = r.start /\ s.end = r.end
        /\ s.attempted = r.attempted /\ s.video = r.video /\ s.queue = r.queue
    BY <1>2, <2>1 DEF Runs, RunFields
  <2>3. r.pc = "retry" /\ Become(p, s) /\ Unmoved /\ cutoff' = cutoff
    BY <1>1, <1>13, <2>1 DEF RetryEnds, Unmoved, world, disk, outcomes, windows
  <2>4. CutoffPreserved'
    BY <1>1, <2>3, CutoffUntouched DEF Unmoved
  <2>5. r.mode = "retry"
    BY <1>2, <2>3 DEF AttemptOrder
  <2> QED
    BY <1>1, <1>2, <2>2, <2>3, <2>4, <2>5, SameStep
<1>14. ASSUME NEW c \in Channel, ChannelUnavailable(p, c)
       PROVE  SoleInv'
  <2>1. PICK s : s = [r EXCEPT !.channels = @ \ {c}]
    OBVIOUS
  <2>2. /\ s.pc = r.pc /\ s.mode = r.mode /\ s.start = r.start /\ s.end = r.end
        /\ s.attempted = r.attempted /\ s.video = r.video /\ s.queue = r.queue
    BY <1>2, <2>1 DEF Runs, RunFields
  <2>3. r.pc = "discover" /\ Become(p, s) /\ Unmoved /\ cutoff' = cutoff
    BY <1>1, <1>14, <2>1 DEF ChannelUnavailable, Unmoved, world, disk, windows
  <2>4. CutoffPreserved'
    BY <1>1, <2>3, CutoffUntouched DEF Unmoved
  <2> QED
    BY <1>1, <1>2, <2>2, <2>3, <2>4, SameStep DEF Sole, AttemptSteps
<1> QED
  BY <1>3, <1>4, <1>5, <1>6, <1>7, <1>8, <1>9, <1>10, <1>11, <1>12, <1>13, <1>14

\* A retried video is still pending, so it has no message; an upload of the
\* window that was not retried is newer than what has been covered.
LEMMA NextSteps ==
  ASSUME SoleInv, AttemptInv', NEW p \in Proc, Alone(p), RetryNext(p) \/ DiscoverNext(p)
  PROVE  SoleInv'
<1>1. PICK r : r = run[p]
  OBVIOUS
<1>2. r \in Runs /\ Book(r) /\ Sole(r) /\ AttemptOrder(r)
  BY <1>1, SoleFacts
<1>3. r.pc \in {"retry", "discover"} /\ Unmoved /\ cutoff' = cutoff
  BY <1>1 DEF RetryNext, DiscoverNext, Unmoved, world, disk, outcomes, windows
<1>4. CutoffPreserved'
  BY <1>1, <1>3, CutoffUntouched DEF Unmoved
<1>5. /\ r.mode # "single" /\ covered < r.end /\ covered \in Int /\ r.end \in Int
      /\ covered = NoCutoff \/ r.start = covered
      /\ \A v \in Video : publishedAt[v] \in Nat /\ pending[v] \in Nat
  <2>1. r.mode # "single" /\ r.end \in Int
    BY <1>2, <1>3 DEF Sole, AttemptSteps, Runs, RunFields
  <2> QED
    BY <1>2, <2>1, SoleTypes DEF Sole
<1>6. CASE RetryNext(p)
  <2>1. PICK v \in r.queue \ withdrawn :
          Become(p, [r EXCEPT !.pc = "process", !.video = v,
                              !.queue = @ \ {v}, !.attempted = @ \cup {v}])
    BY <1>1, <1>6 DEF RetryNext
  <2>2. PICK s : s = [r EXCEPT !.pc = "process", !.video = v,
                               !.queue = @ \ {v}, !.attempted = @ \cup {v}]
    OBVIOUS
  <2>3. /\ s.pc = "process" /\ s.video = v /\ s.mode = r.mode
        /\ s.start = r.start /\ s.end = r.end
        /\ s.attempted = r.attempted \cup {v} /\ s.queue \subseteq r.queue
    BY <1>2, <2>2 DEF Runs, RunFields
  <2>4. v \in Video /\ v \notin r.attempted /\ pending[v] > 0
    <3>1. v \in Video
      BY <1>2, <2>1 DEF Runs, RunFields
    <3>2. v \notin r.attempted /\ pending[v] > 0
      BY <1>2, <2>1 DEF AttemptOrder, Sole
    <3> QED
      BY <3>1, <3>2
  <2>5. Unsent(v)
    <3>1. pending[v] # 0
      BY <1>5, <2>4
    <3>2. Unsent(v) \/ Sent(r, v)
      BY <1>2, <2>4 DEF Sole
    <3> QED
      BY <1>3, <3>1, <3>2 DEF Sent
  <2>6. v \in repeated \/ publishedAt[v] < r.end
    <3>1. v \in repeated \/ publishedAt[v] < covered
      BY <1>2, <2>4 DEF Sole
    <3> QED
      BY <1>5, <2>4, <3>1
  <2> QED
    BY <1>1, <1>3, <1>4, <2>1, <2>2, <2>3, <2>4, <2>5, <2>6, AttemptStep
<1>7. CASE DiscoverNext(p)
  <2>1. PICK v \in Unseen(r) \ r.attempted :
          Become(p, [r EXCEPT !.pc = "process", !.video = v,
                              !.seen = @ \cup {v}, !.attempted = @ \cup {v}])
    BY <1>1, <1>7 DEF DiscoverNext
  <2>2. PICK s : s = [r EXCEPT !.pc = "process", !.video = v,
                               !.seen = @ \cup {v}, !.attempted = @ \cup {v}]
    OBVIOUS
  <2>3. /\ s.pc = "process" /\ s.video = v /\ s.mode = r.mode
        /\ s.start = r.start /\ s.end = r.end
        /\ s.attempted = r.attempted \cup {v} /\ s.queue \subseteq r.queue
    BY <1>2, <2>2 DEF Runs, RunFields
  <2>4. /\ v \in Video /\ v \notin r.attempted
        /\ publishedAt[v] >= r.start /\ publishedAt[v] < r.end
    BY <2>1 DEF Unseen, InWindow
  <2>5. ~ (publishedAt[v] < covered)
    <3>1. covered = -1 \/ r.start = covered
      BY <1>5 DEF NoCutoff
    <3>2. publishedAt[v] \in Nat /\ covered \in Int
      BY <1>5, <2>4
    <3> QED
      BY <2>4, <3>1, <3>2
  <2>6. Unsent(v)
    <3>1. Unsent(v) \/ Sent(r, v)
      BY <1>2, <2>4 DEF Sole
    <3> QED
      BY <1>3, <2>4, <2>5, <3>1 DEF Sent
  <2> QED
    BY <1>1, <1>3, <1>4, <2>1, <2>2, <2>3, <2>4, <2>6, AttemptStep
<1> QED
  BY <1>6, <1>7

------------------------------------------------------------------------------
\* The steps that change the documents, the history or the window.

\* A failure is counted before it is recorded.
LEMMA FailureStep ==
  ASSUME SoleInv, AttemptInv', NEW p \in Proc, Alone(p), CaptionsUnavailable(p)
  PROVE  SoleInv'
<1>1. PICK r : r = run[p]
  OBVIOUS
<1>2. r \in Runs /\ Book(r) /\ Sole(r) /\ AttemptOrder(r) /\ r.pc = "process"
  BY <1>1, SoleFacts DEF CaptionsUnavailable
<1>3. r.video \in Video
  BY <1>2 DEF Runs, AttemptSteps
<1>4. PICK s : s = Attempt(r, "record_read")
  OBVIOUS
<1>5. /\ s.pc = "record_read" /\ s.mode = r.mode /\ s.start = r.start /\ s.end = r.end
      /\ s.attempted = r.attempted /\ s.video = r.video /\ s.queue = r.queue
  BY <1>2, <1>4 DEF Runs, RunFields, Attempt
<1>6. /\ Become(p, s)
      /\ UNCHANGED <<publishedAt, cutoff, pending, messages, repeated, covered>>
      /\ failures' = [failures EXCEPT ![r.video] = IF @ < MaxAttempts THEN @ + 1 ELSE @]
  BY <1>1, <1>4 DEF CaptionsUnavailable, world, disk, windows
<1>7. \A v \in Video :
        /\ pending[v] \in 0 .. MaxAttempts - 1 /\ failures[v] \in 0 .. MaxAttempts
        /\ pending[v] <= failures[v]
  <2>1. /\ pending \in [Video -> 0 .. MaxAttempts - 1]
        /\ failures \in [Video -> 0 .. MaxAttempts]
    BY SoleTypes DEF Documents, TypeOK
  <2> QED
    BY <2>1 DEF SoleInv, BookInv
<1>8. failures \in [Video -> 0 .. MaxAttempts] /\ MaxAttempts \in Nat
  BY SoleTypes, MaxAttemptsAssumption DEF TypeOK
<1>9. pending'[r.video] < failures'[r.video]
  <2>1. failures'[r.video] = IF failures[r.video] < MaxAttempts
                               THEN failures[r.video] + 1 ELSE failures[r.video]
    BY <1>3, <1>6, <1>8
  <2> QED
    BY <1>3, <1>6, <1>7, <1>8, <2>1
<1>10. (\A v \in Video : pending[v] <= failures[v])'
  <2>1. \A v \in Video \ {r.video} : failures'[v] = failures[v]
    BY <1>6, <1>8
  <2>2. ASSUME NEW v \in Video, v # r.video
        PROVE  pending'[v] <= failures'[v]
    BY <1>6, <1>7, <2>1, <2>2
  <2>3. pending'[r.video] <= failures'[r.video]
    <3>1. pending'[r.video] \in Nat /\ failures'[r.video] \in Nat
      <4>1. failures' \in [Video -> 0 .. MaxAttempts]
        BY DEF AttemptInv, TypeOK
      <4> QED
        BY <1>3, <1>6, <1>7, <4>1
    <3> QED
      BY <1>9, <3>1
  <2> QED
    BY <2>2, <2>3
<1>11. Book(s)'
  BY <1>5, <1>9 DEF Book
<1>12. Sole(s)'
  <2>1. \A v \in Video : Sent(r, v) => Sent(s, v)'
    BY <1>2, <1>5, <1>6 DEF Sent
  <2>2. \A v : Unsent(v)' <=> Unsent(v)
    BY <1>6 DEF Unsent
  <2>3. \A v \in Video : Unsent(v)' \/ Sent(s, v)'
    BY <1>2, <2>1, <2>2 DEF Sole
  <2>4. Unsent(s.video)'
    BY <1>2, <1>5, <2>2 DEF Sole
  <2>5. s.mode = "single" =>
          /\ s.pc \in {"idle"} \cup AttemptSteps
          /\ s.attempted = {} /\ s.queue = {}
          /\ s.video \in Video => s.video \in repeated'
    BY <1>2, <1>5, <1>6 DEF Sole, AttemptSteps
  <2>6. s.mode # "single" =>
          /\ covered' = NoCutoff \/ s.start = covered'
          /\ covered' < s.end
    BY <1>2, <1>5, <1>6 DEF Sole
  <2>7. /\ \A v \in s.queue : pending'[v] > 0
        /\ \A v \in s.attempted : v \in repeated' \/ publishedAt'[v] < s.end
        /\ \A v \in Video :
             pending'[v] > 0 => v \in repeated' \/ publishedAt'[v] < covered'
                                \/ v \in s.attempted
    BY <1>2, <1>5, <1>6 DEF Sole
  <2> QED
    BY <1>5, <2>3, <2>4, <2>5, <2>6, <2>7 DEF Sole
<1>13. CutoffPreserved'
  BY <1>1, <1>2, <1>6, CutoffUntouched
<1>14. DuplicatesExplained'
  BY <1>6 DEF SoleInv, DuplicatesExplained
<1> QED
  BY <1>6, <1>10, <1>11, <1>12, <1>13, <1>14, SoleStep

\* A message that is sent is the first about its video, or has an explanation.
LEMMA SendEffect ==
  ASSUME SoleInv, NEW w \in Video, Unsent(w), NEW result, Send(w, result),
         repeated' = repeated
  PROVE  /\ \A v \in Video \ {w} : Unsent(v)' <=> Unsent(v)
         /\ DuplicatesExplained'
<1>1. messages \in [Video -> 0 .. 2]
  BY SoleTypes DEF TypeOK
<1>2. messages' = [messages EXCEPT ![w] =
                     IF Arrived(result) /\ @ < 2 THEN @ + 1 ELSE @]
  BY DEF Send
<1>3. \A v \in Video \ {w} : messages'[v] = messages[v]
  BY <1>1, <1>2
<1>4. messages[w] = 0 => messages'[w] \in {0, 1}
  BY <1>1, <1>2
<1>5. ASSUME NEW v \in Video, messages'[v] >= 2
      PROVE  v \in repeated
  <2>1. CASE v = w
    BY <1>4, <1>5, <2>1 DEF Unsent
  <2>2. CASE v # w
    BY <1>3, <1>5, <2>2 DEF SoleInv, DuplicatesExplained
  <2> QED
    BY <2>1, <2>2
<1> QED
  BY <1>3, <1>5 DEF Unsent, DuplicatesExplained

LEMMA DeliverStep ==
  ASSUME SoleInv, AttemptInv', NEW p \in Proc, Alone(p), Deliver(p)
  PROVE  SoleInv'
<1>1. PICK r : r = run[p]
  OBVIOUS
<1>2. r \in Runs /\ Book(r) /\ Sole(r) /\ AttemptOrder(r) /\ r.pc = "deliver"
  BY <1>1, SoleFacts DEF Deliver
<1>3. r.video \in Video /\ Unsent(r.video)
  BY <1>2 DEF Runs, AttemptSteps, Sole
<1>4. PICK result \in SendResults :
        /\ Send(r.video, result)
        /\ Become(p, [r EXCEPT !.pc = "settle_read", !.delivered = (result = "sent")])
  BY <1>1 DEF Deliver
<1>5. PICK s : s = [r EXCEPT !.pc = "settle_read", !.delivered = (result = "sent")]
  OBVIOUS
<1>6. /\ s.pc = "settle_read" /\ s.mode = r.mode /\ s.start = r.start /\ s.end = r.end
      /\ s.attempted = r.attempted /\ s.video = r.video /\ s.queue = r.queue
  BY <1>2, <1>5 DEF Runs, RunFields
<1>7. UNCHANGED <<publishedAt, cutoff, pending, failures, repeated, covered>>
  BY DEF Deliver, world, disk, windows
<1>8. /\ \A v \in Video \ {r.video} : Unsent(v)' <=> Unsent(v)
      /\ DuplicatesExplained'
  BY <1>3, <1>4, <1>7, SendEffect
<1>9. Book(s)'
  BY <1>6 DEF Book
<1>10. Sole(s)'
  <2>1. \A v \in Video : Sent(r, v) => Sent(s, v)'
    BY <1>2, <1>6, <1>7 DEF Sent
  <2>2. Sent(s, r.video)'
    BY <1>6 DEF Sent
  <2>3. \A v \in Video : Unsent(v)' \/ Sent(s, v)'
    BY <1>2, <1>8, <2>1, <2>2 DEF Sole
  <2>4. s.mode = "single" =>
          /\ s.pc \in {"idle"} \cup AttemptSteps
          /\ s.attempted = {} /\ s.queue = {}
          /\ s.video \in Video => s.video \in repeated'
    BY <1>2, <1>6, <1>7 DEF Sole, AttemptSteps
  <2>5. s.mode # "single" =>
          /\ covered' = NoCutoff \/ s.start = covered'
          /\ covered' < s.end
    BY <1>2, <1>6, <1>7 DEF Sole
  <2>6. /\ \A v \in s.queue : pending'[v] > 0
        /\ \A v \in s.attempted : v \in repeated' \/ publishedAt'[v] < s.end
        /\ \A v \in Video :
             pending'[v] > 0 => v \in repeated' \/ publishedAt'[v] < covered'
                                \/ v \in s.attempted
    BY <1>2, <1>6, <1>7 DEF Sole
  <2> QED
    BY <1>6, <2>3, <2>4, <2>5, <2>6 DEF Sole
<1>11. CutoffPreserved'
  BY <1>1, <1>2, <1>7, CutoffUntouched
<1>12. (\A v \in Video : pending[v] <= failures[v])'
  BY <1>7 DEF SoleInv, BookInv
<1> QED
  BY <1>4, <1>5, <1>8, <1>9, <1>10, <1>11, <1>12, SoleStep

------------------------------------------------------------------------------
\* The end of an attempt.

\* What the document says when the run resumes.
LEMMA ResumeSole ==
  ASSUME NEW r \in Runs, NEW delivered \in BOOLEAN, NEW s, s = Resume(r, delivered),
         Sole(r), AttemptOrder(r), r.video \in Video, r.pc \in AttemptSteps,
         UNCHANGED <<publishedAt, repeated, covered>>,
         \A v \in Video \ {r.video} :
           pending'[v] = pending[v] /\ (Unsent(v)' <=> Unsent(v)),
         Unsent(r.video)' \/ pending'[r.video] = 0
  PROVE  Sole(s)'
<1>1. r.mode # "single" => r.video \in r.attempted
  BY DEF AttemptOrder
<1>2. r.mode = "single" => r.video \in repeated /\ r.attempted = {}
  BY DEF Sole
<1>3. ASSUME NEW v \in Video
      PROVE  \/ Unsent(v)'
             \/ pending'[v] = 0 /\ (publishedAt'[v] < covered' \/ v \in r.attempted)
  <2>1. CASE v = r.video
    BY <1>1, <1>2, <2>1 DEF Unsent
  <2>2. CASE v # r.video
    BY <2>2 DEF Sole, Sent
  <2> QED
    BY <2>1, <2>2
<1>4. ASSUME NEW v \in Video, pending'[v] > 0
      PROVE  v \in repeated \/ publishedAt[v] < covered \/ v \in r.attempted
  <2>1. CASE v = r.video
    BY <1>1, <1>2, <2>1
  <2>2. CASE v # r.video
    BY <1>4, <2>2 DEF Sole
  <2> QED
    BY <2>1, <2>2
<1>5. CASE r.mode = "single"
  <2>1. s = IdleRun /\ r.attempted = {}
    BY <1>2, <1>5, ResumeEffect
  <2> QED
    BY <1>3, <1>4, <2>1, NoVideoAssumption DEF Sole, Sent, IdleRun
<1>6. CASE r.mode # "single"
  <2>1. /\ s.mode = r.mode /\ s.start = r.start /\ s.end = r.end
        /\ s.queue = r.queue /\ s.attempted = r.attempted
        /\ s.pc \in {"retry", "discover", "finish"}
    BY <1>6, ResumeEffect
  <2>2. \A v \in s.queue : v \in Video /\ v # r.video
    BY <1>1, <1>6, <2>1 DEF AttemptOrder, Runs, RunFields
  <2>3. \A v \in s.queue : pending'[v] > 0
    BY <2>1, <2>2 DEF Sole
  <2>4. /\ covered' = NoCutoff \/ s.start = covered'
        /\ covered' < s.end
        /\ \A v \in s.attempted : v \in repeated' \/ publishedAt'[v] < s.end
    BY <1>6, <2>1 DEF Sole
  <2>5. \A v \in Video : Unsent(v)' \/ Sent(s, v)'
    BY <1>3, <2>1 DEF Sent
  <2>6. \A v \in Video :
          pending'[v] > 0 => v \in repeated' \/ publishedAt'[v] < covered'
                             \/ v \in s.attempted
    BY <1>4, <2>1
  <2> QED
    BY <1>6, <2>1, <2>3, <2>4, <2>5, <2>6 DEF Sole
<1> QED
  BY <1>5, <1>6

LEMMA ResumePlace ==
  ASSUME NEW r \in Runs, NEW delivered \in BOOLEAN
  PROVE  Resume(r, delivered).pc \in {"idle", "retry", "discover", "finish"}
<1>1. CASE r.mode = "single"
  BY <1>1, ResumeEffect, IdleRunType
<1>2. CASE r.mode # "single"
  BY <1>2, ResumeEffect
<1> QED
  BY <1>1, <1>2

\* The entry of the video is removed, and no other.
LEMMA SoleSettle ==
  ASSUME SoleInv, AttemptInv', NEW p \in Proc, Alone(p), SettleWrite(p)
  PROVE  SoleInv'
<1>1. PICK r : r = run[p]
  OBVIOUS
<1>2. r \in Runs /\ Book(r) /\ Sole(r) /\ AttemptOrder(r) /\ r.pc = "settle_write"
  BY <1>1, SoleFacts DEF SettleWrite
<1>3. r.video \in Video /\ r.delivered \in BOOLEAN /\ r.doc = pending
  BY <1>2 DEF Runs, RunFields, AttemptSteps, Book
<1>4. PICK s : s = Resume(r, r.delivered)
  OBVIOUS
<1>5. /\ Become(p, s)
      /\ UNCHANGED <<publishedAt, cutoff, messages, failures, repeated, covered>>
      /\ pending' = IF r.video \in PendingVideos(pending)
                      THEN CompleteRetry(pending, r.video) ELSE pending
  BY <1>1, <1>3, <1>4 DEF SettleWrite, world, windows
<1>6. pending \in Documents /\ pending[r.video] \in 0 .. MaxAttempts - 1
  BY <1>3, SoleTypes DEF Documents
<1>7. \A v \in Video \ {r.video} : pending'[v] = pending[v]
  BY <1>5, <1>6 DEF CompleteRetry, Documents
<1>8. pending'[r.video] = 0
  <2>1. CASE r.video \in PendingVideos(pending)
    BY <1>3, <1>5, <1>6, <2>1 DEF CompleteRetry, Documents
  <2>2. CASE r.video \notin PendingVideos(pending)
    <3>1. ~ (pending[r.video] > 0)
      BY <1>3, <2>2 DEF PendingVideos
    <3> QED
      BY <1>5, <1>6, <2>2, <3>1
  <2> QED
    BY <2>1, <2>2
<1>9. \A v : Unsent(v)' <=> Unsent(v)
  BY <1>5 DEF Unsent
<1>10. Sole(s)'
  BY <1>2, <1>3, <1>4, <1>5, <1>7, <1>8, <1>9, ResumeSole DEF AttemptSteps
<1>11. Book(s)'
  BY <1>2, <1>3, <1>4, ResumePlace DEF Book
<1>12. (\A v \in Video : pending[v] <= failures[v])'
  <2>1. failures[r.video] \in Nat /\ \A v \in Video : pending[v] <= failures[v]
    <3>1. failures \in [Video -> 0 .. MaxAttempts] /\ MaxAttempts \in Nat
      BY SoleTypes, MaxAttemptsAssumption DEF TypeOK
    <3> QED
      BY <1>3, <3>1 DEF SoleInv, BookInv
  <2> QED
    BY <1>5, <1>7, <1>8, <2>1
<1>13. CutoffPreserved'
  BY <1>1, <1>2, <1>5, CutoffUntouched
<1>14. DuplicatesExplained'
  BY <1>5 DEF SoleInv, DuplicatesExplained
<1> QED
  BY <1>5, <1>10, <1>11, <1>12, <1>13, <1>14, SoleStep

\* The failure is recorded, or the entry is popped by the last one.
LEMMA SoleRecord ==
  ASSUME SoleInv, AttemptInv', NEW p \in Proc, Alone(p), RecordWrite(p)
  PROVE  SoleInv'
<1>1. PICK r : r = run[p]
  OBVIOUS
<1>2. r \in Runs /\ Book(r) /\ Sole(r) /\ AttemptOrder(r) /\ r.pc = "record_write"
  BY <1>1, SoleFacts DEF RecordWrite
<1>3. r.video \in Video /\ r.doc = pending /\ Unsent(r.video)
      /\ pending[r.video] < failures[r.video]
  BY <1>2 DEF Runs, RunFields, AttemptSteps, Book, Sole
<1>4. /\ Become(p, IF AttemptNumber(pending, r.video) < MaxAttempts
                     THEN Resume(r, FALSE)
                     ELSE [r EXCEPT !.pc = "fallback", !.doc = NoFailures])
      /\ UNCHANGED <<publishedAt, cutoff, messages, failures, repeated, covered>>
      /\ pending' = RecordFailure(pending, r.video)
  BY <1>1, <1>3 DEF RecordWrite, world, outcomes, windows
<1>5. /\ pending \in Documents /\ pending[r.video] \in 0 .. MaxAttempts - 1
      /\ failures[r.video] \in 0 .. MaxAttempts /\ MaxAttempts \in Nat \ {0}
  <2>1. failures \in [Video -> 0 .. MaxAttempts] /\ pending \in Documents
    BY SoleTypes DEF TypeOK
  <2> QED
    BY <1>3, <2>1, MaxAttemptsAssumption DEF Documents
<1>6. \A v \in Video \ {r.video} : pending'[v] = pending[v]
  BY <1>4, <1>5 DEF RecordFailure, Documents
<1>7. pending'[r.video] = IF AttemptNumber(pending, r.video) >= MaxAttempts
                            THEN 0 ELSE AttemptNumber(pending, r.video)
  BY <1>3, <1>4, <1>5 DEF RecordFailure, Documents
<1>8. \A v : Unsent(v)' <=> Unsent(v)
  BY <1>4 DEF Unsent
<1>9. (\A v \in Video : pending[v] <= failures[v])'
  <2>1. \A v \in Video : pending[v] <= failures[v]
    BY DEF SoleInv, BookInv
  <2>2. pending'[r.video] <= failures[r.video]
    BY <1>3, <1>5, <1>7 DEF AttemptNumber
  <2> QED
    BY <1>4, <1>6, <2>1, <2>2
<1>10. CutoffPreserved'
  BY <1>1, <1>2, <1>4, CutoffUntouched
<1>11. DuplicatesExplained'
  BY <1>4 DEF SoleInv, DuplicatesExplained
<1>12. CASE AttemptNumber(pending, r.video) < MaxAttempts
  <2>1. PICK s : s = Resume(r, FALSE)
    OBVIOUS
  <2>2. Become(p, s)
    BY <1>4, <1>12, <2>1
  <2>3. Sole(s)'
    BY <1>2, <1>3, <1>4, <1>6, <1>8, <2>1, ResumeSole DEF AttemptSteps
  <2>4. Book(s)'
    BY <1>2, <2>1, ResumePlace DEF Book
  <2> QED
    BY <1>9, <1>10, <1>11, <2>2, <2>3, <2>4, SoleStep
<1>13. CASE ~ (AttemptNumber(pending, r.video) < MaxAttempts)
  <2>1. PICK s : s = [r EXCEPT !.pc = "fallback", !.doc = NoFailures]
    OBVIOUS
  <2>2. Become(p, s)
    BY <1>4, <1>13, <2>1
  <2>3. /\ s.pc = "fallback" /\ s.mode = r.mode /\ s.start = r.start /\ s.end = r.end
        /\ s.attempted = r.attempted /\ s.video = r.video /\ s.queue = r.queue
    BY <1>2, <2>1 DEF Runs, RunFields
  <2>4. pending'[r.video] = 0 /\ failures[r.video] >= MaxAttempts
    BY <1>3, <1>5, <1>7, <1>13 DEF AttemptNumber
  <2>5. Book(s)'
    BY <1>4, <2>3, <2>4 DEF Book
  <2>6. Sole(s)'
    <3>1. \A v \in Video \ {r.video} : Sent(r, v) => Sent(s, v)'
      BY <1>2, <1>4, <1>6, <2>3 DEF Sent
    <3>2. \A v \in Video : Unsent(v)' \/ Sent(s, v)'
      BY <1>2, <1>3, <1>8, <3>1 DEF Sole
    <3>3. s.mode = "single" =>
            /\ s.pc \in {"idle"} \cup AttemptSteps
            /\ s.attempted = {} /\ s.queue = {}
            /\ s.video \in Video => s.video \in repeated'
      BY <1>2, <1>4, <2>3 DEF Sole, AttemptSteps
    <3>4. s.mode # "single" =>
            /\ covered' = NoCutoff \/ s.start = covered'
            /\ covered' < s.end
      BY <1>2, <1>4, <2>3 DEF Sole
    <3>5. \A v \in s.queue : v \in Video /\ v # r.video
      <4>1. s.queue = {} \/ r.video \in r.attempted
        BY <1>2, <1>3, <2>3 DEF Sole, AttemptOrder
      <4> QED
        BY <1>2, <2>3, <4>1 DEF AttemptOrder, Runs, RunFields
    <3>6. \A v \in s.queue : pending'[v] > 0
      BY <1>2, <1>6, <2>3, <3>5 DEF Sole
    <3>7. \A v \in s.attempted : v \in repeated' \/ publishedAt'[v] < s.end
      BY <1>2, <1>4, <2>3 DEF Sole
    <3>8. \A v \in Video :
             pending'[v] > 0 => v \in repeated' \/ publishedAt'[v] < covered'
                                \/ v \in s.attempted
      <4>1. ~ (pending'[r.video] > 0)
        BY <2>4
      <4> QED
        BY <1>2, <1>4, <1>6, <2>3, <4>1 DEF Sole
    <3> QED
      BY <1>3, <1>8, <2>3, <2>4, <3>2, <3>3, <3>4, <3>6, <3>7, <3>8 DEF Sole
  <2> QED
    BY <1>9, <1>10, <1>11, <2>2, <2>5, <2>6, SoleStep
<1> QED
  BY <1>12, <1>13

\* The description of a video that has left the document.
LEMMA SoleFallback ==
  ASSUME SoleInv, AttemptInv', NEW p \in Proc, Alone(p), Fallback(p)
  PROVE  SoleInv'
<1>1. PICK r : r = run[p]
  OBVIOUS
<1>2. r \in Runs /\ Book(r) /\ Sole(r) /\ AttemptOrder(r) /\ r.pc = "fallback"
  BY <1>1, SoleFacts DEF Fallback
<1>3. r.video \in Video /\ Unsent(r.video) /\ pending[r.video] = 0
  BY <1>2 DEF Runs, AttemptSteps, Sole
<1>4. PICK result \in SendResults :
        Send(r.video, result) /\ Become(p, Resume(r, result = "sent"))
  BY <1>1 DEF Fallback
<1>5. PICK delivered \in BOOLEAN : delivered = (result = "sent")
  OBVIOUS
<1>6. PICK s : s = Resume(r, delivered)
  OBVIOUS
<1>7. Become(p, s)
  BY <1>4, <1>5, <1>6
<1>8. UNCHANGED <<publishedAt, cutoff, pending, failures, repeated, covered>>
  BY DEF Fallback, world, disk, windows
<1>9. /\ \A v \in Video \ {r.video} : Unsent(v)' <=> Unsent(v)
      /\ DuplicatesExplained'
  BY <1>3, <1>4, <1>8, SendEffect
<1>10. Sole(s)'
  BY <1>2, <1>3, <1>6, <1>8, <1>9, ResumeSole DEF AttemptSteps
<1>11. Book(s)'
  BY <1>2, <1>6, ResumePlace DEF Book
<1>12. CutoffPreserved'
  BY <1>1, <1>2, <1>8, CutoffUntouched
<1>13. (\A v \in Video : pending[v] <= failures[v])'
  BY <1>8 DEF SoleInv, BookInv
<1> QED
  BY <1>7, <1>9, <1>10, <1>11, <1>12, <1>13, SoleStep

------------------------------------------------------------------------------
\* The start and the end of a run, and the environment.

\* An idle process knows nothing.
LEMMA IdleSole ==
  ASSUME SoleInv, NEW p \in Proc, Alone(p), run[p].pc = "idle"
  PROVE  /\ \A v \in Video : Unsent(v) \/ (pending[v] = 0 /\ publishedAt[v] < covered)
         /\ \A v \in Video : pending[v] > 0 => v \in repeated \/ publishedAt[v] < covered
<1>1. PICK r : r = run[p]
  OBVIOUS
<1>2. Sole(r) /\ r.pc = "idle" /\ r.attempted = {}
  BY <1>1, SoleFacts DEF Sole
<1> QED
  BY <1>2 DEF Sole, Sent

LEMMA SoleStart ==
  ASSUME SoleInv, AttemptInv', NEW p \in Proc, Alone(p),
         \/ \E limit \in Limits : StartSubscriptions(p, limit)
         \/ \E v \in Video : StartSingle(p, v)
  PROVE  SoleInv'
<1>1. /\ run[p].pc = "idle"
      /\ UNCHANGED <<publishedAt, cutoff, pending, messages, failures, covered>>
  BY DEF StartSubscriptions, StartSingle, world, disk, outcomes, windows
<1>2. CutoffPreserved'
  BY <1>1, CutoffUntouched
<1>3. (\A v \in Video : pending[v] <= failures[v])'
  BY <1>1 DEF SoleInv, BookInv
<1>4. cutoff = covered
  <2>1. \A q \in Proc : run[q].pc # "write_cutoff"
    BY <1>1 DEF Alone
  <2> QED
    BY <2>1 DEF SoleInv, CutoffPreserved
<1>5. CASE \E limit \in Limits : StartSubscriptions(p, limit)
  <2>1. PICK limit \in Limits : StartSubscriptions(p, limit)
    BY <1>5
  <2>2. PICK s : s = [IdleRun EXCEPT !.pc = "read_pending", !.mode = "retry",
                                     !.limit = limit, !.end = now,
                                     !.start = WindowStart(cutoff, now)]
    OBVIOUS
  <2>3. /\ s.pc = "read_pending" /\ s.mode = "retry" /\ s.end = now
        /\ s.start = WindowStart(cutoff, now) /\ s.queue = {} /\ s.attempted = {}
    BY <2>2 DEF IdleRun
  <2>4. Become(p, s) /\ repeated' = repeated /\ WindowStart(cutoff, now) < now
    BY <2>1, <2>2 DEF StartSubscriptions
  <2>5. now \in Nat
    BY SoleTypes DEF TypeOK
  <2>6. (covered = NoCutoff \/ s.start = covered) /\ covered < s.end
    BY <1>4, <2>3, <2>4, <2>5 DEF WindowStart, NoCutoff
  <2>7. Book(s)'
    BY <2>3 DEF Book
  <2>8. \A v \in Video : Unsent(v)' \/ Sent(s, v)'
    BY <1>1, <2>4, IdleSole DEF Unsent, Sent
  <2>9. Sole(s)'
    BY <1>1, <2>3, <2>4, <2>6, <2>8, IdleSole DEF Sole
  <2>10. DuplicatesExplained'
    BY <1>1, <2>4 DEF SoleInv, DuplicatesExplained
  <2> QED
    BY <1>2, <1>3, <2>4, <2>7, <2>9, <2>10, SoleStep
<1>6. CASE \E v \in Video : StartSingle(p, v)
  <2>1. PICK w \in Video : StartSingle(p, w)
    BY <1>6
  <2>2. PICK s : s = [IdleRun EXCEPT !.pc = "process", !.video = w]
    OBVIOUS
  <2>3. /\ s.pc = "process" /\ s.mode = "single" /\ s.video = w
        /\ s.queue = {} /\ s.attempted = {}
    BY <2>2 DEF IdleRun
  <2>4. Become(p, s) /\ repeated' = repeated \cup {w}
    BY <2>1, <2>2 DEF StartSingle
  <2>5. Book(s)'
    BY <2>3 DEF Book
  <2>6. \A v \in Video : Unsent(v)' \/ Sent(s, v)'
    BY <1>1, <2>4, IdleSole DEF Unsent, Sent
  <2>7. Unsent(w)'
    BY <2>4 DEF Unsent
  <2>8. Sole(s)'
    BY <1>1, <2>3, <2>4, <2>6, <2>7, IdleSole DEF Sole, AttemptSteps
  <2>9. DuplicatesExplained'
    BY <1>1, <2>4 DEF SoleInv, DuplicatesExplained
  <2> QED
    BY <1>2, <1>3, <2>4, <2>5, <2>8, <2>9, SoleStep
<1> QED
  BY <1>5, <1>6

\* A run that ends early explains a second message about what it attempted.
LEMMA SoleAbort ==
  ASSUME SoleInv, AttemptInv', NEW p \in Proc, Alone(p), Abort(p),
         run[p].pc # "write_cutoff"
  PROVE  SoleInv'
<1>1. PICK r : r = run[p]
  OBVIOUS
<1>2. r \in Runs /\ Book(r) /\ Sole(r) /\ AttemptOrder(r)
  BY <1>1, SoleFacts
<1>3. /\ UNCHANGED <<publishedAt, cutoff, pending, messages, failures, covered>>
      /\ repeated' = repeated \cup r.attempted /\ Become(p, IdleRun)
  BY <1>1 DEF Abort, world, disk, windows
<1>4. CutoffPreserved'
  BY <1>3, CutoffUntouched
<1>5. ASSUME NEW v \in Video
      PROVE  Unsent(v)' \/ Sent(IdleRun, v)'
  <2>1. CASE Unsent(v) \/ v \in r.attempted
    BY <1>3, <2>1 DEF Unsent
  <2>2. CASE ~ Unsent(v) /\ v \notin r.attempted
    <3>1. Sent(r, v)
      BY <1>2, <2>2 DEF Sole
    <3>2. v # r.video
      BY <1>2, <2>2 DEF Sole, AttemptOrder, Unsent
    <3> QED
      BY <1>3, <2>2, <3>1, <3>2 DEF Sent
  <2> QED
    BY <2>1, <2>2
<1>6. \A v \in Video : pending'[v] > 0 => v \in repeated' \/ publishedAt'[v] < covered'
  BY <1>2, <1>3 DEF Sole
<1>7. Sole(IdleRun)'
  BY <1>5, <1>6, NoVideoAssumption DEF Sole, IdleRun
<1>8. Book(IdleRun)'
  BY DEF Book, IdleRun
<1>9. /\ (\A v \in Video : pending[v] <= failures[v])'
      /\ DuplicatesExplained'
  BY <1>3 DEF SoleInv, BookInv, DuplicatesExplained
<1> QED
  BY <1>3, <1>4, <1>7, <1>8, <1>9, SoleStep

\* The cutoff file is emptied; the run remembers its window.
LEMMA SoleTruncate ==
  ASSUME SoleInv, AttemptInv', NEW p \in Proc, Alone(p), TruncateCutoff(p)
  PROVE  SoleInv'
<1>1. PICK r : r = run[p]
  OBVIOUS
<1>2. r \in Runs /\ Book(r) /\ Sole(r) /\ AttemptOrder(r) /\ r.pc = "complete"
  BY <1>1, SoleFacts DEF TruncateCutoff
<1>3. PICK s : s = [r EXCEPT !.pc = "write_cutoff"]
  OBVIOUS
<1>4. /\ s.pc = "write_cutoff" /\ s.mode = r.mode /\ s.start = r.start /\ s.end = r.end
      /\ s.attempted = r.attempted /\ s.video = r.video /\ s.queue = r.queue
  BY <1>2, <1>3 DEF Runs, RunFields
<1>5. Become(p, s) /\ Unmoved
  BY <1>1, <1>3 DEF TruncateCutoff, Unmoved, world, outcomes, windows
<1>6. run'[p] = s
  BY <1>5, SoleTypes DEF Become, TypeOK
<1>7. CutoffPreserved'
  BY <1>4, <1>6 DEF CutoffPreserved
<1>8. r.mode # "single"
  BY <1>2 DEF Sole, AttemptSteps
<1> QED
  BY <1>1, <1>2, <1>4, <1>5, <1>7, <1>8, SameStep

\* The window of the run is completed: what it attempted is behind the cutoff.
LEMMA SoleWrite ==
  ASSUME SoleInv, AttemptInv', NEW p \in Proc, Alone(p), WriteCutoff(p)
  PROVE  SoleInv'
<1>1. PICK r : r = run[p]
  OBVIOUS
<1>2. r \in Runs /\ Book(r) /\ Sole(r) /\ AttemptOrder(r) /\ r.pc = "write_cutoff"
  BY <1>1, SoleFacts DEF WriteCutoff
<1>3. /\ r.mode # "single" /\ covered < r.end /\ covered \in Int /\ r.end \in Int
      /\ \A v \in Video : publishedAt[v] \in Nat
  <2>1. r.mode # "single" /\ r.end \in Int
    BY <1>2 DEF Sole, AttemptSteps, Runs, RunFields
  <2> QED
    BY <1>2, <2>1, SoleTypes DEF Sole
<1>4. /\ Become(p, IdleRun) /\ cutoff' = r.end /\ covered' = r.end
      /\ UNCHANGED <<publishedAt, pending, messages, failures, repeated>>
  BY <1>1 DEF WriteCutoff, world, outcomes
<1>5. CutoffPreserved'
  BY <1>4 DEF CutoffPreserved
<1>6. ASSUME NEW v \in Video,
             v \in repeated \/ publishedAt[v] < covered \/ v \in r.attempted
      PROVE  v \in repeated \/ publishedAt[v] < r.end
  <2>1. CASE publishedAt[v] < covered
    BY <1>3, <2>1
  <2>2. CASE v \in r.attempted
    BY <1>2, <2>2 DEF Sole
  <2> QED
    BY <1>6, <2>1, <2>2
<1>7. ASSUME NEW v \in Video
      PROVE  Unsent(v)' \/ Sent(IdleRun, v)'
  <2>1. Unsent(v) \/ Sent(r, v)
    BY <1>2 DEF Sole
  <2>2. Sent(r, v) => pending[v] = 0 /\ (publishedAt[v] < covered \/ v \in r.attempted)
    BY <1>2 DEF Sent
  <2> QED
    BY <1>4, <1>6, <2>1, <2>2 DEF Unsent, Sent
<1>8. \A v \in Video : pending'[v] > 0 => v \in repeated' \/ publishedAt'[v] < covered'
  BY <1>2, <1>4, <1>6 DEF Sole
<1>9. Sole(IdleRun)'
  BY <1>7, <1>8, NoVideoAssumption DEF Sole, IdleRun
<1>10. Book(IdleRun)'
  BY DEF Book, IdleRun
<1>11. /\ (\A v \in Video : pending[v] <= failures[v])'
       /\ DuplicatesExplained'
  BY <1>4 DEF SoleInv, BookInv, DuplicatesExplained
<1> QED
  BY <1>4, <1>5, <1>9, <1>10, <1>11, SoleStep

LEMMA SoleEnvironment ==
  ASSUME SoleInv, AttemptInv', Tick \/ (\E v \in Video : Withdraw(v)) \/ UNCHANGED vars
  PROVE  SoleInv'
<1>1. /\ UNCHANGED <<publishedAt, cutoff, pending, run, messages, failures, covered>>
      /\ repeated' = repeated
  BY DEF Tick, Withdraw, vars, world, disk, outcomes, windows
<1>2. ASSUME NEW p \in Proc
      PROVE  Book(run[p])' /\ (Alone(p)' => Sole(run[p])')
  <2>0. Alone(p)' <=> Alone(p)
    BY <1>1 DEF Alone
  <2>1. PICK r : r = run[p]
    OBVIOUS
  <2>2. Book(r) /\ (Alone(p) => Sole(r)) /\ run'[p] = r
    BY <1>1, <2>1 DEF SoleInv, BookInv
  <2>3. Book(r)'
    BY <1>1, <2>2 DEF Book
  <2> SUFFICES ASSUME Alone(p)
               PROVE  Sole(r)'
    BY <2>0, <2>2, <2>3
  <2>4. \A v \in Video : Unsent(v)' \/ Sent(r, v)'
    BY <1>1, <2>2 DEF Sole, Unsent, Sent
  <2>5. r.pc \in {"process", "deliver", "record_read", "record_write", "fallback"}
          => Unsent(r.video)'
    BY <1>1, <2>2 DEF Sole, Unsent
  <2> QED
    BY <1>1, <2>2, <2>4, <2>5 DEF Sole
<1>3. CutoffPreserved' /\ DuplicatesExplained' /\ (\A v \in Video : pending[v] <= failures[v])'
  BY <1>1 DEF SoleInv, BookInv, CutoffPreserved, DuplicatesExplained
<1> QED
  BY <1>2, <1>3 DEF SoleInv, BookInv

------------------------------------------------------------------------------
\* The invariant and the theorems.

LEMMA SoleInit == Init => SoleInv
<1> SUFFICES ASSUME Init PROVE SoleInv
  OBVIOUS
<1>1. AttemptInv
  BY InitType, IdleOrder DEF Init, AttemptInv
<1>2. \A v \in Video : pending[v] = 0 /\ failures[v] = 0 /\ messages[v] = 0
  BY DEF Init, NoFailures
<1>3. \A p \in Proc : run[p] = IdleRun
  BY DEF Init
<1>4. Book(IdleRun)
  BY DEF Book, IdleRun
<1>5. Sole(IdleRun)
  <2>1. ASSUME NEW v \in Video
        PROVE  Unsent(v) /\ ~ (pending[v] > 0)
    <3>1. pending[v] = 0 /\ messages[v] = 0
      BY <1>2
    <3> QED
      BY <3>1 DEF Unsent
  <2> QED
    BY <2>1, NoVideoAssumption DEF Sole, IdleRun
<1>6. CutoffPreserved /\ DuplicatesExplained /\ \A v \in Video : pending[v] <= failures[v]
  <2>1. ASSUME NEW v \in Video
        PROVE  ~ (messages[v] >= 2)
    <3>1. messages[v] = 0
      BY <1>2
    <3> QED
      BY <3>1
  <2>2. cutoff = covered
    BY DEF Init
  <2>3. ASSUME NEW v \in Video
        PROVE  pending[v] <= failures[v]
    <3>1. pending[v] = 0 /\ failures[v] = 0
      BY <1>2
    <3> QED
      BY <3>1
  <2> QED
    BY <2>1, <2>2, <2>3 DEF CutoffPreserved, DuplicatesExplained
<1> QED
  BY <1>1, <1>3, <1>4, <1>5, <1>6 DEF SoleInv, BookInv

LEMMA SoleNext ==
  ASSUME SingleRun, SingleRun', "tear" \notin Events, SoleInv, [Next]_vars
  PROVE  SoleInv'
<1>1. AttemptInv'
  BY AttemptNext, SoleTypes
<1>2. CASE Tick \/ (\E v \in Video : Withdraw(v)) \/ UNCHANGED vars
  BY <1>1, <1>2, SoleEnvironment
<1>3. ASSUME NEW p \in Proc,
             \/ \E limit \in Limits : StartSubscriptions(p, limit)
             \/ \E v \in Video : StartSingle(p, v)
      PROVE  SoleInv'
  BY <1>1, <1>3, StartsAlone, SoleTypes, SoleStart
<1>4. ASSUME NEW p \in Proc, \E c \in Channel : ChannelUnavailable(p, c)
      PROVE  SoleInv'
  BY <1>1, <1>4, StepsAlone, MovingSteps
<1>5. ASSUME NEW p \in Proc, RunEndsEarly(p) \/ RetryUnavailable(p)
      PROVE  SoleInv'
  <2>1. Abort(p) /\ run[p].pc # "write_cutoff"
    BY <1>5 DEF RunEndsEarly, NoticeFails, RunFails, Interrupt, TearCutoff,
                RetryUnavailable
  <2>2. Alone(p)
    BY <1>5, StepsAlone DEF RunStep
  <2> QED
    BY <1>1, <2>1, <2>2, SoleAbort
<1>6. ASSUME NEW p \in Proc, RunStep(p)
      PROVE  SoleInv'
  BY <1>1, <1>5, <1>6, StepsAlone, MovingSteps, NextSteps, FailureStep, DeliverStep, SoleSettle,
     SoleRecord, SoleFallback, SoleTruncate, SoleWrite
     DEF RunStep
<1> QED
  BY <1>2, <1>3, <1>4, <1>5, <1>6 DEF Next

LEMMA SoleInvariant ==
  ASSUME "tear" \notin Events
  PROVE  Spec /\ []SingleRun => []SoleInv
<1>1. SingleRun /\ SingleRun' /\ SoleInv /\ [Next]_vars => SoleInv'
  BY SoleNext
<1> QED
  BY <1>1, SoleInit, PTL DEF Spec

\* Among runs that do not overlap and write the cutoff whole, with or without a
\* limit, a second message about a video is explained by a run that ended early
\* or by an operator (run_subscriptions, _retry_pending_captions).
THEOREM NoDuplicates ==
  ASSUME "tear" \notin Events
  PROVE  Spec /\ []SingleRun => []DuplicatesExplained
<1>1. SoleInv => DuplicatesExplained
  BY DEF SoleInv
<1> QED
  BY <1>1, SoleInvariant, PTL

\* Such runs use a description after the last failure and not before, and the
\* retry document counts no attempt that did not fail (record_caption_failure).
THEOREM FallbackLast ==
  ASSUME "tear" \notin Events
  PROVE  Spec /\ []SingleRun => []FallbackAfterMaxFailures
<1>1. SoleInv => FallbackAfterMaxFailures
  BY DEF SoleInv, BookInv, Book, FallbackAfterMaxFailures
<1> QED
  BY <1>1, SoleInvariant, PTL

=============================================================================
