------------------------- MODULE ApplicationPipeline -------------------------
(***************************************************************************)
(* Application runs of TextTube (src/texttube/pipeline.py) over the        *)
(* durable subscription state.                                             *)
(*                                                                         *)
(* A process p executes one application run at a time: a subscription run, *)
(* which retries the pending videos and then walks the uploads of the      *)
(* current window, or a selected-video run (--video).  Everything a run    *)
(* holds in memory is run[p]; `cutoff' and `pending' are the two files.    *)
(* A scheduled run holds the scheduler lock, so Proc has one element; a    *)
(* manual `app' command takes no lock, which a second element models.      *)
(*                                                                         *)
(* The text of a message and the source of a summary are abstracted: every *)
(* outcome of _summarize but NativeTranscriptUnavailable leads to          *)
(* _deliver.  Ids are retried and uploads yielded in an arbitrary order.   *)
(***************************************************************************)
EXTENDS SubscriptionState, FiniteSets

CONSTANTS
  Channel,       \* Subscribed channels.
  ChannelOf,     \* The channel every video is uploaded to.
  Short,         \* Videos whose known duration is within the Shorts boundary.
  Proc,          \* Application processes that may be active at one time.
  Limits,        \* Values of --limit or TEXTTUBE_LIMIT; 0 is unlimited.
  DefaultLimit,  \* DEFAULT_VIDEO_LIMIT.
  Events,        \* What the environment may do, see AllEvents.
  PublishTimes,  \* When videos may be published.
  MaxTime,       \* Bound on the clock.
  NoVideo        \* Not a video: no attempt is in progress.

\* interrupt: SIGINT or SIGTERM; tear: a crash, signal or I/O error between
\* the truncation and the write of the cutoff file; fatal: an HTTP or file
\* error that stops the run; telegram: a request that fails; channel: a
\* channel without a readable uploads playlist; withdraw: a video that is
\* deleted or made private; select: an operator runs `app --video'.
AllEvents == {"interrupt", "tear", "fatal", "telegram", "channel", "withdraw",
              "select"}

ASSUME ChannelAssumption == ChannelOf \in [Video -> Channel]
ASSUME LimitAssumption == Limits \subseteq Nat /\ DefaultLimit \in Nat
ASSUME TimeAssumption == MaxTime \in Nat /\ PublishTimes \subseteq Nat
ASSUME EventAssumption == Events \subseteq AllEvents /\ Short \subseteq Video
ASSUME NoVideoAssumption == NoVideo \notin Video

VARIABLES
  now,          \* The clock, in ticks of the resolution of a window boundary.
  publishedAt,  \* When each video is published.
  withdrawn,    \* Videos YouTube no longer returns.
  cutoff,       \* last_subscription_window_end_utc.txt
  pending,      \* pending_native_caption_failures.json
  run           \* The run each process is executing.

\* History of the system, read by the properties only.
VARIABLES
  messages,     \* Messages about each video that reached the chat, up to two.
  failures,     \* Native-caption failures of each video, up to MaxAttempts.
  fate,         \* What became of each video, see Fates.
  first,        \* The start of the first completed window.
  covered,      \* The end of the last completed window.
  repeated      \* Videos of aborted runs, and videos selected by an operator.

world == <<now, publishedAt, withdrawn>>
disk == <<cutoff, pending>>
outcomes == <<messages, failures, fate>>
windows == <<first, covered>>
vars == <<world, disk, run, outcomes, windows, repeated>>

------------------------------------------------------------------------------
\* The state of a run.

\* One video is being attempted: _attempt_video and what it calls.
AttemptSteps == {"process", "deliver", "settle_read", "settle_write",
                 "record_read", "record_write", "fallback"}

Steps == {"idle", "read_pending", "retry", "discover", "finish", "complete",
          "write_cutoff"} \cup AttemptSteps

RunFields ==
        [pc        : Steps,
         mode      : {"single", "retry", "discover"},
         limit     : Nat,
         start     : Int,
         end       : Int,
         queue     : SUBSET Video,     \* pending ids still to be retried
         attempted : SUBSET Video,     \* attempted_video_ids
         channels  : SUBSET Channel,   \* channels still to be walked
         seen      : SUBSET Video,     \* seen_video_ids
         sent      : Nat,              \* sent_count
         stopped   : BOOLEAN,          \* stopped_by_limit
         video     : Video \cup {NoVideo},  \* the video being attempted
         delivered : BOOLEAN,          \* its outcome
         doc       : Documents,        \* the pending document last read
         tried     : SUBSET Video]     \* history: the attempts of this run

IdleRun == [pc |-> "idle", mode |-> "single", limit |-> 0, start |-> 0,
            end |-> 0, queue |-> {}, attempted |-> {}, channels |-> {},
            seen |-> {}, sent |-> 0, stopped |-> FALSE, video |-> NoVideo,
            delivered |-> FALSE, doc |-> NoFailures, tried |-> {}]

\* A run holds a video exactly while it attempts one; a process without a run
\* keeps nothing of the last one.
Runs == {r \in RunFields : /\ r.pc \in AttemptSteps <=> r.video \in Video
                           /\ r.pc = "idle" => r = IdleRun}

\* settled: an attempt ended other than in a recorded retry; skipped: the
\* channel could not be read when the video was due; lost: a run was
\* interrupted in the last fallback.
Fates == {"open", "settled", "skipped", "lost"}

Settle(v) == fate' = [fate EXCEPT ![v] = "settled"]

\* An event explains the absence of the videos in S that are not settled.
Explain(S, event) ==
  fate' = [v \in Video |-> IF v \in S /\ fate[v] # "settled" THEN event
                                                            ELSE fate[v]]

\* Mutant of Full: one message too many.
FullBeyond(r) == r.limit > 0 /\ r.sent > r.limit

Full(r) == r.limit > 0 /\ r.sent >= r.limit

InWindow(v, r) == publishedAt[v] >= r.start /\ publishedAt[v] < r.end

\* The uploads iter_recent_videos has still to yield.
Unseen(r) == {v \in Video : /\ ChannelOf[v] \in r.channels
                            /\ InWindow(v, r)
                            /\ v \notin r.seen
                            /\ v \notin withdrawn}

\* The run continues from _attempt_video with the outcome of its video.
Resume(r, delivered) ==
  LET q == [r EXCEPT !.sent = IF delivered THEN @ + 1 ELSE @,
                     !.video = NoVideo, !.delivered = FALSE, !.doc = NoFailures]
  IN  CASE r.mode = "single"   -> IdleRun
        [] r.mode = "retry"    -> [q EXCEPT !.pc = "retry"]
        [] r.mode = "discover" ->
             IF delivered /\ Full(q)
               THEN [q EXCEPT !.pc = "finish", !.stopped = TRUE]
               ELSE [q EXCEPT !.pc = "discover"]

\* The limit notice is sent for the default limit only.
NoticeDue(r) == r.stopped /\ r.limit = DefaultLimit /\ r.sent >= DefaultLimit

\* sent: accepted; rejected: no message; unknown: the request fails after
\* the message was accepted.
SendResults == {"sent"} \cup
               (IF "telegram" \in Events THEN {"rejected", "unknown"} ELSE {})

Arrived(result) == result \in {"sent", "unknown"}

Become(p, r) == run' = [run EXCEPT ![p] = r]

------------------------------------------------------------------------------
Init ==
  /\ now = 0
  /\ publishedAt \in [Video -> PublishTimes]
  /\ withdrawn = {}
  /\ cutoff = NoCutoff
  /\ pending = NoFailures
  /\ run = [p \in Proc |-> IdleRun]
  /\ messages = [v \in Video |-> 0]
  /\ failures = [v \in Video |-> 0]
  /\ fate = [v \in Video |-> "open"]
  /\ first = NoCutoff /\ covered = NoCutoff
  /\ repeated = {}

\* The environment: time passes, a published video disappears.
Tick ==
  /\ now < MaxTime
  /\ now' = now + 1
  /\ UNCHANGED <<publishedAt, withdrawn, disk, run, outcomes, windows, repeated>>

Withdraw(v) ==
  /\ "withdraw" \in Events
  /\ publishedAt[v] <= now
  /\ v \notin withdrawn
  /\ withdrawn' = withdrawn \cup {v}
  /\ UNCHANGED <<now, publishedAt, disk, run, outcomes, windows, repeated>>

\* run_subscriptions up to its call of _retry_pending_captions.  A cutoff
\* that is not in the past is fatal before anything changes.
StartSubscriptions(p, limit) ==
  /\ run[p].pc = "idle"
  /\ WindowStart(cutoff, now) < now
  /\ Become(p, [IdleRun EXCEPT !.pc = "read_pending", !.mode = "retry",
                               !.limit = limit, !.end = now,
                               !.start = WindowStart(cutoff, now)])
  /\ UNCHANGED <<world, disk, outcomes, windows, repeated>>

\* run_single_video: a video that cannot be fetched ends the run at once.
StartSingle(p, v) ==
  /\ "select" \in Events
  /\ run[p].pc = "idle"
  /\ publishedAt[v] <= now
  /\ v \notin withdrawn
  /\ Become(p, [IdleRun EXCEPT !.pc = "process", !.video = v])
  /\ repeated' = repeated \cup {v}
  /\ UNCHANGED <<world, disk, outcomes, windows>>

------------------------------------------------------------------------------
\* _retry_pending_captions.

ReadPending(p) ==
  /\ run[p].pc = "read_pending"
  /\ Become(p, [run[p] EXCEPT !.pc = "retry", !.queue = PendingVideos(pending)])
  /\ UNCHANGED <<world, disk, outcomes, windows, repeated>>

\* Mutant of RetryNext: the id stays queued.
RetryNextQueued(p) ==
  /\ run[p].pc = "retry"
  /\ ~ Full(run[p])
  /\ \E v \in run[p].queue \ withdrawn :
       Become(p, [run[p] EXCEPT !.pc = "process", !.video = v,
                                !.attempted = @ \cup {v}])
  /\ UNCHANGED <<world, disk, outcomes, windows, repeated>>

RetryNext(p) ==
  /\ run[p].pc = "retry"
  /\ ~ Full(run[p])
  /\ \E v \in run[p].queue \ withdrawn :
       Become(p, [run[p] EXCEPT !.pc = "process", !.video = v,
                                !.queue = @ \ {v},
                                !.attempted = @ \cup {v}])
  /\ UNCHANGED <<world, disk, outcomes, windows, repeated>>

RetryStops(p) ==
  /\ run[p].pc = "retry"
  /\ run[p].queue # {}
  /\ Full(run[p])
  /\ Become(p, [run[p] EXCEPT !.pc = "finish", !.queue = {}, !.stopped = TRUE])
  /\ UNCHANGED <<world, disk, outcomes, windows, repeated>>

RetryEnds(p) ==
  /\ run[p].pc = "retry"
  /\ run[p].queue = {}
  /\ Become(p, [run[p] EXCEPT !.pc = "discover", !.mode = "discover",
                              !.channels = Channel])
  /\ UNCHANGED <<world, disk, outcomes, windows, repeated>>

------------------------------------------------------------------------------
\* The loop of run_subscriptions over iter_recent_videos.

\* Mutant of DiscoverNext: the attempts of the retry loop are forgotten.
DiscoverNextAgain(p) ==
  /\ run[p].pc = "discover"
  /\ ~ Full(run[p])
  /\ \E v \in Unseen(run[p]) :
       Become(p, [run[p] EXCEPT !.pc = "process", !.video = v,
                                !.seen = @ \cup {v},
                                !.attempted = @ \cup {v}])
  /\ UNCHANGED <<world, disk, outcomes, windows, repeated>>

DiscoverNext(p) ==
  /\ run[p].pc = "discover"
  /\ ~ Full(run[p])
  /\ \E v \in Unseen(run[p]) \ run[p].attempted :
       Become(p, [run[p] EXCEPT !.pc = "process", !.video = v,
                                !.seen = @ \cup {v},
                                !.attempted = @ \cup {v}])
  /\ UNCHANGED <<world, disk, outcomes, windows, repeated>>

\* "already attempted this run"
SkipAttempted(p) ==
  /\ run[p].pc = "discover"
  /\ \E v \in Unseen(run[p]) \cap run[p].attempted :
       Become(p, [run[p] EXCEPT !.seen = @ \cup {v}])
  /\ UNCHANGED <<world, disk, outcomes, windows, repeated>>

DiscoverStops(p) ==
  /\ run[p].pc = "discover"
  /\ Full(run[p])
  /\ Unseen(run[p]) \ run[p].attempted # {}
  /\ Become(p, [run[p] EXCEPT !.pc = "finish", !.stopped = TRUE])
  /\ UNCHANGED <<world, disk, outcomes, windows, repeated>>

\* The rest of an unreadable channel is skipped; the notice may fail.
ChannelUnavailable(p, c) ==
  /\ "channel" \in Events
  /\ run[p].pc = "discover"
  /\ c \in run[p].channels
  /\ Become(p, [run[p] EXCEPT !.channels = @ \ {c}])
  /\ Explain({v \in Unseen(run[p]) : ChannelOf[v] = c}, "skipped")
  /\ UNCHANGED <<world, disk, messages, failures, windows, repeated>>

DiscoveryEnds(p) ==
  /\ run[p].pc = "discover"
  /\ Unseen(run[p]) = {}
  /\ Become(p, [run[p] EXCEPT !.pc = "finish"])
  /\ UNCHANGED <<world, disk, outcomes, windows, repeated>>

------------------------------------------------------------------------------
\* _attempt_video and VideoPipeline.process for run[p].video.

Attempt(r, step) == [r EXCEPT !.pc = step, !.tried = @ \cup {r.video}]

SkipShort(p) ==
  /\ run[p].pc = "process"
  /\ run[p].video \in Short
  /\ Become(p, Attempt(run[p], "settle_read"))
  /\ UNCHANGED <<world, disk, outcomes, windows, repeated>>

\* NativeTranscriptUnavailable.
CaptionsUnavailable(p) ==
  /\ run[p].pc = "process"
  /\ run[p].video \notin Short
  /\ failures' = [failures EXCEPT ![run[p].video] =
                    IF @ < MaxAttempts THEN @ + 1 ELSE @]
  /\ Become(p, Attempt(run[p], "record_read"))
  /\ UNCHANGED <<world, disk, messages, fate, windows, repeated>>

\* A transcript summary, a description summary or the unavailable message.
Summarize(p) ==
  /\ run[p].pc = "process"
  /\ run[p].video \notin Short
  /\ Become(p, Attempt(run[p], "deliver"))
  /\ UNCHANGED <<world, disk, outcomes, windows, repeated>>

Send(v, result) ==
  messages' = [messages EXCEPT ![v] =
                 IF Arrived(result) /\ @ < 2 THEN @ + 1 ELSE @]

Deliver(p) ==
  /\ run[p].pc = "deliver"
  /\ \E result \in SendResults :
       /\ Send(run[p].video, result)
       /\ Become(p, [run[p] EXCEPT !.pc = "settle_read",
                                   !.delivered = (result = "sent")])
  /\ UNCHANGED <<world, disk, failures, fate, windows, repeated>>

\* complete_caption_retry reads the document, then replaces it.
SettleRead(p) ==
  /\ run[p].pc = "settle_read"
  /\ Become(p, [run[p] EXCEPT !.pc = "settle_write", !.doc = pending])
  /\ UNCHANGED <<world, disk, outcomes, windows, repeated>>

SettleWrite(p) ==
  LET r == run[p] IN
  /\ r.pc = "settle_write"
  /\ pending' = IF r.video \in PendingVideos(r.doc)
                  THEN CompleteRetry(r.doc, r.video)
                  ELSE pending
  /\ Settle(r.video)
  /\ Become(p, Resume(r, r.delivered))
  /\ UNCHANGED <<world, cutoff, messages, failures, windows, repeated>>

\* record_caption_failure reads the document, then replaces it.
RecordRead(p) ==
  /\ run[p].pc = "record_read"
  /\ Become(p, [run[p] EXCEPT !.pc = "record_write", !.doc = pending])
  /\ UNCHANGED <<world, disk, outcomes, windows, repeated>>

RecordWrite(p) ==
  LET r == run[p] IN
  /\ r.pc = "record_write"
  /\ pending' = RecordFailure(r.doc, r.video)
  /\ Become(p, IF AttemptNumber(r.doc, r.video) < MaxAttempts
                 THEN Resume(r, FALSE)
                 ELSE [r EXCEPT !.pc = "fallback", !.doc = NoFailures])
  /\ UNCHANGED <<world, cutoff, outcomes, windows, repeated>>

\* process_description_fallback: every failure but an interrupt is caught.
Fallback(p) ==
  LET r == run[p] IN
  /\ r.pc = "fallback"
  /\ \E result \in SendResults :
       /\ Send(r.video, result)
       /\ Become(p, Resume(r, result = "sent"))
  /\ Settle(r.video)
  /\ UNCHANGED <<world, disk, failures, windows, repeated>>

------------------------------------------------------------------------------
\* The end of run_subscriptions: the limit notice and complete_window.

Finish(p) ==
  /\ run[p].pc = "finish"
  /\ Become(p, [run[p] EXCEPT !.pc = "complete"])
  /\ UNCHANGED <<world, disk, outcomes, windows, repeated>>

\* write_text opens the cutoff file for writing, which empties it ...
TruncateCutoff(p) ==
  /\ run[p].pc = "complete"
  /\ cutoff' = NoCutoff
  /\ Become(p, [run[p] EXCEPT !.pc = "write_cutoff"])
  /\ UNCHANGED <<world, pending, outcomes, windows, repeated>>

\* Mutant of WriteCutoff: the start of the window is written.
WriteCutoffStart(p) ==
  /\ run[p].pc = "write_cutoff"
  /\ cutoff' = run[p].start
  /\ first' = IF covered = NoCutoff THEN run[p].start ELSE first
  /\ covered' = run[p].end
  /\ Become(p, IdleRun)
  /\ UNCHANGED <<world, pending, outcomes, repeated>>

\* ... and then writes the window end.
WriteCutoff(p) ==
  /\ run[p].pc = "write_cutoff"
  /\ cutoff' = run[p].end
  /\ first' = IF covered = NoCutoff THEN run[p].start ELSE first
  /\ covered' = run[p].end
  /\ Become(p, IdleRun)
  /\ UNCHANGED <<world, pending, outcomes, repeated>>

------------------------------------------------------------------------------
\* A run that ends early.  Nothing is rolled back.

Abort(p) ==
  /\ Become(p, IdleRun)
  /\ Explain({v \in {run[p].video} : run[p].pc = "fallback"}, "lost")
  /\ repeated' = repeated \cup run[p].attempted
  /\ UNCHANGED <<world, disk, messages, failures, windows>>

\* fetch_video raises FatalError for a pending video that is gone.
RetryUnavailable(p) ==
  /\ run[p].pc = "retry"
  /\ ~ Full(run[p])
  /\ run[p].queue \cap withdrawn # {}
  /\ Abort(p)

\* send_notice raises DeliveryFailure outside of any handler.
NoticeFails(p) ==
  /\ "telegram" \in Events
  /\ run[p].pc = "finish"
  /\ NoticeDue(run[p])
  /\ Abort(p)

\* A file or HTTP error where no handler of pipeline.py catches it.
RunFails(p) ==
  /\ "fatal" \in Events
  /\ run[p].pc \in {"read_pending", "retry", "discover", "settle_read",
                    "settle_write", "record_read", "record_write", "complete"}
  /\ Abort(p)

\* KeyboardInterrupt, which no handler of pipeline.py catches.
Interrupt(p) ==
  /\ "interrupt" \in Events
  /\ run[p].pc \notin {"idle", "write_cutoff"}
  /\ Abort(p)

\* The cutoff file is left empty.
TearCutoff(p) ==
  /\ "tear" \in Events
  /\ run[p].pc = "write_cutoff"
  /\ Abort(p)

------------------------------------------------------------------------------
\* The steps of a run that no failure interrupts.
RunStep(p) ==
  \/ ReadPending(p) \/ RetryNext(p) \/ RetryStops(p) \/ RetryEnds(p)
  \/ RetryUnavailable(p)
  \/ DiscoverNext(p) \/ SkipAttempted(p) \/ DiscoverStops(p) \/ DiscoveryEnds(p)
  \/ SkipShort(p) \/ CaptionsUnavailable(p) \/ Summarize(p) \/ Deliver(p)
  \/ SettleRead(p) \/ SettleWrite(p) \/ RecordRead(p) \/ RecordWrite(p)
  \/ Fallback(p)
  \/ Finish(p) \/ TruncateCutoff(p) \/ WriteCutoff(p)

RunEndsEarly(p) ==
  NoticeFails(p) \/ RunFails(p) \/ Interrupt(p) \/ TearCutoff(p)

Next ==
  \/ Tick
  \/ \E v \in Video : Withdraw(v)
  \/ \E p \in Proc :
       \/ \E limit \in Limits : StartSubscriptions(p, limit)
       \/ \E v \in Video : StartSingle(p, v)
       \/ \E c \in Channel : ChannelUnavailable(p, c)
       \/ RunStep(p)
       \/ RunEndsEarly(p)

Spec == Init /\ [][Next]_vars

\* Time passes, cron starts subscription runs and an active run proceeds.
\* Nothing is assumed of operators, signals and failures.
Fairness ==
  /\ WF_vars(Tick)
  /\ \A p \in Proc :
       /\ WF_vars(\E limit \in Limits : StartSubscriptions(p, limit))
       /\ WF_vars(RunStep(p))

FairSpec == Spec /\ Fairness

------------------------------------------------------------------------------
\* Properties.

\* Every variable has its type.
TypeOK ==
  /\ now \in Nat
  /\ publishedAt \in [Video -> PublishTimes]
  /\ withdrawn \subseteq Video
  /\ cutoff \in Int
  /\ pending \in Documents
  /\ run \in [Proc -> Runs]
  /\ messages \in [Video -> 0 .. 2]
  /\ failures \in [Video -> 0 .. MaxAttempts]
  /\ fate \in [Video -> Fates]
  /\ first \in Int /\ covered \in Int
  /\ repeated \subseteq Video

\* Some run holds v between its removal from the pending document and the
\* end of its description fallback.
InFallback(v) == \E p \in Proc : run[p].pc = "fallback" /\ run[p].video = v

\* What may become of a video of a completed window: an attempt ended, a
\* retry is recorded, its channel was skipped, YouTube withdrew it, or its
\* last fallback was interrupted.
Accounted(v) ==
  v \in PendingVideos(pending) \cup withdrawn \/ fate[v] # "open"

\* No video published since the first completed window drops out between the
\* cutoff, the retry document and the attempts of a run, whatever aborts,
\* restarts and channel failures happen in between (run_subscriptions,
\* _attempt_video, record_caption_failure).
NoSilentLoss ==
  \A v \in Video :
    (first <= publishedAt[v] /\ publishedAt[v] < covered)
      => Accounted(v) \/ InFallback(v)

\* complete_window is reached only when every upload of the window was
\* yielded, was withdrawn or belongs to a channel reported as skipped, as
\* ARCHITECTURE.md says.  A stop at the limit goes there with the rest of the
\* window unread (run_subscriptions).
CutoffOnlyAfterTraversal ==
  \A p \in Proc :
    run[p].pc \in {"complete", "write_cutoff"} =>
      \A v \in Video :
        InWindow(v, run[p]) =>
          v \in run[p].seen \cup withdrawn \/ fate[v] # "open"

\* An aborted run leaves the cutoff of the last completed run in the file, as
\* ARCHITECTURE.md says (complete_window).
CutoffPreserved ==
  (\A p \in Proc : run[p].pc # "write_cutoff") => cutoff = covered

\* A video is attempted at most once per run, although it may be both
\* pending and in the current window (attempted_video_ids).
OneAttemptPerRun ==
  \A p \in Proc : run[p].pc = "process" => run[p].video \notin run[p].tried

\* A second message about a video is explained by a run that ended early
\* after attempting it or by an operator who selected it: retries, window
\* boundaries and deliveries of unknown outcome never duplicate a message.
DuplicatesExplained ==
  \A v \in Video : messages[v] >= 2 => v \in repeated

\* The retry document never counts an attempt that did not fail, and the
\* description replaces the captions after MaxAttempts failures, not before.
FallbackAfterMaxFailures ==
  /\ \A v \in Video : pending[v] <= failures[v]
  /\ \A p \in Proc :
       run[p].pc = "fallback" => failures[run[p].video] >= MaxAttempts

\* Retries and discovery share one limit: the messages a run counts never
\* exceed it, although the retry loop checks it before an attempt and the
\* discovery loop before and after (_retry_pending_captions, run_subscriptions).
LimitRespected ==
  \A p \in Proc : run[p].limit > 0 => run[p].sent <= run[p].limit

\* Every run comes to an end: neither the retry loop nor the walk of the
\* window repeats a video for ever.
RunsTerminate ==
  \A p \in Proc : run[p].pc # "idle" ~> run[p].pc = "idle"

\* An operator starts a run, or a run ends early for another reason than a
\* pending video that is gone.
Intervention ==
  \E p \in Proc :
    \/ \E v \in Video : StartSingle(p, v)
    \/ RunEndsEarly(p) /\ ~ (run[p].pc = "retry" /\ run[p].queue \cap withdrawn # {})

\* Subscription runs keep up with the clock, which stops at MaxTime, unless
\* interventions go on for ever: after the last of them no failed or withdrawn
\* video and no unreadable channel keeps the cutoff from advancing, as
\* ARCHITECTURE.md says of a traversal (_retry_pending_captions).
Progress == []<><<Intervention>>_vars \/ <>[](cutoff = MaxTime)

\* What the code keeps of it: only a withdrawn video that stays in the retry
\* document holds the cutoff back.  Interrupted and failed runs, torn writes,
\* limits, operators, unreadable channels and failing deliveries only delay it
\* (run_subscriptions, subscription_window).
KeepsUp == Progress \/ <>[](withdrawn \cap PendingVideos(pending) # {})

------------------------------------------------------------------------------
\* The inductive invariants behind the safety properties.

\* In every run, alone or not: a video is put in attempted_video_ids before
\* its attempt and is not queued again, and an attempt starts below the limit.
AttemptOrder(r) ==
  /\ r.pc \in {"read_pending", "retry"} => r.mode = "retry"
  /\ r.pc = "discover" => r.mode = "discover"
  /\ r.pc = "read_pending" => r.attempted = {}
  /\ r.mode = "discover" => r.queue = {}
  /\ r.queue \cap r.attempted = {}
  /\ r.mode # "single" => r.tried \subseteq r.attempted
  /\ r.mode # "single" /\ r.video \in Video => r.video \in r.attempted
  /\ r.pc = "process" => r.video \notin r.tried
  /\ r.limit > 0 => r.sent <= r.limit
  /\ r.video \in Video => ~ Full(r)

AttemptInv ==
  /\ TypeOK
  /\ \A p \in Proc : AttemptOrder(run[p])

\* No two runs overlap: every run holds the scheduler lock.
SingleRun ==
  \A p, q \in Proc : run[p].pc # "idle" /\ run[q].pc # "idle" => p = q

\* The walk of the window has dealt with v.
Walked(v, r) == v \in r.seen \cup withdrawn \/ fate[v] # "open"

\* In a run that overlaps no other and has no limit: the document it holds is
\* the one on disk, its window continues the last completed one, the channels
\* it has left are dealt with, and so is every video it has attempted.
RunInv(r) ==
  /\ r.limit = 0
  /\ r.pc \in {"settle_write", "record_write"} => r.doc = pending
  /\ r.pc \in {"read_pending", "retry"} => r.mode = "retry"
  /\ r.pc \in {"discover", "finish", "complete", "write_cutoff"}
       => r.mode = "discover"
  /\ r.mode # "single" /\ covered # NoCutoff => r.start = covered
  /\ r.mode = "discover" =>
       \A v \in Video : InWindow(v, r) => ChannelOf[v] \in r.channels \/ Walked(v, r)
  /\ r.pc \in {"finish", "complete", "write_cutoff"} =>
       \A v \in Video : InWindow(v, r) => Walked(v, r)
  /\ r.seen \subseteq r.attempted
  /\ \A v \in r.attempted : Accounted(v) \/ v = r.video

LossInv ==
  /\ TypeOK
  /\ \A p \in Proc : RunInv(run[p])
  /\ CutoffPreserved
  /\ NoSilentLoss

------------------------------------------------------------------------------
\* The abstract specification.

\* A video is held by the retry document, or by a run that has taken it from
\* there for its last fallback.
Stage(v) ==
  IF fate[v] # "open" \/ v \in withdrawn THEN "closed"
  ELSE IF v \in PendingVideos(pending) \/ InFallback(v) THEN "held"
  ELSE "open"

Ledger == INSTANCE DeliveryLedger WITH
  NoWindow <- NoCutoff, stage <- [v \in Video |-> Stage(v)],
  since <- first, until <- covered

\* Scheduled runs without a limit implement the ledger: over all their steps,
\* aborts and restarts no video falls back to an earlier stage, and a window is
\* completed next to the last one with no open video in it (run_subscriptions).
LedgerKept == Ledger!Spec

=============================================================================
