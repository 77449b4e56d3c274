------------------------- MODULE NoSilentLoss_proofs -------------------------
(***************************************************************************)
(* The cutoff, the retry document and the attempts of a run never let a    *)
(* video of a completed window drop out, and ApplicationPipeline           *)
(* implements DeliveryLedger.  Three assumptions are needed: runs do not   *)
(* overlap, they have no limit, and the cutoff file is written without a   *)
(* tear.  Any number of processes may start the runs; Container_proofs     *)
(* shows that the lock of the scheduler keeps them apart.                  *)
(***************************************************************************)
EXTENDS ApplicationPipeline_proofs

\* What the properties depend on besides the run.
Quiet == UNCHANGED <<publishedAt, withdrawn, disk, fate, windows>>

------------------------------------------------------------------------------
\* Steps that change nothing but the run.

\* Events that only add explanations leave every video accounted for.
LEMMA AccountedGrows ==
  ASSUME NEW v \in Video, Accounted(v),
         v \in PendingVideos(pending) => v \in PendingVideos(pending)',
         withdrawn \subseteq withdrawn',
         fate[v] # "open" => fate'[v] # "open"
  PROVE  Accounted(v)'
  BY DEF Accounted

LEMMA IdleRunInv == RunInv(IdleRun) /\ RunInv(IdleRun)'
  BY DEF RunInv, IdleRun

\* The invariant of a run that is alone is that of all runs.
LEMMA SoleRun ==
  ASSUME TypeOK, NEW p \in Proc, Alone(p), NEW r, Become(p, r), RunInv(r)'
  PROVE  /\ run'[p] = r
         /\ \A q \in Proc \ {p} : run'[q] = run[q] /\ run'[q].pc = "idle"
         /\ (\A q \in Proc : RunInv(run[q]))'
<1>1. run'[p] = r
  BY DEF Become, TypeOK
<1>2. \A q \in Proc \ {p} : run'[q] = run[q]
  BY DEF Become, TypeOK
<1>3. \A q \in Proc \ {p} : run'[q] = IdleRun /\ run'[q].pc = "idle"
  BY <1>2, IdleRunType DEF Alone, TypeOK, Runs
<1>4. \A q \in Proc : RunInv(run[q])'
  BY <1>1, <1>3, IdleRunInv
<1> QED
  BY <1>1, <1>2, <1>3, <1>4

LEMMA QuietRunInv ==
  ASSUME NEW r, RunInv(r), Quiet
  PROVE  RunInv(r)'
<1>1. /\ \A v : InWindow(v, r)' <=> InWindow(v, r)
      /\ \A v : Walked(v, r)' <=> Walked(v, r)
      /\ \A v : Accounted(v)' <=> Accounted(v)
  BY DEF Quiet, disk, windows, InWindow, Walked, Accounted, PendingVideos
<1>2. pending' = pending /\ covered' = covered
  BY DEF Quiet, disk, windows
<1> QED
  BY <1>1, <1>2 DEF RunInv

LEMMA QuietStep ==
  ASSUME LossInv, TypeOK', NEW p \in Proc, Alone(p), NEW r,
         Become(p, r), RunInv(r), Quiet,
         run[p].pc \notin {"fallback", "write_cutoff"}, r.pc # "write_cutoff"
  PROVE  LossInv'
<1>1. run'[p] = r /\ (\A q \in Proc : RunInv(run[q]))'
  BY QuietRunInv, SoleRun DEF LossInv
<1>2. \A q \in Proc : run[q].pc \notin {"fallback", "write_cutoff"}
  BY DEF Alone
<1>3. CutoffPreserved'
  BY <1>2 DEF LossInv, CutoffPreserved, Quiet, disk, windows
<1>4. NoSilentLoss'
  <2>1. \A v \in Video : ~ InFallback(v)
    BY <1>2 DEF InFallback
  <2>2. \A v \in Video : Accounted(v)' <=> Accounted(v)
    BY DEF Quiet, disk, Accounted, PendingVideos
  <2> QED
    BY <2>1, <2>2 DEF LossInv, NoSilentLoss, Quiet, windows
<1> QED
  BY <1>1, <1>3, <1>4 DEF LossInv

\* A run that keeps its window, its walk and its video only has to justify
\* its new place and its document.
LEMMA SameWalk ==
  ASSUME NEW r, NEW s, RunInv(r),
         /\ s.limit = r.limit /\ s.mode = r.mode
         /\ s.start = r.start /\ s.end = r.end
         /\ s.channels = r.channels /\ s.seen = r.seen
         /\ s.attempted = r.attempted /\ s.video = r.video,
         s.pc \in {"settle_write", "record_write"} => s.doc = pending,
         s.pc \in {"read_pending", "retry"} => r.mode = "retry",
         s.pc \in {"discover", "finish", "complete", "write_cutoff"}
           => r.pc \in {"discover", "finish", "complete", "write_cutoff"},
         s.pc \in {"finish", "complete", "write_cutoff"}
           => r.pc \in {"finish", "complete", "write_cutoff"}
  PROVE  RunInv(s)
<1>1. \A v : InWindow(v, s) <=> InWindow(v, r)
  BY DEF InWindow
<1>2. \A v : Walked(v, s) <=> Walked(v, r)
  BY DEF Walked
<1> QED
  BY <1>1, <1>2 DEF RunInv

\* The steps of a run that change no durable state.
QuietAction(p) ==
  \/ ReadPending(p) \/ RetryNext(p) \/ RetryEnds(p)
  \/ DiscoverNext(p) \/ SkipAttempted(p) \/ DiscoveryEnds(p)
  \/ SkipShort(p) \/ CaptionsUnavailable(p) \/ Summarize(p) \/ Deliver(p)
  \/ SettleRead(p) \/ RecordRead(p) \/ Finish(p)

LEMMA QuietActions ==
  ASSUME LossInv, TypeOK', NEW p \in Proc, Alone(p), QuietAction(p)
  PROVE  LossInv'
<1> DEFINE r == run[p]
<1>1. r \in Runs /\ RunInv(r)
  BY DEF LossInv, TypeOK
<1>2. CASE ReadPending(p)
  <2>1. RunInv([r EXCEPT !.pc = "retry", !.queue = PendingVideos(pending)])
    <3> DEFINE s == [r EXCEPT !.pc = "retry", !.queue = PendingVideos(pending)]
    <3>1. /\ s.limit = r.limit /\ s.mode = r.mode
          /\ s.start = r.start /\ s.end = r.end
          /\ s.channels = r.channels /\ s.seen = r.seen
          /\ s.attempted = r.attempted /\ s.video = r.video
          /\ s.pc = "retry"
      BY <1>1 DEF Runs, RunFields
    <3>2. r.pc = "read_pending"
      BY <1>2 DEF ReadPending
    <3> HIDE DEF s
    <3>3. RunInv(s)
      BY <1>1, <3>1, <3>2, SameWalk DEF RunInv
    <3> QED
      BY <3>3 DEF s
  <2> QED
    BY <1>1, <1>2, <2>1, QuietStep DEF ReadPending, Attempt, Quiet, world, outcomes,
                                      Runs, RunFields
<1>3. CASE SkipShort(p)
  <2>1. RunInv(Attempt(r, "settle_read"))
    <3> DEFINE s == Attempt(r, "settle_read")
    <3>1. /\ s.limit = r.limit /\ s.mode = r.mode
          /\ s.start = r.start /\ s.end = r.end
          /\ s.channels = r.channels /\ s.seen = r.seen
          /\ s.attempted = r.attempted /\ s.video = r.video
          /\ s.pc = "settle_read"
      BY <1>1 DEF Runs, RunFields, Attempt
    <3>2. r.pc = "process"
      BY <1>3 DEF SkipShort
    <3> HIDE DEF s
    <3>3. RunInv(s)
      BY <1>1, <3>1, <3>2, SameWalk DEF RunInv
    <3> QED
      BY <3>3 DEF s
  <2> QED
    BY <1>1, <1>3, <2>1, QuietStep DEF SkipShort, Attempt, Quiet, world, outcomes,
                                      Runs, RunFields
<1>4. CASE CaptionsUnavailable(p)
  <2>1. RunInv(Attempt(r, "record_read"))
    <3> DEFINE s == Attempt(r, "record_read")
    <3>1. /\ s.limit = r.limit /\ s.mode = r.mode
          /\ s.start = r.start /\ s.end = r.end
          /\ s.channels = r.channels /\ s.seen = r.seen
          /\ s.attempted = r.attempted /\ s.video = r.video
          /\ s.pc = "record_read"
      BY <1>1 DEF Runs, RunFields, Attempt
    <3>2. r.pc = "process"
      BY <1>4 DEF CaptionsUnavailable
    <3> HIDE DEF s
    <3>3. RunInv(s)
      BY <1>1, <3>1, <3>2, SameWalk DEF RunInv
    <3> QED
      BY <3>3 DEF s
  <2> QED
    BY <1>1, <1>4, <2>1, QuietStep DEF CaptionsUnavailable, Attempt, Quiet, world, outcomes,
                                      Runs, RunFields
<1>5. CASE Summarize(p)
  <2>1. RunInv(Attempt(r, "deliver"))
    <3> DEFINE s == Attempt(r, "deliver")
    <3>1. /\ s.limit = r.limit /\ s.mode = r.mode
          /\ s.start = r.start /\ s.end = r.end
          /\ s.channels = r.channels /\ s.seen = r.seen
          /\ s.attempted = r.attempted /\ s.video = r.video
          /\ s.pc = "deliver"
      BY <1>1 DEF Runs, RunFields, Attempt
    <3>2. r.pc = "process"
      BY <1>5 DEF Summarize
    <3> HIDE DEF s
    <3>3. RunInv(s)
      BY <1>1, <3>1, <3>2, SameWalk DEF RunInv
    <3> QED
      BY <3>3 DEF s
  <2> QED
    BY <1>1, <1>5, <2>1, QuietStep DEF Summarize, Attempt, Quiet, world, outcomes,
                                      Runs, RunFields
<1>6. CASE Deliver(p)
  <2>1. ASSUME NEW b \in BOOLEAN
        PROVE  RunInv([r EXCEPT !.pc = "settle_read", !.delivered = b])
    <3> DEFINE s == [r EXCEPT !.pc = "settle_read", !.delivered = b]
    <3>1. /\ s.limit = r.limit /\ s.mode = r.mode
          /\ s.start = r.start /\ s.end = r.end
          /\ s.channels = r.channels /\ s.seen = r.seen
          /\ s.attempted = r.attempted /\ s.video = r.video
          /\ s.pc = "settle_read"
      BY <1>1 DEF Runs, RunFields
    <3>2. r.pc = "deliver"
      BY <1>6 DEF Deliver
    <3> HIDE DEF s
    <3>3. RunInv(s)
      BY <1>1, <3>1, <3>2, SameWalk DEF RunInv
    <3> QED
      BY <3>3 DEF s
  <2> QED
    BY <1>1, <1>6, <2>1, QuietStep DEF Deliver, Attempt, Quiet, world, outcomes,
                                      Runs, RunFields
<1>7. CASE SettleRead(p)
  <2>1. RunInv([r EXCEPT !.pc = "settle_write", !.doc = pending])
    <3> DEFINE s == [r EXCEPT !.pc = "settle_write", !.doc = pending]
    <3>1. /\ s.limit = r.limit /\ s.mode = r.mode
          /\ s.start = r.start /\ s.end = r.end
          /\ s.channels = r.channels /\ s.seen = r.seen
          /\ s.attempted = r.attempted /\ s.video = r.video
          /\ s.pc = "settle_write" /\ s.doc = pending
      BY <1>1 DEF Runs, RunFields
    <3>2. r.pc = "settle_read"
      BY <1>7 DEF SettleRead
    <3> HIDE DEF s
    <3>3. RunInv(s)
      BY <1>1, <3>1, <3>2, SameWalk DEF RunInv
    <3> QED
      BY <3>3 DEF s
  <2> QED
    BY <1>1, <1>7, <2>1, QuietStep DEF SettleRead, Attempt, Quiet, world, outcomes,
                                      Runs, RunFields
<1>8. CASE RecordRead(p)
  <2>1. RunInv([r EXCEPT !.pc = "record_write", !.doc = pending])
    <3> DEFINE s == [r EXCEPT !.pc = "record_write", !.doc = pending]
    <3>1. /\ s.limit = r.limit /\ s.mode = r.mode
          /\ s.start = r.start /\ s.end = r.end
          /\ s.channels = r.channels /\ s.seen = r.seen
          /\ s.attempted = r.attempted /\ s.video = r.video
          /\ s.pc = "record_write" /\ s.doc = pending
      BY <1>1 DEF Runs, RunFields
    <3>2. r.pc = "record_read"
      BY <1>8 DEF RecordRead
    <3> HIDE DEF s
    <3>3. RunInv(s)
      BY <1>1, <3>1, <3>2, SameWalk DEF RunInv
    <3> QED
      BY <3>3 DEF s
  <2> QED
    BY <1>1, <1>8, <2>1, QuietStep DEF RecordRead, Attempt, Quiet, world, outcomes,
                                      Runs, RunFields
<1>9. CASE Finish(p)
  <2>1. RunInv([r EXCEPT !.pc = "complete"])
    <3> DEFINE s == [r EXCEPT !.pc = "complete"]
    <3>1. /\ s.limit = r.limit /\ s.mode = r.mode
          /\ s.start = r.start /\ s.end = r.end
          /\ s.channels = r.channels /\ s.seen = r.seen
          /\ s.attempted = r.attempted /\ s.video = r.video
          /\ s.pc = "complete"
      BY <1>1 DEF Runs, RunFields
    <3>2. r.pc = "finish"
      BY <1>9 DEF Finish
    <3> HIDE DEF s
    <3>3. RunInv(s)
      BY <1>1, <3>1, <3>2, SameWalk DEF RunInv
    <3> QED
      BY <3>3 DEF s
  <2> QED
    BY <1>1, <1>9, <2>1, QuietStep DEF Finish, Attempt, Quiet, world, outcomes,
                                      Runs, RunFields
<1>10. ASSUME r.pc \in {"retry", "discover"}
       PROVE  \A v \in r.attempted : Accounted(v)
  BY <1>1, <1>10 DEF RunInv, Runs, RunFields, AttemptSteps
<1>11. CASE RetryNext(p)
  <2>1. r.pc = "retry"
    BY <1>11 DEF RetryNext
  <2>2. ASSUME NEW v \in r.queue \ withdrawn
        PROVE  RunInv([r EXCEPT !.pc = "process", !.video = v,
                                !.queue = @ \ {v},
                                !.attempted = @ \cup {v}])
    <3> DEFINE s == [r EXCEPT !.pc = "process", !.video = v,
                              !.queue = @ \ {v},
                              !.attempted = @ \cup {v}]
    <3>1. /\ s.pc = "process" /\ s.limit = r.limit /\ s.mode = r.mode
          /\ s.start = r.start /\ s.end = r.end
          /\ s.channels = r.channels /\ s.seen = r.seen
          /\ s.attempted = r.attempted \cup {v} /\ s.video = v
      BY <1>1 DEF Runs, RunFields
    <3> HIDE DEF s
    <3>2. RunInv(s)
      BY <1>1, <1>10, <2>1, <3>1 DEF RunInv, InWindow, Walked
    <3> QED
      BY <3>2 DEF s
  <2> QED
    BY <1>1, <1>11, <2>2, QuietStep DEF RetryNext, Quiet, world, outcomes,
                                        Runs, RunFields
<1>12. CASE RetryEnds(p)
  <2> DEFINE s == [r EXCEPT !.pc = "discover", !.mode = "discover",
                            !.channels = Channel]
  <2>1. /\ s.pc = "discover" /\ s.mode = "discover" /\ s.limit = r.limit
        /\ s.start = r.start /\ s.channels = Channel
        /\ s.seen = r.seen /\ s.attempted = r.attempted /\ s.video = r.video
    BY <1>1 DEF Runs, RunFields
  <2>2. r.pc = "retry" /\ \A v \in Video : ChannelOf[v] \in Channel
    BY <1>12, ChannelAssumption DEF RetryEnds
  <2> HIDE DEF s
  <2>3. RunInv(s)
    BY <1>1, <2>1, <2>2 DEF RunInv
  <2> QED
    BY <1>1, <1>12, <2>1, <2>3, QuietStep DEF RetryEnds, s, Quiet, world, outcomes
<1>13. CASE DiscoverNext(p)
  <2>1. r.pc = "discover"
    BY <1>13 DEF DiscoverNext
  <2>2. ASSUME NEW v \in Unseen(r) \ r.attempted
        PROVE  RunInv([r EXCEPT !.pc = "process", !.video = v,
                                !.seen = @ \cup {v},
                                !.attempted = @ \cup {v}])
    <3> DEFINE s == [r EXCEPT !.pc = "process", !.video = v,
                              !.seen = @ \cup {v},
                              !.attempted = @ \cup {v}]
    <3>1. /\ s.pc = "process" /\ s.limit = r.limit /\ s.mode = r.mode
          /\ s.start = r.start /\ s.end = r.end
          /\ s.channels = r.channels /\ s.seen = r.seen \cup {v}
          /\ s.attempted = r.attempted \cup {v} /\ s.video = v
      BY <1>1 DEF Runs, RunFields
    <3> HIDE DEF s
    <3>2. RunInv(s)
      BY <1>1, <1>10, <2>1, <3>1 DEF RunInv, InWindow, Walked
    <3> QED
      BY <3>2 DEF s
  <2> QED
    BY <1>1, <1>13, <2>2, QuietStep DEF DiscoverNext, Quiet, world, outcomes,
                                        Runs, RunFields
<1>14. CASE SkipAttempted(p)
  <2>1. ASSUME NEW v \in Unseen(r) \cap r.attempted
        PROVE  RunInv([r EXCEPT !.seen = @ \cup {v}])
    <3> DEFINE s == [r EXCEPT !.seen = @ \cup {v}]
    <3>1. /\ s.pc = r.pc /\ s.limit = r.limit /\ s.mode = r.mode
          /\ s.start = r.start /\ s.end = r.end /\ s.doc = r.doc
          /\ s.channels = r.channels /\ s.seen = r.seen \cup {v}
          /\ s.attempted = r.attempted /\ s.video = r.video
      BY <1>1 DEF Runs, RunFields
    <3> HIDE DEF s
    <3>2. RunInv(s)
      BY <1>1, <3>1 DEF RunInv, InWindow, Walked
    <3> QED
      BY <3>2 DEF s
  <2> QED
    BY <1>1, <1>14, <2>1, QuietStep DEF SkipAttempted, Quiet, world, outcomes,
                                        Runs, RunFields
<1>15. CASE DiscoveryEnds(p)
  <2> DEFINE s == [r EXCEPT !.pc = "finish"]
  <2>1. /\ s.pc = "finish" /\ s.limit = r.limit /\ s.mode = r.mode
        /\ s.start = r.start /\ s.end = r.end
        /\ s.channels = r.channels /\ s.seen = r.seen
        /\ s.attempted = r.attempted /\ s.video = r.video
    BY <1>1 DEF Runs, RunFields
  <2>2. r.pc = "discover" /\ Unseen(r) = {}
    BY <1>15 DEF DiscoveryEnds
  <2>3. \A v \in Video : InWindow(v, r) => Walked(v, r)
    BY <1>1, <2>2 DEF RunInv, Unseen, Walked
  <2> HIDE DEF s
  <2>4. RunInv(s)
    BY <1>1, <2>1, <2>2, <2>3 DEF RunInv, InWindow, Walked
  <2> QED
    BY <1>1, <1>15, <2>1, <2>4, QuietStep
       DEF DiscoveryEnds, s, Quiet, world, outcomes
<1> QED
  BY <1>2, <1>3, <1>4, <1>5, <1>6, <1>7, <1>8, <1>9, <1>11, <1>12, <1>13,
     <1>14, <1>15 DEF QuietAction

------------------------------------------------------------------------------
\* The other steps.

\* Withdrawals and fates only add to what a run has dealt with.
LEMMA GrowingRunInv ==
  ASSUME NEW r, RunInv(r), r.attempted \subseteq Video,
         pending' = pending, covered' = covered, publishedAt' = publishedAt,
         withdrawn \subseteq withdrawn',
         \A v \in Video : fate[v] # "open" => fate'[v] # "open"
  PROVE  RunInv(r)'
<1>1. \A v \in Video : Walked(v, r) => Walked(v, r)'
  BY DEF Walked
<1>2. \A v \in Video : Accounted(v) => Accounted(v)'
  BY AccountedGrows DEF PendingVideos
<1>3. \A v \in Video : InWindow(v, r)' <=> InWindow(v, r)
  BY DEF InWindow
<1> QED
  BY <1>1, <1>2, <1>3 DEF RunInv

\* The start of a run, which continues the window on disk.
LEMMA StartStep ==
  ASSUME Limits = {0}, LossInv, TypeOK', NEW p \in Proc, Alone(p),
         \/ \E limit \in Limits : StartSubscriptions(p, limit)
         \/ \E v \in Video : StartSingle(p, v)
  PROVE  LossInv'
<1>1. run[p].pc = "idle"
  BY DEF StartSubscriptions, StartSingle
<1>2. cutoff = covered
  BY <1>1 DEF LossInv, CutoffPreserved, Alone
<1>3. CASE \E v \in Video : StartSingle(p, v)
  <2>1. PICK v \in Video : StartSingle(p, v)
    BY <1>3
  <2>2. RunInv([IdleRun EXCEPT !.pc = "process", !.video = v])
    BY DEF RunInv, IdleRun
  <2> QED
    BY <1>1, <2>1, <2>2, QuietStep
       DEF StartSingle, IdleRun, Quiet, world, outcomes
<1>4. CASE \E limit \in Limits : StartSubscriptions(p, limit)
  <2> DEFINE r == [IdleRun EXCEPT !.pc = "read_pending", !.mode = "retry",
                                  !.limit = 0, !.end = now,
                                  !.start = WindowStart(cutoff, now)]
  <2>1. StartSubscriptions(p, 0)
    BY <1>4
  <2>2. RunInv(r)
    BY <1>2 DEF RunInv, IdleRun, WindowStart
  <2> QED
    BY <1>1, <2>1, <2>2, QuietStep
       DEF StartSubscriptions, IdleRun, Quiet, world, outcomes
<1> QED
  BY <1>3, <1>4

\* The environment.
LEMMA EnvironmentStep ==
  ASSUME LossInv, TypeOK',
         Tick \/ (\E v \in Video : Withdraw(v)) \/ UNCHANGED vars
  PROVE  LossInv'
<1>1. /\ UNCHANGED <<publishedAt, disk, run, fate, windows>>
      /\ withdrawn \subseteq withdrawn'
  BY DEF Tick, Withdraw, vars, world, outcomes
<1>2. \A p \in Proc : RunInv(run[p])'
  <2> TAKE p \in Proc
  <2>1. RunInv(run[p]) /\ run[p].attempted \subseteq Video
    BY DEF LossInv, TypeOK, Runs, RunFields
  <2>2. run'[p] = run[p]
    BY <1>1
  <2> QED
    BY <1>1, <2>1, <2>2, GrowingRunInv DEF disk, windows, RunInv
<1>3. \A v \in Video : Accounted(v) => Accounted(v)'
  BY <1>1, AccountedGrows DEF disk, PendingVideos
<1>4. CutoffPreserved' /\ NoSilentLoss'
  BY <1>1, <1>3 DEF LossInv, CutoffPreserved, NoSilentLoss, InFallback, disk, windows
<1> QED
  BY <1>2, <1>4 DEF LossInv

LEMMA ChannelStep ==
  ASSUME LossInv, TypeOK', NEW p \in Proc, Alone(p), NEW c \in Channel,
         ChannelUnavailable(p, c)
  PROVE  LossInv'
<1>1. PICK r : r = run[p]
  OBVIOUS
<1>2. PICK s : s = [r EXCEPT !.channels = @ \ {c}]
  OBVIOUS
<1>3. r \in Runs /\ RunInv(r) /\ r.pc = "discover" /\ TypeOK
  BY <1>1 DEF LossInv, TypeOK, ChannelUnavailable
<1>4. /\ s.pc = r.pc /\ s.limit = r.limit /\ s.mode = r.mode
      /\ s.start = r.start /\ s.end = r.end
      /\ s.channels = r.channels \ {c} /\ s.seen = r.seen
      /\ s.attempted = r.attempted /\ s.video = r.video
  BY <1>2, <1>3 DEF Runs, RunFields
<1>5. /\ UNCHANGED <<publishedAt, withdrawn, disk, windows>>
      /\ \A v \in Video : fate[v] # "open" => fate'[v] # "open"
      /\ \A v \in Unseen(r) : ChannelOf[v] = c => fate'[v] # "open"
      /\ Become(p, s)
  BY <1>1, <1>2 DEF ChannelUnavailable, Explain, Unseen, world
<1>6. RunInv(r)'
  <2>1. r.attempted \subseteq Video
    BY <1>3 DEF Runs, RunFields
  <2> QED
    BY <1>3, <1>5, <2>1, GrowingRunInv DEF disk, windows
<1>7. ASSUME NEW v \in Video, InWindow(v, s)'
      PROVE  ChannelOf[v] \in s.channels \/ Walked(v, s)'
  <2>1. InWindow(v, r) /\ InWindow(v, r)'
    BY <1>4, <1>5, <1>7 DEF InWindow
  <2>2. ChannelOf[v] \in r.channels \/ Walked(v, r)'
    BY <1>3, <1>6, <2>1 DEF RunInv
  <2>3. ChannelOf[v] = c /\ c \in r.channels => Walked(v, r)'
    BY <1>3, <1>5, <2>1 DEF Unseen, Walked
  <2> QED
    BY <1>4, <2>2, <2>3 DEF Walked
<1>8. RunInv(s)'
  BY <1>3, <1>4, <1>6, <1>7 DEF RunInv
<1>9. (\A q \in Proc : RunInv(run[q]))'
  BY <1>3, <1>5, <1>8, SoleRun
<1>10. CutoffPreserved' /\ NoSilentLoss'
  <2>1. \A q \in Proc : run[q].pc \notin {"fallback", "write_cutoff"}
    BY <1>1, <1>3 DEF Alone
  <2>2. \A v \in Video : Accounted(v) => Accounted(v)'
    BY <1>5, AccountedGrows DEF disk, PendingVideos
  <2>3. cutoff' = covered'
    BY <1>5, <2>1 DEF LossInv, CutoffPreserved, disk, windows
  <2>4. \A v \in Video : ~ InFallback(v)
    BY <2>1 DEF InFallback
  <2> QED
    BY <1>5, <2>2, <2>3, <2>4 DEF LossInv, NoSilentLoss, CutoffPreserved, windows
<1> QED
  BY <1>9, <1>10 DEF LossInv

\* What holds of the history when an attempt or a run ends.
LEMMA EndStep ==
  ASSUME LossInv, TypeOK', NEW p \in Proc, Alone(p), NEW s,
         Become(p, s), RunInv(s)',
         run[p].pc # "write_cutoff", s.pc # "write_cutoff",
         UNCHANGED <<publishedAt, cutoff, windows>>,
         \A v \in Video :
           (Accounted(v) \/ (run[p].pc = "fallback" /\ run[p].video = v))
             => Accounted(v)' \/ (s.pc = "fallback" /\ s.video = v)
  PROVE  LossInv'
<1>1. run'[p] = s /\ (\A q \in Proc : RunInv(run[q]))'
  BY SoleRun DEF LossInv
<1>2. \A q \in Proc \ {p} : run'[q].pc = "idle" /\ run[q].pc = "idle"
  BY SoleRun DEF LossInv, Alone
<1>3. CutoffPreserved'
  BY <1>2 DEF LossInv, CutoffPreserved, windows
<1>4. \A v \in Video : InFallback(v)' <=> (s.pc = "fallback" /\ s.video = v)
  BY <1>1, <1>2 DEF InFallback
<1>5. \A v \in Video :
        InFallback(v) <=> (run[p].pc = "fallback" /\ run[p].video = v)
  BY <1>2 DEF InFallback
<1>6. NoSilentLoss'
  BY <1>4, <1>5 DEF LossInv, NoSilentLoss, windows
<1> QED
  BY <1>1, <1>3, <1>6 DEF LossInv

\* A run resumes from an attempt that left its video accounted for.
LEMMA ResumeRunInv ==
  ASSUME NEW r \in Runs, NEW delivered \in BOOLEAN, NEW s,
         s = Resume(r, delivered), RunInv(r),
         r.pc \in AttemptSteps,
         UNCHANGED <<publishedAt, withdrawn, windows>>,
         \A v \in Video : fate[v] # "open" => fate'[v] # "open",
         \A v \in Video : Accounted(v) => Accounted(v)',
         Accounted(r.video)'
  PROVE  RunInv(s)'
<1>1. CASE r.mode = "single"
  <2>1. s = IdleRun
    BY <1>1, ResumeEffect
  <2> QED
    BY <2>1, IdleRunType DEF RunInv, IdleRun
<1>2. CASE r.mode # "single"
  <2>1. /\ s.mode = r.mode /\ s.limit = r.limit
        /\ s.start = r.start /\ s.end = r.end
        /\ s.attempted = r.attempted
        /\ s.channels = r.channels /\ s.seen = r.seen
    BY <1>2, ResumeEffect
  <2>2. ~ Full(s)
    BY <2>1 DEF RunInv, Full
  <2>3. \/ s.pc = "retry" /\ s.mode = "retry"
        \/ s.pc = "discover" /\ s.mode = "discover"
    BY <1>2, <2>2, ResumeEffect
  <2>4. \A v \in Video : InWindow(v, s)' <=> InWindow(v, r)
    BY <2>1 DEF InWindow
  <2>5. \A v \in Video : Walked(v, r) => Walked(v, s)'
    BY <2>1 DEF Walked
  <2>6. \A v \in s.attempted : Accounted(v)'
    BY <2>1 DEF RunInv, Runs, RunFields
  <2> QED
    BY <2>1, <2>3, <2>4, <2>5, <2>6 DEF RunInv, windows
<1> QED
  BY <1>1, <1>2

LEMMA SettleStep ==
  ASSUME LossInv, TypeOK', NEW p \in Proc, Alone(p), SettleWrite(p)
  PROVE  LossInv'
<1>1. PICK r : r = run[p]
  OBVIOUS
<1>2. /\ r \in Runs /\ RunInv(r) /\ r.pc = "settle_write"
      /\ r.video \in Video /\ r.delivered \in BOOLEAN /\ r.doc = pending
  <2>1. r \in Runs /\ RunInv(r) /\ r.pc = "settle_write"
    BY <1>1 DEF LossInv, TypeOK, SettleWrite
  <2> QED
    BY <2>1 DEF RunInv, Runs, RunFields, AttemptSteps
<1>3. PICK s : s = Resume(r, r.delivered)
  OBVIOUS
<1>4. /\ Become(p, s)
      /\ UNCHANGED <<publishedAt, withdrawn, cutoff, windows>>
      /\ fate' = [fate EXCEPT ![r.video] = "settled"]
      /\ pending' \in {pending, CompleteRetry(pending, r.video)}
  BY <1>1, <1>2, <1>3 DEF SettleWrite, Settle, world
<1>5. pending \in Documents /\ fate \in [Video -> Fates]
  BY DEF LossInv, TypeOK
<1>6. /\ \A v \in Video : fate[v] # "open" => fate'[v] # "open"
      /\ fate'[r.video] # "open"
  BY <1>2, <1>4, <1>5
<1>7. Accounted(r.video)'
  BY <1>6 DEF Accounted
<1>8. ASSUME NEW v \in Video, Accounted(v)
      PROVE  Accounted(v)'
  <2>1. CASE v = r.video
    BY <1>7, <2>1
  <2>2. CASE v # r.video
    <3>1. pending'[v] = pending[v]
      BY <1>4, <1>5, <2>2 DEF CompleteRetry, Documents
    <3> QED
      BY <1>4, <1>6, <1>8, <3>1, AccountedGrows DEF PendingVideos
  <2> QED
    BY <2>1, <2>2
<1>9. RunInv(s)'
  BY <1>2, <1>3, <1>4, <1>6, <1>7, <1>8, ResumeRunInv DEF AttemptSteps
<1>10. s.pc # "write_cutoff"
  BY <1>2, <1>3, ResumeEffect, IdleRunType
<1> QED
  BY <1>1, <1>2, <1>4, <1>8, <1>9, <1>10, EndStep

LEMMA RecordStep ==
  ASSUME LossInv, TypeOK', NEW p \in Proc, Alone(p), RecordWrite(p)
  PROVE  LossInv'
<1>1. PICK r : r = run[p]
  OBVIOUS
<1>2. /\ r \in Runs /\ RunInv(r) /\ r.pc = "record_write"
      /\ r.video \in Video /\ r.doc = pending
  <2>1. r \in Runs /\ RunInv(r) /\ r.pc = "record_write"
    BY <1>1 DEF LossInv, TypeOK, RecordWrite
  <2> QED
    BY <2>1 DEF RunInv, Runs, RunFields, AttemptSteps
<1>3. /\ UNCHANGED <<publishedAt, withdrawn, cutoff, fate, windows>>
      /\ pending' = RecordFailure(pending, r.video)
      /\ Become(p, IF AttemptNumber(pending, r.video) < MaxAttempts
                     THEN Resume(r, FALSE)
                     ELSE [r EXCEPT !.pc = "fallback", !.doc = NoFailures])
  BY <1>1, <1>2 DEF RecordWrite, world, outcomes
<1>4. pending \in Documents
  BY DEF LossInv, TypeOK
<1>5. ASSUME NEW v \in Video, v # r.video, Accounted(v)
      PROVE  Accounted(v)'
  <2>1. pending'[v] = pending[v]
    BY <1>3, <1>4, <1>5 DEF RecordFailure, Documents
  <2> QED
    BY <1>3, <1>5, <2>1, AccountedGrows DEF PendingVideos
<1>6. CASE AttemptNumber(pending, r.video) < MaxAttempts
  <2>1. PICK s : s = Resume(r, FALSE)
    OBVIOUS
  <2>2. pending'[r.video] = pending[r.video] + 1 /\ pending[r.video] \in Nat
    <3>1. pending[r.video] \in 0 .. MaxAttempts - 1 /\ MaxAttempts \in Int
      BY <1>2, <1>4, MaxAttemptsAssumption DEF Documents
    <3>2. pending'[r.video] = AttemptNumber(pending, r.video)
      <4>1. ~ (AttemptNumber(pending, r.video) >= MaxAttempts)
        BY <1>6, <3>1 DEF AttemptNumber
      <4> QED
        BY <1>2, <1>3, <1>4, <4>1 DEF RecordFailure, Documents
    <3> QED
      BY <3>1, <3>2 DEF AttemptNumber
  <2>3. Accounted(r.video)'
    BY <1>2, <2>2 DEF Accounted, PendingVideos
  <2>4. \A v \in Video : Accounted(v) => Accounted(v)'
    BY <1>5, <2>3
  <2>5. RunInv(s)'
    BY <1>2, <1>3, <2>1, <2>3, <2>4, ResumeRunInv DEF AttemptSteps
  <2>6. s.pc # "write_cutoff"
    BY <1>2, <2>1, ResumeEffect, IdleRunType
  <2> QED
    BY <1>1, <1>2, <1>3, <1>6, <2>1, <2>4, <2>5, <2>6, EndStep
<1>7. CASE ~ (AttemptNumber(pending, r.video) < MaxAttempts)
  <2>1. PICK s : s = [r EXCEPT !.pc = "fallback", !.doc = NoFailures]
    OBVIOUS
  <2>2. /\ s.pc = "fallback" /\ s.limit = r.limit /\ s.mode = r.mode
        /\ s.start = r.start /\ s.end = r.end
        /\ s.channels = r.channels /\ s.seen = r.seen
        /\ s.attempted = r.attempted /\ s.video = r.video
    BY <1>2, <2>1 DEF Runs, RunFields
  <2>3. \A v \in Video : InWindow(v, s)' <=> InWindow(v, r)
    BY <1>3, <2>2 DEF InWindow
  <2>4. \A v \in Video : Walked(v, s)' <=> Walked(v, r)
    BY <1>3, <2>2 DEF Walked
  <2>5. \A v \in s.attempted : Accounted(v)' \/ v = s.video
    BY <1>2, <1>5, <2>2 DEF RunInv, Runs, RunFields
  <2>6. RunInv(s)'
    BY <1>2, <1>3, <2>2, <2>3, <2>4, <2>5 DEF RunInv, windows
  <2> QED
    BY <1>1, <1>2, <1>3, <1>5, <1>7, <2>1, <2>2, <2>6, EndStep
<1> QED
  BY <1>6, <1>7

LEMMA FallbackStep ==
  ASSUME LossInv, TypeOK', NEW p \in Proc, Alone(p), Fallback(p)
  PROVE  LossInv'
<1>1. PICK r : r = run[p]
  OBVIOUS
<1>2. /\ r \in Runs /\ RunInv(r) /\ r.pc = "fallback" /\ r.video \in Video
  BY <1>1 DEF LossInv, TypeOK, Fallback, Runs, AttemptSteps
<1>3. PICK delivered \in BOOLEAN : Become(p, Resume(r, delivered))
  <2>1. PICK result \in SendResults : Become(p, Resume(r, result = "sent"))
    BY <1>1 DEF Fallback
  <2>2. (result = "sent") \in BOOLEAN
    OBVIOUS
  <2> QED
    BY <2>1, <2>2
<1>4. PICK s : s = Resume(r, delivered)
  OBVIOUS
<1>5. /\ UNCHANGED <<publishedAt, withdrawn, disk, windows>>
      /\ fate' = [fate EXCEPT ![r.video] = "settled"]
      /\ fate \in [Video -> Fates]
  BY <1>1 DEF Fallback, Settle, world, LossInv, TypeOK
<1>6. /\ \A v \in Video : fate[v] # "open" => fate'[v] # "open"
      /\ fate'[r.video] # "open"
  BY <1>2, <1>5
<1>7. Accounted(r.video)'
  BY <1>6 DEF Accounted
<1>8. \A v \in Video : Accounted(v) => Accounted(v)'
  BY <1>5, <1>6, AccountedGrows DEF disk, PendingVideos
<1>9. RunInv(s)'
  BY <1>2, <1>4, <1>5, <1>6, <1>7, <1>8, ResumeRunInv DEF AttemptSteps
<1>10. s.pc # "write_cutoff"
  BY <1>2, <1>4, ResumeEffect, IdleRunType
<1> QED
  BY <1>1, <1>2, <1>3, <1>4, <1>5, <1>7, <1>8, <1>9, <1>10, EndStep DEF disk

\* A run that ends early accounts for a video whose fallback it cuts short.
LEMMA AbortStep ==
  ASSUME LossInv, TypeOK', NEW p \in Proc, Alone(p), Abort(p),
         run[p].pc # "write_cutoff"
  PROVE  LossInv'
<1>1. /\ UNCHANGED <<publishedAt, withdrawn, disk, windows>>
      /\ \A v \in Video : fate[v] # "open" => fate'[v] # "open"
      /\ \A v \in Video : run[p].pc = "fallback" /\ run[p].video = v
                           => fate'[v] # "open"
      /\ Become(p, IdleRun)
  BY DEF Abort, Explain, world
<1>2. \A v \in Video : Accounted(v) => Accounted(v)'
  BY <1>1, AccountedGrows DEF disk, PendingVideos
<1>3. \A v \in Video : run[p].pc = "fallback" /\ run[p].video = v => Accounted(v)'
  BY <1>1 DEF Accounted
<1>4. RunInv(IdleRun)'
  BY DEF RunInv, IdleRun
<1> QED
  BY <1>1, <1>2, <1>3, <1>4, IdleRunType, EndStep DEF disk

\* The window is completed: write_text empties the file first.
LEMMA TruncateStep ==
  ASSUME LossInv, TypeOK', NEW p \in Proc, Alone(p), TruncateCutoff(p)
  PROVE  LossInv'
<1>1. PICK r : r = run[p]
  OBVIOUS
<1>2. PICK s : s = [r EXCEPT !.pc = "write_cutoff"]
  OBVIOUS
<1>3. /\ r \in Runs /\ RunInv(r) /\ r.pc = "complete"
      /\ Become(p, s)
      /\ UNCHANGED <<publishedAt, withdrawn, pending, fate, windows>>
  BY <1>1, <1>2 DEF LossInv, TypeOK, TruncateCutoff, world, outcomes
<1>4. /\ s.pc = "write_cutoff" /\ s.limit = r.limit /\ s.mode = r.mode
      /\ s.start = r.start /\ s.end = r.end
      /\ s.channels = r.channels /\ s.seen = r.seen
      /\ s.attempted = r.attempted /\ s.video = r.video
  BY <1>2, <1>3 DEF Runs, RunFields
<1>5. RunInv(s)'
  <2>1. RunInv(s)
    BY <1>3, <1>4, SameWalk
  <2>2. \A v \in Video : Accounted(v) => Accounted(v)'
    BY <1>3 DEF Accounted, PendingVideos
  <2>3. \A v \in Video : /\ InWindow(v, s)' <=> InWindow(v, s)
                         /\ Walked(v, s)' <=> Walked(v, s)
    BY <1>3 DEF InWindow, Walked
  <2>4. s.attempted \subseteq Video
    BY <1>3, <1>4 DEF Runs, RunFields
  <2> QED
    BY <1>3, <1>4, <2>1, <2>2, <2>3, <2>4 DEF RunInv, windows
<1>6. run'[p] = s /\ (\A q \in Proc : RunInv(run[q]))'
  BY <1>3, <1>5, SoleRun DEF LossInv
<1>7. CutoffPreserved'
  BY <1>4, <1>6 DEF CutoffPreserved
<1>8. NoSilentLoss'
  <2>1. \A q \in Proc : run[q].pc # "fallback"
    BY <1>1, <1>3 DEF Alone
  <2>2. \A v \in Video : ~ InFallback(v)
    BY <2>1 DEF InFallback
  <2>3. \A v \in Video : Accounted(v) <=> Accounted(v)'
    BY <1>3 DEF Accounted, PendingVideos
  <2> QED
    BY <1>3, <2>2, <2>3 DEF LossInv, NoSilentLoss, windows
<1> QED
  BY <1>6, <1>7, <1>8 DEF LossInv

\* The new window begins where the last one ended, and whatever was published
\* in it has been walked, so it is accounted for.
LEMMA WriteStep ==
  ASSUME LossInv, TypeOK', NEW p \in Proc, Alone(p), WriteCutoff(p)
  PROVE  LossInv'
<1>1. PICK r : r = run[p]
  OBVIOUS
<1>2. /\ r \in Runs /\ RunInv(r) /\ r.pc = "write_cutoff"
      /\ r.start \in Int /\ r.end \in Int /\ r.video \notin Video
      /\ r.seen \subseteq Video /\ r.mode = "discover"
  <2>1. r \in Runs /\ RunInv(r) /\ r.pc = "write_cutoff"
    BY <1>1 DEF LossInv, TypeOK, WriteCutoff
  <2> QED
    BY <2>1 DEF RunInv, Runs, RunFields, AttemptSteps
<1>3. /\ Become(p, IdleRun)
      /\ cutoff' = r.end /\ covered' = r.end
      /\ first' = IF covered = NoCutoff THEN r.start ELSE first
      /\ UNCHANGED <<publishedAt, withdrawn, pending, fate>>
  BY <1>1 DEF WriteCutoff, world, outcomes
<1>4. (\A q \in Proc : RunInv(run[q]))'
  <2>1. RunInv(IdleRun)'
    BY DEF RunInv, IdleRun
  <2> QED
    BY <1>3, <2>1, SoleRun DEF LossInv
<1>5. CutoffPreserved'
  BY <1>3 DEF CutoffPreserved
<1>6. ASSUME NEW v \in Video, InWindow(v, r)
      PROVE  Accounted(v)
  <2>1. Walked(v, r)
    BY <1>2, <1>6 DEF RunInv
  <2>2. v \in r.seen => Accounted(v)
    BY <1>2 DEF RunInv
  <2> QED
    BY <2>1, <2>2 DEF Walked, Accounted
<1>7. NoSilentLoss'
  <2>1. SUFFICES ASSUME NEW v \in Video,
                        first' <= publishedAt[v], publishedAt[v] < covered'
                 PROVE  Accounted(v)'
    BY <1>3 DEF NoSilentLoss
  <2>2. publishedAt[v] \in Int /\ first \in Int /\ covered \in Int
    <3>1. /\ publishedAt \in [Video -> PublishTimes]
          /\ first \in Int /\ covered \in Int
      BY DEF LossInv, TypeOK
    <3>2. publishedAt[v] \in PublishTimes
      BY <3>1
    <3>3. publishedAt[v] \in Nat
      BY <3>2, TimeAssumption
    <3> QED
      BY <3>1, <3>3
  <2>3. \A q \in Proc : run[q].pc # "fallback"
    BY <1>1, <1>2 DEF Alone
  <2>4. ~ InFallback(v)
    BY <2>3 DEF InFallback
  <2>5. Accounted(v)
    <3>1. CASE publishedAt[v] >= r.start
      BY <1>2, <1>3, <1>6, <2>1, <3>1 DEF InWindow
    <3>2. CASE publishedAt[v] < r.start
      <4>1. covered # NoCutoff
        BY <1>2, <1>3, <2>1, <2>2, <3>2
      <4>2. r.start = covered /\ first' = first
        BY <1>2, <1>3, <4>1 DEF RunInv
      <4> QED
        BY <2>1, <2>2, <2>4, <3>2, <4>2 DEF LossInv, NoSilentLoss
    <3> QED
      BY <1>2, <2>2, <3>1, <3>2
  <2> QED
    BY <1>3, <2>5 DEF Accounted, PendingVideos
<1> QED
  BY <1>4, <1>5, <1>7 DEF LossInv

------------------------------------------------------------------------------
\* The invariant and the theorems.

LEMMA LossInit ==
  ASSUME Init
  PROVE  LossInv
<1>1. TypeOK
  BY InitType
<1>2. \A p \in Proc : run[p] = IdleRun
  BY DEF Init
<1>3. \A p \in Proc : RunInv(run[p])
  BY <1>2, IdleRunInv
<1>4. NoSilentLoss
  <2>1. \A v \in Video : publishedAt[v] \in Nat
    BY <1>1, TimeAssumption DEF TypeOK
  <2>2. first = -1 /\ covered = -1
    BY DEF Init, NoCutoff
  <2>3. ASSUME NEW v \in Video
        PROVE  ~ (publishedAt[v] < covered)
    BY <2>1, <2>2
  <2> QED
    BY <2>3 DEF NoSilentLoss
<1>5. CutoffPreserved
  BY DEF Init, CutoffPreserved
<1> QED
  BY <1>1, <1>3, <1>4, <1>5 DEF LossInv

LEMMA LossNext ==
  ASSUME SingleRun, SingleRun', Limits = {0}, "tear" \notin Events,
         LossInv, [Next]_vars
  PROVE  LossInv'
<1>1. TypeOK'
  BY NextType DEF LossInv
<1>2. CASE Tick \/ (\E v \in Video : Withdraw(v)) \/ UNCHANGED vars
  BY <1>1, <1>2, EnvironmentStep
<1>3. ASSUME NEW p \in Proc,
             \/ \E limit \in Limits : StartSubscriptions(p, limit)
             \/ \E v \in Video : StartSingle(p, v)
      PROVE  LossInv'
  BY <1>1, <1>3, StartsAlone, StartStep DEF LossInv
<1>4. ASSUME NEW p \in Proc, NEW c \in Channel, ChannelUnavailable(p, c)
      PROVE  LossInv'
  BY <1>1, <1>4, StepsAlone, ChannelStep
<1>5. ASSUME NEW p \in Proc, RunStep(p)
      PROVE  LossInv'
  <2>1. ~ Full(run[p]) /\ Alone(p)
    BY <1>5, StepsAlone DEF LossInv, RunInv, Full
  <2>2. CASE QuietAction(p)
    BY <1>1, <2>1, <2>2, QuietActions
  <2>3. CASE RetryStops(p) \/ DiscoverStops(p)
    BY <2>1, <2>3 DEF RetryStops, DiscoverStops
  <2>4. CASE RetryUnavailable(p)
    <3>1. Abort(p) /\ run[p].pc # "write_cutoff"
      BY <2>4 DEF RetryUnavailable
    <3> QED
      BY <1>1, <2>1, <3>1, AbortStep
  <2>5. CASE SettleWrite(p)
    BY <1>1, <2>1, <2>5, SettleStep
  <2>6. CASE RecordWrite(p)
    BY <1>1, <2>1, <2>6, RecordStep
  <2>7. CASE Fallback(p)
    BY <1>1, <2>1, <2>7, FallbackStep
  <2>8. CASE TruncateCutoff(p)
    BY <1>1, <2>1, <2>8, TruncateStep
  <2>9. CASE WriteCutoff(p)
    BY <1>1, <2>1, <2>9, WriteStep
  <2> QED
    BY <1>5, <2>2, <2>3, <2>4, <2>5, <2>6, <2>7, <2>8, <2>9
       DEF RunStep, QuietAction
<1>6. ASSUME NEW p \in Proc, RunEndsEarly(p)
      PROVE  LossInv'
  <2>1. Abort(p) /\ run[p].pc # "write_cutoff"
    BY <1>6 DEF RunEndsEarly, NoticeFails, RunFails, Interrupt, TearCutoff
  <2>2. Alone(p)
    BY <1>6, StepsAlone
  <2> QED
    BY <1>1, <2>1, <2>2, AbortStep
<1> QED
  BY <1>2, <1>3, <1>4, <1>5, <1>6 DEF Next

LEMMA LossInvariant ==
  ASSUME Limits = {0}, "tear" \notin Events
  PROVE  Spec /\ []SingleRun => []LossInv
<1>1. Init => LossInv
  BY LossInit
<1>2. SingleRun /\ SingleRun' /\ LossInv /\ [Next]_vars => LossInv'
  BY LossNext
<1> QED
  BY <1>1, <1>2, PTL DEF Spec

\* Runs that do not overlap, have no limit and write the cutoff file whole lose
\* no video of a completed window (run_subscriptions, _attempt_video).
THEOREM NothingLost ==
  ASSUME Limits = {0}, "tear" \notin Events
  PROVE  Spec /\ []SingleRun => []NoSilentLoss
<1>1. LossInv => NoSilentLoss
  BY DEF LossInv
<1> QED
  BY <1>1, LossInvariant, PTL

------------------------------------------------------------------------------
\* ApplicationPipeline implements DeliveryLedger, under the same assumptions.
\* The windows of subscription runs are proper intervals of the past.

WindowOf(r) == r.mode # "single" => r.start < r.end /\ r.end \in Nat

WindowInv == \A p \in Proc : WindowOf(run[p])

LEMMA IdleWindow == WindowOf(IdleRun)
  BY DEF WindowOf, IdleRun

\* A step that gives a run a proper window, or leaves it the one it has.
LEMMA WindowKept ==
  ASSUME TypeOK, WindowInv, NEW p \in Proc, NEW s, Become(p, s), WindowOf(s)
  PROVE  WindowInv'
<1>1. \A q \in Proc : run'[q] = IF q = p THEN s ELSE run[q]
  BY DEF Become, TypeOK
<1>2. \A q \in Proc : WindowOf(run'[q])
  BY <1>1 DEF WindowInv
<1> QED
  BY <1>2 DEF WindowInv, WindowOf

LEMMA SameWindow ==
  ASSUME NEW r, NEW s, WindowOf(r), s.start = r.start, s.end = r.end,
         s.mode = "single" \/ r.mode # "single"
  PROVE  WindowOf(s)
  BY DEF WindowOf

LEMMA ResumeWindow ==
  ASSUME NEW r \in Runs, NEW delivered \in BOOLEAN, WindowOf(r)
  PROVE  WindowOf(Resume(r, delivered))
<1>1. PICK s : s = Resume(r, delivered)
  OBVIOUS
<1>2. CASE r.mode = "single"
  BY <1>1, <1>2, ResumeEffect, IdleWindow
<1>3. CASE r.mode # "single"
  BY <1>1, <1>3, ResumeEffect, SameWindow
<1> QED
  BY <1>1, <1>2, <1>3

LEMMA WindowNext ==
  ASSUME LossInv, WindowInv, [Next]_vars
  PROVE  WindowInv'
<1>0. TypeOK
  BY DEF LossInv
<1>1. CASE Tick \/ (\E v \in Video : Withdraw(v)) \/ UNCHANGED vars
  <2>1. run' = run
    BY <1>1 DEF Tick, Withdraw, vars
  <2> QED
    BY <2>1 DEF WindowInv, WindowOf
<1>2. ASSUME NEW p \in Proc, NEW limit \in Limits, StartSubscriptions(p, limit)
      PROVE  WindowInv'
  <2> DEFINE s == [IdleRun EXCEPT !.pc = "read_pending", !.mode = "retry",
                                  !.limit = limit, !.end = now,
                                  !.start = WindowStart(cutoff, now)]
  <2>1. s.start = WindowStart(cutoff, now) /\ s.end = now
    BY DEF IdleRun
  <2>2. WindowStart(cutoff, now) < now /\ now \in Nat /\ Become(p, s)
    BY <1>0, <1>2 DEF StartSubscriptions, TypeOK
  <2> HIDE DEF s
  <2>3. WindowOf(s)
    BY <2>1, <2>2 DEF WindowOf
  <2> QED
    BY <1>0, <2>2, <2>3, WindowKept
<1>3. ASSUME NEW p \in Proc, NEW v \in Video, StartSingle(p, v)
      PROVE  WindowInv'
  <2>1. WindowOf([IdleRun EXCEPT !.pc = "process", !.video = v])
    BY DEF WindowOf, IdleRun
  <2> QED
    BY <1>0, <1>3, <2>1, WindowKept DEF StartSingle
<1>4. ASSUME NEW p \in Proc, Abort(p) \/ WriteCutoff(p)
      PROVE  WindowInv'
  BY <1>0, <1>4, IdleWindow, WindowKept DEF Abort, WriteCutoff
<1>5. ASSUME NEW p \in Proc
      PROVE  run[p] \in Runs /\ WindowOf(run[p])
  BY <1>0 DEF TypeOK, WindowInv
<1>6. ASSUME NEW p \in Proc, SettleWrite(p)
      PROVE  WindowInv'
  <2>1. run[p].delivered \in BOOLEAN
    BY <1>5 DEF Runs, RunFields
  <2> QED
    BY <1>0, <1>5, <1>6, <2>1, ResumeWindow, WindowKept DEF SettleWrite
<1>7. ASSUME NEW p \in Proc, Fallback(p)
      PROVE  WindowInv'
  <2>1. PICK result \in SendResults : Become(p, Resume(run[p], result = "sent"))
    BY <1>7 DEF Fallback
  <2>2. (result = "sent") \in BOOLEAN
    OBVIOUS
  <2> QED
    BY <1>0, <1>5, <2>1, <2>2, ResumeWindow, WindowKept
<1>8. ASSUME NEW p \in Proc, RecordWrite(p)
      PROVE  WindowInv'
  <2>1. WindowOf([run[p] EXCEPT !.pc = "fallback", !.doc = NoFailures])
    BY <1>5 DEF WindowOf, Runs, RunFields
  <2>2. WindowOf(Resume(run[p], FALSE))
    BY <1>5, ResumeWindow
  <2> QED
    BY <1>0, <1>8, <2>1, <2>2, WindowKept DEF RecordWrite
<1>9. ASSUME NEW p \in Proc, NEW c \in Channel, ChannelUnavailable(p, c)
      PROVE  WindowInv'
  <2>1. WindowOf([run[p] EXCEPT !.channels = @ \ {c}])
    BY <1>5 DEF WindowOf, Runs, RunFields
  <2> QED
    BY <1>0, <1>9, <2>1, WindowKept DEF ChannelUnavailable
<1>10. ASSUME NEW p \in Proc,
              \/ QuietAction(p) \/ RetryStops(p) \/ DiscoverStops(p)
              \/ TruncateCutoff(p)
       PROVE  WindowInv'
  <2> DEFINE r == run[p]
  <2>1. CASE ReadPending(p) \/ Finish(p) \/ DiscoveryEnds(p) \/ TruncateCutoff(p)
             \/ SettleRead(p) \/ RecordRead(p) \/ SkipShort(p) \/ Summarize(p)
             \/ CaptionsUnavailable(p) \/ RetryStops(p) \/ DiscoverStops(p)
    <3>1. /\ WindowOf([r EXCEPT !.pc = "retry", !.queue = PendingVideos(pending)])
          /\ WindowOf([r EXCEPT !.pc = "complete"])
          /\ WindowOf([r EXCEPT !.pc = "finish"])
          /\ WindowOf([r EXCEPT !.pc = "write_cutoff"])
          /\ WindowOf([r EXCEPT !.pc = "settle_write", !.doc = pending])
          /\ WindowOf([r EXCEPT !.pc = "record_write", !.doc = pending])
          /\ WindowOf([r EXCEPT !.pc = "finish", !.queue = {}, !.stopped = TRUE])
          /\ WindowOf([r EXCEPT !.pc = "finish", !.stopped = TRUE])
          /\ \A step : WindowOf(Attempt(r, step))
      BY <1>5 DEF WindowOf, Runs, RunFields, Attempt
    <3> QED
      BY <1>0, <2>1, <3>1, WindowKept
         DEF ReadPending, Finish, DiscoveryEnds, TruncateCutoff, SettleRead, RecordRead,
             SkipShort, Summarize, CaptionsUnavailable, RetryStops, DiscoverStops
  <2>2. CASE Deliver(p)
    <3>1. \A b : WindowOf([r EXCEPT !.pc = "settle_read", !.delivered = b])
      BY <1>5 DEF WindowOf, Runs, RunFields
    <3> QED
      BY <1>0, <2>2, <3>1, WindowKept DEF Deliver
  <2>3. CASE RetryNext(p)
    <3>1. \A v : WindowOf([r EXCEPT !.pc = "process", !.video = v,
                                    !.queue = @ \ {v}, !.attempted = @ \cup {v}])
      BY <1>5 DEF WindowOf, Runs, RunFields
    <3> QED
      BY <1>0, <2>3, <3>1, WindowKept DEF RetryNext
  <2>4. CASE DiscoverNext(p)
    <3>1. \A v : WindowOf([r EXCEPT !.pc = "process", !.video = v,
                                    !.seen = @ \cup {v}, !.attempted = @ \cup {v}])
      BY <1>5 DEF WindowOf, Runs, RunFields
    <3> QED
      BY <1>0, <2>4, <3>1, WindowKept DEF DiscoverNext
  <2>5. CASE SkipAttempted(p)
    <3>1. \A v : WindowOf([r EXCEPT !.seen = @ \cup {v}])
      BY <1>5 DEF WindowOf, Runs, RunFields
    <3> QED
      BY <1>0, <2>5, <3>1, WindowKept DEF SkipAttempted
  <2>6. CASE RetryEnds(p)
    <3>1. r.mode = "retry"
      BY <2>6 DEF RetryEnds, LossInv, RunInv
    <3>2. WindowOf([r EXCEPT !.pc = "discover", !.mode = "discover",
                             !.channels = Channel])
      BY <1>5, <3>1 DEF WindowOf, Runs, RunFields
    <3> QED
      BY <1>0, <2>6, <3>2, WindowKept DEF RetryEnds
  <2> QED
    BY <1>10, <2>1, <2>2, <2>3, <2>4, <2>5, <2>6 DEF QuietAction
<1>11. ASSUME NEW p \in Proc, RunStep(p) \/ RunEndsEarly(p)
       PROVE  WindowInv'
  BY <1>4, <1>6, <1>7, <1>8, <1>10, <1>11
     DEF RunStep, QuietAction, RunEndsEarly, RetryUnavailable, NoticeFails, RunFails,
         Interrupt, TearCutoff
<1> QED
  BY <1>1, <1>2, <1>3, <1>9, <1>11 DEF Next

------------------------------------------------------------------------------
\* Every step maps to a step of the ledger.

\* A video waits for its captions, or for the end of its last fallback.
Waiting(v) == v \in PendingVideos(pending) \/ InFallback(v)

Closed(v) == fate[v] # "open" \/ v \in withdrawn

StageByCases(v) ==
  IF Closed(v) THEN "closed" ELSE IF Waiting(v) THEN "held" ELSE "open"

LEMMA StageOf ==
  ASSUME NEW v
  PROVE  Stage(v) = StageByCases(v) /\ Stage(v)' = StageByCases(v)'
  BY DEF Stage, StageByCases, Closed, Waiting

\* What a step has to respect to be a move of the ledger.
LEMMA Moves ==
  ASSUME UNCHANGED <<publishedAt, windows>>,
         withdrawn \subseteq withdrawn',
         \A v \in Video : fate[v] # "open" => fate'[v] # "open",
         \A v \in Video : Waiting(v) => Waiting(v)' \/ fate'[v] # "open"
  PROVE  Ledger!Move
<1> DEFINE old == [v \in Video |-> Stage(v)]
           new == [v \in Video |-> Stage(v)]
<1>1. new' \in [Video -> Ledger!Stages]
  BY StageOf DEF StageByCases, Ledger!Stages
<1>2. ASSUME NEW v \in Video
      PROVE  Ledger!Onward(Stage(v), Stage(v)')
  <2>1. Closed(v) => Closed(v)'
    BY DEF Closed
  <2>2. Waiting(v) => Waiting(v)' \/ Closed(v)'
    BY DEF Closed
  <2>3. StageByCases(v) = "closed" => StageByCases(v)' = "closed"
    BY <2>1 DEF StageByCases
  <2>4. StageByCases(v) = "held" => StageByCases(v)' \in {"held", "closed"}
    BY <2>2 DEF StageByCases
  <2>5. StageByCases(v) \in {"open", "held", "closed"}
    BY DEF StageByCases
  <2> QED
    BY <2>3, <2>4, <2>5, StageOf DEF Ledger!Onward
<1>3. \A v \in Video : Ledger!Onward(old[v], new'[v])
  BY <1>2
<1>4. UNCHANGED <<publishedAt, first, covered>>
  BY DEF windows
<1> QED
  BY <1>1, <1>3, <1>4 DEF Ledger!Move

\* A run outside of a fallback leaves the videos in a fallback alone.
LEMMA FallbacksKept ==
  ASSUME TypeOK, NEW p \in Proc, NEW s, Become(p, s), run[p].pc # "fallback",
         NEW v \in Video, InFallback(v)
  PROVE  InFallback(v)'
<1>1. PICK q \in Proc : run[q].pc = "fallback" /\ run[q].video = v
  BY DEF InFallback
<1>2. run'[q] = run[q]
  BY <1>1 DEF Become, TypeOK
<1> QED
  BY <1>1, <1>2 DEF InFallback

\* The steps that change neither document, fate nor window.
LEMMA QuietMoves ==
  ASSUME TypeOK, NEW p \in Proc, NEW s, Become(p, s), run[p].pc # "fallback",
         UNCHANGED <<publishedAt, withdrawn, pending, fate, windows>>
  PROVE  Ledger!Move
<1>1. \A v \in Video : Waiting(v) => Waiting(v)'
  BY FallbacksKept DEF Waiting, PendingVideos
<1> QED
  BY <1>1, Moves

\* A settled video is closed, and the others wait as before.
LEMMA SettleMoves ==
  ASSUME LossInv, NEW p \in Proc, Alone(p), SettleWrite(p) \/ Fallback(p)
  PROVE  Ledger!Move
<1>1. PICK r : r = run[p]
  OBVIOUS
<1>2. /\ r.video \in Video /\ TypeOK
      /\ r.pc = "settle_write" => r.doc = pending
      /\ r.pc \in {"settle_write", "fallback"}
  <2>1. r \in Runs /\ RunInv(r) /\ r.pc \in {"settle_write", "fallback"}
    BY <1>1 DEF LossInv, TypeOK, SettleWrite, Fallback
  <2> QED
    BY <2>1 DEF RunInv, Runs, RunFields, AttemptSteps, LossInv
<1>3. /\ UNCHANGED <<publishedAt, withdrawn, windows>>
      /\ fate' = [fate EXCEPT ![r.video] = "settled"]
      /\ pending' \in {pending, CompleteRetry(pending, r.video)}
  BY <1>1, <1>2 DEF SettleWrite, Fallback, Settle, world, disk
<1>4. fate \in [Video -> Fates] /\ pending \in Documents
  BY <1>2 DEF TypeOK
<1>5. ASSUME NEW v \in Video, Waiting(v)
      PROVE  Waiting(v)' \/ fate'[v] # "open"
  <2>1. CASE v = r.video
    BY <1>3, <1>4, <2>1
  <2>2. CASE v # r.video
    <3>1. pending'[v] = pending[v]
      BY <1>3, <1>4, <2>2 DEF CompleteRetry, Documents
    <3>2. CASE v \in PendingVideos(pending)
      BY <3>1, <3>2 DEF Waiting, PendingVideos
    <3>3. CASE InFallback(v)
      BY <1>1, <2>2, <3>3 DEF InFallback, Alone
    <3> QED
      BY <1>5, <3>2, <3>3 DEF Waiting
  <2> QED
    BY <2>1, <2>2
<1>6. \A v \in Video : fate[v] # "open" => fate'[v] # "open"
  BY <1>3, <1>4
<1> QED
  BY <1>3, <1>5, <1>6, Moves

\* A recorded failure leaves its video in the document or in its fallback.
LEMMA RecordMoves ==
  ASSUME LossInv, NEW p \in Proc, RecordWrite(p)
  PROVE  Ledger!Move
<1>1. PICK r : r = run[p]
  OBVIOUS
<1>2. /\ r \in Runs /\ r.video \in Video /\ r.doc = pending /\ TypeOK
      /\ r.pc = "record_write"
  <2>1. r \in Runs /\ RunInv(r) /\ r.pc = "record_write"
    BY <1>1 DEF LossInv, TypeOK, RecordWrite
  <2> QED
    BY <2>1 DEF RunInv, Runs, RunFields, AttemptSteps, LossInv
<1>3. /\ UNCHANGED <<publishedAt, withdrawn, fate, windows>>
      /\ pending' = RecordFailure(pending, r.video)
      /\ Become(p, IF AttemptNumber(pending, r.video) < MaxAttempts
                     THEN Resume(r, FALSE)
                     ELSE [r EXCEPT !.pc = "fallback", !.doc = NoFailures])
  BY <1>1, <1>2 DEF RecordWrite, world, outcomes
<1>4. pending \in Documents
  BY <1>2 DEF TypeOK
<1>5. Waiting(r.video)'
  <2>0. pending[r.video] \in 0 .. MaxAttempts - 1 /\ MaxAttempts \in Int
    BY <1>2, <1>4, MaxAttemptsAssumption DEF Documents
  <2>1. CASE AttemptNumber(pending, r.video) < MaxAttempts
    <3>1. pending'[r.video] = AttemptNumber(pending, r.video)
      <4>1. ~ (AttemptNumber(pending, r.video) >= MaxAttempts)
        BY <2>0, <2>1 DEF AttemptNumber
      <4> QED
        BY <1>2, <1>3, <1>4, <4>1 DEF RecordFailure, Documents
    <3>2. pending'[r.video] > 0
      BY <2>0, <3>1 DEF AttemptNumber
    <3> QED
      BY <1>2, <3>2 DEF Waiting, PendingVideos
  <2>2. CASE ~ (AttemptNumber(pending, r.video) < MaxAttempts)
    <3>1. PICK s : s = [r EXCEPT !.pc = "fallback", !.doc = NoFailures]
      OBVIOUS
    <3>2. s.pc = "fallback" /\ s.video = r.video
      BY <1>2, <3>1 DEF Runs, RunFields
    <3>3. run'[p] = s
      BY <1>2, <1>3, <2>2, <3>1 DEF Become, TypeOK
    <3> QED
      BY <3>2, <3>3 DEF Waiting, InFallback
  <2> QED
    BY <2>1, <2>2
<1>6. ASSUME NEW v \in Video, v # r.video, Waiting(v)
      PROVE  Waiting(v)'
  <2>1. pending'[v] = pending[v]
    BY <1>3, <1>4, <1>6 DEF RecordFailure, Documents
  <2>2. InFallback(v) => InFallback(v)'
    BY <1>1, <1>2, <1>3, FallbacksKept
  <2> QED
    BY <1>6, <2>1, <2>2 DEF Waiting, PendingVideos
<1> QED
  BY <1>3, <1>5, <1>6, Moves

\* A run that ends early closes the video whose fallback it cuts short.
LEMMA AbortMoves ==
  ASSUME LossInv, NEW p \in Proc, Alone(p), Abort(p)
  PROVE  Ledger!Move
<1>1. /\ UNCHANGED <<publishedAt, withdrawn, pending, windows>>
      /\ \A v \in Video : fate[v] # "open" => fate'[v] # "open"
      /\ \A v \in Video : run[p].pc = "fallback" /\ run[p].video = v
                           => fate'[v] # "open"
  BY DEF Abort, Explain, world, disk
<1>2. ASSUME NEW v \in Video, Waiting(v)
      PROVE  Waiting(v)' \/ fate'[v] # "open"
  <2>1. InFallback(v) => fate'[v] # "open"
    BY <1>1 DEF InFallback, Alone
  <2> QED
    BY <1>1, <1>2, <2>1 DEF Waiting, PendingVideos
<1> QED
  BY <1>1, <1>2, Moves

LEMMA ChannelMoves ==
  ASSUME LossInv, NEW p \in Proc, NEW c \in Channel, ChannelUnavailable(p, c)
  PROVE  Ledger!Move
<1>1. /\ UNCHANGED <<publishedAt, withdrawn, pending, windows>>
      /\ \A v \in Video : fate[v] # "open" => fate'[v] # "open"
      /\ Become(p, [run[p] EXCEPT !.channels = @ \ {c}])
      /\ run[p].pc = "discover" /\ TypeOK
  BY DEF ChannelUnavailable, Explain, world, disk, LossInv
<1>2. \A v \in Video : Waiting(v) => Waiting(v)'
  BY <1>1, FallbacksKept DEF Waiting, PendingVideos
<1> QED
  BY <1>1, <1>2, Moves

\* The completed window continues the last one, and nothing in it is open.
LEMMA CompletesWindow ==
  ASSUME LossInv, LossInv', WindowInv, NEW p \in Proc, Alone(p), WriteCutoff(p)
  PROVE  Ledger!Complete
<1>1. PICK r : r = run[p]
  OBVIOUS
<1>2. /\ r.pc = "write_cutoff" /\ r.mode = "discover" /\ WindowOf(r) /\ RunInv(r)
      /\ r.start \in Int /\ r.end \in Int /\ covered \in Int /\ TypeOK
  <2>1. r.pc = "write_cutoff" /\ RunInv(r) /\ WindowOf(r) /\ TypeOK /\ r \in Runs
    BY <1>1 DEF WriteCutoff, LossInv, WindowInv, TypeOK
  <2> QED
    BY <2>1 DEF RunInv, TypeOK, Runs, RunFields
<1>3. /\ covered' = r.end
      /\ first' = IF covered = NoCutoff THEN r.start ELSE first
      /\ Become(p, IdleRun)
      /\ UNCHANGED <<publishedAt, withdrawn, pending, fate>>
  BY <1>1 DEF WriteCutoff, world, outcomes
<1>4. r.start < r.end /\ r.end \in Nat
  BY <1>2 DEF WindowOf
<1>5. covered' > covered
  <2>1. CASE covered = NoCutoff
    BY <1>3, <1>4, <2>1 DEF NoCutoff
  <2>2. CASE covered # NoCutoff
    <3>1. r.start = covered
      BY <1>2, <2>2 DEF RunInv
    <3> QED
      BY <1>2, <1>3, <1>4, <3>1
  <2> QED
    BY <2>1, <2>2
<1>6. IF covered = NoCutoff THEN first' < covered' ELSE first' = first
  BY <1>2, <1>3, <1>4
<1>7. \A v \in Video : ~ InFallback(v) /\ ~ InFallback(v)'
  <2>1. run'[p] = IdleRun /\ \A q \in Proc \ {p} : run'[q] = run[q]
    BY <1>2, <1>3 DEF Become, TypeOK
  <2> QED
    BY <1>1, <1>2, <2>1, IdleRunType DEF InFallback, Alone
<1>8. \A v \in Video : Stage(v)' = Stage(v)
  BY <1>3, <1>7 DEF Stage, PendingVideos
<1>9. ASSUME NEW v \in Video, first' <= publishedAt[v], publishedAt[v] < covered'
      PROVE  Stage(v) # "open"
  <2>1. Accounted(v)'
    BY <1>3, <1>7, <1>9 DEF LossInv, NoSilentLoss
  <2>2. Accounted(v)
    BY <1>3, <2>1 DEF Accounted, PendingVideos
  <2> QED
    BY <2>2 DEF Accounted, Stage
<1> QED
  BY <1>3, <1>5, <1>6, <1>8, <1>9 DEF Ledger!Complete

LEMMA LedgerNext ==
  ASSUME SingleRun, LossInv, LossInv', WindowInv, [Next]_vars
  PROVE  [Ledger!Next]_(Ledger!vars)
<1>1. TypeOK
  BY DEF LossInv
<1>2. CASE Tick \/ (\E v \in Video : Withdraw(v)) \/ UNCHANGED vars
  <2>1. /\ UNCHANGED <<publishedAt, pending, run, fate, windows>>
        /\ withdrawn \subseteq withdrawn'
    BY <1>2 DEF Tick, Withdraw, vars, world, disk, outcomes
  <2>2. \A v \in Video : Waiting(v) => Waiting(v)'
    BY <2>1 DEF Waiting, PendingVideos, InFallback
  <2> QED
    BY <2>1, <2>2, Moves DEF Ledger!Next
<1>3. ASSUME NEW p \in Proc, NEW limit \in Limits, StartSubscriptions(p, limit)
      PROVE  Ledger!Move
  BY <1>1, <1>3, QuietMoves DEF StartSubscriptions, world, disk, outcomes
<1>4. ASSUME NEW p \in Proc, NEW v \in Video, StartSingle(p, v)
      PROVE  Ledger!Move
  BY <1>1, <1>4, QuietMoves DEF StartSingle, world, disk, outcomes
<1>5. ASSUME NEW p \in Proc,
             \/ QuietAction(p) \/ RetryStops(p) \/ DiscoverStops(p)
             \/ TruncateCutoff(p)
      PROVE  Ledger!Move
  <2>1. CASE ReadPending(p) \/ Finish(p) \/ DiscoveryEnds(p) \/ TruncateCutoff(p)
             \/ SettleRead(p) \/ RecordRead(p) \/ SkipShort(p) \/ Summarize(p)
    BY <1>1, <2>1, QuietMoves
       DEF ReadPending, Finish, DiscoveryEnds, TruncateCutoff, SettleRead, RecordRead,
           SkipShort, Summarize, world, disk, outcomes
  <2>2. CASE CaptionsUnavailable(p) \/ RetryStops(p) \/ DiscoverStops(p) \/ Deliver(p)
             \/ RetryNext(p) \/ DiscoverNext(p) \/ SkipAttempted(p) \/ RetryEnds(p)
    BY <1>1, <2>2, QuietMoves
       DEF CaptionsUnavailable, RetryStops, DiscoverStops, Deliver, RetryNext,
           DiscoverNext, SkipAttempted, RetryEnds, world, disk, outcomes
  <2> QED
    BY <1>5, <2>1, <2>2 DEF QuietAction
<1>6. ASSUME NEW p \in Proc, RunStep(p) \/ RunEndsEarly(p)
      PROVE  Ledger!Next
  <2>0. Alone(p)
    BY <1>6, StepsAlone
  <2>1. CASE Abort(p)
    BY <2>0, <2>1, AbortMoves DEF Ledger!Next
  <2>2. CASE SettleWrite(p) \/ Fallback(p)
    BY <2>0, <2>2, SettleMoves DEF Ledger!Next
  <2>3. CASE RecordWrite(p)
    BY <2>3, RecordMoves DEF Ledger!Next
  <2>4. CASE WriteCutoff(p)
    BY <2>0, <2>4, CompletesWindow DEF Ledger!Next
  <2>5. \/ QuietAction(p) \/ RetryStops(p) \/ DiscoverStops(p) \/ TruncateCutoff(p)
        \/ Abort(p) \/ SettleWrite(p) \/ Fallback(p) \/ RecordWrite(p) \/ WriteCutoff(p)
    BY <1>6 DEF RunStep, QuietAction, RunEndsEarly, RetryUnavailable, NoticeFails,
                RunFails, Interrupt, TearCutoff
  <2> QED
    BY <1>5, <2>1, <2>2, <2>3, <2>4, <2>5 DEF Ledger!Next
<1>7. ASSUME NEW p \in Proc, NEW c \in Channel, ChannelUnavailable(p, c)
      PROVE  Ledger!Move
  BY <1>7, ChannelMoves
<1> QED
  BY <1>2, <1>3, <1>4, <1>6, <1>7 DEF Next, Ledger!Next

LEMMA LedgerInit ==
  ASSUME Init
  PROVE  Ledger!Init /\ WindowInv
<1>1. \A p \in Proc : run[p] = IdleRun
  BY DEF Init
<1>2. \A v \in Video : ~ Closed(v) /\ ~ Waiting(v)
  <2>1. \A v \in Video : ~ InFallback(v)
    BY <1>1, IdleRunType DEF InFallback
  <2>2. /\ \A v \in Video : fate[v] = "open" /\ pending[v] = 0
        /\ withdrawn = {}
    BY DEF Init, NoFailures
  <2>3. \A v \in Video : ~ Closed(v)
    BY <2>2 DEF Closed
  <2>4. ASSUME NEW v \in Video
        PROVE  v \notin PendingVideos(pending)
    <3>1. pending[v] = 0
      BY <2>2
    <3>2. ~ (pending[v] > 0)
      BY <3>1
    <3> QED
      BY <3>2 DEF PendingVideos
  <2> QED
    BY <2>1, <2>3, <2>4 DEF Waiting
<1>3. \A v \in Video : Stage(v) = "open"
  BY <1>2, StageOf DEF StageByCases
<1> QED
  BY <1>1, <1>3, IdleWindow DEF Init, Ledger!Init, WindowInv

\* Runs that do not overlap, have no limit and write the cutoff whole implement
\* the delivery ledger: no video falls back to an earlier stage, and a window
\* is completed next to the last one with no open video in it
\* (run_subscriptions and all it calls).
THEOREM ImplementsLedger ==
  ASSUME Limits = {0}, "tear" \notin Events
  PROVE  Spec /\ []SingleRun => LedgerKept
<1>1. Init => Ledger!Init /\ WindowInv
  BY LedgerInit
<1>2. LossInv /\ WindowInv /\ [Next]_vars => WindowInv'
  BY WindowNext
<1>3. SingleRun /\ LossInv /\ LossInv' /\ WindowInv /\ [Next]_vars
        => [Ledger!Next]_(Ledger!vars)
  BY LedgerNext
<1>4. Spec /\ []SingleRun => Ledger!Spec
  BY <1>1, <1>2, <1>3, LossInvariant, PTL DEF Spec, Ledger!Spec
<1> QED
  BY <1>4 DEF LedgerKept

=============================================================================
