# TextTube: TLA+ models, model checking and proofs

TextTube is a Python program that runs in a container next to a VPN gateway. On
a cron schedule, or when the owner sends `/texttube_restart`, it walks the uploads of the
owner's YouTube subscriptions since the last completed run, summarizes each
video from its native captions (or, after three failures, from its description)
and sends the summary to a Telegram chat. This directory models its control and
its durable state in TLA+, checks the models with TLC and proves the main safety
properties with TLAPS. Paths below are relative to the repository root
(`texttube/...`), prefixed with `src/` in `PROJECT.json`.

`PROJECT.json` lists the components, the runs, the map from definitions to lines
of code, the hazards the properties are aimed at, and the theorems.

## 1. Inventory

| Component | Code | State it keeps | Operations | What makes it correct |
|---|---|---|---|---|
| Subscription state | `adapters/state.py` `FileSubscriptionState` | `last_subscription_window_end_utc.txt` (cutoff), `pending_native_caption_failures.json` (id to failed attempts) | `subscription_window`, `complete_window`, `pending_caption_failures`, `record_caption_failure`, `complete_caption_retry` | attempts counted once each; the entry leaves the file at the limit; a failed run keeps the cutoff |
| `ApplicationPipeline` | `pipeline.py` | in memory: attempted ids, sent count, stopped by limit | `run_subscriptions`, `run_single_video`, retries, notices | no upload lost between cutoff, retry document and attempts; none delivered twice without a reason; one limit for both loops |
| `VideoPipeline` | `pipeline.py` | none | `process`, `process_description_fallback` | a caption failure never delivers; every other outcome ends in one delivery |
| Application life cycle | `entrypoints/app.py` | open clients, exit status | `run`, `main` | fatal errors and interrupts end the run; per-video errors do not |
| `CronScheduler` | `adapters/scheduler.py`, `entrypoints/scheduler.py` | `stop_requested`, `child`, run lock, listener lock | wait loop, `run_application`, `handle_signal` | runs never overlap; every occurrence runs once or is skipped for a reason; a signal reaches the child |
| `TelegramCommands` | `adapters/telegram.py` | update cursor in memory and in `telegram_update_offset.txt` | `poll` | a request starts at most one run and is dropped only for a documented reason |
| `TelegramDelivery` | `adapters/telegram.py` | none | `deliver`, `send_notice`, `format_message` | failures are `DeliveryFailure`; text within Telegram's limit |
| Captions and proxy | `adapters/transcripts.py` | `direct_ip_blocked`, `rejected_ips`; the gateway's state is shared by all runs | `fetch`, `rotate` | a retry uses a fresh exit; the gateway is started again; every fetch ends |
| YouTube discovery | `adapters/youtube.py` | cached access token, page tokens, seen ids | `iter_recent_videos`, `fetch_video`, token refresh | every upload of the window is yielded, once, unless its channel is reported or the lists change under the walk in a way the API cannot show |
| Device authorization | `adapters/google_auth.py`, `entrypoints/app.py`, `entrypoints/service.py` | refresh token file | device flow, `store_refresh_token`, the gate of container and runs | polls respect the interval Google demands; a code is given up only when it has expired; the gate always opens or gives up |
| Summarizer | `adapters/openai.py` | none | one request per summary | - |
| Audio transcription | `adapters/openai.py` | temporary files | dormant: `is_audio_allowed` is always false | - |
| Configuration, dispatch, domain, ports | `config.py`, `entrypoints/service.py`, `domain.py`, `ports.py` | none | parsing, dispatch, value types | - |

How they interact: the scheduler starts the application as a child process and
forwards signals to it; the application runs the pipeline, which calls
discovery, captions, summarizer and delivery synchronously and is the only user
of the two subscription files. The scheduler's main thread polls Telegram while
it waits for cron; the signal handler runs between two of its steps. Processes
meet only through files (two `flock` locks, the cursor, the cutoff, the retry
document), through the gateway and through the chat. An `app` command that an
operator starts takes no lock.

What is hard here: a crash, signal or I/O error between two steps (nothing is
rolled back); deliveries of unknown outcome; the two-step update of files; a
video that is at the same time pending and in the window; a limit shared by two
loops; services and maintenance that compete for the run lock; a signal in the
middle of starting a child; a gateway that changes state on its own time.

## 2. Modules

| Module | Models |
|---|---|
| `SubscriptionState` | the two documents and what one method call makes of them, as operators |
| `ApplicationPipeline` | EXTENDS it: `run_subscriptions`, `run_single_video` and all they call, as steps of processes over the two files |
| `DeliveryLedger` | abstract: what runs promise about the videos, without runs, files and attempts; `ApplicationPipeline` implements it (`LedgerKept`) |
| `CronScheduler` | scheduler loop, run and listener locks, child, signal handler, command listener with its cursor |
| `SingletonRuns` | abstract: one active run, each occurrence and request used at most once and in order; `CronScheduler` implements it (`RunsAreSingletons`) |
| `Container` | composes the two by INSTANCE: the child of a scheduler is a process of `ApplicationPipeline` |
| `YouTubeDiscovery` | `iter_recent_videos` page by page, over lists that change between two pages |
| `DeviceAuthorization` | the authorization gate, the device flow, the token file, Google and the owner |
| `TranscriptProxy` | caption routes and the proxy rotator against the VPN gateway |
| `CaptionRanking`, `MessageFormat` | pure operators: the order of captions and the choice of one; the message about a video |
| `Content` | EXTENDS both: one behaviour per input, with reference definitions as properties |
| `MC...` | constants, lists and symmetry for TLC |
| `..._proofs` | theorems, see section 4 |

Operators whose comment says *Mutant of X* belong to no specification: each is X
with a plausible bug, kept to show that a property notices it (`PROJECT.json`,
`mutants`).

### ApplicationPipeline and the code

`run[p]` holds the local variables of one run: `start`, `end` (the window),
`attempted` (`attempted_video_ids`), `sent` (`sent_count`), `stopped`
(`stopped_by_limit`), `seen` (`seen_video_ids`), `queue` (ids of
`pending_failures` not reached yet), `channels` (channels not given up), `video`
and `delivered` (the attempt and its outcome), `doc` (the retry document a
method has read and is about to replace), and `pc`.

| `pc` | code | actions |
|---|---|---|
| `idle` | no run | `StartSubscriptions`, `StartSingle` |
| `read_pending`, `retry` | `_retry_pending_captions` | `ReadPending`, `RetryNext`, `RetryStops`, `RetryEnds`, `RetryUnavailable` |
| `discover` | loop of `run_subscriptions` | `DiscoverNext`, `SkipAttempted`, `DiscoverStops`, `ChannelUnavailable`, `DiscoveryEnds` |
| `process`, `deliver` | `VideoPipeline.process`, `_deliver` | `SkipShort`, `CaptionsUnavailable`, `Summarize`, `Deliver` |
| `settle_read`, `settle_write` | `complete_caption_retry` | `SettleRead`, `SettleWrite` |
| `record_read`, `record_write` | `record_caption_failure` | `RecordRead`, `RecordWrite` |
| `fallback` | `process_description_fallback` | `Fallback` |
| `finish` | limit notice | `Finish`, `NoticeFails` |
| `complete`, `write_cutoff` | `complete_window` | `TruncateCutoff`, `WriteCutoff`, `TearCutoff` |
| any | exceptions no handler catches | `RunFails`, `Interrupt` |

`failures`, `messages`, `fate`, `first`, `covered` and `repeated` are history:
properties read them, no guard does. The set `Events` switches parts of the
environment on, so that each run can afford its own combination. The order of
retries and uploads is arbitrary (the code sorts the document by id and takes
the order of YouTube), which includes the real one. Discovery is abstract here
(any upload of the window of a channel not given up may come next);
`YouTubeDiscovery` has its detail. Message texts and the source of a summary are
abstracted; any exception inside `process` that is not
`NativeTranscriptUnavailable` takes the path of a rejected delivery.

`DeliveryLedger` has a stage per video (`open`, `held` by the retry document,
`closed`) and the interval of completed windows. The mapping takes the stage from
the retry document and the history, and the interval from `first` and `covered`.
A video never falls back to an earlier stage; a window continues the last one and
leaves no open video behind.

### CronScheduler, Container and the code

`svc[s].pc` follows `run` and `run_application`: `loop`, `poll`, `save` (the
cursor is about to be replaced), `sleep` (`stop_requested.wait`), `due`,
`acquire` (`flock`), `check` (`stop_requested`), `spawn` (`Popen` has not created
the process), `assign` (the process exists, `self.child` is not set), `wait`,
`release`. `Signal` is `handle_signal` between any two of these steps and reaches
the child at `wait` only, since `self.child` is `None` before. `Exit` is the end
of the process by whatever cause: the kernel releases its locks and the
container takes its child along. `Start` reads the cursor from the file.

Time passes only while no service has something due to do (`Patient`). The model
thus assumes that the statements between two waits, a poll included, take less
than the minute that cron resolves. A child may run for any time.

`Container` is built from the actions of both modules on one clock. A child that
has been created begins one subscription run (`RunBegins`), a forwarded signal
becomes an interrupt of the run (`RunInterrupted`), the child exits when its run
has ended, and a crash of the container ends both (`Crash`). `course[s]` says how
far the last child has come.

### YouTubeDiscovery and the code

`position` and `token` are the page tokens of the subscriptions and of the playlist,
`playlists` the channels of the page still to be read, `batch` the uploads of the page
still to be yielded, `seen` the ids yielded (`seen_video_ids`), `last` that no page
follows. `Kept` and `TooOld` are the code's filter of a page; the properties have a
definition of the window of their own (`Recent`, `Older`), and `FilterIsWindow` in the
proofs relates the two. The order of a list is fixed by the constants, its items are
sets that change: `Place` counts the items ahead of one, a page token stands for a
place, and a `Page` is what lies within `PageSize` places of it. Between two pages
videos appear, are withdrawn, and the owner leaves channels, so places shift. `Ends` is
the stop at the first page with an older upload. `Complete` is `complete_window`,
`WalkFails` any request failure or interrupt that leaves the cutoff. What YouTube lists
is external; items without an id or a valid time, which the code drops, are no items of
these lists.

### DeviceAuthorization and the code

`pc` follows `ensure_youtube_authorization` (`validate`, `request`, `notice`,
`store`, `replace`, `confirm`) and `poll_for_refresh_token` (`wait`, `poll`,
`answer`, `expired`). `mode` tells the gate of the container
(`check_startup_authorization` before `serve` schedules) from that of a run. Time is
counted since Google issued the code (`age`); the process starts its `deadline`
when its notice is sent, so the two differ by the time the notice took. A request
takes up to `Latency` ticks, and Google hears a poll anywhere in between.

### TranscriptProxy, CaptionRanking, MessageFormat and the code

`pc` follows `fetch`, `_fetch_through_proxy` and `rotate` (`identify` asks for
the public IP, `stop` and `start` set the gateway's state, `await_stop` and
`await_run` are `_wait_for_status`, `compare` asks for the new IP). The gateway
is external: it has a target state, an actual state, an exit and the address it
reports, and follows its target some time later. It keeps its exit while it
runs. The deadline is a flag that may be raised at any moment of a rotation. A
request whose answer is lost may have been carried out (`Abandoned`), also when a
signal cuts it off.

A language code is the sequence of its subtags; a caption has a language, is
generated or not, and a request for it comes to text, nothing or an IP block.
`FetchOnce` is one `_fetch_once`. A text is a sequence of characters in which `&`
stands for everything `html.escape` replaces; the lengths are constants, so short
texts reach the limit.

## 3. Runs

Every property is named and explained in its module, next to the code behaviour
it is about.

| Run | Module, cfg | Question | Bounds |
|---|---|---|---|
| `core` | MCApplicationPipeline, `core.cfg` | do scheduled runs without a limit lose or repeat a video, over interrupts, fatal errors, unreadable channels and failing deliveries, and do they implement the ledger? | 2 videos in 2 channels, 2 publication times, 2 attempts, clock to 3 |
| `progress` | `progress.cfg` | with a Short, selected videos, withdrawn videos, torn cutoffs, aborts and failing notices: does a limit hold over both loops, does every run end, what can hold the cutoff back? | 3 videos, one of them a Short, limits 0, 1 and 2, 2 attempts, clock to 3 |
| `scheduler` | MCCronScheduler, `scheduler.cfg` | overlap, lost or repeated occurrences and requests, over signals, crashes, disk errors, failed polls and maintenance; singleton runs | 2 services, 3 occurrences in 5 ticks (two adjacent), 2 messages |
| `container` | MCContainer, `container.cfg` | does an occurrence or a request end in a completed window, does a signal end service and run, do runs stay inside the lock? | 1 service, 1 occurrence, 1 message, 1 video, 2 attempts, clock to 2 |
| `discovery` | MCYouTubeDiscovery, `discovery.cfg` | which uploads of a window can a walk miss, is one yielded twice? | 2 pages of subscriptions, 2 pages of 2 uploads, 3 publication times, clock to 3, 1 channel left |
| `authorization` | DeviceAuthorization, `authorization.cfg` | is a code given up too early, an approval lost, a poll sent too soon, does the gate end? | lifetime 12, interval 3, increment 2, latency 2 |
| `proxy` | TranscriptProxy, `proxy.cfg` | does a retry use a fresh exit, does every fetch end, over lost answers, a gateway that forgets its address, signals and the deadline? | 4 exits, the real 3 rotations |
| `content` | MCContent, `content.cfg` | which caption does a fetch come to, and when is a block reported; is a message short enough, whole, and cut no more than it must? | up to 3 captions in 4 languages, 4 preference lists; titles up to 3 and texts up to 7 characters, limit 20 |

Why the bounds are enough for the cases to happen: two videos of different channels make
one pending while the other is in the window; two publication times on either side of a
first window boundary and three ticks give three consecutive windows, so a video can
fail, be retried and be exhausted in different runs, and a run can be aborted and
repeated. In `progress` the two videos that are no Shorts reach a limit of 2 and exceed
a limit of 1, each in either loop or across both, and the Short counts for neither. Two
services give a replacement that competes with a crashed or a second one; adjacent
occurrences let a run outlast one. Four uploads on two pages let an upload shift across
a page boundary in both directions, and a late one arrive behind the walk. A lifetime of
four intervals that is not reached by whole intervals after one `slow_down` makes the
last wait shorter than the interval. Four exits let three rotations end on fresh ones or
run out of them. `Day` is one tick, so the first window is a proper part of the past.
The bounds are constants: `MaxTime` on the clock, `MaxUpdates` on messages, `MaxLeft` on
channels left; counters of history (`messages`, `launches`, `runs`, `yielded`) saturate
at two, which is what "at most once" needs. In `core` and `scheduler` TLC uses symmetry
(videos with their channels, services); these runs check safety properties only. In
`progress` it tells states apart by `WithoutHistory`: no guard reads the history and
none of the three properties speaks of it, so states that differ in it alone have the
same futures.

`CHECK_DEADLOCK FALSE` is set where the clock or the messages run out, or an input
is decided, and an idle system has nothing left to do. `scheduler`, `proxy` and
`authorization` check deadlock.

Four more runs show disagreements between the code and what the repository says
of it. Each checks one property that TLC violates; `findings` quotes the lines.

| Run | What happens |
|---|---|
| `poison` | a pending video that YouTube withdraws makes `fetch_video` raise a fatal error in the retry loop of every later run: the cutoff never advances again |
| `limit_stop` | a run that reaches its limit, in the retry loop or in discovery, completes its window over uploads it has not traversed; no later run looks at them |
| `torn_cutoff` | `write_text` truncates the cutoff; a run that ends there leaves an empty file and the next window is one day long |
| `lost_signal` | a signal between the check of `stop_requested` and the assignment of `self.child` reaches no child, although one starts |

### Fairness

* `ApplicationPipeline`: weak fairness of the clock, of cron starting subscription runs
  in an idle process, and of the steps of a run (each is a synchronous call that returns
  or raises). None of signals, failures, operators and withdrawals. `Progress` asks that
  `Intervention`s cease: selected-video runs, and ends of a run by a signal, a fatal
  error, a torn write or a failed notice, since under an abort of every run no cutoff
  can advance. A run that ends because a pending video is withdrawn is no intervention.
  Caption failures, failed deliveries, failed channels and limits may go on for ever.
  `Progress` is false of the code (`poison`); `KeepsUp` says that withdrawn pending
  videos are all that holds the cutoff back.
* `Container`: weak fairness of the main thread, of the run, of the exit of a child
  that may exit, and of the end of maintenance; strong fairness of a successful
  `Poll`, since `MessagesConsumed` and `RequestCovered` are about a network that does not
  fail for ever. They still have to survive failed polls in between, due
  occurrences, maintenance and long runs. Nothing is assumed of signals, crashes and
  failures; the properties name them as excuses.
* `DeviceAuthorization`: weak fairness of time while the gate waits, of Google
  answering and of the gate's own steps (requests have a timeout). None of the
  owner: `GateEnds` holds if the code is never approved.
* `TranscriptProxy`: weak fairness of the fetcher and of its deadline. None of the
  gateway: `FetchEnds` holds even if it never reacts.

### Known limits

What the properties name as exceptions, or assume away, is behaviour of the code:

* A run that stops at its limit completes its window over uploads it has not
  traversed (`pipeline.py:258`), so they are never delivered: run `limit_stop`, against
  `ARCHITECTURE.md:165`. With the default limit of 100 this takes a hundred messages
  in one window. `NoSilentLoss` and `LedgerKept` are checked and proved with
  `Limits = {0}`.
* A manual run takes no lock. Beside another run it replaces the retry document
  with one it read before the other changed it, and drops or revives an entry
  (`adapters/state.py:154-170`), also that of a video it was not asked for, against
  `ARCHITECTURE.md:165` ("update caption retry state only for the selected ID"). Two
  manual subscription runs can also move the cutoff back. The properties of the
  files are about one run at a time, which `RunInsideLock` and `RunsNeverOverlap` ensure
  of scheduled runs.
* After the last caption failure the id is removed from the document before its
  description is delivered; an interrupt in between loses the video
  (`adapters/state.py:162`; fate `lost` in `NoSilentLoss`).
* If the gateway does not know its address when a rotation begins, the blocked
  exit is not among the rejected ones and may be used for the retry
  (`adapters/transcripts.py:32`). `RetryOnFreshExit` is about the exits the run rejected.
* A rotation that fails after it has asked for the stop (also if only the answer was
  lost) and before its start leaves the gateway stopped for later videos and runs.
  Nothing starts it again: without an exit no request comes to a block, and only a block
  starts a rotation (`adapters/transcripts.py:40-42`).
* `TranscriptProxy` lets the gateway carry out an abandoned request at once or never, not
  later, and lets it report no address but its present one or none.
* The process counts the lifetime of a code from the moment its notice was sent. A poll
  between Google's end of lifetime and its own is answered with an error and reported as
  a generic failure, not as an expired code (`adapters/google_auth.py:117`), against
  `ARCHITECTURE.md:109`. `ExpiredMeansExpired` is about the other direction.
* A walk stops at the first page with an older upload, and its places shift when
  items leave a list; `Excused` in `YouTubeDiscovery` lists the cases in which an
  upload is missed.
* A message whose first line alone is longer than the room is cut inside that line,
  possibly inside an entity, which Telegram rejects (`adapters/telegram.py:131`).
  A description summary has its notice as first line, so a summary of one long line
  is sent as the notice without it.
* A header that leaves no room for a body (some four thousand characters once escaped,
  far beyond a title and a channel on YouTube) makes a message that is cut at the limit,
  with its link (`adapters/telegram.py:119-120`), against `ARCHITECTURE.md:145` ("Every
  delivered body includes the channel, title, and YouTube link"). `LongestStartKept`
  names the case.
* `DuplicatesExplained` allows a second message after a run that ended early, for
  whatever reason: a failed limit notice and a token that expired are such reasons.

## 4. Proofs

All theorems hold for any sets of videos, channels, processes, services or exits
and any values of the constants that satisfy the named `ASSUME`s of the modules.

| Module | Theorem | Says | Further assumptions |
|---|---|---|---|
| `ApplicationPipeline_proofs` | `TypeCorrect` | `Spec => []TypeOK` | - |
| | `OneAttempt` | `Spec => []OneAttemptPerRun` | -, overlapping runs included |
| | `Limit` | `Spec => []LimitRespected` | -, overlapping runs included |
| | `NoDuplicates` | `Spec /\ []SingleRun => []DuplicatesExplained` | no `"tear"` |
| | `FallbackLast` | `Spec /\ []SingleRun => []FallbackAfterMaxFailures` | the same |
| `NoSilentLoss_proofs` | `NothingLost` | `Spec /\ []SingleRun => []NoSilentLoss` | `Limits = {0}`, no `"tear"` |
| | `ImplementsLedger` | `Spec /\ []SingleRun => LedgerKept` (refinement) | the same |
| `CronScheduler_proofs` | `NoOverlap` | `Spec => []RunsNeverOverlap` | - |
| | `SchedulerTypes` | `Spec => []TypeOK` | - |
| | `NoRequestLost` | `Spec => []RequestsAccounted` | - |
| | `NoOccurrenceLost` | `Spec => []OccurrencesAccounted` | - |
| | `ImplementsSingletonRuns` | `Spec => RunsAreSingletons` (refinement) | - |
| `Container_proofs` | `PartsKept` | `Spec => Sched!Spec /\ App!Spec` (refinement) | - |
| | `RunsInsideLock` | `Spec => []RunInsideLock` | - |
| | `ContainerLosesNothing` | `Spec => []NoSilentLoss` | `Limit = 0`, no `"tear"` |
| | `ContainerExplainsDuplicates` | `Spec => []` of `DuplicatesExplained` and `FallbackAfterMaxFailures` | no `"tear"` |
| | `ContainerImplements` | `Spec => RunsAreSingletons /\ LedgerKept` (refinement) | `Limit = 0`, no `"tear"` |
| `YouTubeDiscovery_proofs` | `TypeCorrect` | `Spec => []TypeOK` | - |
| | `NothingIsMissed` | `Spec => []NothingMissed` | - |
| | `YieldedAtMostOnce` | `Spec => []YieldedOnce` | - |
| `TranscriptProxy_proofs` | `TypeCorrect` | `Spec => []TypeOK` | - |
| | `FreshExit` | `Spec => []RetryOnFreshExit` | - |
| `DeviceAuthorization_proofs` | `TypeCorrect` | `Spec => []TypeOK` | - |
| | `Expired` | `Spec => []ExpiredMeansExpired` | - |
| | `LateApprovals` | `Spec => []OnlyLateApprovalsLost` | - |
| | `Spacing` | `Spec => PollsSpaced` | - |
| `Content_proofs` | `BlockReported` | `Spec => []BlockInItsPlace` | - |
| | `LanguagesInOrder` | `Spec => []LanguageOrder` | - |
| | `ExactFirst` | `Spec => []ExactBeforeVariant` | - |
| | `Accepted` | `Spec => []WithinLength` | - |
| | `Complete` | `Spec => []CompleteUnlessNoRoom` | - |
| | `StartKept` | `Spec => []LongestStartKept` | - |

The further assumptions are the first two of the known limits (`limit_stop` is the
first) and the run `torn_cutoff`: without them the statements are false of the code.
`SingleRun` says that no two of the processes have a run in progress; it is a state
predicate, so the theorems speak of any number of processes that take turns. The code
does not keep manual runs apart, which is why it is a hypothesis and not a lemma there.
For scheduled runs it is a lemma, and the hypothesis goes away in `Container_proofs`:

1. `PartsKept`: every step of the container is a step or a stutter of the
   scheduler and a step or a stutter of the application. All theorems about
   either hold of the container.
2. `LockInvariant` of the scheduler: a child is alive only while its service holds
   the run lock.
3. `ChildInv` of the container: a run in progress belongs to a living child, and a
   child that has not begun has no run. It needs `LockInv`, since a service
   that spawns must not have a run left over.
4. So runs stay inside the lock (`RunsInsideLock`); the lock has one holder, hence
   `SingleRun`; hence what was proved of runs that do not overlap holds of
   any number of services that are stopped, killed and replaced at any step.

* `AttemptInv` (for `OneAttempt`, `Limit`): neither property is inductive. A run must
  also have put the video it attempts into `attempted`, have no id both queued
  and attempted, have no queue left once it discovers, have `tried` within
  `attempted`, and be below its limit while it attempts a video.
* `LossInv` (for `NoSilentLoss_proofs`): `NoSilentLoss` needs to know, of a run in
  progress, that its window starts where the last completed one ended, that
  every upload of the window is walked, accounted for, or in a channel still to
  be read, that each attempted video is accounted for unless it is the one being
  attempted, and that the document a run holds between its read and its write is
  the one on disk. The last part is where `SingleRun` is used (the invariant claims
  it only of a run that is `Alone`), the walk where
  `Limits = {0}` is. Where tears are excluded it also says that the cutoff file holds the
  end of the last completed window.
  An idle process keeps nothing of its last run (`Runs`, part of `TypeOK`), so a
  run that starts does so with an empty memory.
* `LossInv` with `WindowInv` (for `ImplementsLedger`): windows are proper intervals.
  Every step but `WriteCutoff` maps to `Move` or a stutter, `WriteCutoff` to `Complete`,
  whose guard is what `LossInv` says of a traversed window.
* `SoleInv` (for `NoDuplicates`, `FallbackLast`): it extends `AttemptInv`. A video with a
  message is behind the cutoff or remembered by the run, and off the retry
  document; a pending video is behind the cutoff or remembered; what is being
  attempted has no message yet, unless it is in `repeated`. It does not mention the
  limit: one that is reached skips uploads but sends none twice.
* `LockInv` (for `NoOverlap`): a service is between `check` and `release` exactly if it
  holds the run lock, and its child lives only while it is at `assign` or `wait`.
* `AccountInv` and `RequestInv` (for the accounts): only the holder of the listener lock
  is up, so what it has read of the cursor stays true; beyond the cursor no request has
  started a run, behind it each is handled; from `next_run` on no occurrence has been
  used, before it each is accounted for. That cron's next occurrence exists and is the
  least is proved from the well-founded order of the naturals. `WhoIsActive` gives the
  refinement its active run without `CHOOSE`.
* `WalkInv` (for `YouTubeDiscovery_proofs`): what a walk has dealt with is a prefix of
  each list. Every upload whose channel lies before the page token of the
  subscriptions and is not about to be read, and every upload of the playlist
  before its page token that is not in the batch, is covered: yielded or excused.
  Places only grow as items arrive ahead of the token, and an item that
  leaves the list excuses all behind it, so no upload slips behind a token
  uncovered. The lemmas on `Place` and `Page` count items and need no induction.
* `GateInv`: one clause per step about the clocks in play there. A wait ends within its
  interval and the deadline, Google heard the last poll before it, and an approval that
  no poll has heard is at most one interval and two requests old.
* `Decided` (for `Content_proofs`): the output is none or what the operators make of the
  input; the work is in the lemmas on the operators. For captions of any number:
  counting those that precede one gives each its own place (`OrderIsSorted`), so a fetch
  comes to the first caption that has text or is blocked (`FetchIsFirst`), and the
  places mean what the properties say (`PlaceMeans`, and `GroupMeans` for the preference
  of a caption as `BlockInItsPlace` and `ExactBeforeVariant` define it). For texts of
  any length: each character of an escaped text comes from one of the text (`EscapeIs`),
  no part of a message cuts an entity or a tag (`Sound`, kept by concatenation and by a
  cut at the end of a line), and a trimmed body is the longest start of the body that
  its lines and its room allow (`TrimmedIs`), which needs a body that starts with ink:
  `strip` then takes from its end only. The assumptions on `Link` and `Notice` are facts
  about the two constants in the code.
* `ProxyInv`: the gateway reports no address but that of the exit it is connected
  through, and is told to run from its start to the end of the rotation, also
  where a request that seems to fail is carried out.

Model-checked only:

* liveness (`progress`, `container`, `authorization`, `proxy`): fairness is out of
  the prover's reach.

`Escape` and `OrderCandidates` are written without a fold or a sort, by the position of
each character and each caption, because induction over data is out of its reach too.

## 5. Not modelled

* `adapters/openai.py`: the summarizer is one request without state, whose success
  and failure the pipeline's steps cover; the prompt document is split before a
  run and the cleaning of descriptions only changes their text. Audio
  transcription is dormant (`is_audio_allowed` answers no).
* The source of a summary (`VideoPipeline._summarize`): every failure but that of the
  captions leads to another text and the same delivery.
* `config.py`: parsing of the environment before a run. The dispatch of commands in
  `service.py`, the parsing of arguments, construction and cleanup of clients.
* The metadata of a video (titles, durations, languages), except as an input of
  `Content` and as "is a Short".
* When an access token expires: a fatal error at any step of discovery stands for it.
* `ConsoleLog` and the wording of notices.
* Overlapping subscription runs of two manual commands: `Proc` may have two elements,
  and `OneAttempt` and `Limit` are proved for them, but no run checks their cutoff writes.

## 6. What is left

1. `StopEndsService` and the coverage properties of `Container` with two services or
   two videos, if time to check allows.
2. A gateway that carries out an abandoned request late, and one that reports an
   address it no longer has.
