---------------------------- MODULE CronScheduler ----------------------------
(***************************************************************************)
(* The scheduler process of a container: CronScheduler                     *)
(* (src/texttube/adapters/scheduler.py), the command listener              *)
(* TelegramCommands (src/texttube/adapters/telegram.py) and their main     *)
(* function (src/texttube/entrypoints/scheduler.py).                       *)
(*                                                                         *)
(* A service waits for the next cron occurrence, polls the chat while it   *)
(* waits, and runs the application as a child under the run lock.  Several *)
(* services share one data volume: its two lock files and the update       *)
(* cursor.  A step is what the main thread does between two points where a *)
(* signal handler, a crash or another process can be seen.                 *)
(*                                                                         *)
(* A tick is the resolution of cron.  A wait, a poll and the statements    *)
(* between them take less, so time passes a due occurrence only while a    *)
(* child runs.                                                             *)
(***************************************************************************)
EXTENDS Integers, Sequences, FiniteSets

CONSTANTS
  Service,      \* Scheduler processes on the data volume.
  Operator,     \* Holder of the run lock for maintenance.
  Nobody,       \* No holder of a lock.
  Occurrences,  \* When cron is due.
  MaxTime,      \* Bound on the clock.
  MaxUpdates,   \* Bound on the messages sent to the bot.
  Events        \* What the environment may do, see AllEvents.

\* stop: SIGINT or SIGTERM; crash: the container is killed, with its child;
\* poll: getUpdates fails; disk: an OSError of the cursor file or of Popen;
\* operator: maintenance takes the run lock.
AllEvents == {"stop", "crash", "poll", "disk", "operator"}

ASSUME HoldersAssumption ==
  Operator \notin Service /\ Nobody \notin Service /\ Operator # Nobody
ASSUME ClockAssumption ==
  MaxTime \in Nat /\ MaxUpdates \in Nat /\ Occurrences \subseteq 1 .. MaxTime
ASSUME SchedulerEvents == Events \subseteq AllEvents

VARIABLES
  now,       \* The clock.
  updates,   \* Messages to the bot; the update id is the position.
  cursor,    \* telegram_update_offset.txt, less one: the last consumed id.
  listener,  \* Holder of telegram_commands.lock.
  lock,      \* Holder of texttube.lock.
  svc,       \* The state of each scheduler process.
  child      \* The application process of each service.

\* History of the system, read by the properties only.
VARIABLES
  launches,  \* How often each occurrence made a service try to run, up to two.
  busy,      \* Occurrences that passed while a child ran.
  runs,      \* How often each update started a child, up to two.
  excused    \* Updates dropped for a documented reason.

files == <<cursor, listener, lock>>
history == <<launches, busy, runs, excused>>
vars == <<now, updates, files, svc, child, history>>

------------------------------------------------------------------------------
Ids == 1 .. MaxUpdates

\* A restart request, or any update poll ignores.
Updates == [restart : BOOLEAN, date : 0 .. MaxTime]

Never == MaxTime + 1

\* CronScheduler.run and run_application.
Steps == {"off", "loop", "poll", "save", "sleep", "due", "acquire", "check",
          "spawn", "assign", "wait", "release"}

Services ==
  [pc        : Steps,
   stop      : BOOLEAN,           \* stop_requested
   nextRun   : 1 .. Never,        \* next_run
   offset    : 0 .. MaxUpdates,   \* self.offset, less one
   startedAt : 0 .. MaxTime,      \* self.started_at
   cron      : BOOLEAN,           \* which call of run_application is active
   batch     : SUBSET Ids]        \* history: the requests a run is for

OffService == [pc |-> "off", stop |-> FALSE, nextRun |-> Never, offset |-> 0,
               startedAt |-> 0, cron |-> FALSE, batch |-> {}]

Up(s) == svc[s].pc # "off"

Later(t) == {o \in Occurrences : o > t}

\* Mutant of NextRun: an occurrence that is due now is next.
NextRunInclusive(t) ==
  IF {o \in Occurrences : o >= t} = {} THEN Never
  ELSE CHOOSE o \in Occurrences : o >= t /\ \A q \in Occurrences : q >= t => o <= q

\* get_next: the first occurrence strictly after t.
NextRun(t) ==
  IF Later(t) = {} THEN Never
  ELSE CHOOSE o \in Later(t) : \A q \in Later(t) : o <= q

Become(s, r) == svc' = [svc EXCEPT ![s] = r]

Count(n) == IF n < 2 THEN n + 1 ELSE n

Init ==
  /\ now = 0
  /\ updates = <<>>
  /\ cursor = 0 /\ listener = Nobody /\ lock = Nobody
  /\ svc = [s \in Service |-> OffService]
  /\ child = [s \in Service |-> "none"]
  /\ launches = [o \in Occurrences |-> 0] /\ busy = {}
  /\ runs = [i \in Ids |-> 0] /\ excused = {}

------------------------------------------------------------------------------
\* The environment.

\* Time waits for a service that is not waiting.
Patient(s) ==
  \/ svc[s].pc \in {"off", "wait"}
  \/ svc[s].pc \in {"poll", "save", "sleep"} /\ now < svc[s].nextRun

Tick ==
  /\ now < MaxTime
  /\ \A s \in Service : Patient(s)
  /\ now' = now + 1
  /\ busy' = IF \E s \in Service : svc[s].pc = "wait"
               THEN busy \cup {now + 1} ELSE busy
  /\ UNCHANGED <<updates, files, svc, child, launches, runs, excused>>

Message(restart) ==
  /\ Len(updates) < MaxUpdates
  /\ updates' = Append(updates, [restart |-> restart, date |-> now])
  /\ UNCHANGED <<now, files, svc, child, history>>

OperatorLocks ==
  /\ "operator" \in Events
  /\ lock = Nobody
  /\ lock' = Operator
  /\ UNCHANGED <<now, updates, cursor, listener, svc, child, history>>

OperatorUnlocks ==
  /\ lock = Operator
  /\ lock' = Nobody
  /\ UNCHANGED <<now, updates, cursor, listener, svc, child, history>>

------------------------------------------------------------------------------
\* entrypoints/scheduler.main: a second listener returns at once.
Start(s) ==
  /\ ~ Up(s)
  /\ listener = Nobody
  /\ listener' = s
  /\ Become(s, [OffService EXCEPT !.pc = "loop", !.offset = cursor,
                                  !.startedAt = now])
  /\ UNCHANGED <<now, updates, cursor, lock, child, history>>

\* The process is gone: its locks are released, and a container takes its
\* child with it.  Requests it had taken are excused.
Exit(s) ==
  /\ Become(s, OffService)
  /\ listener' = IF listener = s THEN Nobody ELSE listener
  /\ lock' = IF lock = s THEN Nobody ELSE lock
  /\ child' = [child EXCEPT ![s] = "none"]
  /\ excused' = excused \cup svc[s].batch

\* The head of the outer loop.
Loop(s) ==
  /\ svc[s].pc = "loop"
  /\ ~ svc[s].stop
  /\ Become(s, [svc[s] EXCEPT !.pc = IF NextRun(now) > now THEN "poll" ELSE "due",
                              !.nextRun = NextRun(now)])
  /\ UNCHANGED <<now, updates, files, child, history>>

\* Mutant of Stop: the wait does not see stop_requested.
StopAtHead(s) ==
  /\ svc[s].pc \in {"loop", "due"}
  /\ svc[s].stop
  /\ Exit(s)
  /\ UNCHANGED <<now, updates, cursor, launches, busy, runs>>

\* The loop conditions and breaks that see stop_requested.
Stop(s) ==
  /\ svc[s].pc \in {"loop", "poll", "sleep", "due"}
  /\ svc[s].stop
  /\ Exit(s)
  /\ UNCHANGED <<now, updates, cursor, launches, busy, runs>>

\* TelegramCommands.poll: every update is consumed, fresh requests coalesce.
Pending(s) == svc[s].offset + 1 .. Len(updates)

Requests(s) == {i \in Pending(s) : updates[i].restart}

\* Sent before the listener started.
Stale(s) == {i \in Requests(s) : updates[i].date < svc[s].startedAt}

\* Mutants of Fresh: the last update decides; a request of the second in which the
\* listener started is stale.
FreshLast(s) == {i \in Requests(s) : /\ updates[i].date >= svc[s].startedAt
                                    /\ i = Len(updates)}

FreshLater(s) == {i \in Requests(s) : updates[i].date > svc[s].startedAt}

Fresh(s) == {i \in Requests(s) : updates[i].date >= svc[s].startedAt}

Poll(s) ==
  /\ svc[s].pc = "poll"
  /\ ~ svc[s].stop
  /\ Become(s, [svc[s] EXCEPT !.pc = IF Pending(s) = {} THEN "sleep" ELSE "save",
                              !.offset = Len(updates),
                              !.batch = Fresh(s)])
  /\ excused' = excused \cup Stale(s)
  /\ UNCHANGED <<now, updates, files, child, launches, busy, runs>>

PollFails(s) ==
  /\ "poll" \in Events
  /\ svc[s].pc = "poll"
  /\ ~ svc[s].stop
  /\ Become(s, [svc[s] EXCEPT !.pc = "sleep"])
  /\ UNCHANGED <<now, updates, files, child, history>>

\* Mutant of SaveCursor: the id after the next one is written.
SaveCursorBeyond(s) ==
  /\ svc[s].pc = "save"
  /\ cursor' = svc[s].offset + 1
  /\ Become(s, [svc[s] EXCEPT !.pc = IF svc[s].batch = {} THEN "sleep" ELSE "acquire",
                              !.cron = FALSE])
  /\ UNCHANGED <<now, updates, listener, lock, child, history>>

SaveCursor(s) ==
  /\ svc[s].pc = "save"
  /\ cursor' = svc[s].offset
  /\ Become(s, [svc[s] EXCEPT !.pc = IF svc[s].batch = {} THEN "sleep" ELSE "acquire",
                              !.cron = FALSE])
  /\ UNCHANGED <<now, updates, listener, lock, child, history>>

\* An OSError of the cursor file ends the scheduler.
SaveFails(s) ==
  /\ "disk" \in Events
  /\ svc[s].pc = "save"
  /\ Exit(s)
  /\ UNCHANGED <<now, updates, cursor, launches, busy, runs>>

\* Mutants of Wake: the wait lasts until cron is due; an overdue occurrence is recalculated.
WakeDue(s) ==
  /\ svc[s].pc = "sleep"
  /\ ~ svc[s].stop
  /\ svc[s].nextRun <= now
  /\ Become(s, [svc[s] EXCEPT !.pc = "due"])
  /\ UNCHANGED <<now, updates, files, child, history>>

WakeAnew(s) ==
  /\ svc[s].pc = "sleep"
  /\ ~ svc[s].stop
  /\ Become(s, [svc[s] EXCEPT !.pc = IF svc[s].nextRun > now THEN "poll" ELSE "loop"])
  /\ UNCHANGED <<now, updates, files, child, history>>

\* stop_requested.wait times out after three seconds or when cron is due.
Wake(s) ==
  /\ svc[s].pc = "sleep"
  /\ ~ svc[s].stop
  /\ Become(s, [svc[s] EXCEPT !.pc = IF svc[s].nextRun > now THEN "poll" ELSE "due"])
  /\ UNCHANGED <<now, updates, files, child, history>>

Due(s) ==
  /\ svc[s].pc = "due"
  /\ ~ svc[s].stop
  /\ Become(s, [svc[s] EXCEPT !.pc = "acquire", !.cron = TRUE])
  /\ launches' = [launches EXCEPT ![svc[s].nextRun] = Count(@)]
  /\ UNCHANGED <<now, updates, files, child, busy, runs, excused>>

------------------------------------------------------------------------------
\* run_application.

\* Where run continues after run_application.
Return(s) == [svc[s] EXCEPT !.pc = IF svc[s].cron THEN "loop" ELSE "sleep",
                            !.batch = {}]

\* Mutant of Acquire: the lock is taken to be free.
AcquireAlways(s) ==
  /\ svc[s].pc = "acquire"
  /\ Become(s, [svc[s] EXCEPT !.pc = "check"])
  /\ UNCHANGED <<now, updates, files, child, history>>

Acquire(s) ==
  /\ svc[s].pc = "acquire"
  /\ lock = Nobody
  /\ lock' = s
  /\ Become(s, [svc[s] EXCEPT !.pc = "check"])
  /\ UNCHANGED <<now, updates, cursor, listener, child, history>>

\* "run skipped: scheduler lock is already held"
Skip(s) ==
  /\ svc[s].pc = "acquire"
  /\ lock # Nobody
  /\ Become(s, Return(s))
  /\ excused' = excused \cup svc[s].batch
  /\ UNCHANGED <<now, updates, files, child, launches, busy, runs>>

Check(s) ==
  /\ svc[s].pc = "check"
  /\ IF svc[s].stop
       THEN /\ Become(s, Return(s))
            /\ lock' = Nobody
            /\ excused' = excused \cup svc[s].batch
       ELSE /\ Become(s, [svc[s] EXCEPT !.pc = "spawn"])
            /\ UNCHANGED <<lock, excused>>
  /\ UNCHANGED <<now, updates, cursor, listener, child, launches, busy, runs>>

\* Popen creates the process before self.child refers to it.
Spawn(s) ==
  /\ svc[s].pc = "spawn"
  /\ child' = [child EXCEPT ![s] = "running"]
  /\ Become(s, [svc[s] EXCEPT !.pc = "assign", !.batch = {}])
  /\ runs' = [i \in Ids |-> IF i \in svc[s].batch THEN Count(runs[i]) ELSE runs[i]]
  /\ UNCHANGED <<now, updates, files, launches, busy, excused>>

\* An OSError of Popen ends the scheduler.
SpawnFails(s) ==
  /\ "disk" \in Events
  /\ svc[s].pc = "spawn"
  /\ Exit(s)
  /\ UNCHANGED <<now, updates, cursor, launches, busy, runs>>

Assign(s) ==
  /\ svc[s].pc = "assign"
  /\ Become(s, [svc[s] EXCEPT !.pc = "wait"])
  /\ UNCHANGED <<now, updates, files, child, history>>

\* The application returns.
ChildExits(s) ==
  /\ child[s] \in {"running", "told"}
  /\ child' = [child EXCEPT ![s] = "exited"]
  /\ UNCHANGED <<now, updates, files, svc, history>>

Reap(s) ==
  /\ svc[s].pc = "wait"
  /\ child[s] = "exited"
  /\ child' = [child EXCEPT ![s] = "none"]
  /\ Become(s, [svc[s] EXCEPT !.pc = "release"])
  /\ UNCHANGED <<now, updates, files, history>>

Release(s) ==
  /\ svc[s].pc = "release"
  /\ lock' = Nobody
  /\ Become(s, Return(s))
  /\ UNCHANGED <<now, updates, cursor, listener, child, history>>

------------------------------------------------------------------------------
\* handle_signal, which runs between two steps of the main thread.
Signal(s) ==
  /\ "stop" \in Events
  /\ Up(s)
  /\ Become(s, [svc[s] EXCEPT !.stop = TRUE])
  /\ child' = IF svc[s].pc = "wait" /\ child[s] = "running"
                THEN [child EXCEPT ![s] = "told"] ELSE child
  /\ UNCHANGED <<now, updates, files, history>>

Crash(s) ==
  /\ "crash" \in Events
  /\ Up(s)
  /\ Exit(s)
  /\ UNCHANGED <<now, updates, cursor, launches, busy, runs>>

------------------------------------------------------------------------------
ServiceStep(s) ==
  \/ Loop(s) \/ Stop(s) \/ Poll(s) \/ PollFails(s) \/ SaveCursor(s) \/ Wake(s)
  \/ Due(s) \/ Acquire(s) \/ Skip(s) \/ Check(s) \/ Spawn(s) \/ Assign(s)
  \/ Reap(s) \/ Release(s)

Next ==
  \/ Tick \/ OperatorLocks \/ OperatorUnlocks
  \/ \E restart \in BOOLEAN : Message(restart)
  \/ \E s \in Service :
       \/ Start(s) \/ ServiceStep(s) \/ SaveFails(s) \/ SpawnFails(s)
       \/ ChildExits(s) \/ Signal(s) \/ Crash(s)

Spec == Init /\ [][Next]_vars

------------------------------------------------------------------------------
\* Properties.

\* Every variable has its type.
TypeOK ==
  /\ now \in 0 .. MaxTime
  /\ updates \in Seq(Updates) /\ Len(updates) <= MaxUpdates
  /\ cursor \in 0 .. MaxUpdates
  /\ listener \in Service \cup {Nobody}
  /\ lock \in Service \cup {Nobody, Operator}
  /\ svc \in [Service -> Services]
  /\ child \in [Service -> {"none", "running", "told", "exited"}]
  /\ launches \in [Occurrences -> 0 .. 2] /\ busy \subseteq 0 .. MaxTime
  /\ runs \in [Ids -> 0 .. 2] /\ excused \subseteq Ids

Alive(s) == child[s] \in {"running", "told"}

\* Scheduled runs never overlap, with each other or with maintenance: however
\* services start, stop and crash, a live application holds the run lock
\* through its service (run_application).
RunsNeverOverlap ==
  /\ \A s \in Service : Alive(s) => lock = s
  /\ \A s, q \in Service : Alive(s) /\ Alive(q) => s = q

\* A request that the cursor has passed started a run, is about to, or was
\* dropped for a documented reason: it is older than the listener, the lock was
\* held, or the service went down between persistence and dispatch.
RequestsAccounted ==
  \A i \in 1 .. cursor :
    updates[i].restart => \/ runs[i] > 0
                          \/ i \in excused
                          \/ \E s \in Service : i \in svc[s].batch

\* No occurrence is missed while the service is up: it made the service try to
\* run, it is still due, or it passed while a run was in progress, which the
\* recalculation after that run skips.
OccurrencesAccounted ==
  \A s \in Service :
    Up(s) => \A o \in Occurrences :
      svc[s].startedAt < o /\ o < now
        => launches[o] > 0 \/ o = svc[s].nextRun \/ o \in busy

\* Shutdown signals reach the active application (handle_signal).
ShutdownForwarded ==
  \A s \in Service : svc[s].stop /\ svc[s].pc = "wait" => child[s] # "running"

------------------------------------------------------------------------------
\* The abstract specification.

\* Whose run is active: the service with a live child, or maintenance.
Active ==
  IF \E s \in Service : Alive(s) THEN CHOOSE s \in Service : Alive(s)
  ELSE IF lock = Operator THEN Operator ELSE Nobody

Singleton == INSTANCE SingletonRuns WITH
  Holder <- Service \cup {Operator}, Request <- Ids,
  active <- Active, tried <- launches, served <- runs

\* Services that start, stop, fail and crash on one volume implement singleton
\* runs: one at a time, no occurrence and no request used twice or after a later
\* one (run, run_application, poll).
RunsAreSingletons == Singleton!Spec

=============================================================================
