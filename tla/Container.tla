------------------------------ MODULE Container ------------------------------
(***************************************************************************)
(* The scheduler and the application runs it starts: CronScheduler, whose  *)
(* child is a process of ApplicationPipeline, on one clock and one volume  *)
(* (run_application in src/texttube/adapters/scheduler.py, main in         *)
(* src/texttube/entrypoints/app.py).                                       *)
(*                                                                         *)
(* A child executes one subscription run and exits.  A signal reaches the  *)
(* run through its service; a crash of the container ends both.            *)
(***************************************************************************)
EXTENDS Integers, Sequences, FiniteSets

CONSTANTS
  Service, Operator, Nobody, Occurrences, MaxTime, MaxUpdates,
  ServiceEvents,  \* The events of the scheduler's environment.
  Video, Channel, ChannelOf, Short, MaxAttempts, Day, DefaultLimit,
  PublishTimes, NoVideo,
  Limit,          \* TEXTTUBE_LIMIT
  RunEvents       \* The events of the environment of a run.

\* The shared clock.
VARIABLE now

\* The scheduler and its history.
VARIABLES updates, cursor, listener, lock, svc, child, launches, busy, runs, excused

\* The application and its history.
VARIABLES publishedAt, withdrawn, cutoff, pending, run, messages, failures, fate,
          first, covered, repeated

\* How far the last child of each service has come with its run.
VARIABLE course

Sched == INSTANCE CronScheduler WITH Events <- ServiceEvents

App == INSTANCE ApplicationPipeline WITH
  Proc <- Service, Limits <- {Limit}, Events <- RunEvents

ASSUME ServiceAssumption ==
  /\ Operator \notin Service /\ Nobody \notin Service /\ Operator # Nobody
  /\ MaxTime \in Nat /\ MaxUpdates \in Nat /\ Occurrences \subseteq 1 .. MaxTime
  /\ ServiceEvents \subseteq Sched!AllEvents
ASSUME RunAssumption ==
  /\ ChannelOf \in [Video -> Channel] /\ Short \subseteq Video /\ NoVideo \notin Video
  /\ MaxAttempts \in Nat \ {0} /\ Day \in Nat \ {0} /\ DefaultLimit \in Nat
  /\ PublishTimes \subseteq Nat /\ Limit \in Nat
  /\ RunEvents \subseteq App!AllEvents

scheduler == <<updates, cursor, listener, lock, svc, child, launches, busy, runs, excused>>
application == <<publishedAt, withdrawn, cutoff, pending, run, messages, failures, fate,
                 first, covered, repeated>>
vars == <<now, scheduler, application, course>>

Courses == {"new", "begun", "failed"}

Follow(s, c) == course' = [course EXCEPT ![s] = c]

Init ==
  /\ Sched!Init
  /\ App!Init
  /\ course = [s \in Service |-> "new"]

------------------------------------------------------------------------------
\* The environment.

Tick == Sched!Tick /\ App!Tick /\ UNCHANGED course

Maintain ==
  /\ Sched!OperatorLocks \/ Sched!OperatorUnlocks
  /\ UNCHANGED <<application, course>>

Message ==
  /\ \E restart \in BOOLEAN : Sched!Message(restart)
  /\ UNCHANGED <<application, course>>

Start(s) == Sched!Start(s) /\ UNCHANGED <<application, course>>

------------------------------------------------------------------------------
\* The scheduler's main thread.

Schedule(s) ==
  /\ \/ Sched!Loop(s) \/ Sched!Stop(s) \/ Sched!Poll(s) \/ Sched!PollFails(s)
     \/ Sched!SaveCursor(s) \/ Sched!Wake(s) \/ Sched!Due(s) \/ Sched!Acquire(s)
     \/ Sched!Skip(s) \/ Sched!Check(s) \/ Sched!Assign(s) \/ Sched!Reap(s)
     \/ Sched!Release(s)
  /\ UNCHANGED <<application, course>>

\* An OSError ends the scheduler.
ServiceFails(s) ==
  /\ Sched!SaveFails(s) \/ Sched!SpawnFails(s)
  /\ UNCHANGED <<application, course>>

Spawn(s) ==
  /\ Sched!Spawn(s)
  /\ Follow(s, "new")
  /\ UNCHANGED application

------------------------------------------------------------------------------
\* The child.

\* run_subscriptions is called some time after the process was created.
RunBegins(s) ==
  /\ child[s] = "running"
  /\ course[s] = "new"
  /\ App!StartSubscriptions(s, Limit)
  /\ Follow(s, "begun")
  /\ UNCHANGED scheduler

RunProceeds(s) ==
  /\ App!RunStep(s)
  /\ UNCHANGED <<scheduler, course>>

ChannelUnavailable(s) ==
  /\ \E c \in Channel : App!ChannelUnavailable(s, c)
  /\ UNCHANGED <<scheduler, course>>

RunFails(s) ==
  /\ App!RunFails(s) \/ App!NoticeFails(s) \/ App!TearCutoff(s)
  /\ Follow(s, "failed")
  /\ UNCHANGED scheduler

\* A signal the service forwards raises KeyboardInterrupt in the run.
RunInterrupted(s) ==
  /\ child[s] = "told"
  /\ App!Interrupt(s)
  /\ UNCHANGED <<scheduler, course>>

\* The run has ended, or a signal or a cutoff that is not in the past ends the
\* process before it begins.
ChildExits(s) ==
  /\ Sched!ChildExits(s)
  /\ run[s].pc = "idle"
  /\ \/ course[s] # "new"
     \/ child[s] = "told"
     \/ App!WindowStart(cutoff, now) >= now
  /\ UNCHANGED <<application, course>>

\* An error at startup: configuration, authorization.
StartupFails(s) ==
  /\ "fatal" \in RunEvents
  /\ course[s] = "new"
  /\ Sched!ChildExits(s)
  /\ Follow(s, "failed")
  /\ UNCHANGED application

------------------------------------------------------------------------------
Signal(s) == Sched!Signal(s) /\ UNCHANGED <<application, course>>

\* Mutant of Crash: the run outlives the container.
CrashAlone(s) ==
  /\ Sched!Crash(s)
  /\ UNCHANGED <<application, course>>

\* A container that is killed takes the run along.
Crash(s) ==
  /\ Sched!Crash(s)
  /\ IF run[s].pc = "idle" THEN UNCHANGED application
                           ELSE App!Interrupt(s) \/ App!TearCutoff(s)
  /\ UNCHANGED course

Next ==
  \/ Tick \/ Maintain \/ Message
  \/ \E s \in Service :
       \/ Start(s) \/ Schedule(s) \/ ServiceFails(s) \/ Spawn(s)
       \/ RunBegins(s) \/ RunProceeds(s) \/ ChannelUnavailable(s) \/ RunFails(s) \/ RunInterrupted(s)
       \/ ChildExits(s) \/ StartupFails(s) \/ Signal(s) \/ Crash(s)

Spec == Init /\ [][Next]_vars

\* The main thread and the run proceed, maintenance ends, and polls do not fail for
\* ever.  Nothing is assumed of signals, crashes and failures.
Fairness ==
  /\ WF_vars(Sched!OperatorUnlocks /\ UNCHANGED <<application, course>>)
  /\ \A s \in Service :
       /\ WF_vars(Schedule(s) \/ Spawn(s))
       /\ SF_vars(Sched!Poll(s) /\ UNCHANGED <<application, course>>)
       /\ WF_vars(RunBegins(s) \/ RunProceeds(s))
       /\ WF_vars(ChildExits(s))

FairSpec == Spec /\ Fairness

------------------------------------------------------------------------------
\* Properties.

\* A run works only inside the run lock of the service that started it and while
\* its process lives, so that no two runs meet over the two state files, however
\* services stop, crash and are replaced (run_application).
RunInsideLock ==
  \A s \in Service : run[s].pc # "idle" => lock = s /\ Sched!Alive(s)

\* What excuses a window that was due: the service went down, maintenance holds
\* the run lock, or the run failed.
Excused(s) == ~ Sched!Up(s) \/ lock = Operator \/ course[s] = "failed"

\* An occurrence that service s has seen come, in its waits, and not used yet.
Awaited(o, s) ==
  /\ now >= o /\ launches[o] = 0 /\ o \notin busy
  /\ Sched!Up(s) /\ svc[s].startedAt < o

\* An occurrence that passes while a service waits is worth a window: a run
\* completes one that reaches up to the occurrence, unless it is excused (run,
\* run_application, run_subscriptions, complete_window).
OccurrenceCovered ==
  \A o \in Occurrences : \A s \in Service :
    Awaited(o, s) ~> covered >= o \/ Excused(s)

Sent(i) == i <= Len(updates)

\* A request that service s has not consumed yet and that is not older than s.
Asked(i, s) ==
  /\ Sent(i) /\ updates[i].restart
  /\ cursor < i
  /\ Sched!Up(s) /\ svc[s].startedAt <= updates[i].date

\* A restart request that reaches a running listener is worth a window: one is
\* completed that reaches up to the request, unless it is excused (poll,
\* run_application, complete_window).
RequestCovered ==
  \A i \in 1 .. MaxUpdates : \A s \in Service :
    Asked(i, s) ~> (Sent(i) /\ covered >= updates[i].date) \/ Excused(s)

\* A signal ends the service together with the run it is waiting for
\* (handle_signal, run_application).
StopEndsService == \A s \in Service : Sched!Up(s) /\ svc[s].stop ~> ~ Sched!Up(s)

\* A listener that stays up consumes every message: runs, due occurrences and
\* failed polls only delay it (poll).
MessagesConsumed ==
  \A i \in 1 .. MaxUpdates : \A s \in Service :
    Sent(i) /\ Sched!Up(s) ~> cursor >= i \/ ~ Sched!Up(s)

=============================================================================
